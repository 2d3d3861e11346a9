----------------------------- MODULE MCSysProxy -----------------------------
(***************************************************************************)
(* Instances of SysProxy for TLC: two instances of ProxyPilot on one port, *)
(* or one at a time with every fault; the user has no proxy server or a    *)
(* corporate one, and one list of exceptions that differs from ours.       *)
(* Every variable ranges over a finite set, so no bound cuts a behaviour   *)
(* short.  The values in the registry are small.                           *)
(***************************************************************************)
EXTENDS Registry

Symmetry == Permutations(Procs)

-----------------------------------------------------------------------------
\* Bytes of a number, characters, the zero and half a character; a letter of two
\* units, the halves of one, and a letter that stands for a variable.
Variable == 9
MCFilled(text) == [i \in DOMAIN text |-> IF text[i] = Variable THEN 7 ELSE text[i]]

Bytes == UNION {[1 .. n -> {NUL, 7}] : n \in 0 .. 2} \cup {<<7, 8, NUL, 9>>}
Texts ==
  Bytes \cup {<<7, Half>>, <<Variable, NUL>>,
              <<55296, 57343, NUL>>, <<55296, 55296, 56320, 56320, NUL>>, <<56320, 55296>>}
Values ==
  {Missing} \cup {Value(t, d) : t \in {"sz", "expand"}, d \in Texts}
  \cup {Value("dword", d) : d \in Bytes}
MCKeys ==
  {[enable |-> SetDword(1), server |-> v, override |-> Value("sz", <<8, NUL>>)] : v \in Values}
  \cup {[enable |-> v, server |-> Value("expand", <<7, NUL>>), override |-> Missing] :
          v \in Values \cup {SetDword(n) : n \in {0, 1, 256, 65535}}}
=============================================================================
