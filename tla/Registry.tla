------------------------------ MODULE Registry ------------------------------
(***************************************************************************)
(* A registry key as the proxy setting and the autostart entry use it      *)
(* (crates/winnet/src/sysproxy.rs, RegKey): values have a type and bytes,  *)
(* may be missing, may have been written by anybody, and may change        *)
(* between the two calls that reading one takes.  SysProxy takes the three *)
(* values for one setting that is read and written as it is; here are the  *)
(* calls and the bytes that make it so, and what they lose on the way.     *)
(*                                                                         *)
(* A string is a sequence of UTF-16 units; a unit is one item here, the    *)
(* zero is NUL, and a torn last byte is Half.                              *)
(***************************************************************************)
EXTENDS SysProxy, Integers, Sequences, SequencesExt

CONSTANTS
  Keys,        \* the keys it is about: any that may be there
  Filled(_)    \* a text once Windows has filled in its variables

NUL == 0
Half == -1

Missing == [type |-> "none", data |-> << >>]
Value(type, data) == [type |-> type, data |-> data]
Error == [type |-> "error", data |-> << >>]

\* What may be there, and the three values of the setting.
Units == 0 .. 65535 \cup {Half}
RegValues ==
  {Missing} \cup [type : {"sz", "expand"}, data : Seq(Units)] \cup [type : {"dword"}, data : Seq(0 .. 255)]
RegKeys == [enable : RegValues, server : RegValues, override : RegValues]

ASSUME KeysAssumption == Keys \subseteq RegKeys

\* What if a value that has grown were read as far as the buffer goes?
QueryRaw_Short(before, after) ==
  IF Missing \in {before, after} THEN Missing
  ELSE [after EXCEPT !.data = SubSeq(@, 1, IF Len(@) < Len(before.data) THEN Len(@) ELSE Len(before.data))]

\* query_raw: the size, then the data.  A value that has grown in between is an
\* error of the second call, one that is empty is not asked for again.
QueryRaw(before, after) ==
  CASE before = Missing -> Missing
    [] before # Missing /\ before.data = << >> -> before
    [] before.data # << >> /\ after = Missing -> Missing
    [] before.data # << >> /\ Len(after.data) > Len(before.data) -> Error
    [] OTHER -> after

\* Letters beyond the first 65536 are two units, a high and a low one; Windows
\* stores such a unit without its other half, too.
High == 55296 .. 56319
Low == 56320 .. 57343
Replacement == 65533

IsWhole(text, i) ==
  /\ text[i] \in High => i < Len(text) /\ text[i + 1] \in Low
  /\ text[i] \in Low => i > 1 /\ text[i - 1] \in High

\* String::from_utf16_lossy: half a letter is replaced.
Lossy(text) == [i \in DOMAIN text |-> IF IsWhole(text, i) THEN text[i] ELSE Replacement]

\* Whole units up to the first zero.
UpToZero(data) ==
  LET zeros == {i \in DOMAIN data : data[i] \in {NUL, Half}}
  IN IF zeros = {} THEN data
     ELSE SubSeq(data, 1, (CHOOSE i \in zeros : \A j \in zeros : i <= j) - 1)

\* What if the zero at the end were taken for a part of the text?
Decode_Whole(data) == Lossy(SelectSeq(data, LAMBDA u : u # Half))

\* decode_utf16_sz.
Decode(data) == Lossy(UpToZero(data))

\* encode_utf16_sz.
Encode(text) == Append(text, NUL)

\* query_string: missing, or of another type, is the empty string.
QueryString(before, after) ==
  LET v == QueryRaw(before, after)
  IN IF v = Error THEN {}
     ELSE {IF v.type \in {"sz", "expand"} THEN Decode(v.data) ELSE << >>}

\* query_dword: likewise nought; four bytes are the least.
QueryDword(before, after) ==
  LET v == QueryRaw(before, after)
  IN IF v = Error THEN {}
     ELSE {IF v.type = "dword" /\ Len(v.data) >= 4
           THEN v.data[1] + 256 * v.data[2] + 65536 * v.data[3] + 16777216 * v.data[4] ELSE 0}

SetString(text) == Value("sz", Encode(text))
SetDword(n) ==
  Value("dword", <<n % 256, (n \div 256) % 256, (n \div 65536) % 256, (n \div 16777216) % 256>>)

-----------------------------------------------------------------------------
(* The setting.  One of the two readings is of the values as they were     *)
(* before somebody wrote one of them, the other as they are after that.    *)

SysProxyRead(before, after) ==
  {[enabled |-> e # 0, server |-> s, bypass |-> b] :
     e \in QueryDword(before.enable, after.enable),
     s \in QueryString(before.server, after.server),
     b \in QueryString(before.override, after.override)}

\* apply, when all three writes work.
SysProxyWritten(p) ==
  [enable |-> SetDword(IF p.enabled THEN 1 ELSE 0),
   server |-> SetString(p.server), override |-> SetString(p.bypass)]

\* What programs make of a value and of the setting: they take the units as they
\* are, Windows fills in the variables of the type that has them, and off means
\* that the rest is not looked at.
Stored(v) == IF v.type \in {"sz", "expand"} THEN UpToZero(v.data) ELSE << >>
TextOf(v) == IF v.type = "expand" THEN Filled(Stored(v)) ELSE Stored(v)
Off == [on |-> FALSE, server |-> << >>, bypass |-> << >>]
Meaning(values) ==
  IF QueryDword(values.enable, values.enable) = {0} THEN Off
  ELSE [on |-> TRUE, server |-> TextOf(values.server), bypass |-> TextOf(values.override)]

-----------------------------------------------------------------------------
(* Properties, over a bounded set of values.                               *)

\* The values that our strings and our REG_SZ can carry: no half of a letter
\* (sysproxy.rs:404), no variable to fill in (sysproxy.rs:439-441).
Survives(v) ==
  /\ \A i \in DOMAIN Stored(v) : IsWhole(Stored(v), i)
  /\ TextOf(v) = Stored(v)

\* The registry gives back what was written into it, whatever had been read.  To
\* write back what was read switches nothing on or off, whatever was there, and
\* changes nothing for anybody unless half a letter or a variable was there.  A value
\* that changes while it is read is read as it was or as it is, never as something else.
RegistryGivesBack ==
  /\ \A k \in Keys : \A p \in SysProxyRead(k, k) :
       /\ SysProxyRead(SysProxyWritten(p), SysProxyWritten(p)) = {p}
       /\ Meaning(SysProxyWritten(p)).on = Meaning(k).on
       /\ Survives(k.server) /\ Survives(k.override) => Meaning(SysProxyWritten(p)) = Meaning(k)
  /\ \A k, l \in Keys : \A p \in SysProxyRead(k, l) :
       LET Was == CHOOSE q \in SysProxyRead(k, k) : TRUE
           Is == CHOOSE q \in SysProxyRead(l, l) : TRUE
       IN /\ p.enabled \in {Was.enabled, Is.enabled}
          /\ p.server \in {Was.server, Is.server} /\ p.bypass \in {Was.bypass, Is.bypass}

\* In the key there is always a setting, as far as the lifecycle goes; and whatever
\* values are in it, of any type and length, the calls of RegKey give back what was
\* written, or an error, and keep what was there as far as a String can.
KeyGivesBack == registry \in SysProxySettings /\ RegistryGivesBack
=============================================================================
