------------------------------ MODULE Channel -------------------------------
(***************************************************************************)
(* What one direction of a connection promises its two ends: what arrives  *)
(* is what was sent, from the first byte on, in order and without gaps;    *)
(* and unless the connection breaks, all of it arrives.                    *)
(***************************************************************************)
EXTENDS Integers, Sequences

CONSTANT Tokens

VARIABLES sent, got, broken

vars == <<sent, got, broken>>

Init == sent = <<>> /\ got = <<>> /\ broken = FALSE

Send ==
  /\ \E t \in Tokens : sent' = Append(sent, t)
  /\ UNCHANGED <<got, broken>>

Deliver ==
  /\ ~broken
  /\ \E n \in Len(got) + 1 .. Len(sent) : got' = SubSeq(sent, 1, n)
  /\ UNCHANGED <<sent, broken>>

Break == broken' = TRUE /\ UNCHANGED <<sent, got>>

Next == Send \/ Deliver \/ Break

SafeSpec == Init /\ [][Next]_vars

\* For ends that send finitely much: in the end everything has arrived.
Spec == SafeSpec /\ []<>(broken \/ got = sent)
=============================================================================
