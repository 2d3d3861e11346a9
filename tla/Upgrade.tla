------------------------------- MODULE Upgrade -------------------------------
(***************************************************************************)
(* What a program promises that replaces itself: one version is installed  *)
(* at any time; at most one candidate is put by, one that is acceptable    *)
(* and no older than what is installed or was put by before; and the one   *)
(* thing that ever becomes of a candidate, besides giving way to a later   *)
(* one, is that it is installed.                                           *)
(***************************************************************************)
EXTENDS Integers

CONSTANTS
  Versions,
  Acceptable,  \* those that may be installed
  Age,         \* Age[v]: when v is released
  None

VARIABLES
  released,   \* the latest version
  installed,
  candidate   \* what is put by, or None

vars == <<released, installed, candidate>>

Init == released \in Versions /\ installed = released /\ candidate = None

Release(v) ==
  /\ Age[v] > Age[released] /\ released' = v
  /\ UNCHANGED <<installed, candidate>>

PutBy(v) ==
  /\ v \in Acceptable
  /\ Age[installed] <= Age[v] /\ Age[v] <= Age[released]
  /\ candidate # None => Age[candidate] <= Age[v]
  /\ candidate' = v
  /\ UNCHANGED <<released, installed>>

Install ==
  /\ candidate # None
  /\ installed' = candidate /\ candidate' = None
  /\ UNCHANGED released

Next == Install \/ \E v \in Versions : Release(v) \/ PutBy(v)

Spec == Init /\ [][Next]_vars
=============================================================================
