-------------------------------- MODULE Loan --------------------------------
(***************************************************************************)
(* What a program promises that borrows a setting of its user: before it   *)
(* writes its own value it puts down what the user chose, nobody else      *)
(* borrows meanwhile, what the user chooses himself is in force at once,   *)
(* and who gives the setting back leaves in force what the user chose,     *)
(* also when an earlier borrower died with the setting in his hands.       *)
(***************************************************************************)
CONSTANTS
  Borrowers,
  Values,
  Died    \* whether a borrower may die before he has given back

VARIABLES
  chosen,  \* what the user last chose
  shown,   \* what is in force
  noted,   \* what the last borrower put down
  phase    \* phase[b]: "none", "lent" or "returning"

vars == <<chosen, shown, noted, phase>>

Free == \A b \in Borrowers : phase[b] = "none"

Init ==
  /\ chosen \in Values /\ shown = chosen
  /\ phase = [b \in Borrowers |-> "none"]

Borrow(b) ==
  /\ Free
  /\ noted' = chosen
  /\ phase' = [phase EXCEPT ![b] = "lent"]
  /\ UNCHANGED <<chosen, shown>>

\* One of several writes it takes to change the setting, either way.
Write(b) ==
  /\ phase[b] # "none" /\ noted = chosen
  /\ shown' \in Values
  /\ UNCHANGED <<chosen, noted, phase>>

Turn(b) ==
  /\ phase[b] = "lent"
  /\ phase' = [phase EXCEPT ![b] = "returning"]
  /\ UNCHANGED <<chosen, shown, noted>>

GiveBack(b) ==
  /\ phase[b] = "returning" /\ shown = chosen
  /\ phase' = [phase EXCEPT ![b] = "none"]
  /\ UNCHANGED <<chosen, shown, noted>>

Die(b) ==
  /\ Died /\ phase[b] = "lent"
  /\ phase' = [phase EXCEPT ![b] = "none"]
  /\ UNCHANGED <<chosen, shown, noted>>

Choose(v) ==
  /\ chosen' = v /\ shown' = v
  /\ UNCHANGED <<noted, phase>>

\* A note nobody needs may be lost.
Forget ==
  /\ Free /\ shown = chosen
  /\ UNCHANGED <<chosen, shown, phase>>

Next ==
  \/ \E b \in Borrowers : Borrow(b) \/ Write(b) \/ Turn(b) \/ GiveBack(b) \/ Die(b)
  \/ \E v \in Values : Choose(v)
  \/ Forget

Spec == Init /\ [][Next]_vars
=============================================================================
