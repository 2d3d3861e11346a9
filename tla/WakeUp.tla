------------------------------- MODULE WakeUp -------------------------------
(***************************************************************************)
(* What a notification promises whose events carry no data: any number of  *)
(* them may be melted into one, but as long as the listener has not looked *)
(* since the last one, something rings that will make him look.  Nothing   *)
(* falls silent before he has looked, unless he has hung up; and after he  *)
(* has been told that it is over, nothing rings anew.                      *)
(***************************************************************************)
EXTENDS Integers

VARIABLES
  news,     \* the last event that was told, counted
  known,    \* the event up to which the listener has looked
  ringing,  \* something is on its way to him
  line      \* "open", "over" (and he knows), or "dropped" (by him)

vars == <<news, known, ringing, line>>

Init == news = 0 /\ known = 0 /\ ringing = FALSE /\ line = "open"

Tell ==
  /\ line # "over"
  /\ news' >= news /\ ringing'
  /\ UNCHANGED <<known, line>>

\* He sees everything that was told, and maybe more; it may ring on.
Look ==
  /\ ringing
  /\ known' >= known /\ known' >= news
  /\ ringing' \in BOOLEAN
  /\ UNCHANGED <<news, line>>

HangUp ==
  /\ line = "open" /\ line' = "dropped"
  /\ ringing' \in BOOLEAN
  /\ UNCHANGED <<news, known>>

\* What is on its way to nobody may be lost, and the end told to nobody.
FallSilent ==
  /\ line = "dropped"
  /\ ringing' \in BOOLEAN
  /\ UNCHANGED <<news, known, line>>

End ==
  /\ line = "open" /\ line' = "over"
  /\ UNCHANGED <<news, known, ringing>>

Next == Tell \/ Look \/ HangUp \/ FallSilent \/ End

Spec == Init /\ [][Next]_vars

\* In the end a listener who does not hang up has looked.
Answered == []<>(known >= news \/ line = "dropped")
=============================================================================
