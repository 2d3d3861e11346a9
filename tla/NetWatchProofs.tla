---------------------------- MODULE NetWatchProofs ----------------------------
(***************************************************************************)
(* No change of the network that was told is forgotten, and the end comes  *)
(* last: for any capacity of the channels, any number of changes and every *)
(* combination of faults.                                                  *)
(***************************************************************************)
EXTENDS NetWatch, TLAPS

Early == {"nlm", "iphelper", "report"}

\* What the life of the watcher thread says of the subscriptions.
Subscribed ==
  /\ thread \in Early => ready = "no"
  /\ thread \in {"dead", "gone"} => armed = {}
  /\ thread \in Early /\ armed = {} => raw = 0 /\ \A s \in Sources : calls[s] = 0
  /\ ready = "refused" =>
       thread = "gone" /\ raw = 0 /\ \A s \in Sources : calls[s] = 0

\* A rest is remembered only until it is passed on, and the end of the raw channel
\* is believed only when nobody can put anything into it any more.
Thinned ==
  /\ debounce.at = "none" => guard = "none" /\ consumer = "none" /\ out = 0
  /\ debounce.at \notin {"window", "last"} => ~debounce.trailing
  /\ debounce.at = "window" => ~debounce.source_closed
  /\ debounce.source_closed => ~Open /\ raw = 0
  /\ debounce.at = "gone" /\ Consumed => ~Open /\ raw = 0
  /\ consumer = "ended" => debounce.at = "gone" /\ out = 0

IInv == TypeOK /\ Subscribed /\ Thinned /\ WakeUpIsPending

USE CapacityAssumption, FaultAssumption, BoundAssumption DEF Ringing

LEMMA InitSafe == Init => IInv
  BY DEF Init, IInv, TypeOK, Subscribed, Thinned, WakeUpIsPending, Sources, Early,
         Open, Consumed

\* The parts of the state a step of the tasks leaves alone decide the rest.
LEMMA EndIsInIInv == IInv => EndComesLast
  BY DEF IInv, TypeOK, Subscribed, Thinned, WakeUpIsPending, EndComesLast, Open, Consumed

-----------------------------------------------------------------------------
(* Windows.                                                                *)

LEMMA ChangeSafe ==
  ASSUME IInv, NEW noticing \in SUBSET Sources, Change(noticing)
  PROVE  IInv'
<1> USE DEF Change, watcher, IInv
<1>1. calls' \in [Sources -> Nat] /\ \A s \in Sources : armed = {} => calls'[s] = calls[s]
      BY DEF TypeOK
<1>2. TypeOK'
      BY <1>1 DEF TypeOK
<1>3. Subscribed'
      BY <1>1 DEF Subscribed, TypeOK, Early
<1>4. Thinned' /\ WakeUpIsPending'
      BY DEF Thinned, WakeUpIsPending, Open, Consumed
<1> QED BY <1>2, <1>3, <1>4

LEMMA CallbackSafe ==
  ASSUME IInv, NEW s \in Sources, Callback(s)
  PROVE  IInv'
<1> USE DEF IInv
<1>1. /\ calls[s] > 0 /\ calls' \in [Sources -> Nat]
      /\ UNCHANGED <<net, armed, thread, alive, ready, guard, debounce, out, consumer,
                     commands, seen>>
      BY DEF Callback, TypeOK
<1>2. ready # "refused" /\ ~(thread \in Early /\ armed = {})
      BY <1>1 DEF Subscribed
<1>3. CASE Open /\ RawReceived
  <2>1. /\ raw' \in 1 .. EventCapacity /\ told' = net
        /\ UNCHANGED mailbox
        BY <1>3 DEF Callback, Offer, TypeOK
  <2>2. TypeOK'
        BY <1>1, <2>1 DEF TypeOK
  <2>3. Subscribed'
        BY <1>1, <1>2 DEF Subscribed
  <2>4. Thinned' /\ WakeUpIsPending'
        BY <1>1, <1>3, <2>1 DEF Thinned, WakeUpIsPending, Open, RawReceived
  <2> QED BY <2>2, <2>3, <2>4
<1>4. CASE ~(Open /\ RawReceived)
  <2>1. UNCHANGED <<raw, told>> /\ mailbox' \in {mailbox, "stop"}
        BY <1>4 DEF Callback, Offer, PostStop
  <2>2. TypeOK'
        BY <1>1, <2>1 DEF TypeOK
  <2>3. Subscribed' /\ Thinned' /\ WakeUpIsPending'
        BY <1>1, <1>2, <2>1 DEF Subscribed, Thinned, WakeUpIsPending, Open, Consumed
  <2> QED BY <2>2, <2>3
<1> QED BY <1>3, <1>4

-----------------------------------------------------------------------------
(* The watcher thread.                                                     *)

\* Nothing the thread does concerns what is under way, and it never starts again.
LEMMA ThreadSafe ==
  ASSUME IInv, Thread \/ PumpEnds
  PROVE  IInv'
<1> USE DEF IInv
<1>1. /\ UNCHANGED <<net, guard, raw, debounce, out, consumer, commands, seen, told>>
      /\ thread = "gone" => FALSE
      BY DEF Thread, PumpEnds, Subscribe, Report, Stop, Teardown, Release, world, Sources
<1>2. TypeOK'
  <2>1. CASE Teardown
        BY <2>1, <1>1 DEF Teardown, TypeOK
  <2>2. CASE PumpEnds \/ Stop \/ Release
    <3>1. thread' \in {"teardown", "gone"} /\ UNCHANGED <<calls, armed, mailbox, ready>>
          BY <2>2 DEF PumpEnds, Stop, Release, world
    <3>2. alive' \in BOOLEAN
          BY <2>2 DEF PumpEnds, Stop, Release, TypeOK
    <3> QED BY <3>1, <3>2, <1>1 DEF TypeOK
  <2>4. CASE Report
        BY <2>4, <1>1 DEF Report, TypeOK, world
  <2>3. ASSUME NEW s \in Sources, Subscribe(s) PROVE TypeOK'
        BY <2>3, <1>1 DEF Subscribe, TypeOK, world, Sources
  <2> QED BY <2>1, <2>2, <2>3, <2>4 DEF Thread
<1>3. Subscribed'
  <2>1. CASE Teardown
        BY <2>1, <1>1 DEF Teardown, Subscribed, Early
  <2>2. CASE PumpEnds \/ Stop \/ Release
        BY <2>2, <1>1 DEF PumpEnds, Stop, Release, Subscribed, Early, world
  <2>3. CASE Report
        BY <2>3, <1>1 DEF Report, Subscribed, Early, world
  <2>4. ASSUME NEW s \in Sources, Subscribe(s) PROVE Subscribed'
    <3>1. armed' = {} => armed = {}
          BY <2>4 DEF Subscribe
    <3>2. /\ thread \in Early /\ thread' \in Early
          /\ UNCHANGED <<calls, ready, raw>>
          BY <2>4 DEF Subscribe, Sources, Early, world
    <3> QED BY <3>1, <3>2 DEF Subscribed, Early
  <2> QED BY <2>1, <2>2, <2>3, <2>4 DEF Thread
<1>4. Thinned' /\ WakeUpIsPending'
      BY <1>1 DEF Thinned, WakeUpIsPending, Open, Consumed
<1> QED BY <1>2, <1>3, <1>4

-----------------------------------------------------------------------------
(* The caller and the guard.                                               *)

LEMMA LaunchSafe == ASSUME IInv, Launch PROVE IInv'
<1> USE DEF IInv, Launch, world, watcher
<1>1. TypeOK'
      BY DEF TypeOK
<1>2. Subscribed'
      BY DEF Subscribed
<1>3. debounce' = [debounce EXCEPT !.at = "idle"] \/ debounce' = [debounce EXCEPT !.at = "gone"]
      OBVIOUS
<1>4. ~debounce.trailing /\ ~debounce'.trailing /\ debounce'.at \in {"idle", "gone"}
      /\ debounce'.source_closed = debounce.source_closed
      BY <1>3 DEF Thinned, TypeOK
<1>5. ~debounce.source_closed
      BY DEF Thinned, Open
<1>6. CASE ready = "ok"
      BY <1>1, <1>2, <1>4, <1>5, <1>6 DEF Thinned, WakeUpIsPending, Open, Consumed, TypeOK
<1>7. CASE ready # "ok"
  <2>1. ready = "refused" /\ thread = "gone" /\ raw = 0
        BY <1>7 DEF TypeOK, Subscribed
  <2>2. out = 0
        BY DEF Thinned
  <2> QED BY <1>1, <1>2, <1>4, <1>5, <1>7, <2>1, <2>2
          DEF Thinned, WakeUpIsPending, Open, Consumed, TypeOK
<1> QED BY <1>1, <1>2, <1>6, <1>7

LEMMA GuardSafe == ASSUME IInv, Guard PROVE IInv'
<1> USE DEF IInv
<1>1. /\ guard = "watch" /\ guard' = "gone" /\ mailbox' \in {mailbox, "stop"}
      /\ UNCHANGED <<net, calls, armed, thread, alive, ready, raw, debounce, out,
                     consumer, commands, seen, told>>
      BY DEF Guard, PostStop, world
<1>2. TypeOK'
      BY <1>1 DEF TypeOK
<1>3. Subscribed' /\ Thinned' /\ WakeUpIsPending'
      BY <1>1 DEF Subscribed, Thinned, WakeUpIsPending, Open, Consumed
<1> QED BY <1>2, <1>3

-----------------------------------------------------------------------------
(* The debounce task.                                                      *)

LEMMA DebounceSafe == ASSUME IInv, Debounce PROVE IInv'
<1> USE DEF IInv
<1>1. UNCHANGED <<net, calls, armed, thread, mailbox, alive, ready, guard, consumer,
                  commands, seen, told>>
      BY DEF Debounce, world, watcher
<1>2. /\ raw \in 0 .. EventCapacity /\ out \in 0 .. EventCapacity
      /\ debounce.trailing \in BOOLEAN /\ debounce.source_closed \in BOOLEAN
      BY DEF TypeOK
<1>3. SUFFICES
        /\ raw' \in 0 .. EventCapacity /\ out' \in 0 .. EventCapacity
        /\ debounce' \in [at : {"none", "idle", "first", "window", "last", "gone"},
                          trailing : BOOLEAN, source_closed : BOOLEAN]
        /\ raw = 0 => raw' = 0
        /\ Thinned' /\ WakeUpIsPending'
      BY <1>1, <1>3 DEF TypeOK, Subscribed
<1> USE DEF DebounceAt, Thinned, WakeUpIsPending, Open, Consumed, OutReceived
<1>4. CASE DebounceDropped
  <2>1. consumer = "dropped"
        BY <1>4 DEF DebounceDropped, TypeOK
  <2> QED BY <1>1, <1>2, <1>4, <2>1 DEF DebounceDropped
<1>5. CASE DebounceFirst
  <2>1. debounce.at = "idle" /\ ~debounce.trailing /\ UNCHANGED out
        BY <1>5 DEF DebounceFirst
  <2>2. CASE raw > 0 /\ raw' = raw - 1 /\ DebounceAt("first", FALSE, FALSE)
        BY <1>1, <1>2, <2>1, <2>2
  <2>3. CASE raw = 0 /\ ~Open /\ UNCHANGED raw /\ DebounceAt("gone", FALSE, FALSE)
        BY <1>1, <1>2, <2>1, <2>3
  <2> QED BY <1>5, <2>2, <2>3 DEF DebounceFirst
<1>6. CASE SendFirst
      BY <1>1, <1>2, <1>6 DEF SendFirst
<1>7. CASE DebounceWindow
  <2>1. debounce.at = "window" /\ UNCHANGED out
        BY <1>7 DEF DebounceWindow
  <2>2. CASE raw > 0 /\ raw' = raw - 1 /\ DebounceAt("window", TRUE, FALSE)
        BY <1>1, <1>2, <2>1, <2>2
  <2>3. CASE raw = 0 /\ ~Open /\ UNCHANGED raw /\ DebounceAt("last", debounce.trailing, TRUE)
        BY <1>1, <1>2, <2>1, <2>3
  <2>4. CASE UNCHANGED raw /\ DebounceAt("last", debounce.trailing, FALSE)
        BY <1>1, <1>2, <2>1, <2>4
  <2> QED BY <1>7, <2>2, <2>3, <2>4 DEF DebounceWindow
<1>8. CASE SendLast
      BY <1>1, <1>2, <1>8 DEF SendLast
<1> QED BY <1>4, <1>5, <1>6, <1>7, <1>8 DEF Debounce

-----------------------------------------------------------------------------
(* The consumer and the command task.                                      *)

LEMMA ConsumerSafe ==
  ASSUME IInv, Receive \/ SendCommand \/ Drop \/ LookAround
  PROVE  IInv'
<1> USE DEF IInv
<1>1. UNCHANGED <<net, calls, armed, thread, mailbox, alive, ready, guard, raw, debounce, told>>
      BY DEF Receive, SendCommand, Drop, LookAround, world, watcher
<1>2. Subscribed'
      BY <1>1 DEF Subscribed
<1>3. CASE Receive
      BY <1>1, <1>2, <1>3 DEF Receive, TypeOK, Thinned, WakeUpIsPending, Open, Consumed
<1>4. CASE SendCommand
      BY <1>1, <1>2, <1>4 DEF SendCommand, TypeOK, Thinned, WakeUpIsPending, Open, Consumed
<1>5. CASE Drop
      BY <1>1, <1>2, <1>5 DEF Drop, TypeOK, Thinned, WakeUpIsPending, Open, Consumed
<1>6. CASE LookAround
      BY <1>1, <1>2, <1>6 DEF LookAround, TypeOK, Thinned, WakeUpIsPending, Open, Consumed
<1> QED BY <1>3, <1>4, <1>5, <1>6

LEMMA NextSafe == IInv /\ [Next]_vars => IInv'
<1> SUFFICES ASSUME IInv, [Next]_vars PROVE IInv'
    OBVIOUS
<1>1. CASE UNCHANGED vars
      BY <1>1 DEF vars, IInv, TypeOK, Subscribed, Thinned, WakeUpIsPending, Open, Consumed
<1> QED
  BY <1>1, ChangeSafe, CallbackSafe, ThreadSafe, LaunchSafe, GuardSafe, DebounceSafe,
     ConsumerSafe DEF Next

-----------------------------------------------------------------------------
LEMMA IInvHolds == Spec => []IInv
  BY InitSafe, NextSafe, PTL DEF Spec

\* Every reachable state of the watch is well typed: in particular no channel ever
\* holds more than its capacity, whatever that is, and nothing was looked at or
\* told that has not happened.
THEOREM TypeCorrect == Spec => []TypeOK
<1>1. IInv => TypeOK
      BY DEF IInv
<1> QED BY <1>1, IInvHolds, PTL

\* Losing events in full channels and in the debounce window is harmless: as long
\* as the supervisor has not looked at the network of the last callback, an event,
\* a remembered rest or a command is on its way, for any capacities.
THEOREM NothingToldIsForgotten == Spec => []WakeUpIsPending
<1>1. IInv => WakeUpIsPending
      BY DEF IInv
<1> QED BY <1>1, IInvHolds, PTL

\* When the consumer hears that the watch has ended, the subscriptions are gone,
\* the channels are empty, and what was told has been looked at or is a command.
THEOREM TheEndComesLast == Spec => []EndComesLast
  BY EndIsInIInv, IInvHolds, PTL

-----------------------------------------------------------------------------
(* The five actors are one bell.                                           *)

LEMMA LineIs ==
  /\ consumer \notin {"ended", "dropped"} => Line = "open"
  /\ consumer = "ended" => Line = "over"
  /\ consumer = "dropped" => Line = "dropped"
  BY DEF Line

LEMMA SameBell ==
  ASSUME Ringing' <=> Ringing, UNCHANGED <<told, seen, consumer>>
  PROVE  UNCHANGED W!vars
<1>1. Ringing' = Ringing
      BY DEF Ringing
<1>2. Line' = Line
      BY DEF Line
<1> QED BY <1>1, <1>2 DEF W!vars

LEMMA StepRings == IInv /\ [Next]_vars => [W!Next]_W!vars
<1> SUFFICES ASSUME IInv, [Next]_vars PROVE [W!Next]_W!vars
    OBVIOUS
<1> USE DEF IInv
<1>0. Ringing' \in BOOLEAN
      BY DEF Ringing
<1>1. ASSUME NEW noticing \in SUBSET Sources, Change(noticing) PROVE [W!Next]_W!vars
      BY <1>1, SameBell DEF Change
<1>2. ASSUME NEW s \in Sources, Callback(s) PROVE [W!Next]_W!vars
  <2>1. UNCHANGED <<seen, debounce, out, consumer, commands>>
        BY <1>2 DEF Callback
  <2>2. CASE Open /\ RawReceived
    <3>1. told' >= told /\ Ringing'
          BY <1>2, <2>2 DEF Callback, Offer, TypeOK
    <3>2. Line # "over" /\ Line' = Line
          BY <2>1, <2>2, LineIs DEF Line, Thinned, Consumed, RawReceived
    <3> QED BY <2>1, <3>1, <3>2 DEF W!Next, W!Tell
  <2>3. CASE ~(Open /\ RawReceived)
    <3>1. UNCHANGED <<raw, told>>
          BY <1>2, <2>3 DEF Callback, Offer
    <3> QED BY <2>1, <3>1, SameBell
  <2> QED BY <2>2, <2>3
<1>3. CASE Thread \/ PumpEnds \/ Guard
  <2>1. UNCHANGED <<raw, debounce, out, consumer, commands, seen, told>>
        BY <1>3 DEF Thread, PumpEnds, Subscribe, Report, Stop, Teardown, Release, Guard
  <2> QED BY <2>1, SameBell
<1>4. CASE Launch
  <2>1. /\ debounce'.at \in {"idle", "gone"} /\ debounce'.trailing = debounce.trailing
        /\ debounce.at = "none" /\ consumer = "none"
        /\ UNCHANGED <<raw, out, commands, seen, told>>
        BY <1>4 DEF Launch, TypeOK, Thinned
  <2>2. Ringing' = Ringing /\ consumer' \in {"recv", "ended"}
        BY <1>4, <2>1 DEF Launch
  <2>3. CASE consumer' = "recv"
        BY <2>1, <2>2, <2>3 DEF Line, W!vars
  <2>4. CASE consumer' = "ended"
        BY <2>1, <2>2, <2>4 DEF Line, W!Next, W!End
  <2> QED BY <2>2, <2>3, <2>4
<1>5. CASE Debounce
  <2>1. UNCHANGED <<consumer, commands, seen, told>> /\ Line' = Line
        BY <1>5 DEF Debounce, Line
  <2>2. CASE DebounceDropped
    <3>1. Line = "dropped"
          BY <2>2, LineIs DEF DebounceDropped, OutReceived, Thinned, TypeOK
    <3> QED BY <1>0, <2>1, <3>1 DEF W!Next, W!FallSilent
  <2>3. CASE DebounceFirst \/ SendFirst \/ DebounceWindow \/ SendLast
    <3>1. raw \in Nat /\ out \in Nat
          BY DEF TypeOK
    <3>2. CASE DebounceFirst \/ SendFirst
          BY <2>1, <3>1, <3>2, SameBell DEF DebounceFirst, SendFirst, DebounceAt, Thinned
    <3>3. CASE DebounceWindow
          BY <2>1, <3>1, <3>3, SameBell DEF DebounceWindow, DebounceAt
    <3>4. CASE SendLast
          BY <2>1, <3>1, <3>4, SameBell DEF SendLast, DebounceAt
    <3> QED BY <2>3, <3>2, <3>3, <3>4
  <2> QED BY <1>5, <2>2, <2>3 DEF Debounce
<1>6. CASE Receive
  <2>1. /\ UNCHANGED <<raw, debounce, commands, seen, told>>
        /\ consumer = "recv" /\ Line = "open"
        BY <1>6, LineIs DEF Receive
  <2>2. CASE consumer' = "send"
        BY <1>6, <2>1, <2>2 DEF Receive, TypeOK, Line, W!vars
  <2>3. CASE consumer' = "ended" /\ UNCHANGED out
        BY <2>1, <2>3 DEF Line, W!Next, W!End
  <2> QED BY <1>6, <2>2, <2>3 DEF Receive
<1>7. CASE SendCommand
      BY <1>7 DEF SendCommand, TypeOK, Line, W!vars
<1>8. CASE Drop
      BY <1>0, <1>8 DEF Drop, Line, W!Next, W!HangUp
<1>9. CASE LookAround
  <2>1. seen' >= seen /\ seen' >= told /\ Ringing /\ UNCHANGED <<told, consumer>>
        BY <1>9 DEF LookAround, TypeOK
  <2> QED BY <1>0, <2>1 DEF Line, W!Next, W!Look
<1>10. CASE UNCHANGED vars
      BY <1>10, SameBell DEF vars
<1> QED
  BY <1>1, <1>2, <1>3, <1>4, <1>5, <1>6, <1>7, <1>8, <1>9, <1>10 DEF Next

\* Refinement: whatever full channels and the debounce throw away, the watch is the bell
\* of WakeUp, which does not fall silent before the supervisor has looked (ChangesAreNoticed).
THEOREM TheBellRings == Spec => ChangesAreNoticed
<1>1. Init => W!Init
      BY DEF Init, W!Init, Line
<1> QED BY <1>1, InitSafe, NextSafe, StepRings, PTL DEF Spec, ChangesAreNoticed, W!Spec
=============================================================================
