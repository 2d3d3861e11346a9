------------------------------ MODULE NetWatch ------------------------------
(***************************************************************************)
(* How a change of the network becomes a command to look around again:     *)
(* winnet/src/events.rs, and its consumer in app/src/main.rs.  Five actors *)
(* share the work.  Windows calls back, NLM through the message queue of   *)
(* the watcher thread, IP Helper on a thread of its own; the watcher       *)
(* thread holds the subscriptions; a guard task waits for its end or for   *)
(* the loss of the receiver; the debounce task thins the events out; the   *)
(* consumer turns what is left into commands.  Events carry no data that   *)
(* anybody reads, so a channel is the number of events in it.              *)
(***************************************************************************)
EXTENDS Integers

CONSTANTS
  EventCapacity,    \* EVENT_CAPACITY of the raw and of the debounced channel, 8
  CommandCapacity,  \* places in the command channel of main.rs, 16
  Faults,           \* what may go wrong: a source that refuses the subscription,
                    \* a message loop that ends, a receiver that is dropped
  MaxChanges        \* bound: how often the network changes

ASSUME CapacityAssumption ==
  EventCapacity \in Nat \ {0} /\ CommandCapacity \in Nat \ {0}
ASSUME FaultAssumption ==
  Faults \subseteq {"nlm", "iphelper", "pump-ends", "dropped"}
ASSUME BoundAssumption == MaxChanges \in Nat

Sources == {"nlm", "iphelper"}

VARIABLES
  net,       \* the network: how often it has changed
  calls,     \* callbacks Windows still has to make, per source
  armed,     \* the sources with a live subscription
  thread,    \* where the watcher thread is
  mailbox,   \* its message queue: not there yet, empty, or WM_STOP_WATCHER in it
  alive,     \* Pump::alive
  ready,     \* what the thread reported to watch_network_changes
  guard,     \* the task that holds `probe', a strong sender
  raw,       \* events in the channel from the callbacks to debounce
  debounce,  \* the debounce task: where it is, `trailing', `source_closed'
  out,       \* events in the channel from debounce to the consumer
  consumer,  \* the task of spawn_network_watch
  commands,  \* Cmd::Reevaluate in the command channel
  seen,      \* the network the supervisor last looked at
  told       \* history: the network at the last callback that found a receiver

world == <<net, calls>>
watcher == <<armed, thread, mailbox, alive, ready>>
vars == <<net, calls, armed, thread, mailbox, alive, ready, guard, raw, debounce,
          out, consumer, commands, seen, told>>

TypeOK ==
  /\ net \in 0 .. MaxChanges /\ seen \in 0 .. net /\ told \in 0 .. net
  /\ calls \in [Sources -> Nat]
  /\ armed \subseteq Sources
  /\ thread \in {"nlm", "iphelper", "report", "loop", "teardown", "dead", "gone"}
  /\ mailbox \in {"none", "empty", "stop"}
  /\ alive \in BOOLEAN
  /\ ready \in {"no", "ok", "refused"}
  /\ guard \in {"none", "watch", "gone"}
  /\ raw \in 0 .. EventCapacity /\ out \in 0 .. EventCapacity
  /\ debounce \in [at : {"none", "idle", "first", "window", "last", "gone"},
                   trailing : BOOLEAN, source_closed : BOOLEAN]
  /\ consumer \in {"none", "recv", "send", "ended", "dropped"}
  /\ commands \in 0 .. CommandCapacity

-----------------------------------------------------------------------------
(* Who holds which end of a channel.                                       *)

\* What if the contexts of the callbacks held strong senders?
Open_Strong == thread # "gone" \/ guard # "gone" \/ ready = "ok"

\* A strong sender of the raw channel exists: the thread's tx, or `probe', which
\* watch_network_changes makes and the guard drops; the callbacks hold weak ones.
Open == thread # "gone" \/ guard # "gone"

\* The caller of watch_network_changes or debounce holds the raw receiver.
RawReceived == debounce.at # "gone"

\* The consumer holds the receiver of the debounced channel.
OutReceived == consumer \in {"none", "recv", "send"}

-----------------------------------------------------------------------------
(* Windows.                                                                *)

\* The network changes; each source notices some changes and not others, and
\* only a live subscription is called back.
Change(noticing) ==
  /\ net < MaxChanges
  /\ net' = net + 1
  /\ calls' = [s \in Sources |-> calls[s] + IF s \in noticing \cap armed THEN 1 ELSE 0]
  /\ UNCHANGED <<watcher, guard, raw, debounce, out, consumer, commands, seen, told>>

\* post_stop: nothing for a thread that is over; lost without a message queue.
PostStop == mailbox' = IF alive /\ mailbox # "none" THEN "stop" ELSE mailbox

\* offer: never blocks.  A full channel loses the event, what is in it already
\* makes the consumer look again; nobody at the other end stops the thread.
Offer ==
  IF Open /\ RawReceived
  THEN /\ raw' = IF raw < EventCapacity THEN raw + 1 ELSE raw
       /\ told' = net
       /\ UNCHANGED mailbox
  ELSE PostStop /\ UNCHANGED <<raw, told>>

\* NLM calls through the message loop of the thread, IP Helper at any time, and
\* for all the code knows after the subscription has been cancelled, too.
Callback(s) ==
  /\ calls[s] > 0
  /\ s = "nlm" => thread = "loop" /\ s \in armed
  /\ calls' = [calls EXCEPT ![s] = @ - 1]
  /\ Offer
  /\ UNCHANGED <<net, armed, thread, alive, ready, guard, debounce, out, consumer,
                 commands, seen>>

-----------------------------------------------------------------------------
(* The watcher thread.                                                     *)

\* Subscribe to one source, then to the other.
Subscribe(s) ==
  /\ thread = s
  /\ \/ armed' = armed \cup {s}
     \/ s \in Faults /\ UNCHANGED armed
  /\ thread' = IF s = "nlm" THEN "iphelper" ELSE "report"
  /\ UNCHANGED <<world, mailbox, alive, ready, guard, raw, debounce, out, consumer,
                 commands, seen, told>>

\* With no source at all it gives up.  Otherwise it makes its message queue
\* before anybody learns its identifier.
Report ==
  /\ thread = "report"
  /\ IF armed = {}
     THEN /\ alive' = FALSE /\ ready' = "refused" /\ thread' = "gone"
          /\ UNCHANGED mailbox
     ELSE /\ mailbox' = "empty" /\ ready' = "ok" /\ thread' = "loop"
          /\ UNCHANGED alive
  /\ UNCHANGED <<world, armed, guard, raw, debounce, out, consumer, commands, seen, told>>

\* pump_messages returns: WM_STOP_WATCHER.
Stop ==
  /\ thread = "loop" /\ mailbox = "stop"
  /\ thread' = "teardown"
  /\ UNCHANGED <<world, armed, mailbox, alive, ready, guard, raw, debounce, out,
                 consumer, commands, seen, told>>

\* pump_messages returns: a WM_QUIT from nobody knows whom, or GetMessageW fails.
PumpEnds ==
  /\ thread = "loop" /\ "pump-ends" \in Faults
  /\ thread' = "teardown"
  /\ UNCHANGED <<world, armed, mailbox, alive, ready, guard, raw, debounce, out,
                 consumer, commands, seen, told>>

\* Unadvise and CancelMibChangeNotify2.
Teardown ==
  /\ thread = "teardown"
  /\ armed' = {} /\ calls' = [calls EXCEPT !["nlm"] = 0]
  /\ thread' = "dead"
  /\ UNCHANGED <<net, mailbox, alive, ready, guard, raw, debounce, out, consumer,
                 commands, seen, told>>

\* alive is cleared, tx dropped, the guard woken.
Release ==
  /\ thread = "dead"
  /\ alive' = FALSE /\ thread' = "gone"
  /\ UNCHANGED <<world, armed, mailbox, ready, guard, raw, debounce, out, consumer,
                 commands, seen, told>>

Thread == (\E s \in Sources : Subscribe(s)) \/ Report \/ Stop \/ Teardown \/ Release

-----------------------------------------------------------------------------
(* The caller, the guard and the debounce task.                            *)

\* watch_network_changes returns to spawn_network_watch: with the receiver, and
\* then the three tasks are started, or with the error, and there is no watch.
Launch ==
  /\ debounce.at = "none" /\ ready # "no"
  /\ IF ready = "ok"
     THEN /\ guard' = "watch" /\ consumer' = "recv"
          /\ debounce' = [debounce EXCEPT !.at = "idle"]
     ELSE /\ guard' = "gone" /\ consumer' = "ended"
          /\ debounce' = [debounce EXCEPT !.at = "gone"]
  /\ UNCHANGED <<world, watcher, raw, out, commands, seen, told>>

\* The guard: the receiver is gone, or the thread is.  Either way `probe' goes.
Guard ==
  /\ guard = "watch"
  /\ \/ ~RawReceived /\ PostStop
     \/ thread = "gone" /\ UNCHANGED mailbox
  /\ guard' = "gone"
  /\ UNCHANGED <<world, armed, thread, alive, ready, raw, debounce, out, consumer,
                 commands, seen, told>>

DebounceAt(at, trailing, closed) ==
  debounce' = [at |-> at, trailing |-> trailing, source_closed |-> closed]

\* What if the task looked at its own receiver only when it has an event?
DebounceDropped_Later ==
  /\ debounce.at \in {"first", "last"} /\ ~OutReceived
  /\ DebounceAt("gone", FALSE, FALSE)
  /\ raw' = 0
  /\ UNCHANGED out

\* Wherever it waits it notices that its own receiver is gone, and lets go of
\* what it has received.
DebounceDropped ==
  /\ debounce.at \in {"idle", "first", "window", "last"} /\ ~OutReceived
  /\ DebounceAt("gone", FALSE, FALSE)
  /\ raw' = 0
  /\ UNCHANGED out

\* The first event of a burst, or the end of the channel.
DebounceFirst ==
  /\ debounce.at = "idle"
  /\ \/ raw > 0 /\ raw' = raw - 1 /\ DebounceAt("first", FALSE, FALSE)
     \/ raw = 0 /\ ~Open /\ UNCHANGED raw /\ DebounceAt("gone", FALSE, FALSE)
  /\ UNCHANGED out

\* The leading edge is passed on at once, as soon as there is a place.
SendFirst ==
  /\ debounce.at = "first" /\ OutReceived
  /\ out < EventCapacity /\ out' = out + 1
  /\ DebounceAt("window", FALSE, FALSE)
  /\ UNCHANGED raw

\* What if the rest of the burst were simply swallowed?
DebounceWindow_Swallows ==
  /\ debounce.at = "window"
  /\ \/ raw > 0 /\ raw' = raw - 1 /\ UNCHANGED debounce
     \/ raw = 0 /\ ~Open /\ UNCHANGED raw /\ DebounceAt("last", debounce.trailing, TRUE)
     \/ UNCHANGED raw /\ DebounceAt("last", debounce.trailing, FALSE)
  /\ UNCHANGED out

\* What if the end of the channel ended the task at once?
DebounceWindow_Abandons ==
  /\ debounce.at = "window"
  /\ \/ raw > 0 /\ raw' = raw - 1 /\ DebounceAt("window", TRUE, FALSE)
     \/ raw = 0 /\ ~Open /\ UNCHANGED raw /\ DebounceAt("gone", FALSE, FALSE)
     \/ UNCHANGED raw /\ DebounceAt("last", debounce.trailing, FALSE)
  /\ UNCHANGED out

\* The rest of the burst is remembered as one event until the window closes or
\* the channel ends.
DebounceWindow ==
  /\ debounce.at = "window"
  /\ \/ raw > 0 /\ raw' = raw - 1 /\ DebounceAt("window", TRUE, FALSE)
     \/ raw = 0 /\ ~Open /\ UNCHANGED raw /\ DebounceAt("last", debounce.trailing, TRUE)
     \/ UNCHANGED raw /\ DebounceAt("last", debounce.trailing, FALSE)
  /\ UNCHANGED out

\* The trailing edge, if there was a rest; then the next burst, or the end.
SendLast ==
  /\ debounce.at = "last"
  /\ \/ debounce.trailing /\ OutReceived /\ out < EventCapacity /\ out' = out + 1
     \/ ~debounce.trailing /\ UNCHANGED out
  /\ DebounceAt(IF debounce.source_closed THEN "gone" ELSE "idle", FALSE, FALSE)
  /\ UNCHANGED raw

Debounce ==
  /\ DebounceDropped \/ DebounceFirst \/ SendFirst \/ DebounceWindow \/ SendLast
  /\ UNCHANGED <<world, watcher, guard, consumer, commands, seen, told>>

-----------------------------------------------------------------------------
(* The consumer, and the command task behind it.                           *)

\* What if the end of the channel were seen before what is still in it?
Receive_EndFirst ==
  /\ consumer = "recv"
  /\ \/ out > 0 /\ out' = out - 1 /\ consumer' = "send"
     \/ debounce.at = "gone" /\ consumer' = "ended" /\ UNCHANGED out
  /\ UNCHANGED <<world, watcher, guard, raw, debounce, commands, seen, told>>

\* An event, or None: the task warns and ends.
Receive ==
  /\ consumer = "recv"
  /\ \/ out > 0 /\ out' = out - 1 /\ consumer' = "send"
     \/ out = 0 /\ debounce.at = "gone" /\ consumer' = "ended" /\ UNCHANGED out
  /\ UNCHANGED <<world, watcher, guard, raw, debounce, commands, seen, told>>

\* commands.send(Reevaluate).await: it waits for a place.
SendCommand ==
  /\ consumer = "send"
  /\ commands < CommandCapacity /\ commands' = commands + 1
  /\ consumer' = "recv"
  /\ UNCHANGED <<world, watcher, guard, raw, debounce, out, seen, told>>

\* The consumer drops its receiver, whatever it is waiting for.
Drop ==
  /\ "dropped" \in Faults
  /\ consumer \in {"recv", "send"}
  /\ consumer' = "dropped" /\ out' = 0
  /\ UNCHANGED <<world, watcher, guard, raw, debounce, commands, seen, told>>

\* The command task takes a command and reads the network as it now is.
LookAround ==
  /\ commands > 0 /\ commands' = commands - 1
  /\ seen' = net
  /\ UNCHANGED <<world, watcher, guard, raw, debounce, out, consumer, told>>

-----------------------------------------------------------------------------
Init ==
  /\ net = 0 /\ seen = 0 /\ told = 0
  /\ calls = [s \in Sources |-> 0]
  /\ armed = {} /\ thread = "nlm" /\ mailbox = "none" /\ alive = TRUE /\ ready = "no"
  /\ guard = "none"
  /\ debounce = [at |-> "none", trailing |-> FALSE, source_closed |-> FALSE]
  /\ raw = 0 /\ out = 0 /\ commands = 0
  /\ consumer = "none"

Next ==
  \/ \E noticing \in SUBSET Sources \ {{}} : Change(noticing)
  \/ \E s \in Sources : Callback(s)
  \/ Thread \/ PumpEnds
  \/ Launch \/ Guard \/ Debounce
  \/ Receive \/ SendCommand \/ Drop \/ LookAround

Spec == Init /\ [][Next]_vars

\* Threads and tasks are scheduled, the window of the debounce closes, and
\* Windows delivers the callbacks it owes.  Nobody owes us a change or a fault.
FairSpec ==
  /\ Spec
  /\ \A s \in Sources : WF_vars(Callback(s))
  /\ WF_vars(Thread) /\ WF_vars(Launch) /\ WF_vars(Guard) /\ WF_vars(Debounce)
  /\ WF_vars(Receive) /\ WF_vars(SendCommand) /\ WF_vars(LookAround)

-----------------------------------------------------------------------------
(* Properties.                                                             *)

Consumed == consumer # "dropped"

\* Something that will make the supervisor look around is under way.
Ringing ==
  \/ raw > 0 \/ out > 0 \/ commands > 0
  \/ debounce.at = "first" \/ debounce.trailing
  \/ consumer = "send"

\* Dropping events is harmless (the comments in `offer' and on EVENT_CAPACITY):
\* as long as the supervisor has not looked at the network of the last callback,
\* something is on its way that will make it look.
WakeUpIsPending == told > seen /\ Consumed => Ringing

\* The consumer hears of the end of the watch only after the subscriptions are
\* gone and everything that was still under way has become a command.
EndComesLast ==
  consumer = "ended" =>
    /\ thread = "gone" /\ armed = {}
    /\ raw = 0 /\ out = 0
    /\ told > seen => commands > 0

\* The line between Windows and the supervisor, as the consumer knows of it (WakeUp).
Line == CASE consumer = "ended" -> "over"
          [] consumer = "dropped" -> "dropped"
          [] OTHER -> "open"

W == INSTANCE WakeUp WITH news <- told, known <- seen, ringing <- Ringing, line <- Line

\* Whichever side goes, the other hears of it without waiting for an event: the
\* thread ends and recv() returns None instead of being silent for ever; the
\* receiver is dropped and the subscriptions go with the thread.  Nobody is told so
\* before everything else has been told, and what was told is looked at in the end.
NobodyIsLeftBehind ==
  /\ []EndComesLast /\ W!Answered
  /\ thread = "gone" ~> consumer \in {"ended", "dropped"}
  /\ consumer = "dropped" ~> thread = "gone" /\ armed = {}

\* Dropping events is harmless (the comments in `offer' and on EVENT_CAPACITY): the five
\* actors together are one bell that does not fall silent before the supervisor has
\* looked, and does not ring again when the consumer has been told that it is over.
ChangesAreNoticed == W!Spec
=============================================================================
