-------------------------------- MODULE Shell --------------------------------
(***************************************************************************)
(* The main thread of the application: the message loop with the tray icon *)
(* and its menu, and the settings server it owns (app/src/main.rs,         *)
(* app/src/tray.rs, SettingsServer).  Others reach it only by messages     *)
(* posted to the thread, and an open menu or an error box runs a message   *)
(* loop of its own, which takes such messages out of the queue and does    *)
(* nothing with them.                                                      *)
(***************************************************************************)
EXTENDS SettingsServer

VARIABLES
  main,    \* where message_loop is, or the message it has in hand
  queue,   \* the posted messages that wait; two of a kind are as good as one
  clicks,  \* MenuEvent::receiver(): the entries chosen and not yet acted upon
  held,    \* `settings' of message_loop is Some
  flag,    \* BRIDGE_STOPPED
  watch,   \* spawn_bridge_watch: the bridge serves, half done, done
  fresh,   \* the tray shows the published state
  exit     \* the Exit message_loop returned

loop == <<main, clicks, held, exit>>
outside == <<flag, watch>>
vars == <<main, queue, clicks, held, flag, watch, fresh, exit, serverVars>>

Posted == {"state", "bridge"}

\* Tray::action_for: the entries that concern the loop or the server.  All that
\* lead to a section of the settings page do the same thing.
Entries == {"settings", "quit"}

Messages == Posted \cup {"window"}

TypeOK ==
  /\ ServerTypeOK
  /\ main \in {"top", "wait", "menu", "after", "drain", "box", "exit"} \cup Messages
  /\ queue \subseteq Posted
  /\ clicks \subseteq Entries
  /\ held \in BOOLEAN /\ (door /\ main # "exit" => held)
  /\ flag \in BOOLEAN
  /\ watch \in {"serving", "half", "done"}
  /\ fresh \in BOOLEAN
  /\ exit \in {"none", "user", "session", "bridge", "failed"}
  /\ (exit = "none") = (main # "exit")

-----------------------------------------------------------------------------
(* The other threads.                                                      *)

Post(m) == queue' = queue \cup {m}

\* What if the tray were told of changes only?
Publish_Changes(changed) ==
  /\ exit = "none" /\ changed
  /\ fresh' = FALSE
  /\ Post("state")
  /\ UNCHANGED <<loop, outside, serverVars>>

\* The command task has looked around, for a command or for the timer.  It
\* publishes the state, changed or not, and says so in any case.
Publish(changed) ==
  /\ exit = "none"
  /\ fresh' = (fresh /\ ~changed)
  /\ Post("state")
  /\ UNCHANGED <<loop, outside, serverVars>>

\* What if the main thread were woken before the flag is set?
BridgeWatch_PostFirst ==
  /\ exit = "none"
  /\ \/ watch = "serving" /\ Post("bridge") /\ watch' = "half" /\ UNCHANGED flag
     \/ watch = "half" /\ flag' = TRUE /\ watch' = "done" /\ UNCHANGED queue
  /\ UNCHANGED <<loop, fresh, serverVars>>

\* The bridge is over: first the flag, then the message.
BridgeWatch ==
  /\ exit = "none"
  /\ \/ watch = "serving" /\ flag' = TRUE /\ watch' = "half" /\ UNCHANGED queue
     \/ watch = "half" /\ Post("bridge") /\ watch' = "done" /\ UNCHANGED flag
  /\ UNCHANGED <<loop, fresh, serverVars>>

-----------------------------------------------------------------------------
(* message_loop.                                                           *)

Goto(place) == main' = place /\ UNCHANGED exit

\* Any way out drops `settings', and the server with it.
Leave(reason) ==
  /\ main' = "exit" /\ exit' = reason
  /\ held' = FALSE
  /\ IF held THEN StopServer /\ UNCHANGED <<door, timing, pause, errors, conn>>
             ELSE UNCHANGED serverVars

Stay == UNCHANGED <<held, serverVars>>

\* What if the loop went straight to GetMessageW?
Top_Unchecked ==
  /\ main = "top"
  /\ Goto("wait") /\ Stay
  /\ UNCHANGED <<queue, clicks, outside, fresh>>

\* Before the blocking wait: the bridge may be dead already.
Top ==
  /\ main = "top"
  /\ IF flag THEN Leave("bridge") ELSE Goto("wait") /\ Stay
  /\ UNCHANGED <<queue, clicks, outside, fresh>>

\* GetMessageW: a posted message.
GetPosted(m) ==
  /\ main = "wait" /\ m \in queue
  /\ queue' = queue \ {m}
  /\ Goto(m) /\ Stay
  /\ UNCHANGED <<clicks, outside, fresh>>

\* Something the user did with the icon.
GetWindow ==
  /\ main = "wait"
  /\ Goto("window") /\ Stay
  /\ UNCHANGED <<queue, clicks, outside, fresh>>

\* WM_QUIT, or GetMessageW fails.
LoopEnds ==
  /\ main = "wait"
  /\ Leave("session") \/ Leave("failed")
  /\ UNCHANGED <<queue, clicks, outside, fresh>>

\* Tray::refresh, with the state published last, whatever the message was about.
Refresh == fresh' = (fresh \/ main = "state")

\* The flag again; a state to show; DispatchMessageW, in which the menu may open.
Got ==
  /\ main \in Messages
  /\ IF flag THEN Leave("bridge") /\ UNCHANGED fresh
     ELSE /\ Refresh
          /\ \/ Goto("after")
             \/ main = "window" /\ Goto("menu")
          /\ Stay
  /\ UNCHANGED <<queue, clicks, outside>>

\* The nested loop of a menu or of an error box takes a posted message, which
\* belongs to no window, and drops it.
Swallow(m) ==
  /\ main \in {"menu", "box"} /\ m \in queue
  /\ queue' = queue \ {m}
  /\ UNCHANGED <<loop, outside, fresh, serverVars>>

\* An entry is chosen; the icon is alive behind an error box, too.
Click(x) ==
  /\ main \in {"menu", "box"}
  /\ clicks' = clicks \cup {x}
  /\ Goto(IF main = "menu" THEN "after" ELSE "box") /\ Stay
  /\ UNCHANGED <<queue, outside, fresh>>

\* The menu is closed without a choice, or the box is read.
CloseNested ==
  /\ main \in {"menu", "box"}
  /\ Goto(IF main = "menu" THEN "after" ELSE "drain") /\ Stay
  /\ UNCHANGED <<queue, clicks, outside, fresh>>

\* The flag a third time: the nested loop has swallowed the message.
After ==
  /\ main = "after"
  /\ IF flag THEN Leave("bridge") ELSE Goto("drain") /\ Stay
  /\ UNCHANGED <<queue, clicks, outside, fresh>>

\* open_in_browser, or the error_box that says why not.
Show == Goto("drain") \/ Goto("box")

\* open_settings: a server unless one is running, then the browser.  Either may
\* fail, with an error box.
OpenSettings ==
  \/ /\ IF held /\ IsRunning THEN Stay ELSE (Start /\ held' = TRUE)
     /\ Show
  \/ ~(held /\ IsRunning) /\ Goto("box") /\ Stay

\* What if one event were taken per message?
Drain_One ==
  /\ main = "drain"
  /\ \/ clicks = {} /\ Goto("top") /\ Stay /\ UNCHANGED clicks
     \/ "quit" \in clicks /\ clicks' = clicks \ {"quit"} /\ Leave("user")
     \/ /\ "settings" \in clicks /\ clicks' = clicks \ {"settings"}
        /\ Goto("top") \/ Goto("box")
        /\ IF held /\ IsRunning THEN Stay ELSE Start /\ held' = TRUE
  /\ UNCHANGED <<queue, outside, fresh>>

\* All events of the menu, one after the other, also those that came while an
\* error box was open.  The entries that touch neither the loop nor the server
\* (a mode, the address) are left out.
Drain ==
  /\ main = "drain"
  /\ \/ clicks = {} /\ Goto("top") /\ Stay /\ UNCHANGED clicks
     \/ "quit" \in clicks /\ clicks' = clicks \ {"quit"} /\ Leave("user")
     \/ "settings" \in clicks /\ clicks' = clicks \ {"settings"} /\ OpenSettings
  /\ UNCHANGED <<queue, outside, fresh>>

MessageLoop == Top \/ Got \/ After \/ Drain

-----------------------------------------------------------------------------
Init ==
  /\ ServerInit
  /\ main = "top" /\ queue = {} /\ clicks = {}
  /\ held = FALSE /\ flag = FALSE /\ watch = "serving" /\ fresh = TRUE /\ exit = "none"

\* Behind message_loop there is only the stop to be carried out.
ServerStep ==
  /\ IF exit = "none" THEN Server ELSE Stopped \/ Resume
  /\ UNCHANGED <<loop, queue, outside, fresh>>

Next ==
  \/ \E changed \in BOOLEAN : Publish(changed)
  \/ BridgeWatch
  \/ MessageLoop \/ GetWindow \/ LoopEnds
  \/ \E m \in Posted : GetPosted(m) \/ Swallow(m)
  \/ \E x \in Entries : Click(x)
  \/ CloseNested
  \/ ServerStep

Spec == Init /\ [][Next]_vars

(* The threads are scheduled, a posted message is not passed over for ever *)
(* by GetMessageW, a person who opened a menu or sees an error box reacts, *)
(* the timer makes the command task publish again, and the accept loop,    *)
(* which chooses among what is ready at random, does not forget one for    *)
(* ever.  Nobody has to click, to connect or to send a request.            *)
ServerFairness ==
  /\ WF_vars(TimePasses /\ ServerStep)
  /\ WF_vars(Resume /\ ServerStep)
  /\ SF_vars(Expired /\ ServerStep)
  /\ WF_vars(Stopped /\ ServerStep)

FairSpec ==
  /\ Spec /\ ServerFairness
  /\ WF_vars(MessageLoop) /\ WF_vars(CloseNested)
  /\ \A m \in Posted : SF_vars(GetPosted(m))
  /\ WF_vars(Publish(FALSE)) /\ WF_vars(watch = "half" /\ BridgeWatch)

-----------------------------------------------------------------------------
(* Properties.                                                             *)

\* The loop does not block in GetMessageW when the bridge is dead, unless the
\* message that will wake it is in the queue or about to be posted (the comments
\* at the three checks in message_loop and in spawn_bridge_watch).
NeverSleepsThroughDeath ==
  main = "wait" /\ watch = "done" => flag /\ "bridge" \in queue

\* The loop does not block with a chosen menu entry waiting (the comment at the
\* end of message_loop): no later message would be needed to act upon it.
NoClickForgotten == main = "wait" => clicks = {}

\* The message loop blocks only when there is nothing left that it ought to do.
SleepsOnlyWhenDone == NeverSleepsThroughDeath /\ NoClickForgotten

\* However many messages the nested loops swallow, the tray shows the present
\* state again and again, as long as the user does not live in the menu.
TrayCatchesUp ==
  []<>(fresh \/ exit # "none") \/ []<>(main \in {"menu", "box"})

\* The door closes by itself: strangers who knock do not keep it open, only
\* requests with the token do (the comment on Inner::last_seen).
ClosesAlone ==
  \/ []<>~door
  \/ []<><<\E c \in Conns : conn[c].who = "page" /\ ServeOne(c)>>_vars

\* Whoever came with the token less than the idle time ago does not find the
\* door closed by idleness, whatever the loop was sleeping until.
VisitedStaysOpen ==
  [][door /\ ~door' => stop \/ idle \/ errors' >= MaxErrors]_vars

\* The door of the settings server is open as long as somebody needs it and no
\* longer, and no more sockets are served than there are permits.
DoorIsRight == []TypeOK /\ ClosesAlone /\ VisitedStaysOpen
=============================================================================
