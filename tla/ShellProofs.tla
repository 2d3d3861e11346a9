----------------------------- MODULE ShellProofs -----------------------------
(***************************************************************************)
(* The message loop never blocks when there is something it ought to do:   *)
(* for any number of sockets, whatever the settings server does meanwhile. *)
(* The server in turn keeps to its permits and closes its door only for a  *)
(* reason it is supposed to have.                                          *)
(***************************************************************************)
EXTENDS Shell, FiniteSetTheorems, TLAPS

\* The flag goes up first and never down; the message follows it into the queue,
\* and only a nested loop or the loop itself takes it out again.
Watched ==
  /\ flag <=> watch # "serving"
  /\ NeverSleepsThroughDeath

\* Whoever goes back to the top has seen the menu channel empty, and clicks only
\* come in while a menu or an error box is open.
Emptied == main \in {"top", "wait"} => clicks = {}

LEMMA InitSafe == Init => Watched /\ Emptied
  BY DEF Init, Watched, Emptied, NeverSleepsThroughDeath

LEMMA WatchedIsInductive == Watched /\ [Next]_vars => Watched'
<1> SUFFICES ASSUME Watched, [Next]_vars PROVE Watched'
    OBVIOUS
<1> USE DEF Watched, NeverSleepsThroughDeath
<1>1. ASSUME NEW changed \in BOOLEAN, Publish(changed) PROVE Watched'
      BY <1>1 DEF Publish, Post, loop, outside
<1>2. CASE BridgeWatch
      BY <1>2 DEF BridgeWatch, Post, loop
<1>3. CASE Top
      \* The only way into the wait: the flag is down, so the bridge serves.
      BY <1>3 DEF Top, Leave, Goto, outside
<1>4. CASE Got \/ After \/ Drain
  <2>1. main' # "wait" /\ UNCHANGED outside
        BY <1>4 DEF Got, After, Drain, OpenSettings, Show, Leave, Goto, Messages, Posted
  <2> QED BY <2>1 DEF outside
<1>5. CASE GetWindow \/ LoopEnds
      BY <1>5 DEF GetWindow, LoopEnds, Leave, Goto, outside
<1>6. ASSUME NEW m \in Posted, GetPosted(m) PROVE Watched'
      BY <1>6 DEF GetPosted, Goto, outside, Posted
<1>7. ASSUME NEW m \in Posted, Swallow(m) PROVE Watched'
      BY <1>7 DEF Swallow, loop, outside
<1>8. ASSUME NEW x \in Entries, Click(x) PROVE Watched'
      BY <1>8 DEF Click, Goto, outside
<1>9. CASE CloseNested
      BY <1>9 DEF CloseNested, Goto, outside
<1>10. CASE ServerStep \/ UNCHANGED vars
      BY <1>10 DEF ServerStep, loop, outside, vars
<1> QED
  BY <1>1, <1>2, <1>3, <1>4, <1>5, <1>6, <1>7, <1>8, <1>9, <1>10 DEF Next, MessageLoop

LEMMA EmptiedIsInductive == Emptied /\ [Next]_vars => Emptied'
<1> SUFFICES ASSUME Emptied, [Next]_vars PROVE Emptied'
    OBVIOUS
<1> USE DEF Emptied
<1>1. ASSUME NEW changed \in BOOLEAN, Publish(changed) PROVE Emptied'
      BY <1>1 DEF Publish, loop
<1>2. CASE BridgeWatch
      BY <1>2 DEF BridgeWatch, loop
<1>3. CASE Top \/ GetWindow \/ LoopEnds
      BY <1>3 DEF Top, GetWindow, LoopEnds, Leave, Goto
<1>4. CASE Got \/ After
      BY <1>4 DEF Got, After, Leave, Goto, Messages, Posted
<1>5. CASE Drain
      BY <1>5 DEF Drain, OpenSettings, Show, Leave, Goto
<1>6. ASSUME NEW m \in Posted, GetPosted(m) PROVE Emptied'
      BY <1>6 DEF GetPosted, Goto, Posted
<1>7. ASSUME NEW m \in Posted, Swallow(m) PROVE Emptied'
      BY <1>7 DEF Swallow, loop
<1>8. ASSUME NEW x \in Entries, Click(x) PROVE Emptied'
      BY <1>8 DEF Click, Goto
<1>9. CASE CloseNested
      BY <1>9 DEF CloseNested, Goto
<1>10. CASE ServerStep \/ UNCHANGED vars
      BY <1>10 DEF ServerStep, loop, vars
<1> QED
  BY <1>1, <1>2, <1>3, <1>4, <1>5, <1>6, <1>7, <1>8, <1>9, <1>10 DEF Next, MessageLoop

\* The main thread does not sleep through the death of the bridge: whenever it
\* blocks in GetMessageW and spawn_bridge_watch is done, the flag is up and the
\* message that will wake it is in the queue, however many such messages the
\* nested loops of menus and error boxes have swallowed before.  Nor does it
\* block with a chosen menu entry waiting to be acted upon, be it chosen in the
\* menu or behind an error box.
THEOREM LoopSleepsOnlyWhenDone == Spec => []SleepsOnlyWhenDone
<1>1. Init => Watched /\ Emptied
      BY InitSafe
<1>2. Watched /\ Emptied /\ [Next]_vars => (Watched /\ Emptied)'
      BY WatchedIsInductive, EmptiedIsInductive
<1>3. Watched /\ Emptied => SleepsOnlyWhenDone
      BY DEF Watched, Emptied, SleepsOnlyWhenDone, NoClickForgotten
<1> QED BY <1>1, <1>2, <1>3, PTL DEF Spec

-----------------------------------------------------------------------------
(* The server has no more tasks than permits, and its clock is consistent. *)

\* The accept loop: the deadline and the idle time agree, and while the loop runs
\* it has not failed too often.
ClockKept ==
  /\ door \in BOOLEAN /\ stop \in BOOLEAN /\ pause \in BOOLEAN
  /\ idle \in BOOLEAN /\ stale \in BOOLEAN /\ due \in BOOLEAN
  /\ (idle => due) /\ (due /\ ~stale => idle)
  /\ errors \in 0 .. MaxErrors /\ (door => errors < MaxErrors)

\* The sockets: no more tasks than permits.
SocketsKept == conn \in [Conns -> Sockets] /\ Cardinality(Serving) <= MaxConnections

ServerKept == ClockKept /\ SocketsKept

\* The message loop: a running server is held.
LoopKept ==
  /\ main \in {"top", "wait", "menu", "after", "drain", "box", "exit"} \cup Messages
  /\ queue \subseteq Posted /\ clicks \subseteq Entries
  /\ held \in BOOLEAN /\ flag \in BOOLEAN /\ fresh \in BOOLEAN
  /\ (door /\ main # "exit" => held)
  /\ watch \in {"serving", "half", "done"}
  /\ exit \in {"none", "user", "session", "bridge", "failed"}
  /\ (exit = "none") = (main # "exit")

Kept == ServerKept /\ LoopKept

LEMMA NoErrors == 0 \in 0 .. MaxErrors /\ 0 < MaxErrors
  BY ServerAssumption

LEMMA KeptIsTyped == Kept => TypeOK
  BY DEF Kept, ServerKept, ClockKept, SocketsKept, LoopKept, TypeOK, ServerTypeOK, Serving

LEMMA ServingIsFinite ==
  IsFiniteSet(Serving) /\ Cardinality(Serving) \in Nat
<1>1. Serving \subseteq Conns
  BY DEF Serving
<1> QED BY <1>1, ServerAssumption, FS_Subset, FS_CardinalityType

\* Fewer are served than before, or the same.
LEMMA FewerServed ==
  ASSUME SocketsKept, Serving' \subseteq Serving
  PROVE  Cardinality(Serving') <= MaxConnections
<1>1. Cardinality(Serving') <= Cardinality(Serving) /\ Cardinality(Serving') \in Nat
  BY ServingIsFinite, FS_Subset, FS_CardinalityType
<1> QED BY <1>1, ServingIsFinite, ServerAssumption DEF SocketsKept

\* A socket is freed, or moves on without asking for a permit.
LEMMA SocketMoves ==
  ASSUME SocketsKept, NEW c \in Conns, NEW s \in Sockets, conn' = [conn EXCEPT ![c] = s],
         s.at \in {"none", "queued"} \/ (conn[c].at \in {"head", "form"} /\ s.mine = conn[c].mine)
  PROVE  SocketsKept'
<1>1. conn' \in [Conns -> Sockets]
  BY DEF SocketsKept
<1>2. \A d \in Conns : conn'[d] = IF d = c THEN s ELSE conn[d]
  BY DEF SocketsKept
<1>3. Serving' \subseteq Serving
  BY <1>2 DEF Serving
<1> QED BY <1>1, <1>3, FewerServed DEF SocketsKept

\* One more is served, and there was a permit for it.
LEMMA SocketServed ==
  ASSUME SocketsKept, HasPermit, NEW c \in Conns,
         conn' = [conn EXCEPT ![c] = [conn[c] EXCEPT !.at = "head"]]
  PROVE  SocketsKept'
<1>1. conn' \in [Conns -> Sockets]
  BY DEF SocketsKept, Sockets
<1> DEFINE more == Serving \cup {c}
<1>2. IsFiniteSet(more) /\ Serving' \subseteq more
  <2>1. \A d \in Conns : d # c => conn'[d] = conn[d]
    BY DEF SocketsKept
  <2>2. Serving' \subseteq Conns
    BY DEF Serving
  <2>3. Serving' \subseteq more
    BY <2>1, <2>2 DEF Serving
  <2> QED BY <2>3, ServingIsFinite, FS_AddElement
<1>3. Cardinality(more) = Cardinality(Serving) \/ Cardinality(more) = Cardinality(Serving) + 1
  <2>1. CASE c \in Serving
    <3>1. more = Serving
      BY <2>1
    <3> QED BY <3>1
  <2>2. CASE c \notin Serving
    BY <2>2, ServingIsFinite, FS_AddElement
  <2> QED BY <2>1, <2>2
<1> HIDE DEF more
<1>4. Cardinality(Serving') <= Cardinality(more) /\ Cardinality(Serving') \in Nat
  BY <1>2, FS_Subset, FS_CardinalityType
<1>5. Cardinality(Serving) < MaxConnections
  BY DEF HasPermit
<1>6. Cardinality(Serving') <= MaxConnections
  BY <1>3, <1>4, <1>5, ServingIsFinite, ServerAssumption
<1> QED BY <1>1, <1>6 DEF SocketsKept

LEMMA FreeIsSocket == Free \in Sockets /\ Free.at = "none" /\ Free.mine = TRUE
  BY DEF Free, Sockets, Clients

\* Whoever returns from the accept loop leaves no backlog.
LEMMA ReturnKept ==
  ASSUME ServerKept, Return, errors' \in 0 .. MaxErrors
  PROVE  ServerKept'
<1>1. conn' \in [Conns -> Sockets]
  BY FreeIsSocket DEF ServerKept, SocketsKept, Return
<1>2. Serving' \subseteq Serving
  BY FreeIsSocket DEF Return, Serving
<1>3. SocketsKept'
  BY <1>1, <1>2, FewerServed DEF ServerKept, SocketsKept
<1> QED BY <1>3 DEF ServerKept, ClockKept, Return, timing

LEMMA StartKept ==
  ASSUME ServerKept, Start
  PROVE  ServerKept'
<1>1. conn' \in [Conns -> Sockets]
  BY FreeIsSocket DEF ServerKept, SocketsKept, Start, Sockets
<1>2. Serving' \subseteq Serving
  <2> SUFFICES ASSUME NEW c \in Conns, c \in Serving' PROVE FALSE
    BY DEF Serving
  <2>1. conn'[c] = IF conn[c] = Free THEN Free ELSE [conn[c] EXCEPT !.mine = FALSE]
    BY DEF Start
  <2>2. conn'[c].at # "none" /\ conn'[c].mine
    BY DEF Serving
  <2>3. CASE conn[c] = Free
    BY <2>1, <2>2, <2>3, FreeIsSocket
  <2>4. CASE conn[c] # Free
    <3>1. conn[c] \in Sockets
      BY DEF ServerKept, SocketsKept
    <3>2. [conn[c] EXCEPT !.mine = FALSE].mine = FALSE
      BY <3>1 DEF Sockets
    <3> QED BY <2>1, <2>2, <2>4, <3>2
  <2> QED BY <2>3, <2>4
<1>3. SocketsKept'
  BY <1>1, <1>2, FewerServed DEF ServerKept, SocketsKept
<1> QED BY <1>3, NoErrors DEF ServerKept, ClockKept, Start

LEMMA ServerKeeps == ServerKept /\ Server => ServerKept'
<1> SUFFICES ASSUME ServerKept, Server PROVE ServerKept'
  OBVIOUS
<1>0. ClockKept /\ SocketsKept /\ conn \in [Conns -> Sockets]
  BY DEF ServerKept, SocketsKept
<1>1. CASE Stopped
  BY <1>0, <1>1, ReturnKept DEF Stopped, ClockKept
<1>2. CASE Expired
  <2>1. CASE idle
    BY <1>0, <1>2, <2>1, ReturnKept DEF Expired, ClockKept
  <2>2. CASE ~idle
    BY <1>0, <1>2, <2>2 DEF Expired, Again, ServerKept, ClockKept, SocketsKept, Serving
  <2> QED BY <2>1, <2>2
<1>3. ASSUME NEW c \in Conns, Accept(c) PROVE ServerKept'
  <2>1. SocketsKept'
    <3>1. CASE HasPermit
      BY <1>0, <1>3, <3>1, SocketServed DEF Accept
    <3>2. CASE ~HasPermit
      BY <1>0, <1>3, <3>2, FreeIsSocket, SocketMoves DEF Accept
    <3> QED BY <3>1, <3>2
  <2>2. ClockKept'
    <3>1. errors' = 0 /\ due' = idle /\ stale' = FALSE /\ UNCHANGED <<door, stop, idle, pause>>
      BY <1>3 DEF Accept, Again
    <3> QED BY <1>0, <3>1, NoErrors DEF ClockKept
  <2> QED BY <2>1, <2>2 DEF ServerKept
<1>4. CASE AcceptFails
  <2>1. errors' = errors + 1 /\ errors' \in 0 .. MaxErrors
    BY <1>0, <1>4, ServerAssumption DEF AcceptFails, ClockKept
  <2>2. CASE errors' >= MaxErrors
    BY <1>4, <2>1, <2>2, ReturnKept DEF AcceptFails
  <2>3. CASE ~(errors' >= MaxErrors)
    BY <1>0, <1>4, <2>1, <2>3, ServerAssumption
       DEF AcceptFails, ServerKept, ClockKept, SocketsKept, Serving, timing
  <2> QED BY <2>2, <2>3
<1>5. CASE Resume
  BY <1>0, <1>5 DEF Resume, Again, ServerKept, ClockKept, SocketsKept, Serving
<1>6. ASSUME NEW c \in Conns, ServeOne(c) \/ HandlePost(c) \/ CutOff(c) \/ Connect(c) PROVE ServerKept'
  <2>1. SocketsKept'
    <3>1. CASE conn' = [conn EXCEPT ![c] = Free]
      BY <1>0, <3>1, FreeIsSocket, SocketMoves
    <3>2. CASE conn[c].at = "head" /\ conn' = [conn EXCEPT ![c].at = "form"]
      <4> DEFINE s == [conn[c] EXCEPT !.at = "form"]
      <4>1. s \in Sockets /\ s.mine = conn[c].mine /\ conn' = [conn EXCEPT ![c] = s]
        BY <1>0, <3>2 DEF Sockets
      <4> HIDE DEF s
      <4> QED BY <1>0, <3>2, <4>1, SocketMoves
    <3>3. CASE Connect(c)
      <4>1. PICK who \in Clients : conn' = [conn EXCEPT ![c] = [Free EXCEPT !.at = "queued", !.who = who]]
        BY <3>3 DEF Connect
      <4> DEFINE s == [Free EXCEPT !.at = "queued", !.who = who]
      <4>2. s \in Sockets /\ s.at = "queued" /\ conn' = [conn EXCEPT ![c] = s]
        BY <4>1 DEF Free, Sockets
      <4> HIDE DEF s
      <4> QED BY <1>0, <4>2, SocketMoves
    <3> QED BY <1>6, <3>1, <3>2, <3>3 DEF ServeOne, HandlePost, CutOff, Reply, TakeForm
  <2>2. UNCHANGED <<door, stop, due, pause, errors>>
    BY <1>6 DEF ServeOne, HandlePost, CutOff, Connect, timing
  <2>3. UNCHANGED <<idle, stale>> \/ (idle' = FALSE /\ stale' = TRUE)
    BY <1>6 DEF ServeOne, HandlePost, CutOff, Connect, timing, Touch
  <2>4. CASE UNCHANGED <<idle, stale>>
    BY <1>0, <2>1, <2>2, <2>4 DEF ServerKept, ClockKept
  <2>5. CASE idle' = FALSE /\ stale' = TRUE
    BY <1>0, <2>1, <2>2, <2>5 DEF ServerKept, ClockKept
  <2> QED BY <2>3, <2>4, <2>5
<1>7. CASE TimePasses
  BY <1>0, <1>7 DEF TimePasses, ServerKept, ClockKept, SocketsKept, Serving
<1> QED BY <1>1, <1>2, <1>3, <1>4, <1>5, <1>6, <1>7 DEF Server, AcceptLoop

-----------------------------------------------------------------------------
LEMMA InitKept == Init => Kept
<1> SUFFICES ASSUME Init PROVE Kept
  OBVIOUS
<1>1. conn \in [Conns -> Sockets] /\ \A c \in Conns : conn[c] = Free
  BY FreeIsSocket DEF Init, ServerInit
<1>2. Serving = {}
  BY <1>1, FreeIsSocket DEF Serving
<1>3. SocketsKept
  BY <1>1, <1>2, FS_EmptySet, ServerAssumption DEF SocketsKept
<1>4. ClockKept
  BY NoErrors DEF Init, ServerInit, ClockKept
<1> QED BY <1>3, <1>4 DEF Init, ServerInit, Kept, ServerKept, LoopKept, Posted, Entries, Messages

\* Steps that leave the server alone, or only ask it to stop.
LEMMA Undisturbed ==
  ASSUME ServerKept, UNCHANGED <<door, timing, pause, errors, conn>>, stop' \in BOOLEAN
  PROVE  ServerKept'
  BY DEF ServerKept, ClockKept, SocketsKept, Serving, timing

LEMMA LeaveKept ==
  ASSUME Kept, NEW reason \in {"user", "session", "bridge", "failed"}, Leave(reason),
         queue' \subseteq Posted, clicks' \subseteq Entries, flag' \in BOOLEAN,
         watch' \in {"serving", "half", "done"}, fresh' \in BOOLEAN
  PROVE  Kept'
<1>1. ServerKept
  BY DEF Kept
<1>2. ServerKept'
  BY <1>1, Undisturbed DEF Leave, StopServer, serverVars, ServerKept, ClockKept
<1> QED BY <1>2 DEF Kept, LoopKept, Leave

LEMMA KeptIsInductive == Kept /\ [Next]_vars => Kept'
<1> SUFFICES ASSUME Kept, [Next]_vars PROVE Kept'
  OBVIOUS
<1>0. LoopKept /\ ServerKept
  BY DEF Kept
<1>s. ASSUME UNCHANGED serverVars PROVE ServerKept'
  BY <1>0, <1>s, Undisturbed DEF serverVars, ServerKept, ClockKept
<1> USE DEF Posted, Entries, Messages
<1>1. ASSUME NEW changed \in BOOLEAN, Publish(changed) PROVE Kept'
  BY <1>0, <1>1, <1>s DEF Publish, Post, loop, outside, Kept, LoopKept, serverVars
<1>2. CASE BridgeWatch
  BY <1>0, <1>2, <1>s DEF BridgeWatch, Post, loop, Kept, LoopKept, serverVars
<1>3. CASE Top
  <2>1. CASE flag
    BY <1>0, <1>3, <2>1, LeaveKept DEF Top, outside, LoopKept
  <2>2. CASE ~flag
    BY <1>0, <1>3, <1>s, <2>2 DEF Top, Goto, Stay, outside, Kept, LoopKept, serverVars
  <2> QED BY <2>1, <2>2
<1>4. CASE Got
  <2>1. CASE flag
    BY <1>0, <1>4, <2>1, LeaveKept DEF Got, outside, LoopKept
  <2>2. CASE ~flag
    BY <1>0, <1>4, <1>s, <2>2 DEF Got, Refresh, Goto, Stay, outside, Kept, LoopKept, serverVars
  <2> QED BY <2>1, <2>2
<1>5. CASE After
  <2>1. CASE flag
    BY <1>0, <1>5, <2>1, LeaveKept DEF After, outside, LoopKept
  <2>2. CASE ~flag
    BY <1>0, <1>5, <1>s, <2>2 DEF After, Goto, Stay, outside, Kept, LoopKept, serverVars
  <2> QED BY <2>1, <2>2
<1>6. CASE Drain
  <2>1. main = "drain" /\ UNCHANGED <<queue, flag, watch, fresh>> /\ clicks' \subseteq Entries
    BY <1>0, <1>6 DEF Drain, outside, LoopKept
  <2>2. CASE Leave("user")
    BY <1>0, <2>1, <2>2, LeaveKept DEF LoopKept
  <2>3. CASE Stay /\ UNCHANGED exit /\ main' \in {"top", "drain", "box"}
    BY <1>0, <1>s, <2>1, <2>3 DEF Stay, Kept, LoopKept, serverVars
  <2>4. CASE Start /\ held' = TRUE /\ UNCHANGED exit /\ main' \in {"drain", "box"}
    BY <1>0, <2>1, <2>4, StartKept DEF Kept, LoopKept
  <2> QED BY <1>6, <2>2, <2>3, <2>4 DEF Drain, OpenSettings, Show, Goto
<1>7. CASE GetWindow
  BY <1>0, <1>7, <1>s DEF GetWindow, Goto, Stay, outside, Kept, LoopKept, serverVars
<1>8. CASE LoopEnds
  BY <1>0, <1>8, LeaveKept DEF LoopEnds, outside, LoopKept
<1>9. ASSUME NEW m \in Posted, GetPosted(m) \/ Swallow(m) PROVE Kept'
  <2>1. ServerKept'
    BY <1>9, <1>s DEF GetPosted, Swallow, Stay, serverVars
  <2>2. main' \in {"menu", "box", "state", "bridge"} /\ queue' \subseteq Posted
    BY <1>0, <1>9 DEF GetPosted, Swallow, Goto, loop, LoopKept
  <2>3. UNCHANGED <<door, held, clicks, flag, watch, fresh, exit>> /\ main # "exit"
    BY <1>9 DEF GetPosted, Swallow, Goto, Stay, outside, loop, serverVars
  <2> QED BY <1>0, <2>1, <2>2, <2>3 DEF Kept, LoopKept
<1>10. ASSUME NEW x \in Entries, Click(x) PROVE Kept'
  BY <1>0, <1>10, <1>s DEF Click, Goto, Stay, outside, Kept, LoopKept, serverVars
<1>11. CASE CloseNested
  BY <1>0, <1>11, <1>s DEF CloseNested, Goto, Stay, outside, Kept, LoopKept, serverVars
<1>12. CASE ServerStep
  <2>1. Server
    BY <1>12 DEF ServerStep, Server, AcceptLoop
  <2>2. ServerKept'
    BY <1>0, <2>1, ServerKeeps
  <2>3. door' => door
    BY <2>1 DEF Server, AcceptLoop, Stopped, Expired, Return, Accept, AcceptFails, Resume,
       ServeOne, HandlePost, CutOff, Connect, TimePasses
  <2> QED BY <1>0, <1>12, <2>2, <2>3 DEF ServerStep, loop, outside, Kept, LoopKept
<1>13. CASE UNCHANGED vars
  BY <1>0, <1>13, <1>s DEF vars, Kept, LoopKept, serverVars
<1> QED BY <1>1, <1>2, <1>3, <1>4, <1>5, <1>6, <1>7, <1>8, <1>9, <1>10, <1>11, <1>12, <1>13
     DEF Next, MessageLoop

\* Whatever clients, strangers and the owner do, the server never serves more
\* sockets than it has permits, its clock never shows an idle time that its
\* deadline has not reached, and no server outlives the message loop's hold on it.
THEOREM TypeCorrect == Spec => []TypeOK
<1> QED BY KeptIsTyped, InitKept, KeptIsInductive, PTL DEF Spec

\* The accept loop gives up for one of three reasons only, never because of a
\* deadline that a visit has outrun.
THEOREM OpenWhileVisited == Spec => VisitedStaysOpen
<1> DEFINE Step == door /\ ~door' => stop \/ idle \/ errors' >= MaxErrors
<1>1. [Next]_vars => [Step]_vars
  <2> SUFFICES ASSUME [Next]_vars, door, ~door' PROVE stop \/ idle \/ errors' >= MaxErrors
    OBVIOUS
  <2>1. CASE Stopped \/ Expired \/ AcceptFails
    BY <2>1 DEF Stopped, Expired, AcceptFails
  <2>2. Stopped \/ Expired \/ AcceptFails
    BY DEF Next, MessageLoop, Publish, BridgeWatch, Top, Got, After, Drain, OpenSettings, Show, Goto,
       Leave, Stay, Start, GetWindow, LoopEnds, GetPosted, Swallow, Click, CloseNested, ServerStep,
       Server, AcceptLoop, Accept, Resume, ServeOne, HandlePost, CutOff, Connect, TimePasses,
       serverVars, vars, loop
  <2> QED BY <2>1, <2>2
<1> QED BY <1>1, PTL DEF Spec, VisitedStaysOpen
=============================================================================
