-------------------------- MODULE SupervisorProofs --------------------------
(***************************************************************************)
(* What TLAPS proves about Routing and Supervisor, for any upstreams,      *)
(* networks, configurations, forms, number of handlers and places in the   *)
(* command channel.                                                        *)
(***************************************************************************)
EXTENDS Views, SequenceTheorems, TLAPS

-----------------------------------------------------------------------------
(* The decision.                                                           *)

\* A proxied route names the upstream it goes through, which was seen up; only the
\* pinned one, or at the office either; and a demotion is a pinned mode that goes
\* direct.
Sound(mode, up, in_office, health, decision) ==
  /\ decision.route # DirectRoute =>
       LET via == decision.route.via
       IN  /\ via \in {"socks", "http"}
           /\ decision.route.addr = up[via] /\ health[via] = "up"
           /\ mode = via \/ (mode = "auto" /\ in_office)
  /\ decision.demoted <=> mode \in {"socks", "http"} /\ decision.route = DirectRoute

\* decide() is sound, and total: it always yields a route.
LEMMA DecideIsSound ==
  ASSUME NEW mode \in Modes, NEW up \in Upstreams, NEW in_office \in BOOLEAN,
         NEW health \in Health, NEW decision, decision = Decide(mode, up, in_office, health)
  PROVE  decision.route \in Routes /\ Sound(mode, up, in_office, health, decision)
<1> DEFINE socks == Usable(up.socks, health.socks)
           http == Usable(up.http, health.http)
<1>1. /\ socks => up.socks \in Addrs /\ health.socks = "up"
      /\ http => up.http \in Addrs /\ health.http = "up"
  BY DEF Usable, Upstreams
<1>2. \/ decision.route = DirectRoute
      \/ decision.route = SocksRoute(up) /\ socks /\ (mode = "socks" \/ (mode = "auto" /\ in_office))
      \/ decision.route = HttpRoute(up) /\ http /\ (mode = "http" \/ (mode = "auto" /\ in_office))
  BY DEF Decide
<1>3. decision.demoted <=> mode \in {"socks", "http"} /\ decision.route = DirectRoute
  BY DEF Decide
<1>4. CASE decision.route = DirectRoute
  BY <1>3, <1>4 DEF Sound, Routes
<1>5. CASE decision.route = SocksRoute(up) /\ socks /\ (mode = "socks" \/ (mode = "auto" /\ in_office))
  <2>1. decision.route \in Routes
    BY <1>1, <1>5 DEF SocksRoute, Routes
  <2>2. decision.route.via = "socks" /\ decision.route.addr = up.socks
    BY <1>5 DEF SocksRoute
  <2> QED BY <1>1, <1>3, <1>5, <2>1, <2>2 DEF Sound
<1>6. CASE decision.route = HttpRoute(up) /\ http /\ (mode = "http" \/ (mode = "auto" /\ in_office))
  <2>1. decision.route \in Routes
    BY <1>1, <1>6 DEF HttpRoute, Routes
  <2>2. decision.route.via = "http" /\ decision.route.addr = up.http
    BY <1>6 DEF HttpRoute
  <2> QED BY <1>1, <1>3, <1>6, <2>1, <2>2 DEF Sound
<1> QED BY <1>2, <1>4, <1>5, <1>6

-----------------------------------------------------------------------------
(* Types.                                                                  *)

Commands ==
  {Reevaluate} \cup [cmd : {"SetMode"}, mode : TrayModes]
  \cup [cmd : {"ApplyConfig"}, config : Configurations, done : Posts]

Answers == [fresh : BOOLEAN, probed : Upstreams, health : Health]

Tasks ==
  [at : {"recv", "look", "probe", "publish", "report"}, in_office : BOOLEAN,
   health : [socks : Reachability \cup {None}, http : Reachability \cup {None}],
   reply : Posts \cup {None}, outcome : {"saved", "unsaved", None}]

Handlers ==
  [at : {"idle", "sending", "waiting", "saved", "unsaved", "late"},
   config : Configurations \cup {None}]

\* TypeOK with the commands in the channel and the locals of the task.
Typed ==
  /\ alive \subseteq Addrs /\ connected \subseteq Nets
  /\ saved \in Configurations /\ disk \in Configurations
  /\ shared \in Configurations /\ live \in Configurations
  /\ bound \in BridgePorts
  /\ cache = None \/ cache \in Answers
  /\ router \in Routes
  /\ task \in Tasks
  /\ task.at \in {"publish", "report"} => task.health \in Health
  /\ task.reply # None => task.outcome \in {"saved", "unsaved"}
  /\ inbox \in Seq(Commands) /\ Len(inbox) <= InboxSize
  /\ posts \in [Posts -> Handlers]
  /\ \A p \in Posts : posts[p].at \in {"sending", "waiting"} => posts[p].config \in Configurations

LEMMA UpsTyped == \A c \in Configurations : Ups(c) \in Upstreams
  BY DEF Configurations, Ups, Upstreams

LEMMA LiveTyped ==
  ASSUME bound \in BridgePorts, NEW c \in Configurations
  PROVE  LiveConfig(c) \in Configurations /\ Ups(LiveConfig(c)) = Ups(c)
  BY DEF LiveConfig, Configurations, Ups

LEMMA FormTyped ==
  ASSUME NEW base \in Configurations, NEW form \in Forms
  PROVE  ConfigFromForm(base, form) \in Configurations
<1>1. form \in FormData
  BY ConfigsAssumption
<1> QED BY <1>1 DEF ConfigFromForm, Configurations, FormData

LEMMA ChangedTyped ==
  ASSUME NEW cmd \in Commands, cmd # Reevaluate, saved \in Configurations
  PROVE  Changed(cmd) \in Configurations
<1>1. CASE cmd \in [cmd : {"SetMode"}, mode : TrayModes]
  <2>1. cmd.cmd = "SetMode" /\ cmd.mode \in Modes
    BY <1>1, ConfigsAssumption
  <2> QED BY <2>1 DEF Changed, Configurations
<1>2. CASE cmd \in [cmd : {"ApplyConfig"}, config : Configurations, done : Posts]
  BY <1>2 DEF Changed
<1> QED BY <1>1, <1>2 DEF Commands

\* What the task decides once it has an answer is a route.
LEMMA DecidedSound ==
  ASSUME Typed, task.at \in {"publish", "report"}
  PROVE  Decided.route \in Routes /\ Sound(live.mode, Ups(live), task.in_office, task.health, Decided)
<1>1. live.mode \in Modes /\ Ups(live) \in Upstreams
  BY UpsTyped DEF Typed, Configurations
<1>2. task.in_office \in BOOLEAN /\ task.health \in Health
  BY DEF Typed, Tasks
<1> QED BY <1>1, <1>2, DecideIsSound DEF Decided

LEMMA RestTyped ==
  ASSUME NEW where \in {"recv", "look"}
  PROVE  AtRest(where) \in Tasks
  BY DEF AtRest, Tasks

LEMMA InitTyped == Init => Typed
<1> SUFFICES ASSUME Init PROVE Typed
  OBVIOUS
<1>1. saved \in Configurations /\ bound \in BridgePorts
  BY ConfigsAssumption DEF Init, BridgePorts
<1>2. task \in Tasks /\ task.at = "look" /\ task.reply = None
  BY RestTyped DEF Init, AtRest
<1>3. posts \in [Posts -> Handlers] /\ \A p \in Posts : posts[p].at = "idle"
  BY DEF Init, Over, Handlers
<1>4. inbox \in Seq(Commands) /\ Len(inbox) <= InboxSize
  BY InboxAssumption, EmptySeq DEF Init
<1> QED BY <1>1, <1>2, <1>3, <1>4 DEF Init, Typed, Routes

LEMMA PutTyped ==
  ASSUME Typed, HasRoom, NEW cmd \in Commands, Put(cmd)
  PROVE  inbox' \in Seq(Commands) /\ Len(inbox') <= InboxSize
<1>1. inbox \in Seq(Commands) /\ Len(inbox) \in Nat /\ InboxSize \in Nat
  BY InboxAssumption, LenProperties DEF Typed
<1>2. inbox' \in Seq(Commands) /\ Len(inbox') = Len(inbox) + 1
  BY <1>1, AppendProperties DEF Put
<1> QED BY <1>1, <1>2 DEF HasRoom

\* A command has been taken; the rest keeps its order.
LEMMA TakeTyped ==
  ASSUME Typed, inbox # <<>>
  PROVE  /\ Head(inbox) \in Commands
         /\ Tail(inbox) \in Seq(Commands) /\ Len(Tail(inbox)) <= InboxSize
         /\ \A k \in 1 .. Len(Tail(inbox)) : k + 1 \in 1 .. Len(inbox) /\ Tail(inbox)[k] = inbox[k + 1]
<1>1. inbox \in Seq(Commands) /\ InboxSize \in Nat /\ Len(inbox) <= InboxSize
  BY InboxAssumption DEF Typed
<1>2. Len(inbox) \in Nat /\ Len(inbox) # 0
  BY <1>1, LenProperties, EmptySeq
<1>3. /\ Head(inbox) \in Commands /\ Tail(inbox) \in Seq(Commands)
      /\ Len(Tail(inbox)) = Len(inbox) - 1
      /\ \A k \in 1 .. Len(inbox) - 1 : Tail(inbox)[k] = inbox[k + 1]
  BY <1>1, HeadTailProperties
<1> QED BY <1>1, <1>2, <1>3

LEMMA NextTyped == Typed /\ [Next]_vars => Typed'
<1> SUFFICES ASSUME Typed, [Next]_vars PROVE Typed'
  OBVIOUS
<1> USE DEF Typed, world, config
<1>1. ASSUME NEW cmd \in Commands, HasRoom, Put(cmd),
             UNCHANGED <<world, config, cache, router, app, task>>,
             \/ UNCHANGED posts
             \/ \E p \in Posts : posts[p].at = "sending" /\ posts' = [posts EXCEPT ![p].at = "waiting"]
      PROVE  Typed'
  <2>1. inbox' \in Seq(Commands) /\ Len(inbox') <= InboxSize
    BY <1>1, PutTyped
  <2>2. /\ posts' \in [Posts -> Handlers]
        /\ \A p \in Posts : posts'[p].at \in {"sending", "waiting"} => posts'[p].config \in Configurations
    BY <1>1 DEF Handlers
  <2> QED BY <1>1, <2>1, <2>2
<1>2. ASSUME Wake \/ \E m \in TrayModes : ClickMode(m) PROVE Typed'
  <2>1. Reevaluate \in Commands /\ \A m \in TrayModes : SetMode(m) \in Commands
    BY DEF Commands, SetMode
  <2> QED BY <1>1, <1>2, <2>1 DEF Wake, ClickMode
<1>3. ASSUME NEW p \in Posts, Send(p) PROVE Typed'
  <2>1. ApplyConfig(p, posts[p].config) \in Commands
    BY <1>3 DEF Send, Commands, ApplyConfig
  <2> QED BY <1>1, <1>3, <2>1 DEF Send
<1>4. ASSUME NEW p \in Posts, NEW h \in Handlers, posts' = [posts EXCEPT ![p] = h],
             h.at \in {"sending", "waiting"} => h.config \in Configurations,
             UNCHANGED <<world, config, cache, router, app, task, inbox>>
      PROVE  Typed'
  BY <1>4
<1>5. ASSUME NEW p \in Posts, NEW form \in Forms, Submit(p, form) PROVE Typed'
  <2>1. ConfigFromForm(shared, form) \in Configurations
    BY FormTyped
  <2> QED BY <1>4, <1>5, <2>1 DEF Submit, Handlers
<1>6. ASSUME NEW p \in Posts, GiveUp(p) PROVE Typed'
  <2>1. PICK how \in {"idle", "late"} : posts' = [posts EXCEPT ![p] = Over(how)]
    BY <1>6 DEF GiveUp
  <2>2. Over(how) \in Handlers /\ Over(how).at \notin {"sending", "waiting"}
    BY DEF Over, Handlers
  <2> QED BY <1>4, <1>6, <2>1, <2>2 DEF GiveUp
<1>8. ASSUME TakeReevaluate PROVE Typed'
  <2>1. task' \in Tasks /\ task'.at = "look"
    BY <1>8 DEF TakeReevaluate, Tasks
  <2> QED BY <1>8, <2>1, TakeTyped DEF TakeReevaluate
<1>9. ASSUME TakeChange PROVE Typed'
  <2>1. /\ Head(inbox) \in Commands /\ Head(inbox) # Reevaluate
        /\ inbox' \in Seq(Commands) /\ Len(inbox') <= InboxSize
    BY <1>9, TakeTyped DEF TakeChange
  <2>2. saved' \in Configurations
    BY <1>9, <2>1, ChangedTyped DEF TakeChange
  <2>3. live' \in Configurations /\ shared' \in Configurations
    BY <1>9, <2>2, LiveTyped DEF TakeChange
  <2>4. disk' \in Configurations
    BY <1>9, <2>2 DEF TakeChange, Save
  <2>5. task' \in Tasks /\ task'.at = "look"
    <3>1. ASSUME Head(inbox).cmd = "ApplyConfig" PROVE Head(inbox).done \in Posts
      BY <2>1, <3>1 DEF Commands
    <3>2. PICK outcome \in {"saved", "unsaved"}, reply \in Posts \cup {None} :
            task' = [task EXCEPT !.at = "look", !.outcome = outcome, !.reply = reply]
      BY <1>9, <3>1 DEF TakeChange
    <3> QED BY <3>2 DEF Tasks
  <2> QED BY <1>9, <2>1, <2>2, <2>3, <2>4, <2>5 DEF TakeChange
<1>10. ASSUME LookAround PROVE Typed'
  <2>1. CASE CacheHit
    <3>1. cache.health \in Health
      BY <2>1 DEF CacheHit, Answers
    <3>2. task' = [task EXCEPT !.at = "publish", !.in_office = InOffice(live.offices, connected),
                               !.health = cache.health]
      BY <1>10, <2>1 DEF LookAround
    <3>3. task' \in Tasks /\ task'.health \in Health
      BY <3>1, <3>2 DEF Tasks, Health, InOffice
    <3> QED BY <1>10, <3>3 DEF LookAround
  <2>2. CASE ~CacheHit
    <3>1. task' \in Tasks /\ task'.at = "probe"
      BY <1>10, <2>2 DEF LookAround, Tasks, InOffice
    <3> QED BY <1>10, <3>1 DEF LookAround
  <2> QED BY <2>1, <2>2
<1>11. ASSUME ProbeOne("socks") \/ ProbeOne("http") PROVE Typed'
  <2>1. \A addr : Probe(addr) \in Reachability
    BY DEF Probe, Reachability
  <2>2. /\ task' \in Tasks /\ task'.at = "probe"
        /\ task'.reply = task.reply /\ task'.outcome = task.outcome
    BY <1>11, <2>1 DEF ProbeOne, Tasks
  <2> QED BY <1>11, <2>2 DEF ProbeOne
<1>12. ASSUME Remember PROVE Typed'
  <2>1. task.health \in Health
    BY <1>12 DEF Remember, Tasks, Health
  <2>2. cache' \in Answers
    BY <1>12, <2>1, UpsTyped DEF Remember, Answers
  <2>3. task' \in Tasks /\ task'.health \in Health
    BY <1>12, <2>1 DEF Remember, Tasks
  <2> QED BY <1>12, <2>2, <2>3 DEF Remember
<1>13. ASSUME Publish PROVE Typed'
  <2>1. router' \in Routes
    BY <1>13, DecidedSound DEF Publish
  <2>2. task' \in Tasks /\ task'.health \in Health
    BY <1>13 DEF Publish, Tasks
  <2> QED BY <1>13, <2>1, <2>2 DEF Publish
<1>14. ASSUME Report PROVE Typed'
  <2>1. task' \in Tasks /\ task'.at = "recv" /\ task'.reply = None
    BY <1>14, RestTyped DEF Report, AtRest
  <2>2. ASSUME NEW p \in Posts
        PROVE  /\ posts'[p] \in Handlers
               /\ posts'[p].at \in {"sending", "waiting"} => posts'[p].config \in Configurations
    <3>1. CASE p = task.reply /\ posts[p].at = "waiting"
      <4>1. posts'[p] = Over(task.outcome)
        BY <1>14, <3>1 DEF Report
      <4>2. task.outcome \in {"saved", "unsaved"}
        BY <3>1, PostsAssumption
      <4> QED BY <4>1, <4>2 DEF Over, Handlers
    <3>2. CASE ~(p = task.reply /\ posts[p].at = "waiting")
      BY <1>14, <3>2 DEF Report
    <3> QED BY <3>1, <3>2
  <2>3. posts' \in [Posts -> Handlers]
    BY <1>14, <2>2 DEF Report
  <2> QED BY <1>14, <2>1, <2>2, <2>3 DEF Report
<1>15. ASSUME Expire \/ World PROVE Typed'
  <2>1. CASE Expire
    BY <2>1 DEF Expire, Answers
  <2>2. CASE World
    BY <2>2 DEF World
  <2> QED BY <1>15, <2>1, <2>2
<1>16. CASE UNCHANGED vars
  BY <1>16 DEF vars
<1> HIDE DEF Typed, world, config
<1> QED
  BY <1>2, <1>3, <1>5, <1>6, <1>8, <1>9, <1>10, <1>11, <1>12, <1>13, <1>14, <1>15, <1>16
     DEF Next, Task

-----------------------------------------------------------------------------
(***************************************************************************)
(* What an answer rests on.  The page waits for the answer to the          *)
(* configuration it sent; until the task gives it, that configuration is   *)
(* in the channel or is the one the task works with, however many other    *)
(* commands are before it and whatever the senders do meanwhile.           *)
(***************************************************************************)
\* The command a handler sent carries this configuration, if it still waits for the
\* answer.
Agreed(handler, c) ==
  /\ handler.at # "sending"
  /\ handler.at = "waiting" => handler.config = c

Carried ==
  /\ live = LiveConfig(saved)
  /\ \A k \in 1 .. Len(inbox) :
       inbox[k].cmd = "ApplyConfig" => Agreed(posts[inbox[k].done], inbox[k].config)
  /\ task.reply \in Posts =>
       Agreed(posts[task.reply], saved) /\ (task.outcome = "saved" => disk = saved)
  /\ task.at = "recv" => task.reply = None

\* Nothing of what the task showed changes before the next command.
Shown ==
  /\ task.at = "report" => router = Decided.route
  /\ task.at = "recv" /\ app # None =>
       /\ router = app.route /\ app.mode = live.mode /\ app.port = live.bridge_port
       /\ Sound(app.mode, Ups(live), app.in_office, app.health, app)

LEMMA InitCarried == Init => Carried /\ Shown
<1> SUFFICES ASSUME Init PROVE Carried /\ Shown
  OBVIOUS
<1>1. live = saved /\ saved \in Configurations /\ bound = saved.bridge_port
  BY ConfigsAssumption DEF Init
<1>2. live = LiveConfig(saved)
  BY <1>1 DEF LiveConfig, Configurations
<1>3. task.reply = None /\ task.at = "look" /\ Len(inbox) = 0
  BY EmptySeq DEF Init, AtRest
<1> QED BY <1>2, <1>3, PostsAssumption DEF Carried, Shown

\* A sender puts a command into the channel.
LEMMA PutCarried ==
  ASSUME Typed, Carried, HasRoom, NEW cmd \in Commands, Put(cmd),
         UNCHANGED <<config, task>>,
         \A p \in Posts : Agreed(posts'[p], posts'[p].config) \/ posts'[p] = posts[p],
         \A p \in Posts : posts'[p] # posts[p] =>
           /\ task.reply # p
           /\ \A k \in 1 .. Len(inbox) : ~(inbox[k].cmd = "ApplyConfig" /\ inbox[k].done = p),
         cmd.cmd = "ApplyConfig" => Agreed(posts'[cmd.done], cmd.config)
  PROVE  Carried'
<1>1. /\ Len(inbox') = Len(inbox) + 1 /\ Len(inbox) \in Nat
      /\ \A k \in 1 .. Len(inbox) : inbox'[k] = inbox[k]
      /\ inbox'[Len(inbox) + 1] = cmd
  BY AppendProperties, LenProperties DEF Typed, Put
<1>2. ASSUME NEW k \in 1 .. Len(inbox'), inbox'[k].cmd = "ApplyConfig"
      PROVE  Agreed(posts'[inbox'[k].done], inbox'[k].config)
  <2>1. CASE k = Len(inbox) + 1
    BY <1>1, <1>2, <2>1
  <2>2. CASE k \in 1 .. Len(inbox)
    <3>1. inbox'[k] = inbox[k] /\ Agreed(posts[inbox[k].done], inbox[k].config)
      BY <1>1, <1>2, <2>2 DEF Carried
    <3>2. inbox[k].done \in Posts
      <4>1. inbox[k] \in Commands
        BY <2>2, LenProperties DEF Typed
      <4> QED BY <1>2, <3>1, <4>1 DEF Commands, Reevaluate
    <3>3. posts'[inbox[k].done] = posts[inbox[k].done]
      BY <1>2, <2>2, <3>1, <3>2
    <3> QED BY <3>1, <3>3 DEF Agreed
  <2> QED BY <1>1, <1>2, <2>1, <2>2
<1>3. task.reply \in Posts => Agreed(posts'[task.reply], saved')
  BY DEF Carried, Agreed, config
<1> QED BY <1>2, <1>3 DEF Carried, config, LiveConfig

\* A sender changes its mind: nobody else's command is concerned.
LEMMA PostsCarried ==
  ASSUME Typed, Carried, UNCHANGED <<config, task, inbox>>,
         \A p \in Posts : \/ posts'[p] = posts[p]
                          \/ posts'[p].at \notin {"sending", "waiting"}
                          \/ ~InFlight(p)
  PROVE  Carried'
<1>1. ASSUME NEW k \in 1 .. Len(inbox), inbox[k].cmd = "ApplyConfig"
      PROVE  Agreed(posts'[inbox[k].done], inbox[k].config)
  <2>1. inbox[k] \in Commands /\ k \in DOMAIN inbox
    BY LenProperties DEF Typed
  <2>2. inbox[k].done \in Posts /\ InFlight(inbox[k].done)
    BY <1>1, <2>1 DEF Commands, Reevaluate, InFlight
  <2> QED BY <1>1, <2>2 DEF Carried, Agreed
<1>2. task.reply \in Posts => Agreed(posts'[task.reply], saved')
  BY DEF Carried, Agreed, InFlight, config
<1> QED BY <1>1, <1>2 DEF Carried, config, LiveConfig

\* The task goes on with the command it has.
LEMMA WorkCarried ==
  ASSUME Typed, Carried, UNCHANGED <<config, inbox, posts>>,
         task'.reply = task.reply, task'.outcome = task.outcome, task'.at # "recv"
  PROVE  Carried'
  BY DEF Carried, Agreed, config, LiveConfig

LEMMA NextCarried == Typed /\ Carried /\ [Next]_vars => Carried'
<1> SUFFICES ASSUME Typed, Carried, [Next]_vars PROVE Carried'
  OBVIOUS
<1>1. ASSUME Wake \/ \E m \in TrayModes : ClickMode(m) PROVE Carried'
  <2>1. PICK cmd \in Commands : cmd.cmd # "ApplyConfig" /\ Put(cmd)
    BY <1>1 DEF Wake, ClickMode, Commands, SetMode, Reevaluate
  <2> QED BY <1>1, <2>1, PutCarried DEF Wake, ClickMode
<1>2. ASSUME NEW p \in Posts, Send(p) PROVE Carried'
  <2>1. /\ posts[p].at = "sending" /\ posts[p].config \in Configurations
        /\ posts'[p].at = "waiting" /\ posts'[p].config = posts[p].config
        /\ \A q \in Posts \ {p} : posts'[q] = posts[q]
    BY <1>2 DEF Send, Typed, Handlers
  <2>2. DEFINE cmd == ApplyConfig(p, posts[p].config)
  <2>3. cmd \in Commands /\ cmd.done = p /\ cmd.config = posts[p].config
    BY <2>1 DEF Commands, ApplyConfig
  <2>4. /\ task.reply # p
        /\ \A k \in 1 .. Len(inbox) : ~(inbox[k].cmd = "ApplyConfig" /\ inbox[k].done = p)
    BY <2>1 DEF Carried, Agreed
  <2>5. HasRoom /\ Put(cmd) /\ UNCHANGED <<config, task>>
    BY <1>2 DEF Send
  <2>6. Agreed(posts'[p], posts'[p].config)
    BY <2>1 DEF Agreed
  <2>7. Agreed(posts'[cmd.done], cmd.config)
    BY <2>1, <2>3 DEF Agreed
  <2> HIDE DEF cmd
  <2> QED BY <2>1, <2>3, <2>4, <2>5, <2>6, <2>7, PutCarried
<1>3. ASSUME NEW p \in Posts, (\E form \in Forms : Submit(p, form)) \/ GiveUp(p) PROVE Carried'
  <2>1. UNCHANGED <<config, task, inbox>> /\ \A q \in Posts \ {p} : posts'[q] = posts[q]
    BY <1>3 DEF Submit, GiveUp, Typed
  <2>2. posts'[p].at \notin {"sending", "waiting"} \/ ~InFlight(p)
    BY <1>3 DEF Submit, GiveUp, Typed, Over
  <2> QED BY <2>1, <2>2, PostsCarried
<1>4. ASSUME TakeReevaluate PROVE Carried'
  <2>1. /\ task'.reply = None /\ task'.at = "look" /\ inbox' = Tail(inbox)
        /\ UNCHANGED <<config, posts>>
    BY <1>4 DEF TakeReevaluate, Carried, Typed, Tasks
  <2>2. \A k \in 1 .. Len(inbox') : k + 1 \in 1 .. Len(inbox) /\ inbox'[k] = inbox[k + 1]
    BY <1>4, <2>1, TakeTyped DEF TakeReevaluate
  <2> QED BY <2>1, <2>2, PostsAssumption DEF Carried, Agreed, config, LiveConfig
<1>5. ASSUME TakeChange PROVE Carried'
  <2>1. /\ inbox # <<>> /\ inbox' = Tail(inbox) /\ Head(inbox) # Reevaluate
        /\ saved' = Changed(Head(inbox)) /\ live' = LiveConfig(saved')
        /\ UNCHANGED <<bound, posts>>
    BY <1>5 DEF TakeChange
  <2>2. \A k \in 1 .. Len(inbox') : k + 1 \in 1 .. Len(inbox) /\ inbox'[k] = inbox[k + 1]
    BY <2>1, TakeTyped
  <2>3. PICK outcome \in {"saved", "unsaved"} :
          /\ Save(saved', outcome)
          /\ task'.outcome = outcome /\ task'.at = "look"
          /\ task'.reply = IF Head(inbox).cmd = "ApplyConfig" THEN Head(inbox).done ELSE None
    BY <1>5 DEF TakeChange, Typed, Tasks
  <2>4. ASSUME task'.reply \in Posts PROVE Agreed(posts'[task'.reply], saved') /\ (outcome = "saved" => disk' = saved')
    <3>1. Head(inbox).cmd = "ApplyConfig" /\ task'.reply = Head(inbox).done
      BY <2>3, <2>4, PostsAssumption
    <3>2. Head(inbox) = inbox[1] /\ 1 \in 1 .. Len(inbox)
      BY <2>1, LenProperties, EmptySeq DEF Typed
    <3>3. Agreed(posts[Head(inbox).done], Head(inbox).config)
      BY <3>1, <3>2 DEF Carried
    <3>4. saved' = Head(inbox).config
      BY <2>1, <3>1 DEF Changed
    <3>5. outcome = "saved" => disk' = saved'
      BY <2>3 DEF Save
    <3> QED BY <2>1, <3>1, <3>3, <3>4, <3>5 DEF Agreed
  <2>5. \A k \in 1 .. Len(inbox') : inbox'[k].cmd = "ApplyConfig" => Agreed(posts'[inbox'[k].done], inbox'[k].config)
    BY <2>1, <2>2 DEF Carried, Agreed
  <2> QED BY <2>1, <2>3, <2>4, <2>5 DEF Carried, LiveConfig
<1>6. ASSUME LookAround \/ ProbeOne("socks") \/ ProbeOne("http") \/ Remember \/ Publish
      PROVE  Carried'
  <2>1. /\ UNCHANGED <<config, inbox, posts>>
        /\ task'.reply = task.reply /\ task'.outcome = task.outcome /\ task'.at # "recv"
    BY <1>6 DEF LookAround, ProbeOne, Remember, Publish, Typed, Tasks
  <2> QED BY <2>1, WorkCarried
<1>7. ASSUME Report PROVE Carried'
  <2>1. /\ task'.reply = None /\ UNCHANGED <<config, inbox>>
        /\ \A p \in Posts : posts'[p] = posts[p] \/ posts'[p].at \notin {"sending", "waiting"}
    <3>1. \A p \in Posts : p = task.reply => task.outcome \in {"saved", "unsaved"}
      BY PostsAssumption DEF Typed
    <3> QED BY <1>7, <3>1 DEF Report, AtRest, Over
  <2>2. ASSUME NEW k \in 1 .. Len(inbox), inbox[k].cmd = "ApplyConfig"
        PROVE  Agreed(posts'[inbox[k].done], inbox[k].config)
    <3>1. inbox[k] \in Commands
      BY LenProperties DEF Typed
    <3>2. inbox[k].done \in Posts
      BY <2>2, <3>1 DEF Commands, Reevaluate
    <3> QED BY <2>1, <2>2, <3>2 DEF Carried, Agreed
  <2> QED BY <2>1, <2>2, PostsAssumption DEF Carried, config, LiveConfig
<1>8. ASSUME UNCHANGED <<config, task, inbox, posts>> PROVE Carried'
  BY <1>8 DEF Carried, Agreed, config, LiveConfig
<1> QED
  BY <1>1, <1>2, <1>3, <1>4, <1>5, <1>6, <1>7, <1>8 DEF Next, Task, Expire, World, vars

LEMMA NextShown == Typed /\ Carried /\ Shown /\ [Next]_vars => Shown'
<1> SUFFICES ASSUME Typed, Carried, Shown, [Next]_vars PROVE Shown'
  OBVIOUS
<1>1. ASSUME task'.at \in {"look", "probe", "publish"} PROVE Shown'
  BY <1>1 DEF Shown
<1>2. ASSUME TakeReevaluate \/ TakeChange \/ LookAround \/ ProbeOne("socks") \/ ProbeOne("http")
             \/ Remember
      PROVE  Shown'
  <2>1. task'.at \in {"look", "probe", "publish"}
    BY <1>2 DEF TakeReevaluate, TakeChange, LookAround, ProbeOne, Remember, Typed, Tasks
  <2> QED BY <1>1, <2>1
<1>3. ASSUME Publish PROVE Shown'
  <2>1. /\ task.at = "publish" /\ task'.at = "report" /\ router' = Decided.route
        /\ task'.in_office = task.in_office /\ task'.health = task.health /\ live' = live
    BY <1>3 DEF Publish, Typed, Tasks, config
  <2> QED BY <2>1 DEF Shown, Decided
<1>4. ASSUME Report PROVE Shown'
  <2>1. /\ task.at = "report" /\ task'.at = "recv" /\ app' = AppState
        /\ UNCHANGED <<live, router>>
    BY <1>4 DEF Report, AtRest, config
  <2>2. /\ router' = app'.route /\ app'.mode = live'.mode /\ app'.port = live'.bridge_port
        /\ app'.demoted = Decided.demoted /\ app'.route = Decided.route
        /\ app'.health = task.health /\ app'.in_office = task.in_office
    BY <2>1 DEF AppState, Shown
  <2>3. Sound(live.mode, Ups(live), task.in_office, task.health, Decided)
    BY <2>1, DecidedSound
  <2>4. Sound(app'.mode, Ups(live'), app'.in_office, app'.health, app')
    BY <2>1, <2>2, <2>3 DEF Sound
  <2> QED BY <2>1, <2>2, <2>4 DEF Shown
<1>5. ASSUME UNCHANGED <<live, router, app, task>> PROVE Shown'
  BY <1>5 DEF Shown, Decided
<1> QED
  BY <1>2, <1>3, <1>4, <1>5
     DEF Next, Task, Wake, ClickMode, Submit, Send, GiveUp, Expire, World, vars, config

-----------------------------------------------------------------------------
(* What is seen.                                                           *)

\* Unknown is what is not configured, and nothing else.
Known(up, health) == \A u \in {"socks", "http"} : health[u] = "unknown" <=> up[u] = None

\* The health that the task works with, remembers and has shown is about the
\* addresses in force; the copy for other threads is the task's own.
Seen ==
  /\ shared = saved
  /\ cache # None => Known(cache.probed, cache.health)
  /\ task.at \in {"recv", "look"} => task.health.socks = None /\ task.health.http = None
  /\ task.at = "probe" =>
       \A u \in {"socks", "http"} :
         task.health[u] # None => (task.health[u] = "unknown" <=> Ups(live)[u] = None)
  /\ task.at \in {"publish", "report"} => Known(Ups(live), task.health)
  /\ app # None /\ task.at = "recv" =>
       Known(Ups(live), app.health) /\ app.health \in Health /\ app.demoted \in BOOLEAN

LEMMA InitSeen == Init => Seen
  BY DEF Init, AtRest, Seen

LEMMA NextSeen == Typed /\ Seen /\ [Next]_vars => Seen'
<1> SUFFICES ASSUME Typed, Seen, [Next]_vars PROVE Seen'
  OBVIOUS
<1>0. /\ task \in Tasks
      /\ task.health \in [socks : Reachability \cup {None}, http : Reachability \cup {None}]
  BY DEF Typed, Tasks
<1>1. ASSUME TakeReevaluate PROVE Seen'
  BY <1>0, <1>1 DEF TakeReevaluate, Tasks, Seen, config
<1>2. ASSUME TakeChange PROVE Seen'
  BY <1>0, <1>2 DEF TakeChange, Tasks, Seen
<1>3. ASSUME LookAround PROVE Seen'
  <2>1. CASE CacheHit
    <3>1. /\ task'.at = "publish" /\ task'.health = cache.health
          /\ cache # None /\ cache.probed = Ups(live)
      BY <1>0, <1>3, <2>1 DEF LookAround, CacheHit, Tasks
    <3>2. Known(Ups(live), task'.health)
      BY <3>1 DEF Seen
    <3> QED BY <1>3, <3>1, <3>2 DEF LookAround, Seen, config, Known
  <2>2. CASE ~CacheHit
    <3>1. task'.at = "probe" /\ task'.health = task.health
      BY <1>0, <1>3, <2>2 DEF LookAround, Tasks
    <3> QED BY <1>3, <3>1 DEF LookAround, Seen, config, Known
  <2> QED BY <2>1, <2>2
<1>4. ASSUME NEW w \in {"socks", "http"}, ProbeOne(w) PROVE Seen'
  <2>1. /\ task'.at = "probe" /\ task.at = "probe"
        /\ task'.health = [task.health EXCEPT ![w] = Probe(Ups(live)[w])]
    BY <1>0, <1>4 DEF ProbeOne, Tasks
  <2>2. Probe(Ups(live)[w]) = "unknown" <=> Ups(live)[w] = None
    BY DEF Probe
  <2>3. /\ task'.health[w] = Probe(Ups(live)[w])
        /\ \A u \in {"socks", "http"} : u # w => task'.health[u] = task.health[u]
    BY <1>0, <2>1
  <2>4. UNCHANGED <<live, shared, saved, cache, app>>
    BY <1>4 DEF ProbeOne, config
  <2>5. \A u \in {"socks", "http"} :
          task'.health[u] # None => (task'.health[u] = "unknown" <=> Ups(live)[u] = None)
    BY <2>1, <2>2, <2>3 DEF Seen
  <2> QED BY <2>1, <2>4, <2>5 DEF Seen, Known
<1>5. ASSUME Remember PROVE Seen'
  <2>1. /\ task.at = "probe" /\ task'.at = "publish" /\ task'.health = task.health
        /\ task.health.socks # None /\ task.health.http # None
        /\ cache' = [fresh |-> TRUE, probed |-> Ups(live), health |-> task.health]
        /\ UNCHANGED <<live, shared, saved, app>>
    BY <1>0, <1>5 DEF Remember, Tasks, config
  <2>2. Known(Ups(live), task.health)
    BY <2>1 DEF Seen, Known
  <2> QED BY <2>1, <2>2 DEF Seen, Known
<1>6. ASSUME Publish PROVE Seen'
  BY <1>0, <1>6 DEF Publish, Tasks, Seen, config, Known
<1>7. ASSUME Report PROVE Seen'
  <2>1. /\ task.at = "report" /\ task'.at = "recv"
        /\ task'.health.socks = None /\ task'.health.http = None
        /\ app' = AppState /\ UNCHANGED <<live, shared, saved, cache>>
    BY <1>7 DEF Report, AtRest, config
  <2>2. app'.health = task.health /\ app'.demoted = Decided.demoted
    BY <2>1 DEF AppState
  <2>3. Decided.demoted \in BOOLEAN
    BY DEF Decided, Decide
  <2>4. task.health \in Health
    BY <2>1 DEF Typed
  <2> QED BY <2>1, <2>2, <2>3, <2>4 DEF Seen, Known
<1>8. ASSUME Expire PROVE Seen'
  <2>1. /\ cache # None /\ cache \in Answers /\ cache' = [cache EXCEPT !.fresh = FALSE]
        /\ UNCHANGED <<live, shared, saved, app, task>>
    BY <1>8 DEF Expire, Typed, config
  <2>2. cache'.probed = cache.probed /\ cache'.health = cache.health
    BY <2>1 DEF Answers
  <2> QED BY <2>1, <2>2 DEF Seen, Known
<1>9. ASSUME UNCHANGED <<live, shared, saved, cache, app, task>> PROVE Seen'
  BY <1>9 DEF Seen, Known
<1> QED
  BY <1>1, <1>2, <1>3, <1>4, <1>5, <1>6, <1>7, <1>8, <1>9
     DEF Next, Task, Wake, ClickMode, Submit, Send, GiveUp, World, vars, config

\* What the menu says of one upstream.
LEMMA EntryIsRight ==
  ASSUME NEW reach \in Reachability, NEW addr \in Addrs \cup {None}, reach = "unknown" <=> addr = None
  PROVE  /\ Word(reach) = HealthText(addr, reach)
         /\ Word(reach) = "not set" <=> addr = None
         /\ reach = "up" => Word(reach) = "available"
  BY DEF Word, HealthText, Reachability

LEMMA MenuIsRight == Typed /\ Carried /\ Shown /\ Seen => MenuIsHonest
<1> SUFFICES ASSUME Typed, Carried, Shown, Seen, app # None, task.at = "recv",
                    NEW text, text = SituationText(app),
                    NEW missing \in BOOLEAN, missing <=> Ups(live) = [socks |-> None, http |-> None]
             PROVE  /\ text.says = "not set" <=> missing /\ live.mode = "auto"
                    /\ text.says = "unavailable" <=> live.mode \in {"socks", "http"} /\ router = DirectRoute
                    /\ text.says = "route" => text.route = router
                    /\ RouteText(app) = text \/ missing
                    /\ IconFor(app) = "unconfigured" <=> missing /\ live.mode # "direct"
                    /\ IconFor(app) # "unconfigured" => IconFor(app) = router.via
                    /\ \A u \in {"socks", "http"} :
                         /\ ModeLabel(u, app).says = HealthText(Ups(shared)[u], app.health[u])
                         /\ ModeLabel(u, app).says = "not set" <=> Ups(live)[u] = None
                         /\ router.via = u => ModeLabel(u, app).says = "available"
                    /\ {m \in Modes : ModeLabel(m, app).checked} = {saved.mode}
  BY DEF MenuIsHonest
<1>1. /\ router = app.route /\ router \in Routes /\ app.mode = live.mode
      /\ Sound(live.mode, Ups(live), app.in_office, app.health, app)
  BY DEF Shown, Typed
<1>2. /\ live.mode = saved.mode /\ saved.mode \in Modes
      /\ Ups(shared) = Ups(live) /\ Ups(live) \in Upstreams
  BY UpsTyped, LiveTyped DEF Carried, Seen, Typed, LiveConfig, Configurations
<1>3. app.health \in Health /\ Known(Ups(live), app.health) /\ app.demoted \in BOOLEAN
  BY DEF Seen
<1>4. missing <=> NoUpstreamConfigured(app)
  <2>1. missing <=> Ups(live).socks = None /\ Ups(live).http = None
    BY <1>2 DEF Upstreams
  <2>2. NoUpstreamConfigured(app) <=> app.health.socks = "unknown" /\ app.health.http = "unknown"
    BY <1>3 DEF NoUpstreamConfigured, Health
  <2> QED BY <1>3, <2>1, <2>2 DEF Known
<1>5. app.demoted <=> live.mode \in {"socks", "http"} /\ router = DirectRoute
  BY <1>1 DEF Sound
<1>6. router # DirectRoute => router.via \in {"socks", "http"} /\ app.health[router.via] = "up"
  BY <1>1 DEF Sound
<1>7. missing => router = DirectRoute
  BY <1>3, <1>4, <1>6 DEF NoUpstreamConfigured
<1>8. /\ text.says = "not set" <=> missing /\ live.mode = "auto"
      /\ text.says = "unavailable" <=> live.mode \in {"socks", "http"} /\ router = DirectRoute
      /\ text.says = "route" => text.route = router
  <2>1. CASE app.demoted
    <3>1. text = [says |-> "unavailable", mode |-> app.mode]
      BY <2>1 DEF SituationText
    <3>2. text.says = "unavailable"
      BY <3>1
    <3>3. live.mode \in {"socks", "http"} /\ router = DirectRoute
      BY <2>1, <1>5
    <3>4. live.mode # "auto" /\ text.says # "not set" /\ text.says # "route"
      BY <3>2, <3>3
    <3> QED BY <3>2, <3>3, <3>4
  <2>2. CASE ~app.demoted /\ app.mode = "auto" /\ NoUpstreamConfigured(app)
    <3>1. text = [says |-> "not set"]
      BY <2>2 DEF SituationText
    <3>2. \A x : [says |-> x].says = x
      OBVIOUS
    <3>3. text.says = "not set"
      BY <3>1, <3>2, Zenon
    <3>4. text.says # "unavailable" /\ text.says # "route"
      BY <3>3
    <3>5. live.mode = "auto" /\ live.mode \notin {"socks", "http"} /\ missing
      BY <2>2, <1>1, <1>4
    <3> QED BY <3>3, <3>4, <3>5
  <2>3. CASE ~app.demoted /\ ~(app.mode = "auto" /\ NoUpstreamConfigured(app))
    <3>1. text = [says |-> "route", route |-> app.route]
      BY <2>3 DEF SituationText
    <3>2. /\ text.says # "not set" /\ text.says # "unavailable" /\ text.says = "route"
          /\ text.route = router
      BY <3>1, <1>1
    <3>3. ~(missing /\ live.mode = "auto")
      BY <2>3, <1>1, <1>4
    <3>4. ~(live.mode \in {"socks", "http"} /\ router = DirectRoute)
      BY <2>3, <1>5
    <3> QED BY <3>2, <3>3, <3>4
  <2> QED BY <1>3, <2>1, <2>2, <2>3
<1>9. RouteText(app) = text \/ missing
  BY <1>3, <1>4 DEF RouteText, SituationText
<1>10. /\ IconFor(app) = "unconfigured" <=> missing /\ live.mode # "direct"
       /\ IconFor(app) # "unconfigured" => IconFor(app) = router.via
  <2>1. router.via # "unconfigured"
    BY <1>6 DEF DirectRoute
  <2> QED BY <1>1, <1>4, <1>7, <2>1 DEF IconFor
<1>11. ASSUME NEW u \in {"socks", "http"}
       PROVE  /\ ModeLabel(u, app).says = HealthText(Ups(shared)[u], app.health[u])
              /\ ModeLabel(u, app).says = "not set" <=> Ups(live)[u] = None
              /\ router.via = u => ModeLabel(u, app).says = "available"
  <2>1. ModeLabel(u, app).says = Word(app.health[u])
    BY DEF ModeLabel
  <2>2. app.health[u] \in Reachability /\ Ups(live)[u] \in Addrs \cup {None}
    BY <1>2, <1>3 DEF Health, Upstreams
  <2>3. app.health[u] = "unknown" <=> Ups(live)[u] = None
    BY <1>3 DEF Known
  <2>4. router.via = u => app.health[u] = "up"
    BY <1>6 DEF DirectRoute
  <2> QED BY <1>2, <2>1, <2>2, <2>3, <2>4, EntryIsRight
<1>12. {m \in Modes : ModeLabel(m, app).checked} = {saved.mode}
  BY <1>1, <1>2 DEF ModeLabel
<1> QED BY <1>8, <1>9, <1>10, <1>11, <1>12

\* The checks of the doctor, taken together, say what is true of any machine.
LEMMA DiagnosisIsRight == DiagnosisIsHonest
<1> SUFFICES ASSUME NEW f \in Facts, Consistent(f), NEW checks, checks = RunChecks(Live(f))
             PROVE  /\ AllClear(checks) =>
                         /\ f.listening /\ (f.cfg.manage => f.pointer = "ours")
                         /\ Asked(f) # {} => Taken(f).route # DirectRoute
                    /\ checks.stale = "fail" <=> (f.pointer = "ours" /\ ~f.listening)
                    /\ checks.stale = "fail" => checks.bridge = "fail"
  BY DEF DiagnosisIsHonest
<1> DEFINE g == Live(f)
<1>1. /\ g.cfg = f.cfg /\ g.state = f.state /\ g.listening = f.listening
      /\ g.pointer = f.pointer /\ g.free = ~f.listening
  BY DEF Live, Facts
<1>2. /\ checks.bridge = CheckBridgeListening(g) /\ checks.sysproxy = CheckSysproxyPointsAtUs(g)
      /\ checks.stale = CheckStalePointer(g) /\ checks.upstreams = CheckUpstreams(g)
      /\ checks.network = CheckNetworkRecognised(g) /\ checks.offices = CheckOfficeNetworks(g)
      /\ DOMAIN checks = {"bridge", "sysproxy", "stale", "upstreams", "network", "offices"}
  BY DEF RunChecks
<1>3. f.listening \in BOOLEAN /\ f.cfg.manage \in BOOLEAN /\ f.cfg.mode \in Modes
      /\ f.cfg.up \in Upstreams /\ f.state.health \in Health /\ f.state.in_office \in BOOLEAN
      /\ f.pointer \in {"ours", "others", "nobody", "error"}
  BY DEF Facts
<1> HIDE DEF g
<1>4. checks.stale = "fail" <=> (f.pointer = "ours" /\ ~f.listening)
  BY <1>1, <1>2, <1>3 DEF CheckStalePointer
<1>5. checks.stale = "fail" => checks.bridge = "fail"
  BY <1>1, <1>2, <1>3, <1>4 DEF CheckBridgeListening
<1>6. ASSUME AllClear(checks)
      PROVE  /\ f.listening /\ (f.cfg.manage => f.pointer = "ours")
             /\ Asked(f) # {} => Taken(f).route # DirectRoute
  <2>1. /\ checks.bridge = "ok" /\ checks.sysproxy = "ok" /\ checks.upstreams = "ok"
        /\ checks.network = "ok"
    BY <1>2, <1>6 DEF AllClear
  <2>2. f.listening
    BY <1>1, <1>2, <1>3, <2>1 DEF CheckBridgeListening
  <2>3. f.cfg.manage => f.pointer = "ours"
    BY <1>1, <1>2, <1>3, <2>1 DEF CheckSysproxyPointsAtUs
  <2>4. f.cfg.mode = "auto" => f.state.in_office
    BY <1>1, <1>2, <1>3, <2>1 DEF CheckNetworkRecognised
  <2>5. ASSUME NEW u \in {"socks", "http"}, f.cfg.up[u] # None PROVE f.state.health[u] = "up"
    <3> DEFINE of == {f.state.health[w] : w \in {v \in {"socks", "http"} : f.cfg.up[v] # None}}
    <3>1. "down" \notin of /\ "unknown" \notin of
      BY <1>1, <1>2, <2>1 DEF CheckUpstreams
    <3>2. f.state.health[u] \in of /\ f.state.health[u] \in {"up", "down", "unknown"}
      BY <1>3, <2>5 DEF Health, Reachability
    <3> HIDE DEF of
    <3> QED BY <3>1, <3>2
  <2>6. ASSUME Asked(f) # {} PROVE Taken(f).route # DirectRoute
    <3>1. PICK u \in {"socks", "http"} :
            f.cfg.up[u] # None /\ (f.cfg.mode = "auto" \/ f.cfg.mode = u)
      BY <1>3, <2>6 DEF Asked, Modes
    <3>2. Usable(f.cfg.up[u], f.state.health[u])
      BY <2>5, <3>1 DEF Usable
    <3> QED BY <2>4, <3>1, <3>2 DEF Taken, Decide, SocksRoute, HttpRoute, DirectRoute
  <2> QED BY <2>2, <2>3, <2>6
<1> QED BY <1>4, <1>5, <1>6

-----------------------------------------------------------------------------
\* Every reachable state is well typed.
THEOREM TypeCorrect == Spec => []TypeOK
<1>1. Typed => TypeOK
  <2> SUFFICES ASSUME Typed PROVE TypeOK
    OBVIOUS
  <2> QED BY DEF Typed, TypeOK, Answers, Tasks, Handlers
<1> QED BY <1>1, InitTyped, NextTyped, PTL DEF Spec

\* Between two commands the tray shows what the bridge does: the route in use comes
\* from the configuration in force, it is one that the mode allows and that was seen
\* up, and what is called a demotion is one.
THEOREM TrayTellsTheTruth == Spec => []StateIsHonest
<1>1. Typed /\ Carried /\ Shown => StateIsHonest
  <2> SUFFICES ASSUME Typed, Carried, Shown PROVE StateIsHonest
    OBVIOUS
  <2>1. TypeOK
    BY DEF Typed, TypeOK, Answers, Tasks, Handlers
  <2>2. live.bridge_port = bound
    BY DEF Carried, LiveConfig, Typed, Configurations
  <2> QED BY <2>1, <2>2 DEF StateIsHonest, Shown, Sound
<1> QED
  BY <1>1, InitTyped, InitCarried, NextTyped, NextCarried, NextShown, PTL DEF Spec

\* Whatever people see of the task between two commands, in the menu, in the tray
\* and on the page, is so, and the diagnosis never calls well what is not.
THEOREM WhatIsSeenIsSo == Spec => []ViewsAreHonest
<1>1. Typed /\ Carried /\ Shown /\ Seen => ViewsAreHonest
  BY MenuIsRight, DiagnosisIsRight DEF ViewsAreHonest
<1> QED
  BY <1>1, InitTyped, InitCarried, InitSeen, NextTyped, NextCarried, NextShown, NextSeen, PTL
     DEF Spec

\* The page is told "saved and applied" only when the file holds what it sent, the
\* supervisor runs with it and the route comes from it.
THEOREM AnswerIsTrue == Spec => SavedMeansSavedAndApplied
<1>1. ASSUME Typed, Carried, Shown, [Next]_vars, NEW p \in Posts,
             posts[p].at = "waiting", posts'[p].at = "saved"
      PROVE  /\ disk = posts[p].config
             /\ live = [disk EXCEPT !.bridge_port = bound]
             /\ router = app'.route
             /\ router # DirectRoute => router.addr = Ups(posts[p].config)[router.via]
  <2>1. Report
    <3>1. ASSUME UNCHANGED posts PROVE FALSE
      BY <1>1, <3>1
    <3>2. ASSUME NEW q \in Posts, Send(q) \/ GiveUp(q) \/ \E f \in Forms : Submit(q, f) PROVE FALSE
      BY <1>1, <3>2 DEF Send, GiveUp, Submit, Typed, Handlers, Over
    <3> QED
      BY <1>1, <3>1, <3>2
         DEF Next, Task, Wake, ClickMode, TakeReevaluate, TakeChange, LookAround, ProbeOne,
             Remember, Publish, Expire, World, vars
  <2>2. p = task.reply /\ task.outcome = "saved"
    BY <1>1, <2>1 DEF Report, Over
  <2>3. posts[p].config = saved /\ disk = saved /\ live = LiveConfig(saved)
    BY <1>1, <2>2 DEF Carried, Agreed
  <2>4. router = Decided.route /\ app'.route = Decided.route
    BY <1>1, <2>1 DEF Report, Shown, AppState
  <2>5. Sound(live.mode, Ups(live), task.in_office, task.health, Decided)
    BY <1>1, <2>1, DecidedSound DEF Report
  <2>6. Ups(live) = Ups(posts[p].config)
    BY <1>1, <2>3, LiveTyped DEF Typed
  <2> QED BY <2>3, <2>4, <2>5, <2>6 DEF LiveConfig, Sound
<1>2. Typed /\ Carried /\ Shown /\ [Next]_vars
        => [\A p \in Posts :
              posts[p].at = "waiting" /\ posts'[p].at = "saved" =>
                /\ disk = posts[p].config
                /\ live = [disk EXCEPT !.bridge_port = bound]
                /\ router = app'.route
                /\ router # DirectRoute => router.addr = Ups(posts[p].config)[router.via]
           ]_vars
  BY <1>1
<1> QED
  BY <1>2, InitTyped, InitCarried, NextTyped, NextCarried, NextShown, PTL
     DEF Spec, SavedMeansSavedAndApplied
=============================================================================
