----------------------------- MODULE Supervisor -----------------------------
(***************************************************************************)
(* One task owns the configuration and the route.  The tray, the settings  *)
(* page, the network watch and the timer reach it through one bounded      *)
(* channel of commands; for each it may change and save the configuration, *)
(* rebuild the supervisor, look around, probe the upstreams, publish the   *)
(* route and the state, and answer (app/src/main.rs, app/src/              *)
(* settings_page.rs, bridge/src/supervisor.rs, bridge/src/probe.rs).       *)
(*                                                                         *)
(* The world moves on while the probes are awaited, and so do the senders: *)
(* the page builds the whole new configuration from the one it reads when  *)
(* the form arrives, not from the one it will replace.                     *)
(***************************************************************************)
EXTENDS Routing, Sequences, Integers

CONSTANTS
  Configs,      \* configurations the file may hold
  Forms,        \* what the page may submit: the part of it the page edits
  TrayModes,    \* modes the user switches to in the menu
  Posts,        \* handlers of POST requests that may run at the same time
  InboxSize,    \* places in the command channel
  MayFailToSave \* Config::save fails now and then

ASSUME InboxAssumption == InboxSize \in Nat \ {0}

\* What the page edits of a configuration, and all of it.
BridgePorts == {c.bridge_port : c \in Configs \cup Forms}
FormData ==
  [socks : Addrs \cup {None}, http : Addrs \cup {None}, offices : SUBSET Nets,
   bridge_port : BridgePorts]
Configurations ==
  [socks : Addrs \cup {None}, http : Addrs \cup {None}, offices : SUBSET Nets,
   bridge_port : BridgePorts, mode : Modes]

ASSUME ConfigsAssumption ==
  /\ Configs \subseteq Configurations
  /\ Forms \subseteq FormData
  /\ TrayModes \subseteq Modes

\* "Nobody waits for an answer" is not one of the handlers.
ASSUME PostsAssumption == None \notin Posts

VARIABLES
  alive,     \* upstreams that answer within the dial timeout
  connected, \* what the network source returns; an error counts as nothing
  bound,     \* the port the listener was bound to, once and for all
  saved,     \* `saved' of the task: the configuration as the user set it
  disk,      \* config.toml
  shared,    \* saved_config, the copy other threads read
  live,      \* the configuration of the supervisor
  cache,     \* the answer the prober remembers, or None
  router,    \* the route new connections take
  app,       \* the AppState the tray and the page show, None before the first
  task,      \* [at, in_office, health, reply, outcome]: the task's locals
  inbox,     \* the command channel
  posts      \* posts[p]: [at, config] of a POST handler

world == <<alive, connected>>
config == <<bound, saved, disk, shared, live>>
vars == <<world, config, cache, router, app, task, inbox, posts>>

Ups(c) == [socks |-> c.socks, http |-> c.http]

\* The task between two commands, and a handler that is not at work.
AtRest(where) ==
  [at |-> where, in_office |-> FALSE, health |-> [socks |-> None, http |-> None],
   reply |-> None, outcome |-> None]
Over(how) == [at |-> how, config |-> None]

-----------------------------------------------------------------------------
(* Commands.                                                               *)

Reevaluate == [cmd |-> "Reevaluate"]
SetMode(m) == [cmd |-> "SetMode", mode |-> m]
ApplyConfig(p, c) == [cmd |-> "ApplyConfig", config |-> c, done |-> p]

HasRoom == Len(inbox) < InboxSize
Put(cmd) == inbox' = Append(inbox, cmd)

\* The timer or the debounced network watch; both wait while the channel is full.
Wake ==
  /\ app # None /\ HasRoom
  /\ Put(Reevaluate)
  /\ UNCHANGED <<world, config, cache, router, app, task, posts>>

\* A click in the menu: try_send, so a full channel loses it.
ClickMode(m) ==
  /\ app # None /\ HasRoom
  /\ Put(SetMode(m))
  /\ UNCHANGED <<world, config, cache, router, app, task, posts>>

\* The whole configuration: the form's fields, everything else from `base'.
ConfigFromForm(base, form) ==
  [base EXCEPT !.socks = form.socks, !.http = form.http, !.offices = form.offices,
               !.bridge_port = form.bridge_port]

\* The command of p is still to be answered, whether or not p waits for that.
InFlight(p) ==
  task.reply = p \/ \E k \in DOMAIN inbox :
                      inbox[k].cmd = "ApplyConfig" /\ inbox[k].done = p

\* A form arrives: the new configuration is built from saved_config as it is now.
\* Posts are names of handlers: one is given again when its command is gone.
Submit(p, form) ==
  /\ app # None /\ posts[p].at \notin {"sending", "waiting"} /\ ~InFlight(p)
  /\ posts' = [posts EXCEPT ![p] =
                 [at |-> "sending", config |-> ConfigFromForm(shared, form)]]
  /\ UNCHANGED <<world, config, cache, router, app, task, inbox>>

\* The send waits for room.
Send(p) ==
  /\ posts[p].at = "sending" /\ HasRoom
  /\ Put(ApplyConfig(p, posts[p].config))
  /\ posts' = [posts EXCEPT ![p].at = "waiting"]
  /\ UNCHANGED <<world, config, cache, router, app, task>>

\* APPLY_TIMEOUT runs out on the answer, REQUEST_TIMEOUT on the send; a command
\* that was sent stays in the channel.
GiveUp(p) ==
  /\ posts[p].at \in {"sending", "waiting"}
  /\ posts' = [posts EXCEPT ![p] = Over(IF @.at = "sending" THEN "idle" ELSE "late")]
  /\ UNCHANGED <<world, config, cache, router, app, task, inbox>>

-----------------------------------------------------------------------------
(* The task takes a command.                                               *)

Changed(cmd) ==
  IF cmd.cmd = "SetMode" THEN [saved EXCEPT !.mode = cmd.mode] ELSE cmd.config

\* What if the supervisor were given the configuration as it was saved?
LiveConfig_Moved(c) == c

\* The port is not applied on the fly.
LiveConfig(c) == [c EXCEPT !.bridge_port = bound]

\* What if a failing save were not reported?
Save_Hidden(c, outcome) ==
  /\ outcome = "saved"
  /\ disk' = c \/ (MayFailToSave /\ UNCHANGED disk)

\* The outcome is what the page will be told.
Save(c, outcome) ==
  \/ outcome = "saved" /\ disk' = c
  \/ outcome = "unsaved" /\ MayFailToSave /\ UNCHANGED disk

TakeReevaluate ==
  /\ task.at = "recv" /\ inbox # <<>> /\ Head(inbox) = Reevaluate
  /\ inbox' = Tail(inbox)
  /\ task' = [task EXCEPT !.at = "look"]
  /\ UNCHANGED <<world, config, cache, router, app, posts>>

\* Change, save (a failure only goes into the answer), rebuild the supervisor with
\* a new prober, publish the copy.
TakeChange ==
  /\ task.at = "recv" /\ inbox # <<>> /\ Head(inbox) # Reevaluate
  /\ inbox' = Tail(inbox)
  /\ saved' = Changed(Head(inbox))
  /\ live' = LiveConfig(saved')
  /\ \E outcome \in {"saved", "unsaved"} :
       /\ Save(saved', outcome)
       /\ task' = [task EXCEPT
                     !.at = "look", !.outcome = outcome,
                     !.reply = IF Head(inbox).cmd = "ApplyConfig"
                               THEN Head(inbox).done ELSE None]
  /\ cache' = None
  /\ shared' = saved'
  /\ UNCHANGED <<world, bound, router, app, posts>>

-----------------------------------------------------------------------------
(* Supervisor::reevaluate.                                                 *)

\* What if the remembered answer never grew old?
CacheHit_Ageless == cache # None /\ cache.probed = Ups(live)

\* The remembered answer counts while it is young and about these addresses.
CacheHit == cache # None /\ cache.fresh /\ cache.probed = Ups(live)

\* Ask the network source, then the prober.
LookAround ==
  /\ task.at = "look"
  /\ task' = [task EXCEPT
                !.at = IF CacheHit THEN "publish" ELSE "probe",
                !.in_office = InOffice(live.offices, connected),
                !.health = IF CacheHit THEN cache.health ELSE @]
  /\ UNCHANGED <<world, config, cache, router, app, inbox, posts>>

Probe(addr) ==
  IF addr = None THEN "unknown" ELSE IF addr \in alive THEN "up" ELSE "down"

\* One of the two connects is answered, refused or times out.
ProbeOne(which) ==
  /\ task.at = "probe" /\ task.health[which] = None
  /\ task' = [task EXCEPT !.health[which] = Probe(Ups(live)[which])]
  /\ UNCHANGED <<world, config, cache, router, app, inbox, posts>>

\* Both are in: remember them.
Remember ==
  /\ task.at = "probe" /\ \A which \in DOMAIN task.health : task.health[which] # None
  /\ cache' = [fresh |-> TRUE, probed |-> Ups(live), health |-> task.health]
  /\ task' = [task EXCEPT !.at = "publish"]
  /\ UNCHANGED <<world, config, router, app, inbox, posts>>

Decided == Decide(live.mode, Ups(live), task.in_office, task.health)

Publish ==
  /\ task.at = "publish"
  /\ router' = Decided.route
  /\ task' = [task EXCEPT !.at = "report"]
  /\ UNCHANGED <<world, config, cache, app, inbox, posts>>

AppState ==
  [mode |-> live.mode, route |-> Decided.route, demoted |-> Decided.demoted,
   in_office |-> task.in_office, health |-> task.health, port |-> live.bridge_port]

\* The answer goes out at the very end, when the state is already the new one.
Report ==
  /\ task.at = "report"
  /\ app' = AppState
  /\ task' = AtRest("recv")
  /\ posts' = [p \in Posts |->
                 IF p = task.reply /\ posts[p].at = "waiting"
                 THEN Over(task.outcome) ELSE posts[p]]
  /\ UNCHANGED <<world, config, cache, router, inbox>>

\* PROBE_TTL passes.
Expire ==
  /\ cache # None /\ cache.fresh
  /\ cache' = [cache EXCEPT !.fresh = FALSE]
  /\ UNCHANGED <<world, config, router, app, task, inbox, posts>>

World ==
  /\ \/ alive' \in SUBSET Addrs /\ UNCHANGED connected
     \/ connected' \in SUBSET Nets /\ UNCHANGED alive
  /\ UNCHANGED <<config, cache, router, app, task, inbox, posts>>

-----------------------------------------------------------------------------
\* The first reevaluate runs before the listener is bound, from "look".
Init ==
  /\ alive \in SUBSET Addrs /\ connected \in SUBSET Nets
  /\ saved \in Configs /\ disk = saved /\ shared = saved /\ live = saved
  /\ bound = saved.bridge_port
  /\ cache = None
  /\ router = DirectRoute
  /\ app = None
  /\ task = AtRest("look")
  /\ inbox = <<>>
  /\ posts = [p \in Posts |-> Over("idle")]

Task ==
  \/ TakeReevaluate \/ TakeChange \/ LookAround
  \/ ProbeOne("socks") \/ ProbeOne("http") \/ Remember \/ Publish \/ Report

Next ==
  \/ Task
  \/ Wake \/ Expire \/ World
  \/ \E m \in TrayModes : ClickMode(m)
  \/ \E p \in Posts : Send(p) \/ GiveUp(p) \/ \E f \in Forms : Submit(p, f)

Spec == Init /\ [][Next]_vars

\* The task is scheduled, a dial ends (it has a timeout), time passes, and the
\* timer's send gets its place: the channel serves waiting senders in turn.
FairSpec == Spec /\ WF_vars(Task) /\ WF_vars(Expire) /\ SF_vars(Wake)

-----------------------------------------------------------------------------
(* Properties.                                                             *)

TypeOK ==
  /\ alive \subseteq Addrs /\ connected \subseteq Nets
  /\ {saved, disk, shared, live} \subseteq Configurations
  /\ cache # None => cache \in [fresh : BOOLEAN, probed : Upstreams, health : Health]
  /\ router \in Routes
  /\ task.at \in {"recv", "look", "probe", "publish", "report"}
  /\ task.reply \in Posts \cup {None} /\ task.outcome \in {"saved", "unsaved", None}
  /\ Len(inbox) <= InboxSize
  /\ \A p \in Posts :
       /\ posts[p].at \in {"idle", "sending", "waiting", "saved", "unsaved", "late"}
       /\ posts[p].at \in {"sending", "waiting"} => posts[p].config \in Configurations

\* Between two commands, what the tray shows is what the bridge does: the route
\* is the published one, a proxied route names an upstream of the configuration
\* in force that was seen up and that the mode allows, and a demotion is shown
\* exactly when a pinned mode had to give way to Direct.  And whatever the page
\* saves, the menu and the diagnosis name the port that is being listened on.
StateIsHonest ==
  TypeOK /\ (app # None /\ task.at = "recv" =>
    /\ router = app.route /\ app.mode = live.mode /\ app.port = bound
    /\ app.route # DirectRoute =>
         LET via == app.route.via
         IN  /\ app.route.addr = Ups(live)[via]
             /\ app.health[via] = "up"
             /\ app.mode = via \/ (app.mode = "auto" /\ app.in_office)
    /\ app.demoted <=> app.mode \in {"socks", "http"} /\ app.route = DirectRoute)

\* When the page is told "saved and applied", the file holds what it sent, the
\* supervisor runs with it except for the port, and the route in use already
\* comes from it.
SavedMeansSavedAndApplied ==
  [][\A p \in Posts :
       posts[p].at = "waiting" /\ posts'[p].at = "saved" =>
         /\ disk = posts[p].config
         /\ live = [disk EXCEPT !.bridge_port = bound]
         /\ router = app'.route
         /\ router # DirectRoute => router.addr = Ups(posts[p].config)[router.via]
    ]_vars

\* The route the world as it is now calls for.
Right ==
  LET up == Ups(saved)
  IN  Decide(saved.mode, up, InOffice(saved.offices, connected),
             [socks |-> Probe(up.socks), http |-> Probe(up.http)]).route

\* Once the world and the settings are still, the route becomes right and stays
\* so: also for an upstream that died without any change of the network.
Converges ==
  <>[][UNCHANGED <<alive, connected, saved>>]_vars => <>[](router = Right)
=============================================================================
