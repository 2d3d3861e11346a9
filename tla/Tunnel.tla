------------------------------- MODULE Tunnel -------------------------------
(***************************************************************************)
(* The OpenVPN tunnel as the settings page sees it and works it            *)
(* (crates/app/src/main.rs, WinTunnel; settings_page.rs; crates/winnet:    *)
(* openvpn.rs, tunnel_log.rs, tunnel_state.rs, routes.rs).  ProxyPilot     *)
(* never talks to OpenVPN: it starts openvpn-gui.exe with a command, reads *)
(* the log that OpenVPN writes, and looks for the office networks among    *)
(* the routes of all tunnel adapters.  None of the three says whose tunnel *)
(* an adapter is, and they are read one after the other.                   *)
(***************************************************************************)
EXTENDS Integers, FiniteSets, Sequences

CONSTANTS
  Width,     \* the length of an address in bits
  Subnets,   \* office_subnets of the configuration: [addr, prefix]
  Others,    \* the routes another tunnel may carry
  Handlers,  \* requests at work
  Clicks,    \* bound: so many of them
  Events,    \* bound: so many times the world changes by itself
  Mishaps    \* what may go wrong, see MayHappen

NoNet == [addr |-> 0, prefix |-> Width + 1]

ASSUME TunnelAssumption ==
  /\ Width \in Nat /\ Clicks \in Nat /\ Events \in Nat
  /\ \A n \in Subnets \cup Others : n.addr \in 0 .. 2 ^ Width - 1 /\ n.prefix \in 0 .. Width

VARIABLES
  installed, \* openvpn-gui.exe is where it should be
  source,    \* where the administrator's profile was put: user, program
  profile,   \* our profile: none, torn while it is written, whole
  gui,       \* commands given to openvpn-gui.exe that it has not carried out
  ours,      \* our openvpn.exe: off, connecting, up
  routed,    \* its routes are in the table
  log,       \* the last thing its log says: none, begun, up, ended
  killed,    \* it was killed since it last began: the log does not know
  foreign,   \* the route of another tunnel, or NoNet
  readable,  \* which of log and routes can be read
  handler,   \* requests, see Idle
  clicks, events

tunnelVars == <<installed, source, profile, gui, ours, routed, log, killed, foreign,
                readable, handler, clicks, events>>
machine == <<installed, source, readable>>
process == <<ours, routed, log, killed>>

Answers == {"yes", "no", "error"}

\* TunnelSnapshot::default, which says that OpenVPN is not installed.
Snapshot == [installed |-> FALSE, profile |-> FALSE, up |-> FALSE, rising |-> FALSE,
             foreign |-> FALSE, livenessError |-> FALSE, routesError |-> FALSE]
Snapshots == [installed : BOOLEAN, profile : BOOLEAN, up : BOOLEAN, rising : BOOLEAN,
              foreign : BOOLEAN, livenessError : BOOLEAN, routesError : BOOLEAN]

\* A request: what it is for, what it has read and what the snapshot says so far.
\* busy: another tunnel has carried the office networks since the request began;
\* steady: ours has been up since then; excused: when the log was read, ours was up
\* or had been killed.
Idle == [at |-> "idle", for |-> "page", log |-> "no", listed |-> {}, snap |-> Snapshot,
         busy |-> FALSE, steady |-> FALSE, excused |-> FALSE]
Requests == [at : {"idle", "profile", "log", "adapters", "routes", "raise", "drawn", "write"},
             for : {"page", "raise"}, log : Answers, listed : SUBSET {"ours", "other"},
             snap : Snapshots, busy : BOOLEAN, steady : BOOLEAN, excused : BOOLEAN]

TunnelTypeOK ==
  /\ installed \in BOOLEAN /\ source \subseteq {"user", "program"}
  /\ profile \in {"none", "torn", "whole"} /\ gui \subseteq {"connect", "disconnect"}
  /\ ours \in {"off", "connecting", "up"} /\ routed \in BOOLEAN
  /\ log \in {"none", "begun", "up", "ended"} /\ killed \in BOOLEAN
  /\ foreign \in Others \cup {NoNet} /\ readable \subseteq {"log", "routes"}
  /\ handler \in [Handlers -> Requests]
  /\ clicks \in 0 .. Clicks /\ events \in 0 .. Events

TunnelInit ==
  /\ installed \in BOOLEAN /\ source \in SUBSET {"user", "program"} /\ profile = "none"
  /\ gui = {} /\ ours = "off" /\ routed = FALSE /\ log = "none" /\ killed = FALSE
  /\ foreign \in Others \cup {NoNet}
  /\ readable = {"log", "routes"}
  /\ handler = [h \in Handlers |-> Idle]
  /\ clicks = 0 /\ events = 0

MayHappen(what) == what \in Mishaps /\ events < Events /\ events' = events + 1
Click == clicks < Clicks /\ clicks' = clicks + 1
Goto(h, at) == handler' = [handler EXCEPT ![h].at = at]
Finish(h) == handler' = [handler EXCEPT ![h] = Idle]

-----------------------------------------------------------------------------
(* tunnel_state.rs: which routes carry which networks.                     *)

\* range: the host bits do not matter, and a /0 has no network bits.
NetStart(net) == net.addr - (net.addr % (2 ^ (Width - net.prefix)))
NetEnd(net) == NetStart(net) + 2 ^ (Width - net.prefix) - 1
Overlaps(a, b) == NetStart(a) <= NetEnd(b) /\ NetStart(b) <= NetEnd(a)

CarriesOffice(routes) == \E r \in Subnets, d \in routes : Overlaps(r, d)

ForeignCarries == foreign # NoNet /\ CarriesOffice({foreign})

\* The tunnel adapters there are.  is_tunnel_if_type is told by the adapter, so
\* a route of an adapter that was not there when the adapters were listed is
\* not taken for a tunnel's.  Our tunnel has a route to each office network, as
\* the profile was built.
TunnelAdapters ==
  (IF ours # "off" THEN {"ours"} ELSE {}) \cup (IF foreign # NoNet THEN {"other"} ELSE {})
AnyTunnelCarries(listed) ==
  \/ "ours" \in listed /\ routed /\ CarriesOffice(Subnets)
  \/ "other" \in listed /\ ForeignCarries

\* What if any line saying that it was up would do?
LogUp_Ever ==
  IF "log" \notin readable THEN "error" ELSE IF log \in {"up", "ended"} THEN "yes" ELSE "no"

\* tunnel_log: up unless an end or a restart is noted behind it.
LogUp ==
  IF "log" \notin readable THEN "error" ELSE IF log = "up" THEN "yes" ELSE "no"

-----------------------------------------------------------------------------
(* WinTunnel::snapshot and the section of the page.                        *)

\* What if a log that cannot be read counted as one that says down?
CombineTunnelFacts_LogErrorIsDown(snap, logUp, carries) ==
  CASE logUp = "yes" /\ carries = "error" -> [snap EXCEPT !.livenessError = TRUE]
    [] logUp # "yes" /\ carries = "error" -> [snap EXCEPT !.routesError = TRUE]
    [] logUp = "yes" /\ carries = "yes" -> [snap EXCEPT !.up = TRUE]
    [] logUp = "yes" /\ carries = "no" -> [snap EXCEPT !.rising = TRUE]
    [] OTHER -> [snap EXCEPT !.foreign = (carries = "yes")]

\* Up needs both the log and the routes; without the log nothing is known.
CombineTunnelFacts(snap, logUp, carries) ==
  CASE logUp = "error" \/ (logUp = "yes" /\ carries = "error") ->
         [snap EXCEPT !.livenessError = TRUE]
    [] logUp = "yes" /\ carries = "yes" -> [snap EXCEPT !.up = TRUE]
    [] logUp = "yes" /\ carries = "no" -> [snap EXCEPT !.rising = TRUE]
    [] logUp = "no" /\ carries = "error" -> [snap EXCEPT !.routesError = TRUE]
    [] OTHER -> [snap EXCEPT !.foreign = (carries = "yes")]

\* tunnel_section: what it says and which buttons it draws, in this order.
Section(snap) ==
  CASE ~snap.installed -> [says |-> "unavailable", buttons |-> {}]
    [] snap.installed /\ snap.livenessError -> [says |-> "unknown", buttons |-> {"raise", "lower"}]
    [] snap.installed /\ ~snap.livenessError ->
         CASE snap.up -> [says |-> "up", buttons |-> {"lower"}]
           [] snap.rising /\ ~snap.up -> [says |-> "rising", buttons |-> {"lower"}]
           [] snap.routesError -> [says |-> "unchecked", buttons |-> {}]
           [] snap.foreign -> [says |-> "busy", buttons |-> {}]
           [] OTHER -> [says |-> "down", buttons |-> IF snap.profile THEN {"raise"} ELSE {}]

\* tunnel_text: the line of the menu, with tests of its own in the order of the page's.
TunnelText(snap) ==
  IF ~snap.installed THEN "unavailable"
  ELSE CASE snap.livenessError -> "unknown"
         [] snap.up -> "up"
         [] snap.rising -> "rising"
         [] snap.routesError -> "unchecked"
         [] snap.foreign -> "busy"
         [] OTHER -> "down"

Carries(listed) ==
  IF "routes" \notin readable THEN "error"
  ELSE IF AnyTunnelCarries(listed) THEN "yes" ELSE "no"

-----------------------------------------------------------------------------
(* handle_post.  A form may come from a page that was drawn long ago, so    *)
(* every action may be asked for at any time.                              *)

\* find_installation: the registry may refuse to be read.
NotFound == ~installed \/ "registry" \in Mishaps

\* WinTunnel::snapshot, for a page (or the line of the menu, or the page that answers
\* a form) or for raise_tunnel, in five readings ...
Begin(h, for) ==
  /\ handler[h].at = "idle" /\ Click
  /\ LET r == [Idle EXCEPT !.for = for, !.busy = ForeignCarries, !.steady = (ours = "up")]
     IN \/ installed /\ handler' = [handler EXCEPT ![h] =
                      [r EXCEPT !.at = "profile", !.snap.installed = TRUE]]
        \* ... or none: the default is returned, and not finding the program is an answer.
        \/ NotFound /\ handler' = [handler EXCEPT ![h] =
                         [r EXCEPT !.at = IF for = "raise" THEN "raise" ELSE "drawn"]]
  /\ UNCHANGED <<machine, process, profile, gui, foreign, events>>

\* profile_status: torn or whole, it is a file.
ReadProfile(h) ==
  /\ handler[h].at = "profile"
  /\ handler' = [handler EXCEPT ![h].at = "log", ![h].snap.profile = installed /\ profile # "none"]
  /\ UNCHANGED <<machine, process, profile, gui, foreign, clicks, events>>

ReadLog(h) ==
  /\ handler[h].at = "log"
  /\ handler' = [handler EXCEPT ![h].at = "adapters", ![h].log = LogUp,
                                ![h].excused = (ours = "up" \/ killed)]
  /\ UNCHANGED <<machine, process, profile, gui, foreign, clicks, events>>

\* The adapters before the table.
ReadAdapters(h) ==
  /\ handler[h].at = "adapters"
  /\ handler' = [handler EXCEPT ![h].at = "routes", ![h].listed = TunnelAdapters]
  /\ UNCHANGED <<machine, process, profile, gui, foreign, clicks, events>>

\* What if an error reading the routes let the command through?
Blocked_ErrorPasses(snap) ==
  ~snap.livenessError /\ ~snap.up /\ ~snap.rising /\ snap.foreign

\* Only what is known to be in the way stops the command.
Blocked(snap) ==
  ~snap.livenessError /\ ~snap.up /\ ~snap.rising /\ (snap.routesError \/ snap.foreign)

ReadRoutes(h) ==
  /\ handler[h].at = "routes"
  /\ LET snap == CombineTunnelFacts(handler[h].snap, handler[h].log, Carries(handler[h].listed))
     IN IF handler[h].for = "raise" /\ Blocked(snap) THEN Finish(h)
        ELSE handler' = [handler EXCEPT
               ![h].at = IF handler[h].for = "raise" THEN "raise" ELSE "drawn", ![h].snap = snap]
  /\ UNCHANGED <<machine, process, profile, gui, foreign, clicks, events>>

\* The page is sent.
Send(h) ==
  /\ handler[h].at = "drawn" /\ Finish(h)
  /\ UNCHANGED <<machine, process, profile, gui, foreign, clicks, events>>

\* run_gui_command: the program is looked for again and started; Ok means that
\* the command was handed over.
Command(verb) ==
  /\ \/ installed /\ gui' = gui \cup {verb}
     \/ NotFound /\ UNCHANGED gui
  /\ UNCHANGED <<machine, process, profile, foreign>>

Connect(h) ==
  /\ handler[h].at = "raise" /\ Finish(h)
  /\ Command("connect")
  /\ UNCHANGED <<clicks, events>>

Lower(h) ==
  /\ handler[h].at = "idle" /\ Click
  /\ Command("disconnect")
  /\ UNCHANGED <<handler, events>>

\* build_profile: the source from the user's directory or from the program's,
\* unless it cannot be read, is refused by Profile.tla or the directory cannot
\* be made; then the file is truncated and written.
BuildProfile(h) ==
  /\ handler[h].at = "idle" /\ Click
  /\ \/ installed /\ source # {} /\ Goto(h, "write") /\ profile' = "torn"
     \/ (NotFound \/ source = {} \/ "disk" \in Mishaps) /\ UNCHANGED <<handler, profile>>
  /\ UNCHANGED <<machine, process, gui, foreign, events>>

InstallProfile(h) ==
  /\ handler[h].at = "write" /\ Finish(h)
  /\ profile' = "whole" \/ ("disk" \in Mishaps /\ UNCHANGED profile)
  /\ UNCHANGED <<machine, process, gui, foreign, clicks, events>>

-----------------------------------------------------------------------------
(* OpenVPN and the rest of the machine.                                    *)

Out(verb) == gui' = gui \ {verb}

\* The GUI begins a connection, with an empty log, unless there is one; every
\* command comes from a process of its own, so they may overtake each other.
GuiConnects ==
  /\ "connect" \in gui /\ Out("connect")
  /\ IF ours = "off" /\ profile # "none"
     THEN ours' = "connecting" /\ log' = "begun" /\ killed' = FALSE /\ UNCHANGED routed
     ELSE UNCHANGED process
  /\ UNCHANGED <<machine, profile, foreign, handler, clicks, events>>

Ended == ours' = "off" /\ routed' = FALSE /\ log' = "ended" /\ UNCHANGED killed
\* Requests at work note that ours is not up any more.
NoLongerUp == handler' = [h \in Handlers |-> [handler[h] EXCEPT !.steady = FALSE]]

GuiDisconnects ==
  /\ "disconnect" \in gui /\ Out("disconnect")
  /\ IF ours = "off" THEN UNCHANGED <<process, handler>> ELSE Ended /\ NoLongerUp
  /\ UNCHANGED <<machine, profile, foreign, clicks, events>>

\* The log and the routes follow each other in either order.
Connected ==
  /\ ours = "connecting" /\ profile = "whole"
  /\ ours' = "up" /\ log' = "up" /\ UNCHANGED <<routed, killed>>
  /\ UNCHANGED <<machine, profile, gui, foreign, handler, clicks, events>>

RoutesIn ==
  /\ ours # "off" /\ ~routed /\ profile = "whole"
  /\ routed' = TRUE /\ UNCHANGED <<ours, log, killed>>
  /\ UNCHANGED <<machine, profile, gui, foreign, handler, clicks, events>>

\* It ends; it restarts, which the log notes, and may keep its routes; it is killed.
OpenVpnEnds ==
  /\ ours # "off" /\ NoLongerUp
  /\ \/ MayHappen("end") /\ Ended
     \/ /\ MayHappen("restart") /\ ours = "up"
        /\ ours' = "connecting" /\ log' = "ended" /\ routed' \in {routed, FALSE}
        /\ UNCHANGED killed
     \/ /\ MayHappen("kill")
        /\ ours' = "off" /\ routed' = FALSE /\ killed' = TRUE /\ UNCHANGED log
  /\ UNCHANGED <<machine, profile, gui, foreign, clicks>>

\* Another tunnel comes or goes; requests at work note that it went.
OtherTunnel ==
  /\ MayHappen("foreign")
  /\ foreign' \in (Others \cup {NoNet}) \ {foreign}
  /\ handler' = [h \in Handlers |-> [handler[h] EXCEPT
                   !.busy = @ /\ CarriesOffice({foreign'} \ {NoNet})]]
  /\ UNCHANGED <<machine, process, profile, gui, clicks>>

\* A file or the table cannot be read for a while; OpenVPN is installed or
\* removed; the administrator's profile is put somewhere.
Machine ==
  /\ \/ MayHappen("unreadable") /\ readable' \in SUBSET {"log", "routes"} \ {readable}
        /\ UNCHANGED <<installed, source>>
     \/ MayHappen("install") /\ installed' = ~installed /\ UNCHANGED <<source, readable>>
  /\ UNCHANGED <<process, profile, gui, foreign, handler, clicks>>

TunnelNext ==
  \/ \E h \in Handlers :
       \/ \E for \in {"page", "raise"} : Begin(h, for)
       \/ ReadProfile(h) \/ ReadLog(h) \/ ReadAdapters(h) \/ ReadRoutes(h)
       \/ Send(h) \/ Connect(h) \/ Lower(h) \/ BuildProfile(h) \/ InstallProfile(h)
  \/ GuiConnects \/ GuiDisconnects \/ Connected \/ RoutesIn
  \/ OpenVpnEnds \/ OtherTunnel \/ Machine

-----------------------------------------------------------------------------
(* Properties.                                                             *)

\* Neither a log of the last session nor the routes of somebody else are taken
\* for our tunnel.
SaysUpOnlyWhenUp(r) == Section(r.snap).says = "up" => r.excused

\* Whatever the routes say and whatever cannot be read, the button is there.
UpCanBeLowered(r) == r.snap.installed /\ r.steady => "lower" \in Section(r.snap).buttons

\* A raise over another tunnel is not offered, unless nothing is known.
BusyIsNotRaised(r) ==
  r.busy /\ "raise" \in Section(r.snap).buttons => Section(r.snap).says = "unknown"

MenuAgrees(r) == TunnelText(r.snap) = Section(r.snap).says

\* What a page says of the tunnel although its readings come one after the other.
\* It says up only if ours was up when its log was read, or had been killed, which
\* the log does not know: by the time the page is drawn it may have ended, and the
\* routes that bear the log out may be another tunnel's.  Who has had a tunnel up
\* since the readings began can lower it; who had one for a part of that time may
\* be told that the routes are busy.  No raise is offered over another tunnel that
\* has carried the office networks since then, unless the log could not be read.
\* A page for which OpenVPN was not found, be it because the registry could not be
\* read, says unavailable and has no buttons, whatever the tunnel does.  And the menu
\* says what the page says of the same snapshot.
SectionIsHonest ==
  \A h \in Handlers : handler[h].at = "drawn" =>
    /\ SaysUpOnlyWhenUp(handler[h]) /\ UpCanBeLowered(handler[h])
    /\ BusyIsNotRaised(handler[h]) /\ MenuAgrees(handler[h])

\* The page does not start a tunnel over another one that carries the office
\* networks: a raise is passed on only if that one came after the request, or
\* the log could not be read, or it said that ours was up, as it was unless it
\* had been killed; or if OpenVPN was not found for the snapshot, for then nothing
\* has been looked at, and raise() searches again and may find it.
NoSecondTunnel ==
  [][\A h \in Handlers :
       handler[h].at = "raise" /\ handler'[h].at = "idle" /\ handler[h].busy =>
         \/ handler[h].log = "error" \/ (handler[h].log = "yes" /\ handler[h].excused)
         \/ ~handler[h].snap.installed]_tunnelVars
=============================================================================
