------------------------------ MODULE SysProxy ------------------------------
(***************************************************************************)
(* The life of the Windows proxy setting while ProxyPilot instances come   *)
(* and go: `take_over' and `restore' (app/src/proxy.rs), the three-value   *)
(* registry write beneath them (winnet/src/sysproxy.rs), the configuration *)
(* file that must remember the user's setting (core/src/config.rs), and    *)
(* the start and exit paths of app/src/main.rs that call them.             *)
(*                                                                         *)
(* A registry write is not atomic: ProxyServer, ProxyOverride and          *)
(* ProxyEnable are separate steps, each may fail, and the process may be   *)
(* killed between any two.  The registry and the file outlive a process;   *)
(* everything indexed by an instance does not.                             *)
(***************************************************************************)
CONSTANTS
  Procs,        \* ProxyPilot instances (processes); a dead one may start again
  Ports,        \* loopback ports the listener may be configured for; as a
                \* ProxyServer value, port p stands for "127.0.0.1:p"
  UserServers,  \* ProxyServer values that are not ours
  NoServer,     \* the empty ProxyServer
  UserBypasses, \* ProxyOverride values that are not ours
  NoBypass,     \* the empty ProxyOverride
  OurBypass,    \* to_bypass_string(cfg.no_proxy)
  None,         \* Option::None
  Faults        \* which faults of the environment this instance allows

\* Every fault the model knows.
AllFaults ==
  { "kill",             \* the process is killed outside a registry change
    "kill-in-write",    \* ... while the three values are being changed
    "kill-in-start",    \* ... while another instance is between load and bind
    "takeover-write",   \* a registry write or a notification fails in take_over
    "restore-write",    \* ... in restore
    "restore-read",     \* restore cannot read the registry
    "save",             \* Config::save fails
    "untick",           \* the user flips ProxyEnable and leaves the address
    "edit-in-window",   \* somebody edits the registry under a take_over or restore
    "erase-config",     \* the configuration file is deleted
    "bridge-stop",      \* the accept loop gives up and the port closes
    "overlap" }         \* an instance is started while another one lives

ASSUME ServersAssumption ==
  /\ NoServer \in UserServers
  /\ UserServers \cap Ports = {}
ASSUME BypassAssumption == NoBypass \in UserBypasses
ASSUME FaultsAssumption == Faults \subseteq AllFaults

SysProxySettings ==
  [enabled : BOOLEAN, server : UserServers \cup Ports,
   bypass : UserBypasses \cup {OurBypass}]

\* What a person or a group policy may put into the registry.
UserSettings == [enabled : BOOLEAN, server : UserServers, bypass : UserBypasses]

Default == [enabled |-> FALSE, server |-> NoServer, bypass |-> NoBypass]

Ours(p) == [enabled |-> TRUE, server |-> p, bypass |-> OurBypass]

Config ==
  [bridge_port : Ports,
   manage_system_proxy : BOOLEAN,
   saved_sysproxy : SysProxySettings \cup {None}]

\* The content of ORIGINAL.
Taken == [original : SysProxySettings, our_port : Ports]

ASSUME NoneAssumption ==
  None \notin SysProxySettings \cup Config \cup Taken \cup Ports

VARIABLES
  registry,   \* HKCU Internet Settings
  disk,       \* config.toml
  wanted,     \* history: the setting the user last made himself
  harmed,     \* history: an instance was killed, or could not write a setting back
  pc,         \* pc[i]: where the main thread of instance i is
  write,      \* write[i]: the registry write `apply' performs next
  arg,        \* arg[i]: `original' in take_over, then the record `apply' writes
  cell,       \* cell[i]: the global ORIGINAL
  mem,        \* mem[i]: the configuration in memory
  port,       \* port[i]: the bound port
  listening   \* listening[i]: the bridge accepts connections

env  == <<registry, disk, wanted, harmed>>
vars == <<registry, disk, wanted, harmed, pc, write, arg, cell, mem, port, listening>>

TypeOK ==
  /\ registry \in SysProxySettings
  /\ disk \in Config
  /\ wanted \in SysProxySettings
  /\ harmed \in BOOLEAN
  /\ pc \in [Procs -> {"off", "loaded", "bound", "save", "take_over", "run", "exit",
                     "restore"}]
  /\ write \in [Procs -> {"server", "override", "enable", "notify", None}]
  /\ arg \in [Procs -> SysProxySettings \cup {None}]
  /\ cell \in [Procs -> Taken \cup {None}]
  /\ mem \in [Procs -> Config \cup {None}]
  /\ port \in [Procs -> Ports \cup {None}]
  /\ listening \in [Procs -> BOOLEAN]

-----------------------------------------------------------------------------
(* Reading the registry.                                                   *)

ServerPointsAtPort(setting, p) == setting.server = p

\* Our own trace left by a killed process: switched on and pointing at our port.
IsStalePointer(setting, p) == setting.enabled /\ ServerPointsAtPort(setting, p)

Alive(i) == pc[i] # "off"
Applying(i) == pc[i] \in {"take_over", "restore"}
\* Between reading the registry and the last write that relies on what was read.
InWindow(i) == pc[i] = "save" \/ Applying(i)

\* The process ends: its memory is gone, its listener is closed.
Gone(i) ==
  /\ pc' = [pc EXCEPT ![i] = "off"]
  /\ write' = [write EXCEPT ![i] = None]
  /\ arg' = [arg EXCEPT ![i] = None]
  /\ cell' = [cell EXCEPT ![i] = None]
  /\ mem' = [mem EXCEPT ![i] = None]
  /\ port' = [port EXCEPT ![i] = None]
  /\ listening' = [listening EXCEPT ![i] = FALSE]

Goto(i, where) == pc' = [pc EXCEPT ![i] = where]

\* take_over returns to run_logged.
Return(i, where) ==
  /\ Goto(i, where)
  /\ write' = [write EXCEPT ![i] = None]
  /\ arg' = [arg EXCEPT ![i] = None]
  /\ UNCHANGED <<cell, mem, port, listening>>

-----------------------------------------------------------------------------
(* Start.                                                                  *)

\* Read the configuration.  The first probes are awaited between this and the
\* bind, so what was read may be stale by then.
Load(i) ==
  /\ pc[i] = "off"
  /\ (\E j \in Procs : Alive(j)) => "overlap" \in Faults
  /\ mem' = [mem EXCEPT ![i] = disk]
  /\ port' = [port EXCEPT ![i] = disk.bridge_port]
  /\ Goto(i, "loaded")
  /\ UNCHANGED <<env, write, arg, cell, listening>>

Busy(p) == \E j \in Procs : listening[j] /\ port[j] = p

\* What if a second listener could share the port?
Bind_Shared(i) ==
  /\ pc[i] = "loaded"
  /\ listening' = [listening EXCEPT ![i] = TRUE]
  /\ Goto(i, "bound")
  /\ UNCHANGED <<env, write, arg, cell, mem, port>>

\* Take the port and start serving; a busy port ends the start before anything
\* is touched.
Bind(i) ==
  /\ pc[i] = "loaded"
  /\ \/ /\ ~Busy(port[i])
        /\ listening' = [listening EXCEPT ![i] = TRUE]
        /\ Goto(i, "bound")
        /\ UNCHANGED <<write, arg, cell, mem, port>>
     \/ Busy(port[i]) /\ Gone(i)
  /\ UNCHANGED env

\* manage_system_proxy = false: the registry is left alone.
SkipTakeOver(i) ==
  /\ pc[i] = "bound" /\ ~mem[i].manage_system_proxy
  /\ Goto(i, "run")
  /\ UNCHANGED <<env, write, arg, cell, mem, port, listening>>

\* What if take_over did not look for a trace of its own?
Original_TraceIgnored(i) == registry

\* What take_over regards as the user's own setting.
Original(i) ==
  IF ~IsStalePointer(registry, port[i]) THEN registry
  ELSE IF mem[i].saved_sysproxy # None THEN mem[i].saved_sysproxy
  ELSE Default

\* take_over, first half: read the registry.
ReadRegistry(i) ==
  /\ pc[i] = "bound" /\ mem[i].manage_system_proxy
  /\ arg' = [arg EXCEPT ![i] = Original(i)]
  /\ Goto(i, "save")
  /\ UNCHANGED <<env, write, cell, mem, port, listening>>

\* The tray could not be made, or take_over could not read the registry.
StartFails(i) ==
  /\ pc[i] = "bound"
  /\ Goto(i, "exit")
  /\ UNCHANGED <<env, write, arg, cell, mem, port, listening>>

\* What if ORIGINAL were filled only after `apply' had succeeded?
SaveOriginal_CellLater(i) ==
  /\ pc[i] = "save"
  /\ mem' = [mem EXCEPT ![i].saved_sysproxy = arg[i]]
  /\ disk' = mem'[i]
  /\ arg' = [arg EXCEPT ![i] = Ours(port[i])]
  /\ write' = [write EXCEPT ![i] = "server"]
  /\ Goto(i, "take_over")
  /\ UNCHANGED <<registry, wanted, harmed, cell, port, listening>>

\* take_over, second half: the original goes to disk, then into ORIGINAL, and
\* only then does `apply' begin to write our address.
SaveOriginal(i) ==
  /\ pc[i] = "save"
  /\ mem' = [mem EXCEPT ![i].saved_sysproxy = arg[i]]
  /\ disk' = mem'[i]
  /\ cell' = [cell EXCEPT ![i] = [original |-> arg[i], our_port |-> port[i]]]
  /\ arg' = [arg EXCEPT ![i] = Ours(port[i])]
  /\ write' = [write EXCEPT ![i] = "server"]
  /\ Goto(i, "take_over")
  /\ UNCHANGED <<registry, wanted, harmed, port, listening>>

SaveOriginalFails(i) ==
  /\ pc[i] = "save" /\ "save" \in Faults
  /\ Return(i, "exit")
  /\ UNCHANGED env

-----------------------------------------------------------------------------
(* sysproxy::apply, called by take_over and by restore.                    *)

WriteServer(i) ==
  /\ Applying(i) /\ write[i] = "server"
  /\ registry' = [registry EXCEPT !.server = arg[i].server]
  /\ write' = [write EXCEPT ![i] = "override"]
  /\ UNCHANGED <<disk, wanted, harmed, pc, arg, cell, mem, port, listening>>

WriteOverride(i) ==
  /\ Applying(i) /\ write[i] = "override"
  /\ registry' = [registry EXCEPT !.bypass = arg[i].bypass]
  /\ write' = [write EXCEPT ![i] = "enable"]
  /\ UNCHANGED <<disk, wanted, harmed, pc, arg, cell, mem, port, listening>>

WriteEnable(i) ==
  /\ Applying(i) /\ write[i] = "enable"
  /\ registry' = [registry EXCEPT !.enabled = arg[i].enabled]
  /\ write' = [write EXCEPT ![i] = "notify"]
  /\ UNCHANGED <<disk, wanted, harmed, pc, arg, cell, mem, port, listening>>

\* SETTINGS_CHANGED and REFRESH have been sent; apply returns Ok.
Applied(i) ==
  /\ Applying(i) /\ write[i] = "notify"
  /\ \/ pc[i] = "take_over" /\ Return(i, "run")
     \/ pc[i] = "restore" /\ Gone(i)
  /\ UNCHANGED env

\* Any write, or the notification, fails and apply returns Err: a failed
\* take_over leaves `run_logged' through the guard, a failed restore is logged.
ApplyFails(i) ==
  /\ \/ pc[i] = "take_over" /\ "takeover-write" \in Faults /\ Return(i, "exit") /\ UNCHANGED harmed
     \/ pc[i] = "restore" /\ "restore-write" \in Faults /\ Gone(i) /\ harmed' = TRUE
  /\ UNCHANGED <<registry, disk, wanted>>

-----------------------------------------------------------------------------
(* Running and leaving.                                                    *)

\* What if the command task had cloned the configuration before take_over?
ApplyConfig_EarlyClone(i) ==
  /\ pc[i] = "run"
  /\ \E p \in Ports, m \in BOOLEAN :
       mem' = [mem EXCEPT ![i] = [bridge_port |-> p, manage_system_proxy |-> m,
                                  saved_sysproxy |-> None]]
  /\ \/ disk' = mem'[i]
     \/ "save" \in Faults /\ UNCHANGED disk
  /\ UNCHANGED <<registry, wanted, harmed, pc, write, arg, cell, port, listening>>

\* The command task stores a configuration: whatever the page changed, the
\* saved_sysproxy that take_over put there goes along.
ApplyConfig(i) ==
  /\ pc[i] = "run"
  /\ \E p \in Ports, m \in BOOLEAN :
       mem' = [mem EXCEPT ![i].bridge_port = p, ![i].manage_system_proxy = m]
  /\ \/ disk' = mem'[i]
     \/ "save" \in Faults /\ UNCHANGED disk
  /\ UNCHANGED <<registry, wanted, harmed, pc, write, arg, cell, port, listening>>

\* Quit in the menu, WM_ENDSESSION, WM_QUIT or a failing message loop.
Quit(i) ==
  /\ pc[i] = "run"
  /\ Goto(i, "exit")
  /\ UNCHANGED <<env, write, arg, cell, mem, port, listening>>

\* serve() returned or panicked, at any time since the bind: the listener is dropped.
BridgeStops(i) ==
  /\ listening[i] /\ "bridge-stop" \in Faults
  /\ listening' = [listening EXCEPT ![i] = FALSE]
  /\ UNCHANGED <<env, pc, write, arg, cell, mem, port>>

\* What if nobody awaited the JoinHandle of serve()?
BridgeWatchExit_Unwatched(i) == FALSE

\* The message loop sees BRIDGE_STOPPED and leaves.
BridgeWatchExit(i) ==
  /\ pc[i] = "run" /\ ~listening[i]
  /\ Goto(i, "exit")
  /\ UNCHANGED <<env, write, arg, cell, mem, port, listening>>

\* restore(): take ORIGINAL, and write it back unless the registry no longer
\* points at us.  When the registry cannot be read it writes blindly.
Restore(i) ==
  /\ pc[i] = "exit"
  /\ \/ cell[i] = None /\ Gone(i)
     \/ /\ cell[i] # None
        /\ ~ServerPointsAtPort(registry, cell[i].our_port)
        /\ Gone(i)
     \/ /\ cell[i] # None
        /\ \/ ServerPointsAtPort(registry, cell[i].our_port)
           \/ "restore-read" \in Faults
        /\ arg' = [arg EXCEPT ![i] = cell[i].original]
        /\ cell' = [cell EXCEPT ![i] = None]
        /\ write' = [write EXCEPT ![i] = "server"]
        /\ Goto(i, "restore")
        /\ UNCHANGED <<mem, port, listening>>
  /\ UNCHANGED env

\* The process is killed (or the power fails).
Kill(i) ==
  /\ Alive(i)
  /\ IF Applying(i) \/ pc[i] = "exit" THEN "kill-in-write" \in Faults ELSE "kill" \in Faults
  /\ (\E j \in Procs \ {i} : pc[j] = "loaded") => "kill-in-start" \in Faults
  /\ Gone(i)
  /\ harmed' = TRUE
  /\ UNCHANGED <<registry, disk, wanted>>

-----------------------------------------------------------------------------
(* Everybody else.                                                         *)

EditAllowed == (\E i \in Procs : InWindow(i)) => "edit-in-window" \in Faults

\* The user or a group policy writes another setting.
UserEdits(u) ==
  /\ EditAllowed
  /\ registry' = u /\ wanted' = u
  /\ UNCHANGED <<disk, harmed, pc, write, arg, cell, mem, port, listening>>

\* Only the checkbox is flipped; the address and the list stay.
UserTicks ==
  /\ EditAllowed /\ "untick" \in Faults
  /\ registry' = [registry EXCEPT !.enabled = ~@]
  /\ IF registry.server \in Ports
     THEN UNCHANGED wanted
     ELSE wanted' = [registry EXCEPT !.enabled = ~@]
  /\ UNCHANGED <<disk, harmed, pc, write, arg, cell, mem, port, listening>>

\* config.toml is edited by hand, or deleted (which reads as the defaults).
EditConfigFile ==
  /\ \E p \in Ports, m \in BOOLEAN :
       \/ disk' = [disk EXCEPT !.bridge_port = p, !.manage_system_proxy = m]
       \/ /\ "erase-config" \in Faults
          /\ disk' = [bridge_port |-> p, manage_system_proxy |-> TRUE,
                      saved_sysproxy |-> None]
  /\ UNCHANGED <<registry, wanted, harmed, pc, write, arg, cell, mem, port, listening>>

-----------------------------------------------------------------------------
Init ==
  /\ wanted \in UserSettings
  /\ registry = wanted
  /\ harmed = FALSE
  /\ disk \in [bridge_port : Ports, manage_system_proxy : BOOLEAN,
               saved_sysproxy : {None}]
  /\ pc = [i \in Procs |-> "off"]
  /\ write = [i \in Procs |-> None]
  /\ arg = [i \in Procs |-> None]
  /\ cell = [i \in Procs |-> None]
  /\ mem = [i \in Procs |-> None]
  /\ port = [i \in Procs |-> None]
  /\ listening = [i \in Procs |-> FALSE]

\* One step of start-up, of a registry write or of the way out.
MainThread(i) ==
  \/ Bind(i) \/ SkipTakeOver(i) \/ ReadRegistry(i) \/ StartFails(i)
  \/ SaveOriginal(i) \/ SaveOriginalFails(i)
  \/ WriteServer(i) \/ WriteOverride(i) \/ WriteEnable(i)
  \/ Applied(i) \/ ApplyFails(i)
  \/ BridgeWatchExit(i) \/ Restore(i)

Next ==
  \/ \E i \in Procs :
       \/ Load(i) \/ MainThread(i) \/ ApplyConfig(i) \/ Quit(i)
       \/ BridgeStops(i) \/ Kill(i)
  \/ \E u \in UserSettings : UserEdits(u)
  \/ UserTicks
  \/ EditConfigFile

Spec == Init /\ [][Next]_vars

\* The main thread is scheduled: nothing it waits for on these paths can block
\* it for ever.  Nobody owes us a start, a quit, an edit or a fault.
Fairness == \A i \in Procs : WF_vars(MainThread(i))
FairSpec == Spec /\ Fairness

-----------------------------------------------------------------------------
(* Properties.                                                             *)

\* Whatever happens, the setting the user made is not lost: it is in force, or
\* it is on disk for take_over and restore to find (rule 1 of proxy.rs).
UserSettingsKept == registry = wanted \/ disk.saved_sysproxy = wanted

\* An enabled pointer at one of our own ports.
LivePointer(setting) == setting.enabled /\ setting.server \in Ports

\* Rule 3 of proxy.rs: a trace of our own is never taken for the user's
\* setting, neither on disk nor in ORIGINAL, so no restore ever writes it back.
OriginalIsNeverOurs ==
  /\ disk.saved_sysproxy # None => ~LivePointer(disk.saved_sysproxy)
  /\ \A i \in Procs : cell[i] # None => ~LivePointer(cell[i].original)

\* As long as nobody is killed and no restoring write fails, the registry points
\* at one of our ports only while an instance lives there that will put it back.
PointedOnlyWhileOwned ==
  ~harmed /\ LivePointer(registry) =>
    \E i \in Procs : /\ Alive(i) /\ port[i] = registry.server
                     /\ cell[i] # None \/ pc[i] = "restore"

\* A restore that completes puts back exactly what the user last chose, also when
\* the instance that had overwritten it was killed in an earlier life.
RestoreGivesBack ==
  [][\A i \in Procs :
       pc[i] = "restore" /\ write[i] = "notify" /\ pc'[i] = "off"
         => registry = wanted]_vars

\* The registry points nowhere, or at a port that is being served.
Served ==
  LivePointer(registry) =>
    \E i \in Procs : listening[i] /\ port[i] = registry.server

\* A listener that died takes the pointer with it (Exit::BridgeStopped in
\* main.rs): as long as nobody is killed and no restoring write fails, applications
\* are not left for ever with a proxy nobody serves.
DeadPointerIsTemporary == <>harmed \/ []<>Served

\* How far instance i is in borrowing the setting (Loan).
LoanPhase(i) ==
  IF pc[i] = "restore" \/ (pc[i] = "exit" /\ cell[i] # None) THEN "returning"
  ELSE IF cell[i] # None THEN "lent" ELSE "none"

LoanPhases == [i \in Procs |-> LoanPhase(i)]

L == INSTANCE Loan
  WITH Borrowers <- Procs, Values <- SysProxySettings, Died <- "kill" \in Faults,
       chosen <- wanted, shown <- registry, noted <- disk.saved_sysproxy,
       phase <- LoanPhases

\* The setting is borrowed and given back as Loan promises, three writes either way,
\* overlapping starts, kills and failures notwithstanding (the rules at the head of
\* proxy.rs).
SettingIsOnLoan == L!Spec
=============================================================================
