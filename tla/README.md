# ProxyPilot: a verification project in TLA+

ProxyPilot keeps a local proxy ("the bridge") running on a Windows laptop that moves
between the office and other places. New connections go through a SOCKS5 or an HTTP
upstream or directly, depending on the network and on what answers; the system proxy
setting of Windows points at the bridge while the program runs; and a separate service
switches an adapter between the office's static address and DHCP.

This directory holds TLA+ modules translated from the Rust source, TLC configurations
that check them on small instances, and TLAPS proofs of what matters most for every
value of the constants. `PROJECT.json` maps each definition to its lines of source, each
property to a mutant of the code that breaks it, and each hazard to the properties that
would notice it.

Contents: [Inventory](#inventory) · [Modules](#modules-and-how-they-follow-the-code) ·
[Runs](#runs) · [Bounds](#bounds-and-why-they-are-enough) · [Fairness](#fairness) ·
[Proofs](#proofs) · [Where code and promise differ](#where-the-code-and-its-promises-differ) ·
[Not modelled](#abstractions-and-what-is-not-modelled) · [Plan](#plan)

How to run, from this directory:

    tlc -workers 2 -config SysProxyKept.cfg MCSysProxy     # any run of PROJECT.json
    tlc -workers 2 -config NetWatch.cfg NetWatch           # (its module is named there, too)
    tlapm SysProxyProofs.tla                               # any *Proofs module

## Inventory

All paths are under `src/crates/`.

### The application process (`app/`, with `bridge/`, `core/` and `winnet/` as libraries)

| part | state | operations | talks to | what is hard |
|---|---|---|---|---|
| **System proxy lifecycle**: `app/src/proxy.rs`, `winnet/src/sysproxy.rs` | three registry values (server, bypass list, enable flag), `saved_sysproxy` in `config.toml`, the global `ORIGINAL` | `take_over` (read, recognise our own trace, save, fill `ORIGINAL`, write three values), `restore` (take `ORIGINAL`, look, write back) | start and exit paths of `main.rs`, session end, other instances through registry and file | the write is three writes; the process may be killed between any two; two instances share registry and file; the user edits the registry meanwhile |
| **Configuration file**: `core/src/config.rs` | `config.toml` | `load`, `save` (temporary file, rename), `validate`, `place_for` | everybody | the copy in memory may be older than the file |
| **Routing decision**: `core/src/mode.rs` | none | `decide`, `usable` | the supervisor | a pinned mode must not change to the other upstream behind the user's back |
| **Start, command task, exit**: `app/src/main.rs` | `saved`, `saved_config`, the command channel (16 places), `BRIDGE_STOPPED` | load, first `reevaluate`, bind, spawn `serve`, tray and session-end guard, `RestoreOnDrop`, `take_over`, the task (`Reevaluate`, `SetMode`, `ApplyConfig`), timer (60 s) and network watch (debounced by 1500 ms), the message loop | all parts | the order of start and exit, a channel that fills up, a thread message that an open menu swallows |
| **Supervisor and router**: `bridge/src/supervisor.rs`, `router.rs` | configuration in force, current route, state shown | `reevaluate` (network source, probes, decide, publish, report) | prober, router, tray | the decision is taken after awaits, from what was read before them |
| **Prober**: `bridge/src/probe.rs` | cache (30 s), generation | `health`, `invalidate` | the supervisor | the lock is not held over the two connects |
| **Bridge**: `bridge/src/serve.rs` | semaphore, error counters, one task per connection | accept, admit, read head, pick route, dial, answer, relay | clients, router, connectors | permits on every way out, transient against hard accept errors, silent clients and upstreams |
| **Connectors**: `bridge/src/{connector,socks5,http}.rs` | buffers | dial, SOCKS5 and CONNECT handshake, `read_head` | upstreams | bytes read together with a head or a reply must not be lost; a limit on heads |
| **Tray**: `app/src/{tray,ui,icons}.rs`, `icon/` | window, menu, icon | clicks, `WM_ENDSESSION`, the texts of a state | command channel | the nested loop of an open menu; "not configured" is told from "does not answer" by the health alone |
| **Settings page**: `app/src/settings_page.rs` | none on the server; each open tab holds what it was rendered with | GET, POST of the form, the button of the present network, autostart, tunnel buttons | command channel with an answer; registry; openvpn-gui | a form comes back to a world that has moved on; escaping and decoding; timeouts |
| **Settings web server**: `app/src/websrv.rs` | listener on an ephemeral port, token, `last_seen`, permits | start, accept, serve one connection, close when idle or told to | the message loop, which owns it; browsers, and whoever else knocks | the idle deadline against a request under way; strangers and silent sockets |
| **Network events**: `winnet/src/{events,networks,com}.rs` | two subscriptions, the queue of the watcher thread, two channels of 8, the rest of a burst | subscribe, call back, debounce, end | NLM, IP Helper; the command task | a burst must become one wake-up, and never none; the end must be told |
| **VPN tunnel**: `winnet/src/{openvpn,ovpn_profile,tunnel_log,tunnel_state,routes}.rs`, `WinTunnel` in `main.rs` | the profile we write; the log and the routes of programs that are not ours | build and install a profile, connect, disconnect, tell whether it is up | settings page, tray | the state is put together from a log and a routing table, read one after the other; the profile is rewritten in place around two markers |
| **Autostart**: `winnet/src/autostart.rs` | a Run value | enable, disable, is it us? | settings page | an entry somebody else spelt; a command line without quotes |
| **Updates**: `app/src/update/*` | `staged.exe`, `staged.exe.partial` and the backup beside the executable | check, download, verify, stage; at the start verify again, exchange by two renames, relaunch | timer, start path, GitHub | a worker that outlives its check and its process, a second process, an exchange that breaks off |
| **Diagnostics**: `app/src/doctor.rs` | none | checks on what it reads | settings page, start | "all is well" must not be said of a machine that is cut off |
| **The bridge on its own**: `bridge/src/{main,bench,log}.rs` | none | arguments, one decision, `serve`; measuring the routes | command line, settings page | one deadline over several phases |
| **Helpers**: `core/src/{net,bypass}.rs` | none | networks, matching of the bypass list and its Windows spelling | bridge, system proxy | one list that two programs interpret; shifts by 32 |

### The profile service (`netsvc/`, a process of its own)

| part | state | operations | what is hard |
|---|---|---|---|
| **Cycle**: `main.rs`, `exec.rs`, `safety.rs`, `adapter.rs`, `netsh_cmd.rs`, `profile.rs` | `LATCHED_NETWORK` in memory | wake (event or 30 s), read profile, networks, latch, record, adapter; decide; run netsh in batches (10 s per command); read back; record; ping the gateway (3 attempts); roll back | every call may fail on its own; a command may report the opposite of what happened; the world changes between the calls |
| **Record**: `state.rs` | `applied.toml` | load, save, `set_by_us` | written after the address, not with it; all that tells our address from a foreign one |
| **Decision**: `core/src/netprofile.rs` | none | `decide_profile` | foreign addresses come first |
| **Installation**: `install.rs` | the registration | install, start, `uninstall-service` (revert, then delete) | runs beside the service it removes |

### What makes each component correct

* *System proxy*: the user's setting is in force or on disk in every state; our own
  address is never kept as the user's; a restore gives back exactly what was there; no
  pointer at a port nobody serves stays for ever.
* *Command task and supervisor*: what is shown is what is done; "saved and applied" is
  true when it is said; the port shown is the bound one; the route becomes the right
  one when the world stands still, also for an upstream that dies without an event.
* *Network watch*: after the last change the supervisor looks again, whatever was dropped on
  the way; an end at one side reaches the other, and comes last.
* *Message loop*: it never sleeps on a dead bridge, a chosen menu entry or an old icon.
* *Settings server*: it closes when nobody with the token has come for long enough, and not
  before.
* *Prober*: nothing older than an invalidation answers a call begun after it.
* *Bridge*: permits return, once each; one honest route per connection and no silent
  fallback; the loop stops exactly when the listener is broken; nobody but a relay hangs.
* *Relay and connectors*: both directions are reliable channels, and the verdict comes
  first and once.
* *Profile service*: it knows its own address, leaves foreign ones alone, does not flap,
  takes its address away when it is removed, and ends up right when things calm down.
* *Updates*: only what was verified runs, versions only rise, there is always an executable,
  what the tray says is staged is staged, and the newest release arrives.
* *Settings page*: a form does what the person did to it and nothing else; a refused one does
  nothing; what is shown of autostart is what Windows will do.
* *Tunnel*: the section never claims more than the facts; whoever has a tunnel can lower it;
  no second one is raised over a first; no line of a profile is lost to the markers.
* *Views and tools*: tray, page and doctor say of one state the same and the truth; the bypass
  list means one thing to Windows and to the bridge wherever Windows can express it; the
  bench compares what was really transferred.

## Modules, and how they follow the code

| module | models | composed with |
|---|---|---|
| `Loan` | what a borrower of the user's setting promises: an abstract specification | |
| `SysProxy` | lifecycle of the Windows setting: instances, registry, file, faults | implements `Loan` |
| `Routing` | `decide`, `usable`, `place_for` as operators | extended by `Supervisor` and `Bridge` |
| `Supervisor` | the channel, its senders, the command task, `reevaluate`, the cache as one caller sees it | `Routing` |
| `Prober` | the cache as several callers see it | `Routing` |
| `Bridge` | accept loop, semaphore, timeouts, the choice of the route, answers | `Routing`; the supervisor is its action `Publish` |
| `Channel` | what one direction of a connection promises: the abstract specification | |
| `Relay` | the bytes of one connection through handler and connectors | implements `Channel` twice, `Up` and `Down` |
| `WakeUp` | what a notification without data promises: an abstract specification | |
| `NetWatch` | `events.rs`: callbacks, watcher thread, guard, debounce; the consumer in `main.rs` | implements `WakeUp` |
| `SettingsServer` | `websrv.rs`: the accept loop and its connections | extended by `Shell` |
| `Shell` | the message loop with menu, icon and error boxes, the watch over the bridge, the owner of the settings server | `SettingsServer` |
| `NetProfile` | `decide_profile` and `set_by_us` as operators | extended by `NetService` |
| `NetService` | the cycle call by call, the service's life, its removal and installation, the world | `NetProfile` |
| `Json` | `json.rs` as a reader of tokens, `parse_release_response` | extended by `Update` |
| `Upgrade` | what a program promises that replaces itself: an abstract specification | |
| `Update` | check, staging, exchange, relaunch, of several processes over one directory | `Json`; implements `Upgrade` |
| `Form` | form to body, body to form, form to configuration | extended by `Settings` |
| `Autostart` | the Run entry, and what `CreateProcess` makes of one | extended by `Settings` |
| `Settings` | tabs, handlers, command queue and tray around one configuration | `Form`, `Autostart` |
| `Profile` | `build_profile` as an operator on lines | checked beside `Tunnel` |
| `Tunnel` | log, routes, section, buttons, GUI commands, the tunnel's life | |
| `Page` | the settings page: either half of it | `Settings`, `Tunnel` |
| `Menu` | texts, icon and entries as functions of the published state | `Routing`; checked in every state of `Supervisor` |
| `Doctor` | the checks of the diagnosis as functions of what they read | `Routing` |
| `Views` | what menu, page and doctor say of the state of the command task | `Supervisor`, `Menu`, `Doctor` |
| `BypassList` | networks, entries, matching; the list Windows is given | checked beside `Bridge` |
| `Bench`, `CommandLine` | measuring tool; the arguments of the bridge program | `Routing`; checked beside `Bridge` |
| `Registry` | reading and writing one registry value; the calls behind the setting of `SysProxy` | `SysProxy` |
| `MC*` | the instances TLC checks | one per component; `NetWatch` and `Shell` need none, their cfg says it all |
| `SysProxyProofs`, `NetServiceProofs`, `SupervisorProofs`, `UpdateProofs` | theorems and their proofs | `Registry`; `NetService`; `Supervisor` and `Views`; `Update` |
| `ShellProofs` | the same for the main thread and the settings server | `Shell` |
| `BridgeProofs` | the same for a bridge, for one of its connections and for the cache of probes | `Bridge`, `Relay`, `Prober` |
| `NetWatchProofs`, `PageProofs` | the same for the watch over the networks, and for the page: its form and its tunnel | `NetWatch`; `Page` |

Modules without variables (`Routing`, `NetProfile`, `Json`, `Form`, `Autostart`, `Profile`,
`Menu`, `Doctor`, `BypassList`, `Bench`, `CommandLine`, `Registry`) are algorithms of the code as
operators. Where the algorithm is fed by a state machine it is checked in every reachable
state of that machine (`Routing`, `NetProfile`, `Menu`, `Json` in `Update`, `Form` and
`Autostart` in `Settings`). Besides, the MC module states its contract over all small inputs,
as a constant formula (`...Facts`) that an invariant of the run carries.

A definition whose name ends in `_Something` below "What if ..." is a mutant: a plausible
bug in the definition that follows it. It belongs to no specification; `PROJECT.json`
says which property it breaks.

**SysProxy.** `registry`, `disk` and everything indexed by an instance `i` stand for the
three registry values, `config.toml`, and the memory of one process: `mem` is its
configuration, `cell` is `ORIGINAL`, `arg` and `write` are the record that
`sysproxy::apply` is writing and the value it writes next. The start is `Load`, `Bind`
(a busy port ends it), then `ReadRegistry` and `SaveOriginal` for the two halves of
`take_over`, or `SkipTakeOver`. The first probes are awaited between `Load` and `Bind`,
which is why they are two steps: what was loaded can be stale. `apply` is
`WriteServer`, `WriteOverride`, `WriteEnable`, `Applied`, and `ApplyFails` at any of
them. Every way out goes through `exit` to `Restore`. `harmed` remembers that an instance was
killed or a restoring write failed. `wanted` is a history variable:
the setting the user last made himself. Faults of the environment are elements of the
constant `Faults`, so that a run says exactly what it tolerates; several of them loosen
a guard (`EditAllowed`, the guards of `Load` and `Kill`).

**Supervisor.** `inbox` is the command channel. `Wake` is the timer or the debounced
watch (they wait for room), `ClickMode` the menu (`try_send`: a full channel loses the
click), `Submit`, `Send` and `GiveUp` a POST handler with its two timeouts. `TakeChange`
is `apply_change` as a whole: change, save, rebuild the supervisor with a new prober,
publish the copy. `LookAround`, `ProbeOne`, `Remember`, `Publish`, `Report` are
`reevaluate` cut at its awaits and at what others can see.

**Prober.** `Begin` is the first locked section of `health`, `ProbeOne` an end of one of
the two connects, `Settle` the second locked section, `Return` also a caller that is
dropped at its await. `since` and `steady` are history variables. Today only tests call
`invalidate`, and the supervisor is the only caller of `health`: the module is about the contract of
the type, not about a race in the program.

**Bridge.** `at[c]` follows one connection through `handle`; `permits` is the semaphore.
Transient and hard accept errors have counters of their own, as in the code. `seen` and
`outcomes` are history variables. `ReadHead` picks the route: `PickRoute` is read there,
once, and never again.

**Relay.** A stream is a sequence of tokens. A read takes any part of what has arrived,
up to `Chunk`, so that TCP may cut anywhere; "end" completes a head and may occur in a
payload. `HeadStep` and `ReplyStep` are `read_head` on both sides; `SocksStep` is the
handshake of exact lengths; `WriteLeftover` and `WritePending` come before the copying.

**NetService.** `pc` follows one cycle through `run_cycle` and `apply_action`; a batch of
netsh commands is `Batch`, with the two commands one by one. `whose` is a history
variable: who put the address there, which the code itself cannot see; comparing it with
`applied` is the point of the module. A netsh command may be refused, *late* (it is
reported as failed after ten seconds, but took effect) or *hollow* (it is reported as
done, without an effect). `calm` marks the moment from which nothing fails any more.
The removal (`Uninstall`, `Revert`, `RevertDone`, `Delete`) is a process of its own that may
begin at any moment, also while the service runs, which it does not stop, and goes by
`applied.toml` alone. `crossed` is a history variable: whether a cycle ran during the removal,
or after it before the service was stopped.

**NetWatch.** Events carry no data that anybody reads, so `raw`, `out` and `commands` are
the numbers of events in the three channels. `Callback` is an NLM or an IP Helper
notification: `offer` is a `try_send`, a full channel drops the event. `Thread` is
`watcher_thread` in its order (subscribe to NLM, to IP Helper, report, run the message
loop, take down), and `thread` names the step it is about to take; `mailbox` is its queue,
in which the stop may wait already. `Guard` is the task with the strong sender, `Debounce`
the loop of `debounce` with `trailing` and `source_closed`. `told` is a history variable;
`seen` is the network `reevaluate` last looked at. The other commands and the timer are
left out: they could only help. The stop is posted in one step; that the thread might be gone
between the look at `alive` and the post, and its identifier taken by another, is not
modelled.

**SettingsServer.** `door` is the accept loop with its listener, `conn[c]` a socket from
the backlog to its answer, `pause` and `errors` the handling of failed accepts. Time is
three facts: `idle` (the idle time has passed since `last_seen`), `due` (the deadline that the
loop computed has passed) and `stale` (`last_seen` has moved since). That keeps the race of
a request and a deadline, and no clock. `mine` tells the sockets of this visit from those a
server that was stopped is still serving.

**Shell.** `main` is where `message_loop` is, or the message it has in hand. The loop
enters `GetMessageW`, dispatches, drains the clicks, and reads `BRIDGE_STOPPED` at the points
where the code reads it. An open menu (`main = "menu"`) and an
error box are nested loops: `Swallow` takes a posted message out of the queue without an effect. Two posted messages of a kind are as
good as one. `Publish` happens for every look-around, changed or not, because
`watch::Sender::send` notifies in any case; `TrayCatchesUp` needs it. Menu entries for the mode and
for copying, and a post that fails because the queue is full (10 000 messages), are left out.

**Update.** `disk` has the four files: the executable, its backup, `staged.exe` and
`staged.exe.partial`; `Torn(r)` is a part of `r`. A process `i` goes through `Cleanup`,
`Find`, `VerifyStaged`, `MoveAway`, `MoveIn` or `MoveBack`, `Relaunch` (the old process starts
the new one and leaves), `Bind`, and then runs with a `Tick` now and then.
`worker[i]` is the blocking thread of its check, which `TimeOut` gives up without stopping: the
thread goes on, and the process waits for it when it leaves (the drop of the runtime). Windows
is `MayRename`: a running image may be renamed, not replaced. `image` is what a process runs,
`lies` where that file is now.

**Settings.** A tab holds what it was rendered with (`shown`) until it is submitted; what the
person does to it is `Typed`, and `Meant` the configuration he has in mind: the history
variables `meant` and `fresh` make `SavedAsMeant` a statement about the person and not about
the handler. The handler is `Refuse` or `Accept`, which writes the autostart entry and then
queues the command; `Answer` and `Late` are the two ends of its waiting. Another tab, the tray,
a change of the network and somebody in the registry are `Outside` and `SetMode`. A command
that is taken after its own page gave it up puts that page, too, out of date.

**Tunnel.** `ours`, `routed` and `log` are the tunnel of our profile, its routes and its log,
which do not change at once; `foreign` is somebody else's tunnel. `WinTunnel::snapshot` is the
same for a page (or the line of the menu) and for a raise, in the steps of the code: `Begin`
looks for OpenVPN, and ends with the default snapshot if it is not found or the registry cannot
be read, then `ReadProfile`, `ReadLog`, `ReadAdapters`, `ReadRoutes`, and the world may change
before each. A page is then "drawn", a raise refused or passed on to `Connect`, which looks for
OpenVPN again. `busy`, `steady` and `excused` are history variables of a request. The
GUI gets its commands in any order (`gui` is a set): each is a process of its own.

**Form, Autostart, Registry.** Conversions do what the code does: `Form!Decode` ends in
`Lossy`, as `decode` in `String::from_utf8_lossy`, and `Registry!Decode` likewise for UTF-16. What
Windows makes of an entry or a value is stated next to it: `Started` completes a missing `.exe`
(`WithExe`), `TextOf` fills in the variables of a `REG_EXPAND_SZ` (`Filled`).

**Page.** The two halves share the server and no state; `half` says which one a behaviour is
about, so that TLC explores their sum and not their product.

**Menu, Doctor, Views.** `ViewsAreHonest` (in `Views`) evaluates them in every state of `Supervisor` between two
commands, with the state the task has published and the configuration the page has.

### The abstract specifications

Four small modules say what a component is for, without its mechanism; the detailed module
instantiates each at its end, with a refinement mapping, and a run checks the instance's
specification as a property.

| abstract | says | mapped from |
|---|---|---|
| `Channel` | what is sent arrives once, in order, completely | `Relay`: the streams of either direction, less the handshakes |
| `Loan` | one borrower at a time notes the user's setting, changes it in several writes, and turns and gives back exactly what the user chose; if he dies, the note stays | `SysProxy`: `shown` is the registry, `noted` is `saved_sysproxy` on disk, `chosen` is `wanted`; `LoanPhase(i)` is "lent" once `ORIGINAL` is filled, "returning" from the exit on. A start that only reads, a failed save and a failed write are stutters or a shorter loan |
| `WakeUp` | events melt, but while one has not been looked at something rings; nothing rings anew after the end was told | `NetWatch`: `Ringing` is an event in one of the three channels, a burst in the debounce, or a wake-up that is about to be sent; `Line` is what the consumer knows of the end |
| `Upgrade` | one acceptable candidate, no older than what is installed or was put by, is installed in one step | `Update`: the candidate is `staged.exe`; `InstalledRelease` is `exe`, or the backup while an exchange is between its two renames, so that the second rename is the installation and `MoveBack` a stutter |

## Runs

Passing runs (`expect: pass`):

| run | properties | distinct states | what it shows |
|---|---|---|---|
| `SysProxyKept` | `UserSettingsKept`, `SettingIsOnLoan` | 22 068 | Two instances, started while the other lives and killed outside a registry change, with failing writes and saves: the setting is never lost, and the instances implement `Loan`: one at a time, noted first, given back exactly. |
| `SysProxyFaults` | `OriginalIsNeverOurs`, `PointedOnlyWhileOwned`, `KeyGivesBack`, `DeadPointerIsTemporary` | 136 440 | One instance at a time with every fault but those of a second instance: our own trace never becomes the setting to restore. Until a kill or a failed write-back (`harmed`) the registry points at a port only while somebody owes a restore, and a bridge that dies takes its pointer along. The registry calls below give back what was written, or an error, and a setting that is written back means what it meant, unless half a UTF-16 letter or a variable was in it. |
| `Supervisor` | `StateIsHonest`, `ViewsAreHonest`, `SavedMeansSavedAndApplied`, `Converges` | 1 027 976 | Timer, menu, page, failing probes and saves, a world that changes at any moment: state, views and answers are true, and the route becomes right. |
| `Prober` | `FreshAfterInvalidate` | 98 656 | Two callers asking about two settings that share an address, invalidations at any moment. |
| `Bridge` | `PermitsAreReturned`, `RouteIsHonest`, `StopsOnlyWhenBroken`, `NobodyHangs`, `BypassIsHonest`, `ToolsAreHonest` | 44 432 | Two clients, one permit, all ends of a connection, both kinds of accept errors, routes changing meanwhile; the bypass list, the bench and the command line over all small inputs. |
| `Relay` | `StatusComesFirst`, `BothWaysAreChannels` | 15 580 | Every request kind through every route, reads cut anywhere: `Relay` implements `Channel` in both directions, safety and liveness. |
| `NetService` | `OursIsRemembered`, `NothingStaysBehind`, `ForeignStays`, `NoFlapping`, `Converges` | 218 832 | The service with everything failing that it can bear (`MCNetService!Bearable`), moves, edits, restarts, removals of a stopped and of a running service. What a removal that a cycle ran across leaves behind, and a user's address that it resets, are excepted by name. |
| `NetWatch` | `ChangesAreNoticed`, `NobodyIsLeftBehind` | 44 749 | Bursts against full channels, subscriptions that are refused, a message loop that ends, a consumer that goes: the watch implements `WakeUp`, safety and liveness, so no change that was told is lost; and every end arrives, last. |
| `Shell` | `SleepsOnlyWhenDone`, `TrayCatchesUp`, `DoorIsRight` | 606 376 | A bridge that dies at any moment, nested loops that swallow messages, visits, strangers, silent sockets, failing accepts, a page reopened while its predecessor is still answering. |
| `Update` | `ExecutableSurvives`, `OnlyVerifiedRuns`, `StatusIsHonest`, `ReaderIsExact`, `UpgradesInOrder`, `UpdateArrives` | 104 693 | Every step is one of `Upgrade`. Two processes, four releases (one unsigned, one a prerelease), kills, refused renames, a backup that stays, checks that outlive their deadline, a relaunch that fails. |
| `Page` | `PageIsExact`, `ProfileIsSafe`, `SectionIsHonest`, `SavedAsMeant`, `NoSecondTunnel` | 1 876 438 | Two tabs with every kind of edit, the tray, networks and the registry moving; two requests, pages or raises, that read one thing after the other while tunnels come and go, are killed, and reads fail. It takes two to three minutes. |

A run that ends in a violation (`expect: violation`), with its finding:

| run | property | finding |
|---|---|---|
| `NetServiceRetry` | `ReturnIsRetried` | a return to DHCP whose DNS command failed is never retried |

## Bounds, and why they are enough

* **SysProxy**: every variable ranges over a finite set, nothing is cut. Two instances are
  what a hand-over takes; the inductive proof below covers any number of them. The user
  has no server or a corporate one, which distinguishes "given back" from "reset".
  `SysProxyFaults` has one instance because a second one in the same fault space asks a
  different question (see below, and the hazard at `main.rs:618`). The instances of
  `SysProxyKept` are interchangeable, hence the symmetry. `Registry` is checked on values of up
  to four units, with and without a terminating zero, of the right and the wrong type, with
  halves of letters that meet and that do not, and with a unit that stands for a variable.
* **Supervisor**: one office network, two upstreams or none, one form that drops an upstream and
  moves the port, one mode in the menu, one POST handler, a channel of one place (16 in
  the code) so that it does fill up: a full channel, a lost click and a late answer all
  occur. No counter is cut.
* **Prober**: `MaxGeneration = 2` bounds the invalidations (the code wraps after 2^64):
  two are needed for a call that is older than the last but one.
* **Bridge**: `MaxConnections = 1` with two clients makes the limit bite;
  `MaxAcceptErrors = 2` and `PauseAfter = 2` stand for 640 and 64 and keep an error
  before the last one. `MaxSeen = 2` bounds the routes published while one connection
  waits for its head; `PauseAfter` also saturates the transient counter. The code's is a
  32-bit counter that would overflow after four billion errors without a success, which
  is left out.
* **Relay**: `Chunk = 3` lets one read contain the end of a head and the beginning of the
  payload, and also cut before and inside the head; `MaxHead = 4` is reached by the
  script that has no end. The payloads contain a second "end".
* **NetWatch**: one place in each channel (8, 8 and 16 in the code), so that every channel
  is full as soon as somebody is slower than a burst; three changes of the network (one
  in work, one waiting, one more) and every fault. The proofs cover all other values.
* **Shell**: two sockets and one permit (32 in the code), so that one client can stand in
  another's way; `MaxErrors = 2` (64) keeps an error before the last one. No counter is
  cut: `errors` ends at its limit, as in the code.
* **NetService**: one adapter, an office and another network, three addresses (two of
  profiles, one the user's), two lists of servers, four contents of `profile.toml`. The
  action properties and the invariants about several adapters are proved instead.

* **Bridge, beside the connections**: addresses of three bits, so that prefix lengths none, all
  and in between exist; two labels in two spellings, up to three to a name, with dots at
  either end; lists of two entries. Texts of up to five characters; transfers of up to
  three events in which each may be late, the last or an error; up to three flags.
* **Update**: two processes are what an exchange and a second click take. Of the four releases one is newer than the installed one and two must not be
  installed; 1.10 against 1.9.9 tells numbers from texts. The reader sees every text of up
  to six tokens on two levels and of up to five units inside a string; `MaxDepth = 4` (128 in
  the code) just lets GitHub's answer pass. One check at a time per process, as in the code.
* **Page**: `Actions = 2` submits and as many events elsewhere, which suffices for a tab made
  stale by another, whose submit comes between; three clicks (two raises and a lower) and three
  events on the tunnel side. Addresses of two bits, of which the office has the upper half; the
  other tunnel carries all, a part of the office, or something else. The tabs and the requests are
  interchangeable, hence the symmetry. Profiles of up to four
  lines of ten kinds, bodies of up to four bytes of nine kinds, among them parts of a letter of
  more than one byte; command lines of up to three words, with and without extensions.

## Fairness

* `SysProxy!FairSpec`: weak fairness of the main thread of each instance: starting,
  writing and leaving do not wait for anything that may never come. No fairness for
  starts, quits, edits or faults.
* `Supervisor!FairSpec`: weak fairness of the task (it never waits except for the channel
  and for dials that time out) and of `Expire` (30 s pass); *strong* fairness of `Wake`: the
  channel may be full again and again, but tokio queues waiting senders in turn and the
  timer's sender waits instead of dropping its wake-up. `ClickMode` has none.
* `NetWatch!FairSpec`: threads and tasks are scheduled, the window of the debounce closes,
  and Windows delivers the callbacks it owes. Nobody owes a change or a fault.
* `Shell!FairSpec`: the threads are scheduled, time passes, a person who opened a menu or
  sees an error box closes it, and the timer makes the command task publish again. *Strong*
  fairness where others may overtake again and again but not for ever: `GetMessageW` takes
  posted messages in order (`GetPosted`), and `tokio::select!` chooses at random among the
  branches that are ready (`Expired`). Nobody has to click, connect or send a request.
* `Bridge!Fairness`: tasks that can run do, `tokio::time::timeout` fires (`HeadTimeout`,
  `DialFailed`), answers are written within a budget. `SF` on `Accept`: the loop is in its
  pause again and again, but a knocking connection stays in the backlog. None for a client
  to send its head or for a relay to end; so `NobodyHangs` excludes relays, which by
  design have no idle timeout.
* `Relay!RelayFairSpec`: the handler goes on, and each direction of `copy_bidirectional` is
  polled. Peers owe nothing: they may stop sending, which the properties allow for, and
  nothing breaks a relay (`Break` has no fairness: there is no idle timeout, `serve.rs:231`), so a
  relay that lasts has to deliver. What
  is written is taken to have been received, so a peer that stops *reading* is outside.
* `Update!FairSpec`: threads run; the start path, the worker and the end of a process are not
  blocked. People start ProxyPilot again after it ended, and now and then they quit it while no
  check is at work: a process that is never restarted never updates, by design. *Strong*
  fairness of `Tick` (the toggle is not off for ever) and of `Ask` and `Download` (of infinitely
  many requests one succeeds). `UpdateArrives` further presupposes that trouble ends.
* `Page` has no fairness and no liveness property: what must eventually happen to a form is
  `Supervisor!Converges` and `SavedMeansSavedAndApplied`.
* `NetService!FairSpec`: weak fairness of the cycle: the timer wakes the service at the
  latest after 30 seconds, and netsh and the echoes are waited for with a timeout.

## Proofs

All proofs are checked by TLAPS to the last leaf; no step is assumed. The assumptions on
constants are the named `ASSUME`s of the modules, which TLC evaluates in every run.

| theorem | states | assumes besides |
|---|---|---|
| `SysProxyProofs!TypeCorrect` | `[]TypeOK` (proved, and therefore in no run) | |
| `SysProxyProofs!NeverKeepsItsOwnTrace` | `[]OriginalIsNeverOurs` | `OnePort` |
| `SysProxyProofs!SettingsAreKept` | `[]UserSettingsKept` | `OnePort`, `Bearable` |
| `SysProxyProofs!RestoreIsExact` | `RestoreGivesBack` (proved, and implied by the loan) | `OnePort`, `Bearable` |
| `SysProxyProofs!LentAndGivenBack` | `SettingIsOnLoan`: `SysProxy` implements `Loan` | `OnePort`, `Bearable` |
| `SysProxyProofs!LoansAreSafe` | `Loan` alone implies `[]UserSettingsKept` | |
| `SysProxyProofs!PointedIsOwned` | `[]PointedOnlyWhileOwned` | `Exclusive` |
| `SysProxyProofs!RegistryIsFaithful` | `[]KeyGivesBack`: for all values that may be in the key | |
| `SysProxyProofs!ListsMeanTheSame` | `ListsAgree` of `BypassList`, for all lists and hosts | `FoldingIsSound` |
| `SupervisorProofs!TypeCorrect` | `[]TypeOK` | |
| `SupervisorProofs!TrayTellsTheTruth` | `[]StateIsHonest` | |
| `SupervisorProofs!AnswerIsTrue` | `SavedMeansSavedAndApplied` | |
| `SupervisorProofs!WhatIsSeenIsSo` | `[]ViewsAreHonest` | |
| `BridgeProofs!ProberTypeCorrect` | `[]ProberTypeOK` | |
| `BridgeProofs!InvalidateIsEffective` | `[]FreshAfterInvalidate` | |
| `BridgeProofs!TypeCorrect` | `[]TypeOK` | |
| `BridgeProofs!EveryPermitComesBack` | `[]PermitsAreReturned` | |
| `BridgeProofs!LoopStopsOnlyWhenBroken` | `[]StopsOnlyWhenBroken` | |
| `BridgeProofs!RoutesAreHonest` | `[]RouteIsHonest` | |
| `BridgeProofs!BytesArePlaced` | `[]Placed`, and with it `RelayTypeOK` | |
| `BridgeProofs!VerdictComesFirst` | `[]StatusComesFirst` | |
| `BridgeProofs!BothWaysKeepTheBytes` | `Relay` implements `Channel!SafeSpec` both ways | |
| `NetWatchProofs!TypeCorrect` | `[]TypeOK` | |
| `NetWatchProofs!NothingToldIsForgotten` | `[]WakeUpIsPending` | |
| `NetWatchProofs!TheBellRings` | `ChangesAreNoticed`: `NetWatch` implements `WakeUp` | |
| `NetWatchProofs!TheEndComesLast` | `[]EndComesLast`, the safety part of `NobodyIsLeftBehind` | |
| `PageProofs!TunnelIsCareful` | `[]Careful`, and with it `TunnelTypeOK` | |
| `PageProofs!SectionTellsTheTruth` | `[]SectionIsHonest` | |
| `PageProofs!NeverASecondTunnel` | `NoSecondTunnel` | |
| `PageProofs!PagesAreRead` | `[]PagesReadBack`, the part of `PageIsExact` about the form | |
| `PageProofs!FormIsCarriedOut` | `SavedAsMeant` | |
| `PageProofs!BoxTellsTheTruth` | `BoxIsHonest`, the part of `PageIsExact` about the autostart toggle | the executable is on the disk |
| `PageProofs!BytesArrive` | `Decode` undoes `Encoded` up to `Lossy`, and of text altogether: the first part of `FormFacts` | percent and plus signs are encoded |
| `ShellProofs!LoopSleepsOnlyWhenDone` | `[]SleepsOnlyWhenDone` | |
| `ShellProofs!TypeCorrect`, `ShellProofs!OpenWhileVisited` | the safety parts of `DoorIsRight` | |
| `UpdateProofs!AlwaysStartable` | `[]ExecutableSurvives` | `Undone` |
| `UpdateProofs!OnlySignedFilesRun` | `[]OnlyVerifiedRuns` | no "race" |
| `UpdateProofs!TypeCorrect` | `[]TypeOK` | `Readable`, no "race" |
| `UpdateProofs!NeverBackwards` | `OnlyUpward` | `Readable`, no "race", no "withdraw" |
| `UpdateProofs!OneUpgradeAfterTheOther` | `UpgradesInOrder`: `Update` implements `Upgrade` | `Readable`, `Undone`, no "race", no "withdraw" |
| `UpdateProofs!AnnouncedIsThere` | `[]StatusIsHonest` | `Readable`, no "race", no "withdraw" |
| `NetServiceProofs!TypeCorrect` | `[]TypeOK` | |
| `NetServiceProofs!AddressIsRemembered` | `[]OursIsRemembered` | `Bearable` |
| `NetServiceProofs!RemovalIsClean` | `[]NothingStaysBehind` | `Bearable`, `Removable` |
| `NetServiceProofs!NoSecondTry` | `NoFlapping` | |
| `NetServiceProofs!ForeignIsLeftAlone` | `ForeignStays` | `Bearable` |

The hypotheses in the last column restrict `Faults` or the ports to what the property
survives; what happens beyond them is in
[the list of differences](#where-the-code-and-its-promises-differ), as TLC shows it.
Two are of another kind. `Readable`, that what the reader of `Json` makes of an answer is a
release's tag and address, says what a function over data of any length gives; the proofs assume
it and TLC checks it (for the releases of the run, as an assumption of `MCUpdate`).
`FoldingIsSound` says of `to_ascii_lowercase` that it makes labels of labels, and an empty one of
an empty one only; besides, every name in a list and every host has a label (`IsElement`,
`IsHost`).

Two assumptions on constants are about what the program starts from. `TidyAssumption`: the
configuration at the start is one the program or the page has written (texts without blanks
around them, a list with one comma between two elements, no network without an id), and networks
have names without blanks around them. A list a person has put blanks into with an editor is
outside of it: the first save of an untouched page takes the blanks out, which
means the same to every reader, but is not the text that was there. `ExeAssumption`: the
program has a path, and there is no environment variable in it, which `expand_env` would replace.

**NeverKeepsItsOwnTrace.** `OriginalIsNeverOurs` is not inductive: what reaches the disk
comes from `mem` and from `arg`. `NeverOurs` adds that neither of the two copies is a
live pointer. The proof needs `OnePort` at `ReadRegistry`: `is_stale_pointer` compares
with the own port, and only with one port does that cover every trace. It holds under
every combination of faults.

**SettingsAreKept, RestoreIsExact.** `Bearable` is `Faults` within {kill, takeover-write,
save, overlap}. The invariant `Kept` follows the argument of the code's comments. *The
port is the mutual exclusion* (`Alone`): `Bind` fails on a busy port, so between bind and
exit one instance is alone, and its saved setting is the one on disk. *What an orphaned
pointer needs* (`Fresh`): while a killed instance's pointer is in force, whoever is alive
has read the file since. *What the next instance finds* (`Settled`): the user's setting
in the registry, or our pointer in the registry and the setting on disk. `Stage` says for
each point of a write how far the three values have come (`TakenSoFar`, `RestoredSoFar`)
and that the setting is held (`Held`) from before the first value until after the last.

**LentAndGivenBack.** Each step is a step of `Loan` or a stutter; one case per action, on top of
`Kept`. `SaveOriginal` is the `Borrow` (its file operation is what puts `noted` right before
`ORIGINAL` is filled, and `Alone` is the guard `Free`); the six writes of an `apply` are `Write`,
which is allowed because the note is the user's choice (`Stage`, `WriteOnLoan`); the exit is
`Turn`, the end of the restore is `GiveBack`, whose `shown = chosen` is `RestoredSoFar`; a kill
outside a write is `Die`. A save of the settings page keeps `saved_sysproxy` or, with nobody
borrowing, may lose a note that nobody needs (`Forget`). `LoansAreSafe` then gets
`UserSettingsKept` from the abstraction alone, in one line per abstract action.

**PointedIsOwned.** `Owned` speaks of every address of ours in the registry, enabled or not:
the checkbox is not ours alone, and half a write leaves it as it was. Whoever past its bind
`Owes` the address will take it out. `Clean` says that nothing that was read before taking
over, and nothing that a restore is about to write, is such an address, which is what
`is_stale_pointer` and the order of the exit are for. `AtMostOne` is the mutual exclusion it
needs. With one port it comes from the listener, which must then last (`Exclusive`): when the
listener of one dies, another may bind the same port and read the first one's pointer.

**RegistryIsFaithful.** `RegKeys` are the keys whose values have a type, a length and bytes that the
registry may hold; contents are sequences of any length. Every reading asks for the length first
and may find that the value has changed in between, so it is of the value before, of the value
after, or an error, and what was written has the form that is read back. What is needed of
sequences (that a string without its terminator is the string that was written) is proved from
the theorems on `SubSeq`; the place of the first terminator exists by the well-foundedness of
the naturals. What was read has no half letters any more, so decoding it a second time changes
nothing. The meaning of a setting to other programs, for any way of filling in variables
(`Filled`), is the same after writing it back if both strings `Survive`; whether the proxy is on is
the same in any case.

**Supervisor.** `Typed` types the commands in the inbox and the step the task is at. `Carried`
ties each waiting POST to its command, wherever that is: every `ApplyConfig` in an inbox of any
length, and the reply the task has in hand, carries what its handler has sent, unless that
handler has given up (`Agreed`); a reply in hand that will say "saved" means that the file holds the
configuration. `Shown` says that what was published stays true until the next command: it was made by
`Decide` from the configuration in force, and what `Decide` promises is a lemma of its own
(`Sound`). `StateIsHonest` compares between two commands, `AnswerIsTrue` at the answer, before any
other command is taken.

**WhatIsSeenIsSo.** `Seen` adds what the views rely on: in the task, in the cache and in what was
published, the health of an upstream is "unknown" exactly if none is set, and between two
commands the copy the page reads is the configuration in force. Menu, icon and page are then
compared case by case with the route (`MenuIsRight`), the checks of the doctor with the bridge and
the pointer (`DiagnosisIsRight`), for any answer of the registry.

**InvalidateIsEffective.** `Fresh`: the generation a call carries is smaller than the
present one exactly if it began before the last invalidation; so its result stays out of
the cache, and a cache entry in a steady world tells the truth.

**Bridge.** `Balanced`: a connection holds a permit exactly from its accept to the end of its
handler, and the cardinality of the holders is the difference to the limit, so that each step
that moves a connection moves one permit or none. `Counted`: the outcomes since the last
success are the hard errors the counter says. `Routed` carries the route of a connection from
the pick through dial and greeting.

**Relay.** `Placed` says where every byte is. `Upwards` names a number `r` of tokens the
handler has taken from the client, and for each stage which part of `script` is in the kernel's
buffer, in `buf`, in the leftover, and behind the opening at the origin; `Downwards` does the same
for the origin's stream with the handshakes in front and with the word `200` in between. A
read of any size moves `r`, so "TCP cuts anywhere" costs one case. The lemmas on parts of
a sequence (`Part`, `HeadEndOfPart`, `ReadOfPart`, ...) say that parts join, and that the end of
the head in a growing part is found once and never moves; `HeadEnd` is the least place of a
token, for whose existence the well-foundedness of the naturals is cited. Refinement: each step of
the handler is a step of the channel, or leaves what was sent and received alone.

**NetWatch.** `WakeUpIsPending` is close to inductive. `Subscribed` ties the subscriptions
and the channel to the life of the watcher thread: before its report nothing has been told
to anybody who could lose it, after its end nothing is subscribed. `Thinned` says what the
debounce task may hold: a rest exists only inside a window or at its end, and the end of
the raw channel is believed only when nobody can put anything into it any more. `Thinned`
is what makes `EndComesLast` follow. **TheBellRings** is the refinement: a callback is
`Tell` (a full channel means that it rings already), `reevaluate` is `Look`, the loss of the
receiver is `HangUp`, after which everything in the channels may be lost (`FallSilent`), the
consumer's `None` is `End`; the hand-overs from channel to channel, with the debounce between
them, are stutters, because what rings goes on ringing (`SameBell`). `IInv` is needed at `End`
and for the callbacks after it: that nothing is subscribed any more. `WakeUp!Answered`, the
liveness of the abstraction, is in `NobodyIsLeftBehind`.

**Tunnel.** `LogIsTrue` is the one thing the program relies on from openvpn: the log says up only
while the tunnel is, or after it was killed. `Noted` follows a request, for a page or for a raise,
from one read to the next. As long as another tunnel has carried the office networks ever since it
came in (`busy`), that tunnel is there when the adapters are listed, and when their routes are
read; so a raise gets past them only if the log was unreadable, or said that ours was up
(`excused`), or nothing was read at all. As long as ours has been up (`steady`), the log says so or
cannot be read, and in either case the section has the button that lowers it. What the other
processes do between any two reads is one lemma (`WorldMoves`), what the request does itself
another (`RequestMoves`).

**FormIsCarriedOut.** Of a page that nothing has overtaken (`fresh`) the invariant `Kept` says
three things. While it is open it shows the configuration, the box and the network of now
(`Drawn`), so the handler puts the form over what the person saw. While it waits, every command
of its own in the channel, of any length, carries what is meant (`Pending`), and the entry is
what is ticked unless the page will say that it failed (`Switched`). Once it is done, the
configuration is what is meant. Anybody else's change ends the freshness. The first attempt at
this proof failed at `Take`: the model let a page stay fresh that was drawn anew after its timeout
and whose command was then taken, and with three submits TLC shows the form over it to say what
nobody meant. That the form says what is meant comes from **PagesAreRead**.

**PagesAreRead.** The second invariant, `Tidied`, says that the configuration, every
command in the channel and every open page are as the page writes them. It is inductive because
a form over a tidy configuration makes a tidy one (`CommandIsTidy`), whose invariant part is
`FaceReadsBack`: for each edit, what is typed and what is meant, written as fields
(`FormReads`) and read back field by field, are the same. Under it lie what the parts of the form
say (`RowsSay`, `TableSays`: so many networks give so many rows, in their order, and an empty one),
what two forms say one after the other (`BothSay`), and what is read from the rows (`OfficesAre`).
These are facts about recursive functions (`Marked`, the community modules' `FlattenSeq`), which
the library's induction theorems would state with an operator parameter. `ByInduction` and
`BySequences` state them for a set instead, from the least counterexample (`WFMin`): a lemma
about sequences names the set of those it is true of, and shows that the set is closed under
`Append`. That a recursive function is what its equations say comes the same way (`Iterated`: the
steps exist; `OnwardsOnce`, `CollectedOnce`: they lead to one result).

**BoxTellsTheTruth, BytesArrive.** A bare entry is read by the code from every beginning at once and
by Windows from the left, so the two agree on whether a beginning is this executable only where it
is the first that leads to a file (`LeastOf`); the exceptions in `BoxIsHonest`, a name that Windows
completes with `.exe` among them, are the rest. `Unescaped` goes
around its loop once for every byte at most: after as many rounds as bytes were sent it is behind
all of them (`BehindAlways`, by `BySequences` over what was sent, with any rest after it), and the
rounds left over change nothing. So the bytes come back as they were sent (`BytesAreRead`), and
`Lossy`, which follows, leaves a text as it is (`TextStays`).

**Shell.** `SleepsOnlyWhenDone` speaks of the moment the loop blocks. `Watched` says
what holds between the look at `BRIDGE_STOPPED` and that moment, too, which is why the
flag is set before the message is posted and not after; `Emptied` says the same of the
clicks. Neither needs anything of the settings server, whose steps leave the loop alone.
For the server `Kept` has three parts: `ClockKept` (the deadline and the idle time agree, and a
running loop is below its limit of errors, without which the next error would exceed it),
`SocketsKept` (no more tasks than permits: an accept counts who is served before it takes one
more, and a new visit starts with none of its own) and `LoopKept` (a running server is held,
so nothing runs that the loop could not stop).

**Update.** `Placed` (of `UpdateProofs`): nobody's image is gone, whoever is between the two
renames runs from `exe.old`, which therefore can be neither removed nor replaced, and there is no
second one. `Verified`: everything but the partial file is signed; `Alone`: one check at a time
has the partial file, and what it is about to put by is what it has verified. `Genuine` gives
files and work their types. `Ordered`: what is put by for the next start tops what is installed
or still runs, and what a check is about to put by tops both; an exchange can therefore only go
up. `Told` follows an announced file from `staged` to `exe`, under the process that was told.
**OneUpgradeAfterTheOther** maps all of that to three abstract actions. The first rename and a
rename back are stutters, because the backup is then what is installed (`AlwaysInstalled`); the
second is `Install`; a `Stage` is `PutBy`, where `Ordered` gives the order of ages and `Verified`
that the candidate is acceptable; anything that removes a backup or a partial file changes
nothing. A staged file that was found torn would be lost there, so this needs `Verified`, too.

**NetService.** `Informed` adds to `TypeOK` that what a cycle has read stays usable.
`Remembered` is the invariant for `OursIsRemembered`: `OneAdapter` (all state is about the
adapter of the office), `Apart` (a removal and a cycle are not under way together, or
`crossed` says that they were) and
`Stages` (where the record may lag behind the address, and what a way back to DHCP has
reached: the record is dropped only when the address is gone). `Bearable` names the faults
that strand an address, and the proof uses the absence of each at the step where it would
strike. `Cleared` adds what the removal has reached, and that it stays so while no cycle crosses
it. `Latching` ties the network of the
last rollback to the cycle, then to the latch; it needs no assumption on faults at all.
`HandsOff` says that the record never names an address of the user's and that no such
address is on the adapter while a cycle writes to it.

**Out of the prover's reach, and checked with TLC only**: every liveness property
(`DeadPointerIsTemporary`, both `Converges`, `NobodyHangs`, the rest of
`NobodyIsLeftBehind`, `TrayCatchesUp`, `ClosesAlone`, `UpdateArrives`, the liveness part of
`BothWaysAreChannels`), and anything with `ENABLED`. **Too long for the provers**, and with TLC,
too: what the larger readers give for inputs of any length (`ReaderIsExact` of `Json`,
`ProfileIsSafe` of `Profile`, `ToolsAreHonest` of `Bench` and the command line, and in `PageIsExact`
how `Parse` takes a body apart into fields). Of `BypassIsHonest` the agreement of
the two lists is proved in general (`ListsMeanTheSame`); that a mask contains what its bits say
is checked for addresses of a few bits.

## Where the code and its promises differ

The finding `NetServiceRetry` has a run. The following was also met while modelling. Where a
fault is named, adding it to the named run reproduces it; it is stated here and as a
restriction of the runs and theorems.

*System proxy, supervisor, bridge*

* `SysProxy` with two ports: `take_over` recognises its own trace only at the port it has just
  bound (`proxy.rs:109`). After the port was changed in the settings, or beside a second
  instance on another port, the registry holds an enabled loopback address of ours, which is
  saved as the user's original and written back on exit, against rule 3 at `proxy.rs:13`. The
  theorem and the runs therefore assume one port.
* `Supervisor`: a form takes the mode from the configuration in force when it is built
  (`settings_page.rs:574`: the tray switches `mode`), waits in the command channel, and
  replaces the whole configuration when it is taken (`main.rs:720`). A mode chosen in the
  menu in between is put back.
* `SysProxyKept` with `kill-in-start`: the configuration is read (`main.rs:362`) before the
  port is bound (`main.rs:403`), with probes awaited in between. An instance that starts
  while another one takes over, and binds after that one was killed, recognises its pointer
  but has an older `saved_sysproxy` in memory: the setting is lost.
* `SysProxyKept` with `kill-in-write`, `SysProxyFaults` after `restore-write`: a restoring
  write that is cut short (`sysproxy.rs:445-451`) leaves a mixture, with our address still
  enabled when it failed early.
* `SysProxyKept` with `untick`: our address with the checkbox off is not
  recognised as our trace (`proxy.rs:56-60`, on purpose) and becomes the user's setting.
* `Bridge`: the route is the one in force when the head is complete (`serve.rs:183`), while
  the header of `router.rs` speaks of new connections. `RouteIsHonest` therefore allows every
  route published between the accept and the pick.
* `SysProxyKept` with `edit-in-window`: an edit between the read and the last write of
  `take_over` is overwritten without having been saved.
* `SysProxyKept` with `bridge-stop`: the listener of one of two instances dies when it has
  written only the first of its three values; the other binds the port, reads the mixture and
  saves it as the user's setting (`main.rs:618`).
* `SysProxyFaults` with two instances (`overlap`), one port and `bridge-stop`: the listener of
  the first dies, the second binds the port and finds the first one's address not enabled (it is
  half written, or was switched off: `untick`). It does not take that for a trace, keeps
  it as the user's, and restores it in the end, while the other may be writing, too; the
  registry then points at nobody, without a kill or a failed write. With two ports no listener
  has to die for that. This is what `Exclusive` excludes from `PointedOnlyWhileOwned`.
* `ViewsAreHonest` compares between two commands. Between `TakeChange` and `Report` the page
  puts the new address beside the old health (`settings_page.rs:1217`), so its chip may be
  stale. With a pinned mode and no upstream the header says "unavailable" though the entry
  says "not set".
* With a mode pinned to an upstream that is not configured, all checks of the doctor are well.
* `BypassList`: Windows and the bridge disagree about networks, plain names (`<local>`), IPv6
  addresses and names with a final dot; `ListsAgree` states exactly that remainder.
* `Bench`: for an IPv6 address on the default port `host_header` drops the brackets
  (`bench.rs:192`); an answer with an HTTP error counts as a body. `CommandLine`: `--port 0` is
  taken, though the message says 1..65535 (`bridge/main.rs:59`).

* A setting that is read and written back is not always what it was: half a UTF-16 letter
  becomes U+FFFD (`sysproxy.rs:404`), and a `REG_EXPAND_SZ` becomes a `REG_SZ`, so that variables in
  it are not filled in any more. The comments say that the content is kept and the type is not
  (`sysproxy.rs:439-441`, `274-280`); `Survives` names what is kept.

*Profile service*

* `uninstall-service` does not stop the service (`install.rs:286-294`), so a cycle during the removal
  or after it may put the address back, which nobody takes away any more, though the removal is
  said to be the last chance for that (`install.rs:232-239`). Without `crossed = "no"`,
  `NothingStaysBehind` is violated in `NetService`.
* `uninstall-service` trusts `applied.toml` (`install.rs:245-260`) and does not look whose address is
  on the adapter; it resets one the user has set since, against the rule at `netprofile.rs:20`.
  Without its last line, `ForeignStays` is violated in `NetService`.
* `NetService` with any other fault that `NetServiceProofs!Bearable` or `Removable` excludes
  (each of them alone makes one of the properties fail, `redock` with a second adapter): a
  kill, a failed save or a failed DNS command between the address and its record leaves an address the service no longer
  knows for its own, and then treats as foreign. A hollow success of the return to DHCP
  does the same, because nothing is read back there. A laptop that is moved to another
  adapter in the office (`redock`) forgets the address on the first one.
*Updates*

* `Update` with `race`: `staged.exe.partial` has one name for all processes. A process that
  leaves while its worker is downloading and its successor may write it by turns, and what was
  verified is not what is renamed: `OnlyVerifiedRuns` and `StatusIsHonest` fail. The check at
  the next start catches such a file, unless it is exchanged between that check and the rename.
* With `withdraw` and two installable releases above the installed one, the newer may be staged
  and withdrawn. The check then stages the older in its place: a status that names the newer is no
  longer true (`StatusIsHonest`), and a second process, which has installed the newer meanwhile,
  installs the older over it at its start (`OnlyUpward`), as an install compares no versions. The
  run has one such release.
* With `kill-in-swap` (between the renames at `install.rs:100`
  and `:108`), or when `rename` and `rollback` both strike, no executable is left under the
  name; nothing at the next start looks for the backup, as there is no next start.
* The status says "failed" when the deadline passes, though the worker goes on and stages the
  update after all. A process that leaves waits for its worker.
* `install.rs:22-25` takes the running image to be the one that was replaced; a second click
  on the icon exchanges the files under a running first instance, which then runs from the
  backup. Nothing is lost by it, and `ExecutableSurvives` includes it.
* Not in the model: a manual installation of a newer version leaves an older `staged.exe`, which
  the next start installs: staged versions are compared with what runs only when they are
  staged.

*Settings page and tunnel*

* Two tabs: the later save puts back what the earlier one changed, because a form carries every
  field (`settings_page.rs:1457`). `SavedAsMeant` holds for pages nothing has overtaken.
* When the Run entry cannot be read, the box is shown empty and disabled
  (`settings_page.rs:758`); if it can be read again when the form comes back, autostart is
  switched off.
* The autostart entry is written before the command is queued, and stays written when the
  command fails or is late. The button of a network adds the network at the time of the POST.
* An entry without quotes whose shorter prefix names another program starts that one, and the
  box is on (`autostart.rs:177`). An entry that names the program without its `.exe` starts it, and
  the box is off, as the comment at `autostart.rs:53-60` says.
* Bytes in a form that are no UTF-8 letter become U+FFFD (`settings_page.rs:510`); browsers
  do not send such bytes for a page in UTF-8.
* `WinTunnel::snapshot` reads log, adapters and routes one after the other (`main.rs:936-976`,
  `routes.rs:120-127`). When our tunnel ends after its log was read and another's routes come, the
  page says "up"; when ours comes up after its log was read, the page says "busy" and has no
  buttons. `SectionIsHonest` is about what was so when it was read.
* A raise for which OpenVPN was not found, or the registry not read, gets the default snapshot
  (`main.rs:941-943`), which says that nothing is in the way, and `raise()` looks for OpenVPN
  again (`main.rs:1002-1006`). If it is found then, the tunnel is raised over another one, against
  the comment at `settings_page.rs:1562-1566`. `NoSecondTunnel` excepts it.
* An openvpn that was killed leaves "up" in its log: `SaysUpOnlyWhenUp` excepts it. A restart of
  the connection that keeps the routes shows our own tunnel as another's, without buttons. In
  the phase of connecting the section says "down" and offers to raise. With an empty
  `office_subnets` it says "rising" for ever, where the comment calls it a short window
  (`settings_page.rs:1128`).
* An adapter that appears between the two route calls is not seen as a tunnel. `install_profile`
  does not write atomically. Two commands to the GUI may overtake each other.

*Seen in reading, without a model*

* `REQUEST_TIMEOUT` (15 s, `websrv.rs:306`) counts from the accept, so a measurement of up to
  9 s (`settings_page.rs:63`) that comes over a socket the browser opened early may still be
  cut off; and the server that `open_settings` finds running may close for idleness before the
  browser arrives.
* After a failed rollback the message at `netsvc/src/main.rs:682` announces further
  attempts; the latch set right after it prevents them on that network.

## Abstractions, and what is not modelled

Left out inside the modelled parts: wording, logging, the syntax of TOML, of heads and of
netsh output; the console handler of debug builds, which also restores; power loss between a
rename and its reaching the disk. The networks of `NLM`, adapters, netsh, the service manager,
Windows menus, WinHTTP, WinVerifyTrust, `CreateProcess`, openvpn-gui and the peers of a
connection are external and modelled by how the code uses them. In `Relay`, writes of a head do
not block for ever. In `NetService`, the office list is fixed, a profile that lacks a part counts
as missing, and the user never types exactly the address that the service remembers: nothing
the code looks at could tell the two apart. In `Update` a signature is a fact about a file, and a
file that was cut off is not signed. In `Tunnel` the log is the last thing it says.

Not modelled at all:

* where `openvpn.rs` finds the program and its folders (registry and environment; an outcome
  in `Tunnel`), and where `source.rs` splits an address;
* the reading of networks (`networks.rs`) and the COM guard: external to `NetWatch`;
* the chain of window procedures of the tray, drawing (`icon/`), message boxes;
* the layout of the page and its text report, the speed test's wiring (its engine is `Bench`);
* the TOML of `config.toml` and `profile.toml`, log set-up, the command line of the app.

## Plan

Built, in this order, the most important behaviour first: `SysProxy` with its proofs,
`Routing` and `Supervisor`, `Prober` with its proofs, `Bridge`, `Channel` and `Relay`,
`NetProfile` and `NetService` with its proofs, `SettingsServer` and `Shell`, and `NetWatch`, with
their proofs; then `Json` and `Update`; `Form`, `Autostart`, `Settings`, `Profile`, `Tunnel` and
`Page`; `BypassList`, `Bench`, `CommandLine`, `Registry`, `Menu` and `Doctor`;
then the abstract specifications `Loan`, `WakeUp` and `Upgrade`, which `SysProxy`, `NetWatch` and
`Update` implement.

Proved: every safety invariant and action property of `SysProxy`, `Supervisor`, `Prober`, `Bridge`,
`Relay`, `NetService`, `NetWatch`, `Shell`, `SettingsServer`, `Update`, `Settings` and `Tunnel`, the
views, the registry calls and the list of exceptions, the refinements of `Loan`, `WakeUp` and
`Upgrade`, and the safe part of that of `Channel` (see [Proofs](#proofs)).

Left for later:

1. Composition of `Shell` with the exit of `SysProxy`: two instances, a bridge that dies
   while a menu is open, the console handler.
2. `Supervisor!Wake` over `WakeUp` instead of an event of its own, so that `Converges` rests on
   the watch as specified.
3. What `Parse`, the JSON reader and `BuildProfile` give for texts of any length, along the lines
   of `BytesArrive`.
