------------------------------- MODULE Doctor -------------------------------
(***************************************************************************)
(* The diagnosis (crates/app/src/doctor.rs): what a person is told of the  *)
(* bridge, the system proxy, the upstreams and the network, from the       *)
(* configuration, the published state, an attempt to connect to the bridge *)
(* and the registry.  It runs once at the start and whenever the button of *)
(* the settings page is pressed.                                           *)
(***************************************************************************)
EXTENDS Routing

\* facts: cfg [manage, mode, up, offices]; state [health, network, in_office];
\* listening, the attempt to connect; free, the port before the bridge took it;
\* pointer, what the registry holds: ours, others, nobody, error.
CheckBridgeListening(f) == IF f.listening THEN "ok" ELSE "fail"

CheckSysproxyPointsAtUs(f) ==
  CASE ~f.cfg.manage \/ f.pointer = "ours" -> "ok"
    [] f.cfg.manage /\ f.pointer = "error" -> "fail"
    [] OTHER -> "warn"

\* What if the question were whether the bridge is there, not whether it is not?
CheckStalePointer_Inverted(f) ==
  CASE f.pointer = "error" -> "warn"
    [] f.pointer = "ours" /\ ~f.free -> "fail"
    [] OTHER -> "ok"

\* An address of ours with nobody behind it takes the network from everybody.
CheckStalePointer(f) ==
  CASE f.pointer = "error" -> "warn"
    [] f.pointer = "ours" /\ f.free -> "fail"
    [] OTHER -> "ok"

\* What if an upstream that was not probed yet counted as well?
CheckUpstreams_UnknownIsFine(f) ==
  IF \E u \in {"socks", "http"} : f.cfg.up[u] # None /\ f.state.health[u] = "down"
  THEN "fail" ELSE "ok"

\* Upstreams that are not configured do not count; the dead come first.
CheckUpstreams(f) ==
  LET of == {f.state.health[u] : u \in {v \in {"socks", "http"} : f.cfg.up[v] # None}}
  IN CASE "down" \in of -> "fail" [] "down" \notin of /\ "unknown" \in of -> "warn" [] OTHER -> "ok"

\* Where the machine is matters in the automatic mode only.
CheckNetworkRecognised(f) ==
  IF f.cfg.mode # "auto" \/ (f.state.network # None /\ f.state.in_office) THEN "ok" ELSE "warn"

CheckOfficeNetworks(f) ==
  IF f.cfg.mode # "auto" \/ f.cfg.offices # {} THEN "ok" ELSE "warn"

\* run_checks, without the note on what is never managed.
RunChecks(f) ==
  [bridge |-> CheckBridgeListening(f), sysproxy |-> CheckSysproxyPointsAtUs(f),
   stale |-> CheckStalePointer(f), upstreams |-> CheckUpstreams(f),
   network |-> CheckNetworkRecognised(f), offices |-> CheckOfficeNetworks(f)]

\* live_checks: the bridge is asked now, and `free' is the same question.
Live(f) == [f EXCEPT !.free = ~f.listening]

-----------------------------------------------------------------------------
(* What is true of the machine the facts describe.                         *)

Facts ==
  [cfg : [manage : BOOLEAN, mode : Modes, up : Upstreams, offices : SUBSET Nets],
   state : [health : Health, network : Nets \cup {None}, in_office : BOOLEAN],
   listening : BOOLEAN, free : BOOLEAN, pointer : {"ours", "others", "nobody", "error"}]

\* The state is in the office exactly in an office network.
Consistent(f) == f.state.in_office <=> f.state.network \in f.cfg.offices

Taken(f) == Decide(f.cfg.mode, f.cfg.up, f.state.in_office, f.state.health)
\* The upstreams the mode asks for.
Asked(f) ==
  {f.cfg.up[u] : u \in CASE f.cfg.mode = "auto" -> {"socks", "http"}
                          [] f.cfg.mode = "direct" -> {}
                          [] OTHER -> {f.cfg.mode}} \ {None}
AllClear(checks) == \A c \in DOMAIN checks : checks[c] = "ok"

\* The diagnosis on demand tells the truth: when it finds nothing, requests
\* reach the bridge and the bridge uses an upstream, unless none is set of those
\* that the mode asks for; when an address without a bridge cuts everybody off
\* it says so, and it says so of nothing else.
DiagnosisIsHonest ==
  \A f \in Facts : Consistent(f) =>
    \A checks \in {RunChecks(Live(f))} :
      /\ AllClear(checks) =>
           /\ f.listening /\ (f.cfg.manage => f.pointer = "ours")
           /\ Asked(f) # {} => Taken(f).route # DirectRoute
      /\ checks.stale = "fail" <=> (f.pointer = "ours" /\ ~f.listening)
      /\ checks.stale = "fail" => checks.bridge = "fail"
=============================================================================
