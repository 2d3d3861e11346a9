------------------------------ MODULE Routing -------------------------------
(***************************************************************************)
(* The pure core: which upstream a connection goes through, given the mode *)
(* the user chose, the configured upstreams, the place and what is known   *)
(* about the upstreams (core/src/mode.rs, core/src/config.rs).             *)
(***************************************************************************)
CONSTANTS
  Addrs,   \* upstream addresses, "host:port"
  Nets,    \* identifiers of networks
  None     \* Option::None

ASSUME AddrsAssumption == None \notin Addrs

Modes == {"socks", "http", "direct", "auto"}
Reachability == {"up", "down", "unknown"}

Upstreams == [socks : Addrs \cup {None}, http : Addrs \cup {None}]
Health == [socks : Reachability, http : Reachability]

DirectRoute == [via |-> "direct"]
SocksRoute(up) == [via |-> "socks", addr |-> up.socks]
HttpRoute(up) == [via |-> "http", addr |-> up.http]
Routes == {DirectRoute} \cup [via : {"socks", "http"}, addr : Addrs]

\* Only an upstream that is configured and has just answered is worth a try;
\* "unknown" is not good enough.
Usable(addr, reach) == addr # None /\ reach = "up"

\* What if a pinned mode looked for the next best upstream?
Decide_Helpful(mode, up, in_office, health) ==
  LET socks == Usable(up.socks, health.socks)
      http == Usable(up.http, health.http)
  IN  IF mode = "direct" \/ (mode = "auto" /\ ~in_office)
      THEN [route |-> DirectRoute, demoted |-> FALSE]
      ELSE IF socks THEN [route |-> SocksRoute(up), demoted |-> FALSE]
      ELSE IF http THEN [route |-> HttpRoute(up), demoted |-> FALSE]
      ELSE [route |-> DirectRoute, demoted |-> mode # "auto"]

\* A pinned mode is replaced by Direct, never by the other upstream, and only
\* that counts as a demotion: Direct is a regular outcome of Auto.
Decide(mode, up, in_office, health) ==
  LET socks == Usable(up.socks, health.socks)
      http == Usable(up.http, health.http)
      route ==
        CASE mode = "socks" /\ socks -> SocksRoute(up)
          [] mode = "http" /\ http -> HttpRoute(up)
          [] mode = "auto" /\ in_office /\ socks -> SocksRoute(up)
          [] mode = "auto" /\ in_office /\ ~socks /\ http -> HttpRoute(up)
          [] OTHER -> DirectRoute
  IN  [route |-> route,
       demoted |-> mode \in {"socks", "http"} /\ route = DirectRoute]

\* An empty list of offices means "not in the office".
InOffice(offices, connected) == offices \cap connected # {}
=============================================================================
