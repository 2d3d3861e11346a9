-------------------------------- MODULE Menu --------------------------------
(***************************************************************************)
(* What a person sees of the published state: the menu, the tooltip and    *)
(* the picture in the tray (crates/app/src/tray.rs, icons.rs) and the head *)
(* of the settings page (crates/app/src/settings_page.rs).  Whether an     *)
(* upstream is configured the tray can only tell from its health.          *)
(***************************************************************************)
EXTENDS Routing

NoUpstreamConfigured(state) == state.health = [socks |-> "unknown", http |-> "unknown"]

\* What if what is missing were looked at before what is broken?
SituationText_Demoted(state) ==
  IF state.mode = "auto" /\ NoUpstreamConfigured(state) THEN [says |-> "not set"]
  ELSE [says |-> "route", route |-> state.route]

\* header_text and situation_text: a demotion is never hidden.
SituationText(state) ==
  CASE state.demoted -> [says |-> "unavailable", mode |-> state.mode]
    [] ~state.demoted /\ state.mode = "auto" /\ NoUpstreamConfigured(state) -> [says |-> "not set"]
    [] OTHER -> [says |-> "route", route |-> state.route]

\* The same on the page, which has the addresses next to it.
RouteText(state) ==
  IF state.demoted THEN [says |-> "unavailable", mode |-> state.mode]
  ELSE [says |-> "route", route |-> state.route]

Word(reach) == CASE reach = "up" -> "available" [] reach = "down" -> "unavailable" [] OTHER -> "not set"

\* mode_label, and whether the item is checked.
ModeLabel(mode, state) ==
  [says |-> IF mode \in {"socks", "http"} THEN Word(state.health[mode]) ELSE "",
   checked |-> state.mode = mode]

\* health_text and health_class: the address is the configuration's, the health
\* that of the published state.
HealthText(addr, reach) ==
  CASE addr = None -> "not set"
    [] addr # None /\ reach = "unknown" -> "not probed yet"
    [] OTHER -> Word(reach)

\* What if one missing upstream were enough?
IconFor_OneMissing(state) ==
  IF state.route = DirectRoute /\ state.mode # "direct" /\ "unknown" \in {state.health.socks, state.health.http}
  THEN "unconfigured" ELSE state.route.via

IconFor(state) ==
  IF state.route = DirectRoute /\ state.mode # "direct" /\ NoUpstreamConfigured(state)
  THEN "unconfigured" ELSE state.route.via
=============================================================================
