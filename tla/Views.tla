-------------------------------- MODULE Views --------------------------------
(***************************************************************************)
(* The command task together with what people see of it: the menu and the  *)
(* picture in the tray, the head of the settings page (Menu), and the      *)
(* diagnosis (Doctor).  None of them has a state of its own: they read     *)
(* what the task has published.                                            *)
(***************************************************************************)
EXTENDS Supervisor, Menu, Doctor

\* Between two commands the menu and the page name the route that new connections
\* take, and say of every upstream the same; the menu asks for settings only when
\* there are none, never because a server is down, and the other way round it is
\* quiet only while nothing is missing; the picture is that of the route.
MenuIsHonest ==
  app # None /\ task.at = "recv" =>
    LET says == SituationText(app)
        missing == Ups(live) = [socks |-> None, http |-> None]
    IN /\ says.says = "not set" <=> missing /\ live.mode = "auto"
       /\ says.says = "unavailable" <=> live.mode \in {"socks", "http"} /\ router = DirectRoute
       /\ says.says = "route" => says.route = router
       /\ RouteText(app) = says \/ missing
       /\ IconFor(app) = "unconfigured" <=> missing /\ live.mode # "direct"
       /\ IconFor(app) # "unconfigured" => IconFor(app) = router.via
       /\ \A u \in {"socks", "http"} :
            /\ ModeLabel(u, app).says = HealthText(Ups(shared)[u], app.health[u])
            /\ ModeLabel(u, app).says = "not set" <=> Ups(live)[u] = None
            /\ router.via = u => ModeLabel(u, app).says = "available"
       /\ {m \in Modes : ModeLabel(m, app).checked} = {saved.mode}

\* What is seen is what is so.  The menu is right between two commands, and the
\* diagnosis never calls well what is not.
ViewsAreHonest == MenuIsHonest /\ DiagnosisIsHonest
==============================================================================
