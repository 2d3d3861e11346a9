-------------------------------- MODULE Page --------------------------------
(***************************************************************************)
(* The settings page as a whole: the form and the tunnel.  One server      *)
(* carries both (SettingsServer.tla), and nothing else is common to them:  *)
(* the networks of the tunnel are not among the fields of the form, and    *)
(* every button of the tunnel is a form of its own.  A behaviour is about  *)
(* one half of the page, the other rests.                                  *)
(***************************************************************************)
EXTENDS Settings, Tunnel

VARIABLE half   \* form or tunnel

vars == <<settingsVars, tunnelVars, half>>

TypeOK == SettingsTypeOK /\ TunnelTypeOK /\ half \in {"form", "tunnel"}

Init ==
  /\ SettingsInit /\ TunnelInit /\ half \in {"form", "tunnel"}
  /\ half = "form" => ~installed /\ source = {} /\ foreign = NoNet
  /\ half = "tunnel" => entry = NoEntry /\ place = None

\* handle_post: by the name of the action.
Next ==
  \/ half = "form" /\ SettingsNext /\ UNCHANGED <<tunnelVars, half>>
  \/ half = "tunnel" /\ TunnelNext /\ UNCHANGED <<settingsVars, half>>

Spec == Init /\ [][Next]_vars
=============================================================================
