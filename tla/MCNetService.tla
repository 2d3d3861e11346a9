---------------------------- MODULE MCNetService ----------------------------
(***************************************************************************)
(* Instances of NetService for TLC: one adapter, an office and another     *)
(* network, an office address, one of the user's, two lists of servers.    *)
(***************************************************************************)
EXTENDS NetService

CONSTANTS ip1, ip2, ip3, d1, d2

OneProfile == {[ip |-> ip1, dns |-> d1, gateway |-> FALSE]}

SomeProfiles ==
  {[ip |-> ip1, dns |-> d1, gateway |-> TRUE], [ip |-> ip1, dns |-> d2, gateway |-> TRUE],
   [ip |-> ip2, dns |-> Dhcp, gateway |-> FALSE], Nothing}

\* Everything after which the service still knows its address for its own.
Bearable ==
  {<<"save-default">>, <<"unread">>, <<"kill">>,
   <<"refused", "static", "addr">>, <<"hollow", "static", "addr">>, <<"hollow", "static", "dns">>}
  \cup ({"refused", "late", "hollow"} \X {"rollback"} \X {"addr", "dns"})
  \cup ({"refused", "late"} \X {"return"} \X {"addr", "dns"})
  \cup ({"refused", "late", "hollow"} \X {"uninstall"} \X {"dns"})
  \cup {<<"hollow", "return", "dns">>, <<"late", "uninstall", "addr">>}

ReturnRefused == {<<"refused", "return", "dns">>}
=============================================================================
