---------------------------- MODULE MCSupervisor ----------------------------
(***************************************************************************)
(* Instances of Supervisor for TLC: one office network, one or two         *)
(* upstreams, and forms that change the upstreams and the port.  Every     *)
(* variable ranges over a finite set; the channel has one place instead of *)
(* sixteen, so that it does fill up.                                       *)
(***************************************************************************)
EXTENDS Views, TLC

CONSTANTS s1, h1, office, p3129, p3130

Form(socks, http, offices, p) ==
  [socks |-> socks, http |-> http, offices |-> offices, bridge_port |-> p]

Config(mode, form) ==
  [socks |-> form.socks, http |-> form.http, offices |-> form.offices,
   bridge_port |-> form.bridge_port, mode |-> mode]

\* Both upstreams at the office, and a form that drops SOCKS and moves the port;
\* nothing configured at all.
BothForm == Form(s1, h1, {office}, p3129)
HttpForm == Form(None, h1, {office}, p3130)
NoForm == Form(None, None, {}, p3129)

AForm == {HttpForm}
AutoConfig == {Config("auto", BothForm), Config("auto", NoForm)}
=============================================================================
