----------------------------- MODULE NetService -----------------------------
(***************************************************************************)
(* The service that keeps an adapter on the office's static address while  *)
(* the machine is in the office and on DHCP elsewhere (netsvc/src/main.rs, *)
(* state.rs, exec.rs, safety.rs), and the removal of the service, which    *)
(* runs in a process of its own (install.rs).                              *)
(*                                                                         *)
(* The service is one thread that wakes on a network event or every 30     *)
(* seconds and runs one cycle.  A cycle is a sequence of calls to the      *)
(* system, and the world may change between any two of them: each call is  *)
(* an action.  netsh is run in batches of two commands, address and DNS.   *)
(* Every command may be refused, be late (killed after ten seconds, but    *)
(* its effect is there) or hollow (reported as done, without an effect);   *)
(* Faults names the flaws that happen.                                     *)
(***************************************************************************)
EXTENDS NetProfile

CONSTANTS
  Nets,      \* identifiers of networks
  Offices,   \* those listed in profile.toml
  Profiles,  \* contents of profile.toml
  Faults     \* see FaultsAssumption

Phases == {"static", "rollback", "return", "uninstall"}

NetshFaults == {"refused", "late", "hollow"} \X Phases \X {"addr", "dns"}

OtherFaults ==
  {"save-applied",      \* applied.toml cannot be written after a static address
   "save-default",      \* nor after the way back to DHCP
   "unread",            \* the adapter cannot be found or read
   "unread-static",     \* it cannot be read after a static address was put on it
   "kill",              \* the process ends within a cycle
   "kill-in-static",    \* the process ends between a static address and its record
   "edit-in-cycle",     \* the user changes the adapter during a cycle
   "uninstall-unread",  \* the adapter is not found by the removal
   "redock"}            \* the office network moves to another adapter

ASSUME OfficesAssumption == Offices \subseteq Nets /\ Nothing \notin Nets
ASSUME ProfilesAssumption == Profiles \subseteq NetProfiles \cup {Nothing}
ASSUME FaultsAssumption == Faults \subseteq {<<f>> : f \in OtherFaults} \cup NetshFaults

VARIABLES
  net,         \* the connected network, or Nothing
  wire,        \* the adapter the network comes through
  profile,     \* profile.toml
  addr, dns,   \* addr[a], dns[a]: the settings of adapter a
  whose,       \* history: who put the static address of a there, "nobody" under DHCP
  applied,     \* applied.toml
  registered,  \* the service is known to the service manager
  pc,          \* where the cycle is; "off" when the service is not running
  cmd,         \* the command of the batch that is next
  job,         \* what the cycle has read: network, profile, applied state, adapter
  latch,       \* LATCHED_NETWORK
  rolled,      \* history: the network of the last rollback, until another one is seen
  upc, victim, \* where the removal is, and the adapter it reverts
  crossed,     \* history: whether a cycle ran "during" a removal, or "after" one
  calm         \* from now on nothing fails and nobody changes anything

world == <<net, wire, profile, registered, calm>>
card == <<addr, dns, whose>>
service == <<pc, cmd, job, latch, rolled>>
removal == <<upc, victim, crossed>>
vars == <<net, wire, profile, addr, dns, whose, applied, registered, pc, cmd, job,
          latch, rolled, upc, victim, crossed, calm>>

NoJob == [net |-> Nothing, office |-> FALSE, profile |-> Nothing, applied |-> Nothing,
          iface |-> Nothing]
Jobs == [net : Nets \cup {Nothing}, office : BOOLEAN, profile : Profiles \cup {Nothing},
         applied : AppliedStates \cup {Nothing}, iface : Adapters \cup {Nothing}]

InStatic == {"static", "verify", "save"}   \* a static address may be there, unrecorded
InBack == {"rollback", "reread", "forget", "latch"}
InReturn == {"return", "returned"}
Busy == InStatic \cup {"ping"} \cup InBack \cup InReturn

TypeOK ==
  /\ net \in Nets \cup {Nothing} /\ wire \in Adapters
  /\ profile \in Profiles
  /\ addr \in [Adapters -> Statics \cup {Dhcp}]
  /\ dns \in [Adapters -> DnsLists \cup {Dhcp}]
  /\ whose \in [Adapters -> {"nobody", "service", "user"}]
  /\ \A a \in Adapters : addr[a] = Dhcp <=> whose[a] = "nobody"
  /\ applied \in AppliedStates \cup {Nothing}
  /\ registered \in BOOLEAN /\ calm \in BOOLEAN
  /\ pc \in {"off", "idle", "look"} \cup Busy
  /\ cmd \in {"addr", "dns"}
  /\ job \in Jobs
  /\ pc \in Busy => job.iface # Nothing
  /\ pc \in InStatic \cup {"ping"} \cup InBack =>
       job.office /\ job.net # Nothing /\ job.profile # Nothing
  /\ latch \in Nets \cup {Nothing} /\ rolled \in Nets \cup {Nothing}
  /\ upc \in {"no", "addr", "dns", "forget", "delete"}
  /\ victim \in Adapters \cup {Nothing}
  /\ upc \in {"addr", "dns"} => victim # Nothing
  /\ crossed \in {"no", "after", "during"}

Faulty(fault) == ~calm /\ fault \in Faults

InOffice == net \in Offices

-----------------------------------------------------------------------------
(* The system the service works on.                                        *)

Effect(a, what, value) ==
  \/ /\ what = "addr"
     /\ addr' = [addr EXCEPT ![a] = value]
     /\ whose' = [whose EXCEPT ![a] = IF value = Dhcp THEN "nobody" ELSE "service"]
     /\ UNCHANGED dns
  \/ /\ what = "dns"
     /\ dns' = [dns EXCEPT ![a] = value]
     /\ UNCHANGED <<addr, whose>>

\* run_netsh: one command, with what happened and what is reported of it.
Netsh(a, phase, what, value, ok) ==
  \/ ok /\ Effect(a, what, value)
  \/ ok /\ Faulty(<<"hollow", phase, what>>) /\ UNCHANGED card
  \/ ~ok /\ Faulty(<<"refused", phase, what>>) /\ UNCHANGED card
  \/ ~ok /\ Faulty(<<"late", phase, what>>) /\ Effect(a, what, value)

\* save_to is a plain write: one that fails may have emptied the file.
Write(state, fault) ==
  \/ applied' = state
  \/ Faulty(<<fault>>) /\ applied' \in {applied, Nothing}

Goto(stage) == pc' = stage /\ job' = job
Return == pc' = "idle" /\ job' = NoJob

-----------------------------------------------------------------------------
(* The cycle.                                                              *)

\* check_and_maintain_latch: only being seen on another network lifts it.
Latched == latch # Nothing /\ latch = net

\* Nothing is read, and the latch is left alone, as long as there is no profile.
NotConfigured == pc = "idle" /\ profile = Nothing /\ UNCHANGED vars

\* Profile, connected networks, the latch, applied.toml.
Look ==
  /\ pc = "idle" /\ profile # Nothing
  /\ latch' = IF Latched THEN latch ELSE Nothing
  /\ rolled' = IF rolled = net THEN rolled ELSE Nothing
  /\ IF InOffice /\ Latched
     THEN Return
     ELSE /\ pc' = "look"
          /\ job' = [net |-> net, office |-> InOffice, profile |-> profile,
                     applied |-> applied, iface |-> Nothing]
  /\ crossed' = CASE upc # "no" -> "during"
                   [] upc = "no" /\ ~registered /\ crossed = "no" -> "after"
                   [] OTHER -> crossed
  /\ UNCHANGED <<world, card, applied, cmd, upc, victim>>

\* find_office_adapter among what gather_from_nlm sees: the adapter of the network
\* the place was decided by, unless that network has gone in the meantime.
OfficeAdapter == IF net = job.net THEN wire ELSE Nothing

\* The adapter: from the network in the office, from applied.toml outside.
Iface ==
  IF job.office THEN OfficeAdapter
  ELSE IF job.applied = Nothing THEN Nothing ELSE job.applied.iface

Choose ==
  /\ pc = "look"
  /\ \/ /\ Iface # Nothing
        /\ LET action == DecideProfile(job.office, job.profile, addr[Iface], dns[Iface],
                                       SetByUs(job.applied, addr[Iface]))
           IN  IF action = "leave" THEN Return
               ELSE pc' = action /\ job' = [job EXCEPT !.iface = Iface]
     \/ Iface = Nothing /\ Return
     \/ Faulty(<<"unread">>) /\ Return
  /\ UNCHANGED <<world, card, applied, cmd, latch, rolled, removal>>

\* run_netsh_batch: address, then DNS, stopping at the first failure.
Batch(phase, address, servers, after, otherwise) ==
  /\ pc = phase
  /\ \E ok \in BOOLEAN :
       /\ Netsh(job.iface, phase, cmd, IF cmd = "addr" THEN address ELSE servers, ok)
       /\ IF ok /\ cmd = "addr"
          THEN cmd' = "dns" /\ Goto(phase)
          ELSE /\ cmd' = "addr"
               /\ LET next == IF ok THEN after ELSE otherwise
                  IN  IF next = "idle" THEN Return ELSE Goto(next)
  /\ UNCHANGED <<world, applied, latch, rolled, removal>>

SetStatic == Batch("static", job.profile.ip, job.profile.dns, "verify", "idle")

\* The record is written only for an address that has been read back.
Verify ==
  /\ pc = "verify"
  /\ \/ addr[job.iface] = job.profile.ip /\ Goto("save")
     \/ addr[job.iface] # job.profile.ip /\ Return
     \/ Faulty(<<"unread-static">>) /\ Return
  /\ UNCHANGED <<world, card, applied, cmd, latch, rolled, removal>>

NewState(ip, iface) == [ip |-> ip, iface |-> iface]

Save ==
  /\ pc = "save" /\ Goto("ping")
  /\ Write(NewState(job.profile.ip, job.iface), "save-applied")
  /\ UNCHANGED <<world, card, cmd, latch, rolled, removal>>

\* evaluate_gateway: no gateway to check, an echo in time, or a rollback.
Ping ==
  /\ pc = "ping"
  /\ \/ Return /\ UNCHANGED rolled
     \/ job.profile.gateway /\ Goto("rollback") /\ rolled' = job.net
  /\ UNCHANGED <<world, card, applied, cmd, latch, removal>>

Rollback == Batch("rollback", Dhcp, Dhcp, "reread", "latch")

\* What if a rollback counted as done as soon as netsh has said so?
Reread_Trusting ==
  /\ pc = "reread" /\ Goto("forget")
  /\ UNCHANGED <<world, card, applied, cmd, latch, rolled, removal>>

\* Only a rollback that has been read back makes the service forget its address.
Reread ==
  /\ pc = "reread"
  /\ \/ addr[job.iface] = Dhcp /\ Goto("forget")
     \/ addr[job.iface] # Dhcp /\ Goto("latch")
     \/ Faulty(<<"unread">>) /\ Goto("latch")
  /\ UNCHANGED <<world, card, applied, cmd, latch, rolled, removal>>

Forget ==
  /\ pc = "forget" /\ Goto("latch")
  /\ Write(Nothing, "save-default")
  /\ UNCHANGED <<world, card, cmd, latch, rolled, removal>>

\* What if only a rollback that worked were a reason to stop trying?
SetLatch_OnSuccess ==
  /\ pc = "latch" /\ Return
  /\ latch' = IF addr[job.iface] = Dhcp /\ applied = Nothing THEN latch ELSE job.net
  /\ UNCHANGED <<world, card, applied, cmd, rolled, removal>>

\* Verified or not, no second try on this network.
SetLatch ==
  /\ pc = "latch" /\ Return
  /\ latch' = job.net
  /\ UNCHANGED <<world, card, applied, cmd, rolled, removal>>

ReturnToDhcp == Batch("return", Dhcp, Dhcp, "returned", "idle")

\* After SetDhcp nothing is read back.
Returned ==
  /\ pc = "returned" /\ Return
  /\ Write(Nothing, "save-default")
  /\ UNCHANGED <<world, card, cmd, latch, rolled, removal>>

Cycle ==
  \/ NotConfigured \/ Look \/ Choose \/ SetStatic \/ Verify \/ Save \/ Ping
  \/ Rollback \/ Reread \/ Forget \/ SetLatch \/ ReturnToDhcp \/ Returned

-----------------------------------------------------------------------------
(* Start, stop, end.                                                       *)

Start ==
  /\ pc = "off" /\ registered
  /\ pc' = "idle" /\ latch' = Nothing /\ rolled' = Nothing
  /\ UNCHANGED <<world, card, applied, cmd, job, removal>>

\* The stop is an event of the same channel: it is taken between two cycles.
Stop ==
  /\ pc = "idle" /\ ~calm /\ pc' = "off"
  /\ UNCHANGED <<world, card, applied, cmd, job, latch, rolled, removal>>

\* Killed, or the power fails; a write of applied.toml may have got half way.
Kill ==
  /\ pc \notin {"off", "idle"}
  /\ Faulty(IF pc \in InStatic THEN <<"kill-in-static">> ELSE <<"kill">>)
  /\ pc' = "off" /\ cmd' = "addr" /\ job' = NoJob
  /\ IF pc \in {"save", "forget", "returned"} THEN applied' \in {applied, Nothing}
     ELSE UNCHANGED applied
  /\ UNCHANGED <<world, card, latch, rolled, removal>>

-----------------------------------------------------------------------------
(* uninstall-service: a process of its own.  It neither stops the service   *)
(* nor waits for it (install.rs:286-294): the service may be off, between  *)
(* two cycles or within one, and it goes on until somebody stops it.       *)

\* Somewhere in a cycle when the removal begins.
BeginRemoval ==
  /\ upc = "no" /\ ~calm
  /\ crossed' = IF pc \in {"off", "idle"} THEN crossed ELSE "during"
  /\ UNCHANGED <<world, card, applied, service>>

\* What if the removal did not put the adapter back on DHCP?
Uninstall_Bare ==
  /\ BeginRemoval
  /\ upc' = "delete" /\ victim' = Nothing

\* revert_to_dhcp_before_removal looks at applied.toml, never at the adapter nor at
\* the service.
Uninstall ==
  /\ BeginRemoval
  /\ \/ applied = Nothing /\ upc' = "delete" /\ victim' = Nothing
     \/ applied # Nothing /\ upc' = "addr" /\ victim' = applied.iface
     \/ Faulty(<<"uninstall-unread">>) /\ upc' = "delete" /\ victim' = Nothing

Revert ==
  /\ upc \in {"addr", "dns"}
  /\ \E ok \in BOOLEAN :
       /\ Netsh(victim, "uninstall", upc, Dhcp, ok)
       /\ upc' = CASE ok /\ upc = "addr" -> "dns"
                   [] ok /\ upc = "dns" -> "forget"
                   [] OTHER -> "delete"
  /\ UNCHANGED <<world, applied, service, victim, crossed>>

RevertDone ==
  /\ upc = "forget" /\ upc' = "delete"
  /\ Write(Nothing, "save-default")
  /\ UNCHANGED <<world, card, service, victim, crossed>>

\* DeleteService, if there is a service: a running one goes on until it is stopped.
Delete ==
  /\ upc = "delete" /\ upc' = "no" /\ victim' = Nothing
  /\ registered' = FALSE
  /\ UNCHANGED <<net, wire, profile, calm, card, applied, service, crossed>>

\* CreateServiceW registers the service and does not start it.
Install ==
  /\ ~registered /\ pc = "off" /\ ~calm /\ registered' = TRUE
  /\ crossed' = IF crossed = "after" THEN "no" ELSE crossed
  /\ UNCHANGED <<net, wire, profile, calm, card, applied, service, upc, victim>>

Removal == Uninstall \/ Revert \/ RevertDone \/ Delete

-----------------------------------------------------------------------------
(* The world.                                                              *)

Move(network) ==
  /\ ~calm /\ net' = network
  /\ wire' \in IF <<"redock">> \in Faults THEN Adapters ELSE {wire}
  /\ UNCHANGED <<profile, registered, calm, card, applied, service, removal>>

\* The user gives an adapter an address of his own or puts it on DHCP.  The very
\* address the service remembers is left out: nothing could tell the two apart.
UserSets(a, value) ==
  /\ ~calm
  /\ (pc \in {"off", "idle"} /\ upc = "no") \/ <<"edit-in-cycle">> \in Faults
  /\ applied # Nothing => value # applied.ip
  /\ addr' = [addr EXCEPT ![a] = value]
  /\ dns' = [dns EXCEPT ![a] = Dhcp]
  /\ whose' = [whose EXCEPT ![a] = IF value = Dhcp THEN "nobody" ELSE "user"]
  /\ UNCHANGED <<world, applied, service, removal>>

EditProfile(p) ==
  /\ ~calm /\ profile' = p
  /\ UNCHANGED <<net, wire, registered, calm, card, applied, service, removal>>

\* A moment from which on nothing fails, the service runs, and nobody interferes.
Settle ==
  /\ ~calm /\ pc # "off" /\ upc = "no" /\ calm' = TRUE
  /\ UNCHANGED <<net, wire, profile, registered, card, applied, service, removal>>

-----------------------------------------------------------------------------
Init ==
  /\ net \in Nets \cup {Nothing} /\ wire \in Adapters
  /\ profile \in Profiles
  /\ addr \in [Adapters -> Statics \cup {Dhcp}]
  /\ dns = [a \in Adapters |-> Dhcp]
  /\ whose = [a \in Adapters |-> IF addr[a] = Dhcp THEN "nobody" ELSE "user"]
  /\ applied = Nothing
  /\ registered = TRUE
  /\ pc = "off" /\ cmd = "addr" /\ job = NoJob
  /\ latch = Nothing /\ rolled = Nothing
  /\ upc = "no" /\ victim = Nothing /\ crossed = "no"
  /\ calm = FALSE

Next ==
  \/ Cycle \/ Start \/ Stop \/ Kill \/ Removal \/ Install
  \/ \E network \in Nets \cup {Nothing} : Move(network)
  \/ \E a \in Adapters, value \in Statics \cup {Dhcp} : UserSets(a, value)
  \/ \E p \in Profiles : EditProfile(p)
  \/ Settle

Spec == Init /\ [][Next]_vars

\* The timer wakes the service every 30 seconds; netsh and the echoes are waited for
\* with a timeout, so that every call of a cycle returns.
FairSpec == Spec /\ WF_vars(Cycle)

-----------------------------------------------------------------------------
(* Properties.                                                             *)

\* An address the service did not put there is never changed by a cycle: "foreign static
\* is never reset" (core/src/netprofile.rs:20).  Besides the user only the removal
\* changes one: it looks at applied.toml and never at the adapter (install.rs:245-260),
\* so it does reset an address that the user has given to the adapter named there.
ForeignStays ==
  [][\A a \in Adapters :
       whose[a] = "user" /\ (addr'[a] # addr[a] \/ dns'[a] # dns[a]) =>
         \/ \E value \in Statics \cup {Dhcp} : UserSets(a, value)
         \/ Revert /\ victim = a]_vars

\* Between two cycles the service knows its own address for its own, if no cycle ran
\* during a removal.  If it did not it would take it for a foreign one and leave the
\* machine on it, wherever it goes.
OursIsRemembered ==
  pc \in {"off", "idle"} /\ upc = "no" /\ crossed # "during" =>
    \A a \in Adapters : whose[a] = "service" => applied = NewState(addr[a], a)

\* No flapping: after a rollback no static address is tried again on that network
\* before the service has been on another one or was started anew.
NoFlapping ==
  [][pc = "look" /\ pc' = "static" => job.net # rolled]_vars

\* What the service is there for: in the office the profile's address and servers,
\* unless the address is foreign or the gateway did not answer; elsewhere no address
\* of its own.
Right ==
  IF InOffice
  THEN \/ profile = Nothing
       \/ addr[wire] = profile.ip /\ dns[wire] = profile.dns
       \/ whose[wire] = "user"
       \/ latch = net
  ELSE profile = Nothing \/ \A a \in Adapters : whose[a] # "service"

\* When nothing fails any more the machine ends up where it should, whatever happened,
\* but for a cycle during a removal.
Converges == <>[](calm /\ crossed # "during") => <>[]Right

\* Once the service is removed and no longer runs, its address is gone with it: nobody
\* else would ever take it back (install.rs:232-239).  But the removal does not stop
\* the service: a cycle that runs during or after the removal, before somebody has
\* stopped the service, may put the address back, and that one stays.
NothingStaysBehind ==
  ~registered /\ pc = "off" /\ crossed = "no" =>
    \A a \in Adapters : whose[a] # "service"

\* What the service says after a return to DHCP that failed: it tries again on the next
\* cycle.  So outside the office the office's DNS servers do not stay.
ReturnIsRetried ==
  <>[](calm /\ profile # Nothing /\ ~InOffice) => <>[](dns[wire] = Dhcp)
=============================================================================
