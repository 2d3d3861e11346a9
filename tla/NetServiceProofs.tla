-------------------------- MODULE NetServiceProofs --------------------------
(***************************************************************************)
(* What TLAPS proves about NetService, for any adapters, networks,         *)
(* profiles and addresses.                                                 *)
(***************************************************************************)
EXTENDS NetService, TLAPS

\* What a cycle has read stays usable: a profile always, an office network for all
\* that follows a decision to be static.
Informed ==
  /\ pc \notin {"off", "idle"} => job.profile # Nothing
  /\ pc = "look" /\ job.office => job.net # Nothing

Typed == TypeOK /\ Informed

LEMMA InitTyped == Init => Typed
<1> SUFFICES ASSUME Init PROVE Typed
  OBVIOUS
<1>1. NoJob \in Jobs
  BY DEF NoJob, Jobs
<1>2. /\ dns \in [Adapters -> DnsLists \cup {Dhcp}]
      /\ whose \in [Adapters -> {"nobody", "service", "user"}]
      /\ \A a \in Adapters : addr[a] = Dhcp <=> whose[a] = "nobody"
  BY DEF Init
<1> QED BY <1>1, <1>2 DEF Init, Typed, TypeOK, Informed, Busy, InStatic, InBack, InReturn

\* A command that works puts a well-typed setting on an adapter.
LEMMA NetshTyped ==
  ASSUME Typed, NEW a \in Adapters, NEW phase, NEW what, NEW value, NEW ok,
         what = "addr" => value \in Statics \cup {Dhcp},
         what = "dns" => value \in DnsLists \cup {Dhcp},
         Netsh(a, phase, what, value, ok)
  PROVE  /\ addr' \in [Adapters -> Statics \cup {Dhcp}]
         /\ dns' \in [Adapters -> DnsLists \cup {Dhcp}]
         /\ whose' \in [Adapters -> {"nobody", "service", "user"}]
         /\ \A b \in Adapters : addr'[b] = Dhcp <=> whose'[b] = "nobody"
  BY DhcpAssumption DEF Typed, TypeOK, Netsh, Effect, card

\* So does a batch, whatever becomes of it.
LEMMA BatchTyped ==
  ASSUME Typed, NEW phase \in Phases \ {"uninstall"}, NEW address \in Statics \cup {Dhcp},
         NEW servers \in DnsLists \cup {Dhcp},
         NEW after \in {"verify", "reread", "returned"}, NEW otherwise \in {"idle", "latch"},
         phase = "return" <=> after = "returned",
         phase = "rollback" <=> otherwise = "latch",
         Batch(phase, address, servers, after, otherwise)
  PROVE  Typed'
<1>1. PICK ok \in BOOLEAN :
        /\ Netsh(job.iface, phase, cmd, IF cmd = "addr" THEN address ELSE servers, ok)
        /\ IF ok /\ cmd = "addr"
           THEN cmd' = "dns" /\ Goto(phase)
           ELSE /\ cmd' = "addr"
                /\ LET next == IF ok THEN after ELSE otherwise
                   IN  IF next = "idle" THEN Return ELSE Goto(next)
  BY DEF Batch
<1>2. pc = phase /\ UNCHANGED <<world, applied, latch, rolled, removal>>
  BY DEF Batch
<1>3. job.iface \in Adapters
  BY <1>2 DEF Typed, TypeOK, Jobs, Busy, InStatic, InBack, InReturn, Phases
<1>4. /\ addr' \in [Adapters -> Statics \cup {Dhcp}]
      /\ dns' \in [Adapters -> DnsLists \cup {Dhcp}]
      /\ whose' \in [Adapters -> {"nobody", "service", "user"}]
      /\ \A b \in Adapters : addr'[b] = Dhcp <=> whose'[b] = "nobody"
  BY <1>1, <1>3, NetshTyped DEF Typed, TypeOK
<1>5. CASE pc' = "idle" /\ job' = NoJob /\ cmd' = "addr"
  BY <1>2, <1>4, <1>5 DEF Typed, TypeOK, Informed, world, removal, NoJob, Jobs, Busy,
     InStatic, InBack, InReturn
<1>6. ASSUME job' = job, cmd' \in {"addr", "dns"},
             pc' = phase \/ pc' = after \/ (pc' = "latch" /\ phase = "rollback")
      PROVE  Typed'
  BY <1>2, <1>4, <1>6 DEF Typed, TypeOK, Informed, world, removal, Busy,
     InStatic, InBack, InReturn, Phases
<1>7. CASE ok /\ cmd = "addr"
  <2>1. cmd' = "dns" /\ pc' = phase /\ job' = job
    BY <1>1, <1>7 DEF Goto
  <2> QED BY <1>6, <2>1
<1>8. CASE ~(ok /\ cmd = "addr") /\ ok
  <2>1. cmd' = "addr" /\ pc' = after /\ job' = job
    BY <1>1, <1>8 DEF Goto
  <2> QED BY <1>6, <2>1
<1>9. CASE ~ok /\ otherwise = "idle"
  BY <1>1, <1>5, <1>9 DEF Return
<1>10. CASE ~ok /\ otherwise = "latch"
  BY <1>1, <1>6, <1>10 DEF Goto
<1> QED BY <1>7, <1>8, <1>9, <1>10

LEMMA NextTyped == Typed /\ [Next]_vars => Typed'
<1> SUFFICES ASSUME Typed, [Next]_vars PROVE Typed'
  OBVIOUS
<1> USE DEF Typed, TypeOK, Informed, Busy, InStatic, InBack, InReturn, world, card, service, removal
<1>0. NoJob \in Jobs
  BY DEF NoJob, Jobs
<1>1. CASE NotConfigured
  BY <1>1 DEF NotConfigured, vars
<1>2. CASE Look
  <2>0. /\ latch' \in Nets \cup {Nothing} /\ rolled' \in Nets \cup {Nothing}
        /\ crossed' \in {"no", "after", "during"}
    BY <1>2 DEF Look
  <2>1. CASE InOffice /\ Latched
    BY <1>0, <1>2, <2>0, <2>1 DEF Look, Return
  <2>2. CASE ~(InOffice /\ Latched)
    <3>1. pc' = "look" /\ job' = [net |-> net, office |-> InOffice, profile |-> profile,
                                   applied |-> applied, iface |-> Nothing]
      BY <1>2, <2>2 DEF Look
    <3>2. InOffice \in BOOLEAN /\ (InOffice => net # Nothing)
      BY OfficesAssumption DEF InOffice
    <3>3. job' \in Jobs
      BY <3>1, <3>2 DEF Jobs
    <3> QED BY <1>2, <2>0, <3>1, <3>2, <3>3 DEF Look
  <2> QED BY <2>1, <2>2
<1>3. CASE Choose
  <2>1. CASE Return
    BY <1>0, <1>3, <2>1 DEF Choose, Return
  <2>2. CASE ~Return
    <3>1. Iface \in Adapters
      BY <1>3, <2>2, NothingAssumption DEF Choose, Iface, OfficeAdapter, Jobs, AppliedStates
    <3>2. /\ job' = [job EXCEPT !.iface = Iface] /\ pc' \in {"static", "return"}
          /\ pc' = "static" => job.office
      BY <1>3, <2>2 DEF Choose, DecideProfile
    <3>3. job' \in Jobs /\ job'.iface = Iface /\ job'.office = job.office
          /\ job'.net = job.net /\ job'.profile = job.profile
      BY <3>1, <3>2 DEF Jobs
    <3> QED BY <1>3, <3>1, <3>2, <3>3, NothingAssumption DEF Choose
  <2> QED BY <2>1, <2>2
<1>4. CASE SetStatic
  <2>1. job.profile.ip \in Statics /\ job.profile.dns \in DnsLists \cup {Dhcp}
    BY <1>4, ProfilesAssumption DEF SetStatic, Batch, Jobs, NetProfiles
  <2> QED BY <1>4, <2>1, BatchTyped DEF SetStatic, Phases
<1>5. CASE Verify
  BY <1>0, <1>5 DEF Verify, Goto, Return
<1>6. CASE Save
  <2>1. NewState(job.profile.ip, job.iface) \in AppliedStates
    BY <1>6, ProfilesAssumption DEF Save, Jobs, NetProfiles, NewState, AppliedStates
  <2> QED BY <1>6, <2>1 DEF Save, Goto, Write
<1>7. CASE Ping
  BY <1>0, <1>7 DEF Ping, Goto, Return, Jobs
<1>8. CASE Rollback
  BY <1>8, BatchTyped DEF Rollback, Phases
<1>9. CASE Reread
  BY <1>9 DEF Reread, Goto
<1>10. CASE Forget
  BY <1>10 DEF Forget, Goto, Write
<1>11. CASE SetLatch
  BY <1>0, <1>11 DEF SetLatch, Return, Jobs
<1>12. CASE ReturnToDhcp
  BY <1>12, BatchTyped DEF ReturnToDhcp, Phases
<1>13. CASE Returned
  BY <1>0, <1>13 DEF Returned, Return, Write
<1>14. CASE Start \/ Stop \/ Kill
  BY <1>0, <1>14 DEF Start, Stop, Kill
<1>15. CASE Uninstall
  BY <1>15, NothingAssumption DEF Uninstall, BeginRemoval, AppliedStates
<1>16. CASE Revert
  <2>1. PICK ok \in BOOLEAN : Netsh(victim, "uninstall", upc, Dhcp, ok)
    BY <1>16 DEF Revert
  <2>2. victim \in Adapters
    BY <1>16 DEF Revert
  <2>3. /\ addr' \in [Adapters -> Statics \cup {Dhcp}]
        /\ dns' \in [Adapters -> DnsLists \cup {Dhcp}]
        /\ whose' \in [Adapters -> {"nobody", "service", "user"}]
        /\ \A b \in Adapters : addr'[b] = Dhcp <=> whose'[b] = "nobody"
    BY <2>1, <2>2, NetshTyped
  <2>4. upc' \in {"dns", "forget", "delete"}
    BY <1>16 DEF Revert
  <2> QED BY <1>16, <2>2, <2>3, <2>4 DEF Revert
<1>17. CASE RevertDone \/ Delete \/ Install
  <2>1. crossed' \in {"no", "after", "during"}
    BY <1>17 DEF RevertDone, Delete, Install
  <2> QED BY <1>17, <2>1 DEF RevertDone, Delete, Install, Write
<1>18. ASSUME NEW n \in Nets \cup {Nothing}, Move(n) PROVE Typed'
  BY <1>18 DEF Move
<1>19. ASSUME NEW a \in Adapters, NEW value \in Statics \cup {Dhcp}, UserSets(a, value)
       PROVE  Typed'
  BY <1>19, DhcpAssumption DEF UserSets
<1>20. ASSUME NEW p \in Profiles, EditProfile(p) PROVE Typed'
  BY <1>20 DEF EditProfile
<1>21. CASE Settle
  BY <1>21 DEF Settle
<1>22. CASE UNCHANGED vars
  BY <1>22 DEF vars
<1> QED
  BY <1>1, <1>2, <1>3, <1>4, <1>5, <1>6, <1>7, <1>8, <1>9, <1>10, <1>11, <1>12, <1>13,
     <1>14, <1>15, <1>16, <1>17, <1>18, <1>19, <1>20, <1>21, <1>22
     DEF Next, Cycle, Removal

\* Every reachable state of the service and of its removal is well typed, with
\* whatever faults: in particular a batch always has its adapter and its values.
THEOREM TypeCorrect == Spec => []TypeOK
<1>1. Typed => TypeOK
  BY DEF Typed
<1> QED BY <1>1, InitTyped, NextTyped, PTL DEF Spec

-----------------------------------------------------------------------------
(* The service knows its own address for its own.                          *)

\* No fault that strands an address: nothing fails between a static address and its
\* record, netsh does not claim to have taken an address away that is still there, and
\* the adapter and the user keep out of the way of a cycle.
Bearable ==
  /\ <<"redock">> \notin Faults
  /\ <<"edit-in-cycle">> \notin Faults /\ <<"kill-in-static">> \notin Faults
  /\ <<"unread-static">> \notin Faults /\ <<"save-applied">> \notin Faults
  /\ <<"late", "static", "addr">> \notin Faults
  /\ <<"refused", "static", "dns">> \notin Faults
  /\ <<"late", "static", "dns">> \notin Faults
  /\ <<"hollow", "return", "addr">> \notin Faults
  /\ <<"hollow", "uninstall", "addr">> \notin Faults

\* Everything is about one adapter, the one the office network comes through.
OneAdapter ==
  /\ \A a \in Adapters : whose[a] = "service" => a = wire
  /\ applied # Nothing => applied.iface = wire
  /\ pc \notin {"off", "idle"} /\ job.applied # Nothing => job.applied.iface = wire
  /\ pc \in Busy => job.iface = wire
  /\ victim # Nothing => victim = wire

\* The removal and a cycle are not under way together, or it is on record that they were.
Apart ==
  /\ crossed # "during" /\ upc # "no" => pc \in {"off", "idle"}
  /\ pc \notin {"static", "rollback", "return"} => cmd = "addr"

Known == whose[wire] = "service" => applied = NewState(addr[wire], wire)

\* Where the record may lag behind, and what a way back to DHCP has reached.
Stages ==
  crossed # "during" =>
    /\ pc \notin InStatic \/ (pc = "static" /\ cmd = "addr") => Known
    /\ (pc = "static" /\ cmd = "dns") \/ pc = "verify" =>
         Known \/ addr[wire] = job.profile.ip
    /\ pc = "save" => addr[wire] = job.profile.ip
    /\ (pc = "return" /\ cmd = "dns") \/ pc \in {"forget", "returned"} => addr[wire] = Dhcp
    /\ upc \in {"dns", "forget"} => addr[wire] = Dhcp

Remembered == OneAdapter /\ Apart /\ Stages

LEMMA InitRemembered == Init => Remembered
  BY DhcpAssumption DEF Init, Remembered, OneAdapter, Apart, Stages, Known, InStatic,
     InBack, InReturn, Busy

\* No address on the adapter of the office, no address to remember.
LEMMA DhcpIsKnown ==
  ASSUME Typed, addr[wire] = Dhcp
  PROVE  Known
  BY DEF Typed, TypeOK, Known

\* What a command on the adapter of the office can have done, and to which adapter.
LEMMA NetshOnWire ==
  ASSUME Typed, NEW phase, NEW what \in {"addr", "dns"}, NEW value, NEW ok,
         Netsh(wire, phase, what, value, ok)
  PROVE  /\ \A a \in Adapters : a # wire => whose'[a] = whose[a]
         /\ what = "dns" => addr' = addr /\ whose' = whose
         /\ \/ addr' = addr /\ whose' = whose
            \/ addr'[wire] = value /\ (value = Dhcp => whose'[wire] = "nobody")
         /\ what = "addr" /\ ok /\ <<"hollow", phase, "addr">> \notin Faults =>
              addr'[wire] = value
         /\ what = "addr" /\ ~ok /\ <<"late", phase, "addr">> \notin Faults =>
              addr' = addr /\ whose' = whose
         /\ ~ok => <<"refused", phase, what>> \in Faults \/ <<"late", phase, what>> \in Faults
<1>1. CASE what = "addr"
  BY <1>1 DEF Typed, TypeOK, Netsh, Effect, card, Faulty
<1>2. CASE what = "dns"
  BY <1>2 DEF Typed, TypeOK, Netsh, Effect, card, Faulty
<1> QED BY <1>1, <1>2

LEMMA NextRemembered ==
  ASSUME Bearable, Typed, Remembered, [Next]_vars
  PROVE  Remembered'
<1> USE DEF Remembered, OneAdapter, Apart, Stages, Known
<1> USE DEF Busy, InStatic, InBack, InReturn, world, card, service, removal
<1>0. /\ wire \in Adapters
      /\ addr[wire] = Dhcp <=> whose[wire] = "nobody"
      /\ Typed'
  BY NextTyped DEF Typed, TypeOK
<1>1. CASE NotConfigured
  BY <1>1 DEF NotConfigured, vars
<1>2. CASE Look
  <2>1. /\ pc = "idle" /\ pc' \in {"idle", "look"}
        /\ pc' = "idle" => job' = NoJob
        /\ pc' = "look" => job'.applied = applied
        /\ crossed' # "during" => crossed # "during" /\ upc = "no"
        /\ UNCHANGED <<world, card, applied, cmd, upc, victim>>
    BY <1>2 DEF Look, Return
  <2> QED BY <2>1
<1>3. CASE Choose
  <2>1. CASE Return
    BY <1>3, <2>1 DEF Choose, Return
  <2>2. CASE ~Return
    <3>1. Iface = wire
      BY <1>3, <2>2 DEF Choose, Iface, OfficeAdapter
    <3>2. job' = [job EXCEPT !.iface = wire] /\ pc' \in {"static", "return"}
      BY <1>3, <2>2, <3>1 DEF Choose, DecideProfile
    <3>3. job'.iface = wire /\ job'.applied = job.applied
      BY <3>2 DEF Typed, TypeOK, Jobs
    <3> QED BY <1>3, <3>2, <3>3 DEF Choose, NewState
  <2> QED BY <2>1, <2>2
<1>4. CASE SetStatic
  <2> DEFINE value == IF cmd = "addr" THEN job.profile.ip ELSE job.profile.dns
  <2>1. PICK ok \in BOOLEAN :
          /\ Netsh(wire, "static", cmd, value, ok)
          /\ ok /\ cmd = "addr" => cmd' = "dns" /\ Goto("static")
          /\ ok /\ cmd # "addr" => cmd' = "addr" /\ Goto("verify")
          /\ ~ok => cmd' = "addr" /\ Return
    BY <1>4 DEF SetStatic, Batch
  <2>2. /\ pc = "static" /\ cmd \in {"addr", "dns"}
        /\ UNCHANGED <<world, applied, latch, rolled, removal>>
    BY <1>4 DEF SetStatic, Batch, Typed, TypeOK
  <2>3. /\ \A a \in Adapters : a # wire => whose'[a] = whose[a]
        /\ cmd = "dns" => addr' = addr /\ whose' = whose
        /\ \/ addr' = addr /\ whose' = whose
           \/ addr'[wire] = value /\ (value = Dhcp => whose'[wire] = "nobody")
    BY <2>1, <2>2, NetshOnWire
  <2>4. \A a \in Adapters : whose'[a] = "service" => a = wire
    BY <2>3
  <2>5. CASE ok /\ cmd = "addr"
    <3>1. crossed # "during" => Known' \/ addr'[wire] = job.profile.ip
      BY <2>2, <2>3, <2>5
    <3> QED BY <2>1, <2>2, <2>4, <2>5, <3>1 DEF Goto
  <2>6. CASE ok /\ cmd = "dns"
    BY <2>1, <2>2, <2>3, <2>4, <2>6 DEF Goto
  <2>7. CASE ~ok
    <3>1. addr' = addr /\ whose' = whose /\ cmd = "addr"
      BY <2>1, <2>2, <2>7, NetshOnWire DEF Bearable
    <3> QED BY <2>1, <2>2, <2>4, <2>7, <3>1 DEF Return
  <2> QED BY <2>2, <2>5, <2>6, <2>7
<1>5. CASE Verify
  BY <1>5 DEF Verify, Goto, Return, Bearable, Faulty
<1>6. CASE Save
  BY <1>6 DEF Save, Goto, Write, NewState, Bearable, Faulty
<1>7. CASE Ping
  BY <1>7 DEF Ping, Goto, Return
<1>8. CASE Rollback
  <2> DEFINE value == IF cmd = "addr" THEN Dhcp ELSE Dhcp
  <2>1. PICK ok \in BOOLEAN :
          /\ Netsh(wire, "rollback", cmd, value, ok)
          /\ ok /\ cmd = "addr" => cmd' = "dns" /\ Goto("rollback")
          /\ ok /\ cmd # "addr" => cmd' = "addr" /\ Goto("reread")
          /\ ~ok => cmd' = "addr" /\ Goto("latch")
    BY <1>8 DEF Rollback, Batch
  <2>2. /\ pc = "rollback" /\ cmd \in {"addr", "dns"}
        /\ UNCHANGED <<world, applied, latch, rolled, removal>>
    BY <1>8 DEF Rollback, Batch, Typed, TypeOK
  <2>3. /\ \A a \in Adapters : a # wire => whose'[a] = whose[a]
        /\ cmd = "dns" => addr' = addr /\ whose' = whose
        /\ \/ addr' = addr /\ whose' = whose
           \/ addr'[wire] = value /\ (value = Dhcp => whose'[wire] = "nobody")
    BY <2>1, <2>2, NetshOnWire
  <2>4. (\A a \in Adapters : whose'[a] = "service" => a = wire)
        /\ (crossed # "during" => Known')
    BY <2>2, <2>3
  <2> QED BY <2>1, <2>2, <2>4 DEF Goto
<1>9. CASE Reread
  BY <1>9 DEF Reread, Goto
<1>10. CASE Forget
  BY <1>10, <1>0 DEF Forget, Goto, Write
<1>11. CASE SetLatch
  BY <1>11 DEF SetLatch, Return
<1>12. CASE ReturnToDhcp
  <2> DEFINE value == IF cmd = "addr" THEN Dhcp ELSE Dhcp
  <2>1. PICK ok \in BOOLEAN :
          /\ Netsh(wire, "return", cmd, value, ok)
          /\ ok /\ cmd = "addr" => cmd' = "dns" /\ Goto("return")
          /\ ok /\ cmd # "addr" => cmd' = "addr" /\ Goto("returned")
          /\ ~ok => cmd' = "addr" /\ Return
    BY <1>12 DEF ReturnToDhcp, Batch
  <2>2. /\ pc = "return" /\ cmd \in {"addr", "dns"}
        /\ UNCHANGED <<world, applied, latch, rolled, removal>>
    BY <1>12 DEF ReturnToDhcp, Batch, Typed, TypeOK
  <2>3. /\ \A a \in Adapters : a # wire => whose'[a] = whose[a]
        /\ cmd = "dns" => addr' = addr /\ whose' = whose
        /\ \/ addr' = addr /\ whose' = whose
           \/ addr'[wire] = value /\ (value = Dhcp => whose'[wire] = "nobody")
    BY <2>1, <2>2, NetshOnWire
  <2>4. (\A a \in Adapters : whose'[a] = "service" => a = wire)
        /\ (crossed # "during" => Known')
    BY <2>2, <2>3
  <2>5. crossed # "during" /\ ok => addr'[wire] = Dhcp
    BY <2>1, <2>2, <2>3, NetshOnWire DEF Bearable
  <2> QED BY <2>1, <2>2, <2>4, <2>5 DEF Goto, Return
<1>13. CASE Returned
  BY <1>0, <1>13 DEF Returned, Return, Write
<1>14. CASE Start \/ Stop
  BY <1>14 DEF Start, Stop, Bearable
<1>15. CASE Kill
  BY <1>0, <1>15 DEF Kill, Bearable, Faulty
<1>16. CASE Uninstall
  <2>1. /\ upc' \in {"addr", "delete"}
        /\ victim' # Nothing => applied # Nothing /\ victim' = applied.iface
        /\ crossed' # "during" => crossed # "during" /\ pc \in {"off", "idle"}
        /\ UNCHANGED <<world, card, applied, service>>
    BY <1>16 DEF Uninstall, BeginRemoval
  <2> QED BY <2>1
<1>17. CASE Revert
  <2>1. PICK ok \in BOOLEAN :
          /\ Netsh(victim, "uninstall", upc, Dhcp, ok)
          /\ upc' = CASE ok /\ upc = "addr" -> "dns"
                      [] ok /\ upc = "dns" -> "forget"
                      [] OTHER -> "delete"
    BY <1>17 DEF Revert
  <2>2. /\ upc \in {"addr", "dns"} /\ victim = wire
        /\ UNCHANGED <<world, applied, service, victim, crossed>>
    BY <1>17 DEF Revert, Typed, TypeOK
  <2>3. /\ \A a \in Adapters : a # wire => whose'[a] = whose[a]
        /\ upc = "dns" => addr' = addr /\ whose' = whose
        /\ \/ addr' = addr /\ whose' = whose
           \/ addr'[wire] = Dhcp /\ whose'[wire] = "nobody"
    BY <2>1, <2>2, NetshOnWire
  <2>4. crossed # "during" /\ ok => addr'[wire] = Dhcp
    BY <2>1, <2>2, <2>3, NetshOnWire DEF Bearable
  <2>5. upc' \in {"dns", "forget"} => ok
    BY <2>1
  <2> QED BY <2>2, <2>3, <2>4, <2>5
<1>18. CASE RevertDone
  BY <1>0, <1>18 DEF RevertDone, Write
<1>19. CASE Delete \/ Install
  BY <1>19 DEF Delete, Install
<1>20. ASSUME NEW n \in Nets \cup {Nothing}, Move(n) PROVE Remembered'
  BY <1>20 DEF Move, Bearable
<1>21. ASSUME NEW a \in Adapters, NEW value \in Statics \cup {Dhcp}, UserSets(a, value)
       PROVE  Remembered'
  BY <1>21 DEF UserSets, Bearable, Typed, TypeOK
<1>22. ASSUME NEW p \in Profiles, EditProfile(p) PROVE Remembered'
  BY <1>22 DEF EditProfile
<1>23. CASE Settle
  BY <1>23 DEF Settle
<1>24. CASE UNCHANGED vars
  BY <1>24 DEF vars
<1> QED
  BY <1>1, <1>2, <1>3, <1>4, <1>5, <1>6, <1>7, <1>8, <1>9, <1>10, <1>11, <1>12, <1>13,
     <1>14, <1>15, <1>16, <1>17, <1>18, <1>19, <1>20, <1>21, <1>22, <1>23, <1>24
     DEF Next, Cycle, Removal

\* Between two cycles the service knows its own address for its own, for any number
\* of adapters, networks and profiles, unless a fault strands the address or a cycle ran
\* during a removal.
THEOREM AddressIsRemembered ==
  ASSUME Bearable
  PROVE  Spec => []OursIsRemembered
<1>1. Typed /\ Remembered => OursIsRemembered
  BY DEF Remembered, OneAdapter, Stages, Known, InStatic, OursIsRemembered
<1>2. Typed /\ Remembered /\ [Next]_vars => Remembered'
  BY NextRemembered
<1> QED BY <1>1, <1>2, InitTyped, InitRemembered, NextTyped, PTL DEF Spec

-----------------------------------------------------------------------------
(* The removal takes the address with it.                                  *)

\* Besides: the removal finds the adapter, and its address command is not refused.
Removable ==
  /\ <<"uninstall-unread">> \notin Faults
  /\ <<"refused", "uninstall", "addr">> \notin Faults

\* From the moment the removal has reverted the adapter until the service is installed
\* anew, no address of the service is on it, unless it went on with its cycles.
Cleared ==
  /\ crossed = "no" /\ ~registered => pc \in {"off", "idle"} /\ whose[wire] # "service"
  /\ crossed # "during" /\ upc \in {"dns", "forget", "delete"} => whose[wire] # "service"

LEMMA InitCleared == Init => Cleared
  BY DEF Init, Cleared

\* While the service is off or rests nobody but the removal touches the address.
LEMMA NextCleared ==
  ASSUME Bearable, Removable, Typed, Remembered, Cleared, [Next]_vars
  PROVE  Cleared'
<1> USE DEF Cleared, Remembered, OneAdapter, Apart, Stages, Known
<1> USE DEF world, card, service, removal
<1>1. CASE Cycle
  <2>1. CASE NotConfigured
    BY <2>1 DEF NotConfigured, vars
  <2>2. CASE Look
    <3>1. /\ crossed' # "during" => crossed # "during" /\ upc = "no"
          /\ crossed' = "no" => crossed = "no" /\ registered
          /\ UNCHANGED <<world, card, upc>>
      BY <2>2 DEF Look, Typed, TypeOK
    <3> QED BY <3>1
  <2>3. CASE ~NotConfigured /\ ~Look
    <3>1. /\ pc \notin {"off", "idle"}
          /\ UNCHANGED <<upc, registered, crossed>>
      BY <1>1, <2>3 DEF Cycle, Choose, SetStatic, Verify, Save, Ping, Rollback,
         Reread, Forget, SetLatch, ReturnToDhcp, Returned, Batch
    <3> QED BY <3>1
  <2> QED BY <2>1, <2>2, <2>3
<1>2. CASE Start \/ Stop \/ Kill
  BY <1>2 DEF Start, Stop, Kill
<1>3. CASE Uninstall
  <2>1. /\ upc = "no" /\ (crossed' # "during" => crossed # "during" /\ pc \in {"off", "idle"})
        /\ crossed' = "no" => crossed = "no"
        /\ UNCHANGED <<world, card, service>>
        /\ upc' = "addr" \/ (applied = Nothing /\ upc' = "delete")
    BY <1>3 DEF Uninstall, BeginRemoval, Bearable, Removable, Faulty
  <2>2. crossed # "during" /\ pc \in {"off", "idle"} => Known
    BY DEF InStatic
  <2>3. addr[wire] \in Statics => NewState(addr[wire], wire) # Nothing
    BY NothingAssumption DEF Typed, TypeOK, NewState, AppliedStates
  <2>4. whose[wire] = "service" => addr[wire] \in Statics
    BY DEF Typed, TypeOK
  <2> QED BY <2>1, <2>2, <2>3, <2>4
<1>4. CASE Revert
  <2>1. PICK ok \in BOOLEAN :
          /\ Netsh(victim, "uninstall", upc, Dhcp, ok)
          /\ upc' = CASE ok /\ upc = "addr" -> "dns"
                      [] ok /\ upc = "dns" -> "forget"
                      [] OTHER -> "delete"
    BY <1>4 DEF Revert
  <2>2. /\ upc \in {"addr", "dns"} /\ victim = wire
        /\ UNCHANGED <<world, applied, service, victim, crossed>>
    BY <1>4 DEF Revert, Typed, TypeOK
  <2>3. upc = "dns" => whose' = whose
    BY <2>1, <2>2, NetshOnWire
  <2>4. upc = "addr" => whose'[wire] = "nobody"
    BY <2>1, <2>2 DEF Netsh, Effect, Faulty, Bearable, Removable, Typed, TypeOK
  <2> QED BY <2>2, <2>3, <2>4
<1>5. CASE RevertDone \/ Delete \/ Install
  BY <1>5 DEF RevertDone, Delete, Install
<1>6. ASSUME NEW n \in Nets \cup {Nothing}, Move(n) PROVE Cleared'
  BY <1>6 DEF Move, Bearable
<1>7. ASSUME NEW a \in Adapters, NEW value \in Statics \cup {Dhcp}, UserSets(a, value)
      PROVE  Cleared'
  BY <1>7 DEF UserSets, Bearable, Typed, TypeOK
<1>8. ASSUME NEW p \in Profiles, EditProfile(p) PROVE Cleared'
  BY <1>8 DEF EditProfile
<1>9. CASE Settle \/ UNCHANGED vars
  BY <1>9 DEF Settle, vars
<1> QED BY <1>1, <1>2, <1>3, <1>4, <1>5, <1>6, <1>7, <1>8, <1>9 DEF Next, Removal

\* Once the service is removed and no longer runs none of its addresses is left on any
\* adapter, whether it was running when it was removed or not: as long as no cycle began
\* or was under way from the start of the removal until the service was stopped.
THEOREM RemovalIsClean ==
  ASSUME Bearable, Removable
  PROVE  Spec => []NothingStaysBehind
<1>1. Typed /\ Remembered /\ Cleared => NothingStaysBehind
  BY DEF Remembered, OneAdapter, Cleared, NothingStaysBehind
<1>2. Typed /\ Remembered /\ [Next]_vars => Remembered'
  BY NextRemembered
<1>3. Typed /\ Remembered /\ Cleared /\ [Next]_vars => Cleared'
  BY NextCleared
<1> QED
  BY <1>1, <1>2, <1>3, InitTyped, InitRemembered, InitCleared, NextTyped, PTL DEF Spec

-----------------------------------------------------------------------------
(* No second try after a rollback.                                         *)

\* From the rollback to the latch the network it happened on is the cycle's own; after
\* that it is latched.  A decision about an office network follows only if that network
\* was not latched.
Latching ==
  /\ pc \in InBack => rolled = job.net
  /\ pc \notin InBack \cup {"off"} /\ rolled # Nothing => latch = rolled
  /\ pc = "look" /\ job.office => rolled # job.net

LEMMA InitLatching == Init => Latching
  BY DEF Init, Latching, InBack

LEMMA NextLatching ==
  ASSUME Typed, Latching, [Next]_vars
  PROVE  Latching'
<1> USE DEF Latching, InBack, world, card, service, removal
<1>1. CASE NotConfigured \/ UNCHANGED vars
  BY <1>1 DEF NotConfigured, vars
<1>2. CASE Look
  <2>1. CASE InOffice /\ Latched
    BY <1>2, <2>1 DEF Look, Latched, Return
  <2>2. CASE ~(InOffice /\ Latched)
    <3>1. /\ pc' = "look" /\ job'.net = net /\ job'.office = InOffice
          /\ latch' = IF Latched THEN latch ELSE Nothing
          /\ rolled' = IF rolled = net THEN rolled ELSE Nothing
          /\ rolled # Nothing => latch = rolled
      BY <1>2, <2>2 DEF Look
    <3>2. rolled' # Nothing => latch' = rolled'
      BY <3>1 DEF Latched
    <3>3. InOffice => net # Nothing
      BY OfficesAssumption DEF InOffice
    <3>4. InOffice => rolled' # net
      BY <2>2, <3>1, <3>3 DEF Latched
    <3> QED BY <3>1, <3>2, <3>4
  <2> QED BY <2>1, <2>2
<1>3. CASE Choose
  BY <1>3 DEF Choose, DecideProfile, Return
<1>4. CASE SetStatic
  BY <1>4 DEF SetStatic, Batch, Goto, Return
<1>5. CASE Verify \/ Save
  BY <1>5 DEF Verify, Save, Goto, Return
<1>6. CASE Ping
  BY <1>6 DEF Ping, Goto, Return
<1>7. CASE Rollback
  BY <1>7 DEF Rollback, Batch, Goto
<1>8. CASE Reread \/ Forget
  BY <1>8 DEF Reread, Forget, Goto
<1>9. CASE SetLatch
  BY <1>9 DEF SetLatch, Return
<1>10. CASE ReturnToDhcp
  BY <1>10 DEF ReturnToDhcp, Batch, Goto, Return
<1>11. CASE Returned
  BY <1>11 DEF Returned, Return
<1>12. CASE Start \/ Stop \/ Kill
  BY <1>12 DEF Start, Stop, Kill
<1>13. CASE Removal \/ Install
  BY <1>13 DEF Removal, Uninstall, BeginRemoval, Revert, RevertDone, Delete, Install
<1>14. ASSUME NEW n \in Nets \cup {Nothing}, Move(n) PROVE Latching'
  BY <1>14 DEF Move
<1>15. ASSUME NEW a \in Adapters, NEW value \in Statics \cup {Dhcp}, UserSets(a, value)
       PROVE  Latching'
  BY <1>15 DEF UserSets
<1>16. ASSUME NEW p \in Profiles, EditProfile(p) PROVE Latching'
  BY <1>16 DEF EditProfile
<1>17. CASE Settle
  BY <1>17 DEF Settle
<1> QED
  BY <1>1, <1>2, <1>3, <1>4, <1>5, <1>6, <1>7, <1>8, <1>9, <1>10, <1>11, <1>12, <1>13,
     <1>14, <1>15, <1>16, <1>17 DEF Next, Cycle

\* The only way from a decision to a static address is through Choose, in an office.
LEMMA ChoiceIsForOffice ==
  ASSUME Typed, [Next]_vars, pc = "look", pc' = "static"
  PROVE  job.office
<1>1. Choose
  BY DEF Next, Cycle, NotConfigured, vars, Look, SetStatic, Verify, Save, Ping, Rollback,
     Reread, Forget, SetLatch, ReturnToDhcp, Returned, Batch, Start, Stop, Kill, Removal,
     Uninstall, BeginRemoval, Revert, RevertDone, Delete, Install, Move, UserSets, EditProfile, Settle,
     service
<1> QED BY <1>1 DEF Choose, DecideProfile, Return

\* After a rollback the service tries no static address on that network before it has
\* been on another one or was started anew, whatever fails: the gateway may be silent,
\* the rollback may fail, applied.toml may be lost.
THEOREM NoSecondTry == Spec => NoFlapping
<1>1. Typed /\ Latching /\ [Next]_vars => Latching'
  BY NextLatching
<1>2. Typed /\ Latching /\ [Next]_vars => (pc = "look" /\ pc' = "static" => job.net # rolled)
  BY ChoiceIsForOffice DEF Latching
<1>3. Typed /\ Latching /\ [Next]_vars
        => [pc = "look" /\ pc' = "static" => job.net # rolled]_vars
  BY <1>2
<1> QED
  BY <1>1, <1>3, InitTyped, InitLatching, NextTyped, PTL DEF Spec, NoFlapping

-----------------------------------------------------------------------------
(* Hands off a foreign address.                                            *)

\* While the service writes to the adapter, no address of the user's is on it: neither
\* the record nor what a cycle has read of it ever names such an address.
HandsOff ==
  /\ whose[wire] = "user" /\ applied # Nothing => addr[wire] # applied.ip
  /\ pc = "look" /\ whose[wire] = "user" /\ job.applied # Nothing =>
       addr[wire] # job.applied.ip
  /\ pc \in Busy => whose[wire] # "user"

LEMMA InitHandsOff == Init => HandsOff
  BY DEF Init, HandsOff, Busy, InStatic, InBack, InReturn

\* A command of the service or of its removal never makes an address the user's.
LEMMA NetshNotUsers ==
  ASSUME Typed, NEW phase, NEW what, NEW value, NEW ok,
         Netsh(wire, phase, what, value, ok), whose[wire] # "user"
  PROVE  whose'[wire] # "user"
  BY DEF Typed, TypeOK, Netsh, Effect, card

\* A batch leaves the adapter the service's.
LEMMA BatchHandsOff ==
  ASSUME Typed, Remembered, HandsOff, NEW phase \in Phases \ {"uninstall"}, NEW address,
         NEW servers, NEW after \in Busy, NEW otherwise \in {"idle", "latch"},
         Batch(phase, address, servers, after, otherwise)
  PROVE  HandsOff'
<1>1. PICK ok \in BOOLEAN :
        /\ Netsh(job.iface, phase, cmd, IF cmd = "addr" THEN address ELSE servers, ok)
        /\ pc' \in {phase, after, otherwise}
  BY DEF Batch, Goto, Return
<1>2. /\ pc = phase /\ phase \in Busy /\ job.iface = wire
      /\ UNCHANGED <<world, applied, latch, rolled, removal>>
  BY DEF Batch, Remembered, OneAdapter, Phases, Busy, InStatic, InBack, InReturn
<1>3. whose'[wire] # "user"
  BY <1>1, <1>2, NetshNotUsers DEF HandsOff
<1> QED BY <1>1, <1>2, <1>3 DEF HandsOff, world, removal, Busy, InStatic, InBack, InReturn

LEMMA NextHandsOff ==
  ASSUME Bearable, Typed, Remembered, HandsOff, [Next]_vars
  PROVE  HandsOff'
<1> USE DEF HandsOff
<1> USE DEF Busy, InStatic, InBack, InReturn, world, card, service, removal
<1>1. CASE NotConfigured \/ UNCHANGED vars
  BY <1>1 DEF NotConfigured, vars
<1>2. CASE Look
  BY <1>2 DEF Look, Return
<1>3. CASE Choose
  <2>1. CASE Return
    BY <1>3, <2>1 DEF Choose, Return
  <2>2. CASE ~Return
    <3>1. Iface = wire /\ wire \in Adapters
      BY <1>3, <2>2 DEF Choose, Iface, OfficeAdapter, Remembered, OneAdapter, Typed, TypeOK
    <3>2. /\ pc' \in {"static", "return"}
          /\ addr[wire] = Dhcp \/ SetByUs(job.applied, addr[wire])
      BY <1>3, <2>2, <3>1 DEF Choose, DecideProfile
    <3>3. whose[wire] # "user"
      BY <1>3, <3>1, <3>2 DEF Choose, SetByUs, Typed, TypeOK
    <3> QED BY <1>3, <3>2, <3>3 DEF Choose
  <2> QED BY <2>1, <2>2
<1>4. CASE SetStatic
  BY <1>4, BatchHandsOff DEF SetStatic, Phases
<1>5. CASE Verify \/ Ping \/ Reread \/ SetLatch
  BY <1>5 DEF Verify, Ping, Reread, SetLatch, Goto, Return
<1>6. CASE Save \/ Forget \/ Returned
  BY <1>6 DEF Save, Forget, Returned, Write, Goto, Return
<1>7. CASE Rollback
  BY <1>7, BatchHandsOff DEF Rollback, Phases
<1>8. CASE ReturnToDhcp
  BY <1>8, BatchHandsOff DEF ReturnToDhcp, Phases
<1>9. CASE Start \/ Stop \/ Kill
  BY <1>9 DEF Start, Stop, Kill
<1>10. CASE Uninstall
  BY <1>10 DEF Uninstall, BeginRemoval
<1>11. CASE Revert
  <2>1. /\ victim = wire
        /\ \E ok \in BOOLEAN : Netsh(wire, "uninstall", upc, Dhcp, ok)
        /\ UNCHANGED <<world, applied, service, victim>>
    BY <1>11 DEF Revert, Remembered, OneAdapter, Typed, TypeOK
  <2>2. whose'[wire] = "user" => whose[wire] = "user" /\ addr'[wire] = addr[wire]
    BY <2>1, DhcpAssumption DEF Typed, TypeOK, Netsh, Effect, card
  <2> QED BY <2>1, <2>2
<1>12. CASE RevertDone \/ Delete \/ Install
  BY <1>12 DEF RevertDone, Delete, Install, Write
<1>13. ASSUME NEW n \in Nets \cup {Nothing}, Move(n) PROVE HandsOff'
  BY <1>13 DEF Move, Bearable
<1>14. ASSUME NEW a \in Adapters, NEW value \in Statics \cup {Dhcp}, UserSets(a, value)
       PROVE  HandsOff'
  BY <1>14 DEF UserSets, Bearable, Typed, TypeOK
<1>15. ASSUME NEW p \in Profiles, EditProfile(p) PROVE HandsOff'
  BY <1>15 DEF EditProfile
<1>16. CASE Settle
  BY <1>16 DEF Settle
<1> QED
  BY <1>1, <1>2, <1>3, <1>4, <1>5, <1>6, <1>7, <1>8, <1>9, <1>10, <1>11, <1>12, <1>13,
     <1>14, <1>15, <1>16 DEF Next, Cycle, Removal

\* A command changes the settings of its own adapter only.
LEMMA NetshElsewhere ==
  ASSUME Typed, NEW phase, NEW what, NEW value, NEW ok,
         Netsh(wire, phase, what, value, ok), NEW a \in Adapters, a # wire
  PROVE  addr'[a] = addr[a] /\ dns'[a] = dns[a]
  BY DEF Typed, TypeOK, Netsh, Effect, card

\* The property for one step and one adapter.
LEMMA StepHandsOff ==
  ASSUME Typed, Remembered, HandsOff, [Next]_vars,
         NEW a \in Adapters, whose[a] = "user", addr'[a] # addr[a] \/ dns'[a] # dns[a]
  PROVE  \/ \E value \in Statics \cup {Dhcp} : UserSets(a, value)
         \/ Revert /\ victim = a
<1>1. ASSUME SetStatic \/ Rollback \/ ReturnToDhcp PROVE FALSE
  <2>1. /\ pc \in Busy /\ job.iface = wire
        /\ \E phase, value, ok : Netsh(wire, phase, cmd, value, ok)
    BY <1>1 DEF SetStatic, Rollback, ReturnToDhcp, Batch, Remembered, OneAdapter, Busy,
       InStatic, InBack, InReturn
  <2>2. a # wire
    BY <2>1 DEF HandsOff
  <2> QED BY <2>1, <2>2, NetshElsewhere
<1>2. ASSUME Revert PROVE victim = a
  <2>1. /\ upc \in {"addr", "dns"} /\ victim = wire
        /\ \E ok : Netsh(wire, "uninstall", upc, Dhcp, ok)
    BY <1>2 DEF Revert, Remembered, OneAdapter, Typed, TypeOK
  <2> QED BY <2>1, NetshElsewhere
<1>3. ASSUME UNCHANGED card PROVE FALSE
  BY <1>3 DEF card
<1>4. CASE Cycle \/ Start \/ Stop \/ Kill \/ Removal \/ Install \/ Settle
  <2>1. \/ SetStatic \/ Rollback \/ ReturnToDhcp \/ Revert
        \/ UNCHANGED card
    BY <1>4 DEF Cycle, NotConfigured, vars, Look, Choose, Verify, Save, Ping, Reread, Forget,
       SetLatch, Returned, Start, Stop, Kill, Removal, Uninstall, BeginRemoval, RevertDone,
       Delete, Install, Settle, card
  <2> QED BY <1>1, <1>2, <1>3, <2>1
<1>5. ASSUME NEW n \in Nets \cup {Nothing}, Move(n) PROVE FALSE
  BY <1>3, <1>5 DEF Move, card
<1>6. ASSUME NEW p \in Profiles, EditProfile(p) PROVE FALSE
  BY <1>3, <1>6 DEF EditProfile, card
<1>7. ASSUME NEW b \in Adapters, NEW value \in Statics \cup {Dhcp}, UserSets(b, value)
      PROVE  \E v \in Statics \cup {Dhcp} : UserSets(a, v)
  <2>1. a = b
    BY <1>7 DEF UserSets, Typed, TypeOK
  <2> QED BY <1>7, <2>1
<1>8. CASE UNCHANGED vars
  BY <1>3, <1>8 DEF vars, card
<1> QED BY <1>4, <1>5, <1>6, <1>7, <1>8 DEF Next

\* The service leaves every address of the user's alone, for any number of adapters and
\* profiles, unless a fault strands an address of its own; the removal, whenever it comes
\* and also in the middle of a cycle, touches no adapter but the one it reverts.
THEOREM ForeignIsLeftAlone ==
  ASSUME Bearable
  PROVE  Spec => ForeignStays
<1>1. Typed /\ Remembered /\ [Next]_vars => Remembered'
  BY NextRemembered
<1>2. Typed /\ Remembered /\ HandsOff /\ [Next]_vars => HandsOff'
  BY NextHandsOff
<1>3. Typed /\ Remembered /\ HandsOff /\ [Next]_vars
        => [\A a \in Adapters :
              whose[a] = "user" /\ (addr'[a] # addr[a] \/ dns'[a] # dns[a]) =>
                \/ \E value \in Statics \cup {Dhcp} : UserSets(a, value)
                \/ Revert /\ victim = a]_vars
  BY StepHandsOff
<1> QED
  BY <1>1, <1>2, <1>3, InitTyped, InitRemembered, InitHandsOff, NextTyped,
     PTL DEF Spec, ForeignStays
=============================================================================
