--------------------------- MODULE SysProxyProofs ---------------------------
(***************************************************************************)
(* What TLAPS proves about SysProxy, for any number of instances and any   *)
(* sets of servers and lists, about the registry it writes to, and about   *)
(* the list of exceptions in it.                                           *)
(***************************************************************************)
EXTENDS Registry, BypassList, SequenceTheorems, WellFoundedInduction, TLAPS

\* A living process has a configuration and a port, a call in progress has its
\* argument: what makes TypeOK inductive.
LiveMemory ==
  \A i \in Procs :
    /\ Alive(i) => mem[i] \in Config /\ port[i] \in Ports
    /\ InWindow(i) => arg[i] \in SysProxySettings

Typed == TypeOK /\ LiveMemory

LEMMA InitTyped == Init => Typed
  BY DEF Init, Typed, TypeOK, LiveMemory, UserSettings, SysProxySettings, Config,
         Alive, InWindow, Applying

\* Dying keeps every variable in its type, whoever else is alive.
LEMMA GoneTyped ==
  ASSUME Typed, NEW i \in Procs, Gone(i), UNCHANGED <<registry, disk, wanted>>,
         harmed' \in BOOLEAN
  PROVE  Typed'
  BY DEF Typed, TypeOK, LiveMemory, Gone, env, Alive, InWindow, Applying

\* So does a return from take_over.
LEMMA ReturnTyped ==
  ASSUME Typed, NEW i \in Procs, Alive(i), NEW w \in {"run", "exit"}, Return(i, w),
         UNCHANGED <<registry, disk, wanted>>, harmed' \in BOOLEAN
  PROVE  Typed'
  BY DEF Typed, TypeOK, LiveMemory, Return, Goto, env, Alive, InWindow, Applying

\* Default and the record take_over writes are settings.
LEMMA ConstantSettings ==
  /\ Default \in SysProxySettings
  /\ \A p \in Ports : Ours(p) \in SysProxySettings
  BY ServersAssumption, BypassAssumption DEF Default, Ours, SysProxySettings

LEMMA NextTyped == Typed /\ [Next]_vars => Typed'
<1> SUFFICES ASSUME Typed, [Next]_vars PROVE Typed'
  OBVIOUS
<1> USE DEF Typed, TypeOK, LiveMemory, Alive, InWindow, Applying, env
<1>1. ASSUME NEW i \in Procs, Load(i) PROVE Typed'
  <2>1. disk.bridge_port \in Ports
    BY DEF Config
  <2> QED BY <1>1, <2>1 DEF Load, Goto
<1>21. ASSUME NEW i \in Procs, Bind(i) PROVE Typed'
  <2>1. CASE Gone(i)
    BY <1>21, <2>1, GoneTyped DEF Bind
  <2>2. CASE ~Gone(i)
    BY <1>21, <2>2 DEF Bind, Goto
  <2> QED BY <2>1, <2>2
<1>2. ASSUME NEW i \in Procs, SkipTakeOver(i) PROVE Typed'
  BY <1>2 DEF SkipTakeOver, Goto
<1>3. ASSUME NEW i \in Procs, ReadRegistry(i) PROVE Typed'
  <2>1. Original(i) \in SysProxySettings
    BY <1>3, ConstantSettings DEF ReadRegistry, Original, Config
  <2> QED BY <1>3, <2>1 DEF ReadRegistry, Goto
<1>4. ASSUME NEW i \in Procs, StartFails(i) PROVE Typed'
  BY <1>4 DEF StartFails, Goto
<1>5. ASSUME NEW i \in Procs, SaveOriginal(i) PROVE Typed'
  <2>1. /\ arg[i] \in SysProxySettings /\ Ours(port[i]) \in SysProxySettings
        /\ mem[i] \in Config /\ port[i] \in Ports
    BY <1>5, ConstantSettings DEF SaveOriginal
  <2>2. [mem[i] EXCEPT !.saved_sysproxy = arg[i]] \in Config
    BY <2>1 DEF Config
  <2>3. [original |-> arg[i], our_port |-> port[i]] \in Taken
    BY <2>1 DEF Taken
  <2> QED BY <1>5, <2>1, <2>2, <2>3 DEF SaveOriginal, Goto
<1>6. ASSUME NEW i \in Procs, SaveOriginalFails(i) PROVE Typed'
  BY <1>6, ReturnTyped DEF SaveOriginalFails
<1>7. ASSUME NEW i \in Procs, WriteServer(i) PROVE Typed'
  BY <1>7 DEF WriteServer, SysProxySettings
<1>8. ASSUME NEW i \in Procs, WriteOverride(i) PROVE Typed'
  BY <1>8 DEF WriteOverride, SysProxySettings
<1>9. ASSUME NEW i \in Procs, WriteEnable(i) PROVE Typed'
  BY <1>9 DEF WriteEnable, SysProxySettings
<1>10. ASSUME NEW i \in Procs, Applied(i) \/ ApplyFails(i) PROVE Typed'
  BY <1>10, ReturnTyped, GoneTyped DEF Applied, ApplyFails
<1>11. ASSUME NEW i \in Procs, ApplyConfig(i) PROVE Typed'
  <2>1. PICK p \in Ports, m \in BOOLEAN :
          mem' = [mem EXCEPT ![i].bridge_port = p, ![i].manage_system_proxy = m]
    BY <1>11 DEF ApplyConfig
  <2>2. mem[i] \in Config /\ mem'[i] \in Config
    BY <1>11, <2>1 DEF ApplyConfig, Config
  <2> QED BY <1>11, <2>1, <2>2 DEF ApplyConfig
<1>12. ASSUME NEW i \in Procs, Quit(i) \/ BridgeWatchExit(i) PROVE Typed'
  BY <1>12 DEF Quit, BridgeWatchExit, Goto
<1>13. ASSUME NEW i \in Procs, BridgeStops(i) PROVE Typed'
  BY <1>13 DEF BridgeStops
<1>14. ASSUME NEW i \in Procs, Restore(i) PROVE Typed'
  <2>1. CASE Gone(i)
    BY <1>14, <2>1, GoneTyped DEF Restore
  <2>2. CASE ~Gone(i)
    <3>1. cell[i] \in Taken
      BY <1>14, <2>2 DEF Restore
    <3>2. cell[i].original \in SysProxySettings
      BY <3>1 DEF Taken
    <3> QED BY <1>14, <2>2, <3>2 DEF Restore, Goto
  <2> QED BY <2>1, <2>2
<1>15. ASSUME NEW i \in Procs, Kill(i) PROVE Typed'
  BY <1>15, GoneTyped DEF Kill
<1>16. ASSUME NEW u \in UserSettings, UserEdits(u) PROVE Typed'
  BY <1>16 DEF UserEdits, UserSettings, SysProxySettings
<1>17. CASE UserTicks
  <2>1. [registry EXCEPT !.enabled = ~@] \in SysProxySettings
    BY DEF SysProxySettings
  <2> QED BY <1>17, <2>1 DEF UserTicks
<1>18. CASE EditConfigFile
  <2>1. disk' \in Config
    <3>1. PICK p \in Ports, m \in BOOLEAN :
            \/ disk' = [disk EXCEPT !.bridge_port = p, !.manage_system_proxy = m]
            \/ disk' = [bridge_port |-> p, manage_system_proxy |-> TRUE,
                        saved_sysproxy |-> None]
      BY <1>18 DEF EditConfigFile
    <3>2. CASE disk' = [disk EXCEPT !.bridge_port = p, !.manage_system_proxy = m]
      BY <3>2 DEF Config
    <3>3. CASE disk' = [bridge_port |-> p, manage_system_proxy |-> TRUE,
                        saved_sysproxy |-> None]
      BY <3>3 DEF Config
    <3> QED BY <3>1, <3>2, <3>3
  <2> QED BY <1>18, <2>1 DEF EditConfigFile
<1>19. CASE UNCHANGED vars
  BY <1>19 DEF vars
<1> HIDE DEF Typed, TypeOK, LiveMemory, Alive, InWindow, Applying, env
<1>20. ASSUME NEW i \in Procs, MainThread(i) PROVE Typed'
  BY <1>20, <1>21, <1>2, <1>3, <1>4, <1>5, <1>6, <1>7, <1>8, <1>9, <1>10, <1>12,
     <1>14
     DEF MainThread
<1> QED
  BY <1>1, <1>11, <1>12, <1>13, <1>15, <1>16, <1>17, <1>18, <1>19, <1>20 DEF Next

\* Every reachable state is well typed.
THEOREM TypeCorrect == Spec => []TypeOK
<1>1. Typed => TypeOK
  BY DEF Typed
<1> QED BY <1>1, InitTyped, NextTyped, PTL DEF Spec

-----------------------------------------------------------------------------
(***************************************************************************)
(* The trace of an earlier life.  `is_stale_pointer' compares with the     *)
(* port of this instance, so it can only know every trace when the port    *)
(* never changes.                                                          *)
(***************************************************************************)
OnePort == \A p, q \in Ports : p = q

\* OriginalIsNeverOurs, carried back through the copies it is made from: the
\* configuration in memory and the record take_over is about to save.
NeverOurs ==
  /\ OriginalIsNeverOurs
  /\ \A i \in Procs :
       /\ Alive(i) /\ mem[i].saved_sysproxy # None
            => ~LivePointer(mem[i].saved_sysproxy)
       /\ pc[i] = "save" => ~LivePointer(arg[i])

LEMMA GoneNeverOurs ==
  ASSUME Typed, NeverOurs, NEW i \in Procs, Gone(i), UNCHANGED <<registry, disk, wanted>>
  PROVE  NeverOurs'
  BY DEF Typed, TypeOK, NeverOurs, OriginalIsNeverOurs, LivePointer, Gone, env, Alive

LEMMA ReturnNeverOurs ==
  ASSUME Typed, NeverOurs, NEW i \in Procs, Alive(i), NEW w \in {"run", "exit"},
         Return(i, w), UNCHANGED <<registry, disk, wanted>>
  PROVE  NeverOurs'
  BY DEF Typed, TypeOK, NeverOurs, OriginalIsNeverOurs, LivePointer, Return, Goto,
         env, Alive

\* What take_over decides to keep is not a live pointer of ours.
LEMMA OriginalNotLive ==
  ASSUME OnePort, Typed, NeverOurs, NEW i \in Procs, Alive(i)
  PROVE  ~LivePointer(Original(i))
<1>1. port[i] \in Ports
  BY DEF Typed, LiveMemory
<1>2. ~LivePointer(Default)
  BY DEF LivePointer, Default
<1>3. LivePointer(registry) => IsStalePointer(registry, port[i])
  BY <1>1 DEF OnePort, LivePointer, IsStalePointer, ServerPointsAtPort
<1> QED BY <1>2, <1>3 DEF NeverOurs, Original

\* Editing the file leaves the saved setting alone or, when it is allowed to be
\* deleted, removes it.
LEMMA EditKeepsOrForgets ==
  ASSUME TypeOK, EditConfigFile
  PROVE  /\ disk'.saved_sysproxy \in {disk.saved_sysproxy, None}
         /\ "erase-config" \notin Faults => disk'.saved_sysproxy = disk.saved_sysproxy
<1>1. disk \in Config
  BY DEF TypeOK
<1>2. PICK p \in Ports, m \in BOOLEAN :
        \/ disk' = [disk EXCEPT !.bridge_port = p, !.manage_system_proxy = m]
        \/ /\ "erase-config" \in Faults
           /\ disk' = [bridge_port |-> p, manage_system_proxy |-> TRUE,
                       saved_sysproxy |-> None]
  BY DEF EditConfigFile
<1>3. CASE disk' = [disk EXCEPT !.bridge_port = p, !.manage_system_proxy = m]
  BY <1>1, <1>3 DEF Config
<1>4. CASE /\ "erase-config" \in Faults
           /\ disk' = [bridge_port |-> p, manage_system_proxy |-> TRUE,
                       saved_sysproxy |-> None]
  BY <1>4
<1> QED BY <1>2, <1>3, <1>4

LEMMA NextNeverOurs ==
  ASSUME OnePort
  PROVE  Typed /\ NeverOurs /\ [Next]_vars => NeverOurs'
<1> SUFFICES ASSUME Typed, NeverOurs, [Next]_vars PROVE NeverOurs'
  OBVIOUS
<1> USE DEF NeverOurs, OriginalIsNeverOurs, env
<1>0. TypeOK /\ LiveMemory
  BY DEF Typed
<1>1. ASSUME NEW i \in Procs, Load(i) PROVE NeverOurs'
  BY <1>0, <1>1 DEF Load, Goto, Alive, TypeOK, LivePointer
<1>21. ASSUME NEW i \in Procs, Bind(i) PROVE NeverOurs'
  <2>1. CASE Gone(i)
    BY <1>21, <2>1, GoneNeverOurs DEF Bind
  <2>2. CASE ~Gone(i)
    BY <1>0, <1>21, <2>2 DEF Bind, Goto, Alive, TypeOK, LivePointer
  <2> QED BY <2>1, <2>2
<1>2. ASSUME NEW i \in Procs, SkipTakeOver(i) PROVE NeverOurs'
  BY <1>0, <1>2 DEF SkipTakeOver, Goto, Alive, TypeOK, LivePointer
<1>3. ASSUME NEW i \in Procs, ReadRegistry(i) PROVE NeverOurs'
  <2>1. Alive(i)
    BY <1>3 DEF ReadRegistry, Alive
  <2>2. ~LivePointer(Original(i))
    BY <2>1, OriginalNotLive
  <2>3. arg'[i] = Original(i) /\ UNCHANGED <<disk, mem, cell>>
    BY <1>0, <1>3 DEF ReadRegistry, TypeOK
  <2>4. \A j \in Procs \ {i} : arg'[j] = arg[j] /\ pc'[j] = pc[j]
    BY <1>0, <1>3 DEF ReadRegistry, Goto, TypeOK
  <2> QED BY <2>1, <2>2, <2>3, <2>4 DEF LivePointer, Alive
<1>4. ASSUME NEW i \in Procs, StartFails(i) PROVE NeverOurs'
  BY <1>0, <1>4 DEF StartFails, Goto, Alive, TypeOK, LivePointer
<1>5. ASSUME NEW i \in Procs, SaveOriginal(i) PROVE NeverOurs'
  <2>1. mem[i] \in Config /\ arg[i] \in SysProxySettings /\ ~LivePointer(arg[i])
    BY <1>0, <1>5 DEF SaveOriginal, LiveMemory, Alive, InWindow
  <2>2. disk' = mem'[i] /\ mem'[i].saved_sysproxy = arg[i]
    BY <1>0, <1>5, <2>1 DEF SaveOriginal, TypeOK, Config
  <2>3. cell'[i].original = arg[i] /\ pc'[i] = "take_over"
    BY <1>0, <1>5 DEF SaveOriginal, Goto, TypeOK
  <2>4. \A j \in Procs \ {i} : /\ mem'[j] = mem[j] /\ cell'[j] = cell[j]
                               /\ arg'[j] = arg[j] /\ pc'[j] = pc[j]
    BY <1>0, <1>5 DEF SaveOriginal, Goto, TypeOK
  <2> QED BY <2>1, <2>2, <2>3, <2>4 DEF LivePointer, Alive
<1>6. ASSUME NEW i \in Procs, SaveOriginalFails(i) PROVE NeverOurs'
  BY <1>6, ReturnNeverOurs DEF SaveOriginalFails, Alive
<1>7. ASSUME NEW i \in Procs, WriteServer(i) \/ WriteOverride(i) \/ WriteEnable(i)
      PROVE NeverOurs'
  BY <1>0, <1>7 DEF WriteServer, WriteOverride, WriteEnable, Alive, TypeOK, LivePointer
<1>8. ASSUME NEW i \in Procs, Applied(i) \/ ApplyFails(i) PROVE NeverOurs'
  BY <1>8, ReturnNeverOurs, GoneNeverOurs DEF Applied, ApplyFails, Alive
<1>9. ASSUME NEW i \in Procs, ApplyConfig(i) PROVE NeverOurs'
  <2>1. mem[i] \in Config /\ Alive(i)
    BY <1>0, <1>9 DEF ApplyConfig, LiveMemory, Alive
  <2>2. PICK p \in Ports, m \in BOOLEAN :
          mem' = [mem EXCEPT ![i].bridge_port = p, ![i].manage_system_proxy = m]
    BY <1>9 DEF ApplyConfig
  <2>3. mem'[i].saved_sysproxy = mem[i].saved_sysproxy
    BY <1>0, <2>1, <2>2 DEF TypeOK, Config
  <2>4. \A j \in Procs \ {i} : mem'[j] = mem[j]
    BY <1>0, <2>2 DEF TypeOK
  <2>5. UNCHANGED <<pc, arg, cell>> /\ (disk' = mem'[i] \/ disk' = disk)
    BY <1>9 DEF ApplyConfig
  <2> QED BY <2>1, <2>3, <2>4, <2>5 DEF LivePointer, Alive
<1>10. ASSUME NEW i \in Procs, Quit(i) \/ BridgeWatchExit(i) PROVE NeverOurs'
  BY <1>0, <1>10 DEF Quit, BridgeWatchExit, Goto, Alive, TypeOK, LivePointer
<1>11. ASSUME NEW i \in Procs, BridgeStops(i) PROVE NeverOurs'
  BY <1>11 DEF BridgeStops, Alive, LivePointer
<1>12. ASSUME NEW i \in Procs, Restore(i) PROVE NeverOurs'
  <2>1. CASE Gone(i)
    BY <1>12, <2>1, GoneNeverOurs DEF Restore
  <2>2. CASE ~Gone(i)
    BY <1>0, <1>12, <2>2 DEF Restore, Goto, Alive, TypeOK, LivePointer
  <2> QED BY <2>1, <2>2
<1>13. ASSUME NEW i \in Procs, Kill(i) PROVE NeverOurs'
  BY <1>13, GoneNeverOurs DEF Kill
<1>14. ASSUME NEW u \in UserSettings, UserEdits(u) PROVE NeverOurs'
  BY <1>14 DEF UserEdits, Alive, LivePointer
<1>15. CASE UserTicks
  BY <1>15 DEF UserTicks, Alive, LivePointer
<1>16. CASE EditConfigFile
  <2>2. disk'.saved_sysproxy \in {disk.saved_sysproxy, None}
    BY <1>0, <1>16, EditKeepsOrForgets
  <2> QED BY <1>16, <2>2 DEF EditConfigFile, Alive, LivePointer
<1>17. CASE UNCHANGED vars
  BY <1>17 DEF vars, Alive, LivePointer
<1> HIDE DEF NeverOurs, OriginalIsNeverOurs, env
<1>20. ASSUME NEW i \in Procs, MainThread(i) PROVE NeverOurs'
  BY <1>20, <1>21, <1>2, <1>3, <1>4, <1>5, <1>6, <1>7, <1>8, <1>10, <1>12
     DEF MainThread
<1> QED
  BY <1>1, <1>9, <1>10, <1>11, <1>13, <1>14, <1>15, <1>16, <1>17, <1>20 DEF Next

\* With one port, under every fault the model knows, no trace of ours is ever
\* kept as the user's setting.
THEOREM NeverKeepsItsOwnTrace ==
  ASSUME OnePort
  PROVE  Spec => []OriginalIsNeverOurs
<1>1. Init => NeverOurs
  BY DEF Init, NeverOurs, OriginalIsNeverOurs, Alive, Config
<1>2. NeverOurs => OriginalIsNeverOurs
  BY DEF NeverOurs
<1> QED BY <1>1, <1>2, InitTyped, NextTyped, NextNeverOurs, PTL DEF Spec

-----------------------------------------------------------------------------
(***************************************************************************)
(* Why the user's setting survives: any number of instances that share one *)
(* port, overlapping starts, kills outside a registry change and outside   *)
(* another instance's start, failing writes in take_over and failing saves *)
(* do not lose it.                                                         *)
(***************************************************************************)

\* Not among them: an instance that has loaded its configuration before another
\* one took over, and binds after that one was killed, brings the setting of an
\* earlier time (the fault "kill-in-start" in the run SysProxyKept shows it).
Bearable == Faults \subseteq {"kill", "takeover-write", "save", "overlap"}

Holds(i) == pc[i] \notin {"off", "loaded"}

\* The port is the mutual exclusion.
Alone ==
  /\ \A i \in Procs :
       /\ listening[i] <=> Holds(i)
       /\ cell[i] # None => Holds(i)
       /\ cell[i] # None => mem[i].saved_sysproxy = disk.saved_sysproxy
  /\ \A i, j \in Procs : Holds(i) /\ Holds(j) => i = j

\* A killed instance's pointer is in force, and nobody has begun to replace it.
Orphaned ==
  /\ registry # wanted
  /\ \A i \in Procs : cell[i] = None /\ pc[i] # "restore"

\* Whoever may have to recognise the pointer has read the file since then.
Fresh ==
  Orphaned => \A i \in Procs : Alive(i) => mem[i].saved_sysproxy = disk.saved_sysproxy

\* The next take_over will find the user's setting.
Settled ==
  \/ registry = wanted
  \/ LivePointer(registry) /\ disk.saved_sysproxy = wanted

\* The next restore will.
Held(i) ==
  /\ cell[i] # None
  /\ cell[i].original = wanted
  /\ disk.saved_sysproxy = wanted

\* How far take_over has come in replacing the registry's values by ours.
TakenSoFar(i) ==
  /\ arg[i].server \in Ports /\ arg[i].enabled
  /\ write[i] = "server" => Settled
  /\ write[i] # "server" => registry.server \in Ports
  /\ write[i] = "notify" => registry.enabled

\* How far restore has come in putting the user's values back.
RestoredSoFar(i) ==
  /\ arg[i] = wanted
  /\ write[i] \in {"override", "enable", "notify"} => registry.server = wanted.server
  /\ write[i] \in {"enable", "notify"} => registry.bypass = wanted.bypass
  /\ write[i] = "notify" => registry.enabled = wanted.enabled

Stage(i) ==
  /\ pc[i] \in {"bound", "save"} => Settled /\ cell[i] = None
  /\ pc[i] = "save" => arg[i] = wanted
  /\ pc[i] = "take_over" => Held(i) /\ TakenSoFar(i)
  /\ pc[i] = "run" => \/ cell[i] = None /\ Settled
                      \/ registry = wanted
                      \/ LivePointer(registry) /\ Held(i)
  /\ pc[i] = "exit" => \/ cell[i] = None /\ Settled
                       \/ registry = wanted
                       \/ registry.server \in Ports /\ Held(i)
  /\ pc[i] = "restore" => disk.saved_sysproxy = wanted /\ RestoredSoFar(i)

Kept ==
  /\ wanted \in UserSettings
  /\ Alone
  /\ Fresh
  /\ (\A i \in Procs : ~Holds(i)) => Settled
  /\ \A i \in Procs : Stage(i)

LEMMA InitKept == Init => Kept
  BY DEF Init, Kept, Alone, Fresh, Orphaned, Settled, Stage, Alive, Holds

-----------------------------------------------------------------------------
(* Only the holder of the port matters: it is enough to look at it.        *)

LEMMA WantedIsUsers ==
  ASSUME Typed, Kept
  PROVE  /\ wanted # None /\ wanted \in SysProxySettings
         /\ wanted.server \notin Ports
         /\ ~LivePointer(wanted)
  BY NoneAssumption, ServersAssumption
     DEF Typed, TypeOK, Kept, UserSettings, LivePointer

\* The stage of the holder says everything.
LEMMA OneStage ==
  ASSUME NEW i \in Procs, wanted' \in UserSettings, Alone', Fresh', Holds(i)', Stage(i)'
  PROVE  Kept'
  BY DEF Alone, Holds, Kept, Stage

\* A step of the holder that leaves the listener alone.
LEMMA StillAlone ==
  ASSUME Typed, Alone, NEW i \in Procs, Holds(i), Holds(i)', UNCHANGED listening,
         cell'[i] # None => mem'[i].saved_sysproxy = disk'.saved_sysproxy,
         \A j \in Procs \ {i} : pc'[j] = pc[j] /\ cell'[j] = cell[j]
  PROVE  Alone'
  BY DEF Alone, Holds

\* The pointer is nobody's as long as its owner, or its remover, is at work.
LEMMA OwnedFresh ==
  ASSUME NEW i \in Procs, \/ registry' = wanted'
                          \/ cell'[i] # None
                          \/ pc'[i] = "restore"
  PROVE  Fresh'
  BY DEF Fresh, Orphaned

\* A step that leaves the pointer and what is saved of the user's setting alone.
LEMMA StillFresh ==
  ASSUME Kept, UNCHANGED <<registry, wanted, cell>>,
         \A j \in Procs : pc[j] = "restore" => pc'[j] = "restore",
         disk'.saved_sysproxy = disk.saved_sysproxy,
         \A j \in Procs : Alive(j)' =>
           \/ Alive(j) /\ mem'[j].saved_sysproxy = mem[j].saved_sysproxy
           \/ mem'[j].saved_sysproxy = disk.saved_sysproxy
  PROVE  Fresh'
  BY DEF Kept, Fresh, Orphaned

\* A step that touches no other variable Alone reads.
LEMMA SameAlone ==
  ASSUME Typed, Kept, NEW i \in Procs, Holds(i), UNCHANGED <<disk, mem, listening>>,
         NEW w \in {"bound", "save", "take_over", "run", "exit", "restore"},
         Goto(i, w) \/ (pc[i] = w /\ UNCHANGED pc),
         UNCHANGED cell \/ cell' = [cell EXCEPT ![i] = None]
  PROVE  Alone' /\ Holds(i)' /\ pc'[i] = w
<1>1. pc'[i] = w /\ \A j \in Procs \ {i} : pc'[j] = pc[j] /\ cell'[j] = cell[j]
  BY DEF Typed, TypeOK, Goto
<1>2. Holds(i)'
  BY <1>1 DEF Holds
<1>3. Alone
  BY DEF Kept
<1>4. cell'[i] \in {cell[i], None}
  BY DEF Typed, TypeOK
<1>5. cell'[i] # None => mem'[i].saved_sysproxy = disk'.saved_sysproxy
  BY <1>3, <1>4 DEF Alone
<1> QED BY <1>1, <1>2, <1>3, <1>5, StillAlone

\* A step of the main thread that only moves on.
LEMMA SameFresh ==
  ASSUME Typed, Kept, NEW i \in Procs, Holds(i), pc[i] # "restore", UNCHANGED <<env, mem, cell>>,
         NEW w \in {"bound", "save", "run", "exit"}, Goto(i, w)
  PROVE  Fresh'
<1>1. \A j \in Procs : /\ pc[j] = "restore" => pc'[j] = "restore"
                       /\ Alive(j)' => Alive(j)
  BY DEF Typed, TypeOK, Goto, Alive, Holds
<1> QED BY <1>1, StillFresh DEF env

\* When the holder dies, nobody holds the port.
LEMMA GoneKept ==
  ASSUME Typed, Kept, NEW i \in Procs, Holds(i), Gone(i), UNCHANGED <<registry, disk, wanted>>,
         Settled,
         \/ registry = wanted
         \/ cell[i] = None /\ pc[i] # "restore"
         \/ \A j \in Procs \ {i} : pc[j] # "loaded"
  PROVE  Kept'
<1>1. \A j \in Procs : /\ j # i => pc'[j] = pc[j] /\ cell'[j] = cell[j] /\ mem'[j] = mem[j]
                       /\ ~Holds(j)' /\ ~listening'[j] /\ cell'[j] = None
  BY DEF Typed, TypeOK, Kept, Alone, Holds, Gone
<1>2. pc'[i] = "off"
  BY DEF Typed, TypeOK, Gone
<1>3. Alone'
  BY <1>1, <1>2 DEF Kept, Alone, env
<1>4. Settled'
  BY DEF env, Settled, LivePointer
<1>5. \A j \in Procs : Stage(j)'
  BY <1>1 DEF Holds, Stage
<1>6. Fresh'
  <2>1. CASE registry = wanted
    BY <2>1, OwnedFresh DEF env
  <2>2. CASE cell[i] = None /\ pc[i] # "restore"
    <3>1. UNCHANGED cell /\ \A j \in Procs : pc[j] # "restore" /\ (Alive(j)' => Alive(j) /\ j # i)
      BY <1>1, <1>2, <2>2 DEF Typed, TypeOK, Kept, Alone, Holds, Alive, Gone
    <3> QED BY <1>1, <3>1, StillFresh DEF env
  <2>3. CASE \A j \in Procs \ {i} : pc[j] # "loaded"
    BY <1>1, <1>2, <2>3 DEF Fresh, Alive, Holds
  <2> QED BY <2>1, <2>2, <2>3
<1> QED BY <1>3, <1>4, <1>5, <1>6 DEF Kept, env

\* When an instance dies that has only loaded its configuration, nothing changes.
LEMMA LoadedGone ==
  ASSUME Typed, Kept, NEW i \in Procs, pc[i] = "loaded", Gone(i), UNCHANGED <<registry, disk, wanted>>
  PROVE  Kept'
<1>1. /\ pc'[i] = "off" /\ ~listening'[i] /\ cell'[i] = None
      /\ \A j \in Procs \ {i} :
           /\ pc'[j] = pc[j] /\ cell'[j] = cell[j] /\ mem'[j] = mem[j]
           /\ listening'[j] = listening[j] /\ arg'[j] = arg[j] /\ write'[j] = write[j]
  BY DEF Typed, TypeOK, Gone
<1>2. Alone'
  BY <1>1 DEF Kept, Alone, Holds, env
<1>3. (\A j \in Procs : ~Holds(j)') => Settled'
  BY <1>1 DEF Kept, Holds, Settled, LivePointer, env
<1>4. \A j \in Procs \ {i} : Stage(j)'
  BY <1>1 DEF Kept, Stage, Settled, Held, TakenSoFar, RestoredSoFar, LivePointer, env
<1>5. Stage(i)'
  BY <1>1 DEF Stage
<1>6. Fresh'
  <2>1. cell[i] = None
    BY DEF Kept, Alone, Holds
  <2> QED BY <1>1, <2>1 DEF Kept, Fresh, Orphaned, Alive, env
<1> QED BY <1>2, <1>3, <1>4, <1>5, <1>6 DEF Kept, env

LEMMA ReadsWanted ==
  ASSUME OnePort, Bearable, Typed, Kept, NEW i \in Procs, pc[i] = "bound"
  PROVE  Original(i) = wanted
<1>1. Alive(i) /\ Settled
  BY DEF Alive, Kept, Stage
<1>2. port[i] \in Ports
  BY <1>1 DEF Typed, LiveMemory
<1>3. registry # wanted => mem[i].saved_sysproxy = disk.saved_sysproxy
  <2>1. \A j \in Procs : cell[j] = None /\ pc[j] # "restore"
    BY DEF Kept, Stage, Alone, Holds
  <2> QED BY <1>1, <2>1 DEF Kept, Fresh, Orphaned
<1>4. CASE registry = wanted
  BY <1>2, <1>4, WantedIsUsers DEF Original, IsStalePointer, ServerPointsAtPort
<1>5. CASE LivePointer(registry) /\ disk.saved_sysproxy = wanted
  BY <1>2, <1>3, <1>5, WantedIsUsers
     DEF OnePort, Original, IsStalePointer, ServerPointsAtPort, LivePointer
<1> QED BY <1>1, <1>4, <1>5 DEF Settled

\* When restore has written all three values, the registry is what was wanted.
LEMMA RestoreEndsWanted ==
  ASSUME Typed, Kept, NEW i \in Procs, pc[i] = "restore", write[i] = "notify"
  PROVE  registry = wanted
<1>1. /\ registry.server = wanted.server /\ registry.bypass = wanted.bypass
      /\ registry.enabled = wanted.enabled
  BY DEF Kept, Stage, RestoredSoFar
<1>2. registry \in SysProxySettings /\ wanted \in SysProxySettings
  BY DEF Typed, TypeOK
<1> QED BY <1>1, <1>2 DEF SysProxySettings

-----------------------------------------------------------------------------
LEMMA NextKept ==
  ASSUME OnePort, Bearable
  PROVE  Typed /\ Kept /\ [Next]_vars => Kept'
<1> SUFFICES ASSUME Typed, Kept, [Next]_vars PROVE Kept'
  OBVIOUS
<1>0. /\ TypeOK /\ LiveMemory /\ Alone /\ Fresh
      /\ wanted \in UserSettings /\ \A i \in Procs : Stage(i)
  BY DEF Typed, Kept
<1>1. ASSUME NEW i \in Procs, Load(i) PROVE Kept'
  <2>1. /\ pc[i] = "off" /\ pc'[i] = "loaded" /\ mem'[i] = disk
        /\ \A j \in Procs \ {i} : pc'[j] = pc[j] /\ mem'[j] = mem[j]
        /\ UNCHANGED <<registry, disk, wanted, write, arg, cell, listening>>
    BY <1>0, <1>1 DEF Load, Goto, TypeOK, env
  <2>2. \A j \in Procs : Holds(j)' <=> Holds(j)
    BY <2>1 DEF Holds
  <2>3. Alone' /\ Fresh'
    <3>1. Alone'
      BY <1>0, <2>1, <2>2 DEF Alone
    <3>2. Fresh'
      BY <1>0, <2>1 DEF Fresh, Orphaned, Alive
    <3> QED BY <3>1, <3>2
  <2>4. Settled' <=> Settled
    BY <2>1 DEF Settled, LivePointer
  <2>5. \A j \in Procs \ {i} : Stage(j)'
    BY <1>0, <2>1, <2>4 DEF Stage, Held, TakenSoFar, RestoredSoFar, LivePointer
  <2>6. Stage(i)'
    BY <2>1 DEF Stage
  <2> QED BY <1>0, <2>1, <2>2, <2>3, <2>4, <2>5, <2>6 DEF Kept
<1>22. ASSUME NEW i \in Procs, Bind(i) PROVE Kept'
  <2>1. CASE Gone(i)
    BY <1>22, <2>1, LoadedGone DEF Bind, env
  <2>2. CASE ~Gone(i)
    <3>1. /\ pc[i] = "loaded" /\ ~Busy(port[i]) /\ pc'[i] = "bound" /\ listening'[i]
          /\ \A j \in Procs \ {i} : pc'[j] = pc[j] /\ listening'[j] = listening[j]
          /\ UNCHANGED <<registry, disk, wanted, write, arg, cell, mem, port>>
      BY <1>0, <1>22, <2>2 DEF Bind, Goto, TypeOK, env
    <3>2. \A j \in Procs : ~Holds(j)
      <4>1. \A j \in Procs : Holds(j) => Alive(j) /\ listening[j] /\ port[j] \in Ports
        BY <1>0 DEF Alone, LiveMemory, Holds, Alive
      <4>2. port[i] \in Ports
        BY <1>0, <3>1 DEF LiveMemory, Alive
      <4> QED BY <3>1, <4>1, <4>2 DEF OnePort, Busy
    <3>3. Settled /\ cell[i] = None
      BY <1>0, <3>2 DEF Kept, Alone
    <3>4. Holds(i)' /\ \A j \in Procs \ {i} : ~Holds(j)'
      BY <3>1, <3>2 DEF Holds
    <3>5. Alone' /\ Fresh'
      <4>1. Alone'
        BY <1>0, <3>1, <3>2, <3>4 DEF Alone
      <4>2. Fresh'
        BY <1>0, <3>1, StillFresh DEF Alive
      <4> QED BY <4>1, <4>2
    <3>6. Settled'
      BY <3>1, <3>3 DEF Settled, LivePointer
    <3>7. Stage(i)'
      BY <3>1, <3>3, <3>6 DEF Stage
    <3> QED BY <1>0, <3>1, <3>4, <3>5, <3>7, OneStage
  <2> QED BY <2>1, <2>2
<1>2. ASSUME NEW i \in Procs, SkipTakeOver(i) PROVE Kept'
  <2>1. Alone' /\ Fresh' /\ Holds(i)' /\ pc'[i] = "run"
    BY <1>2, SameAlone, SameFresh DEF SkipTakeOver, env, Holds
  <2>2. Stage(i)'
    BY <1>0, <1>2, <2>1 DEF SkipTakeOver, Stage, env, Settled, LivePointer
  <2> QED BY <1>0, <1>2, <2>1, <2>2, OneStage DEF SkipTakeOver, env
<1>3. ASSUME NEW i \in Procs, ReadRegistry(i) PROVE Kept'
  <2>1. Alone' /\ Fresh' /\ Holds(i)' /\ pc'[i] = "save"
    BY <1>3, SameAlone, SameFresh DEF ReadRegistry, env, Holds
  <2>2. arg'[i] = wanted
    BY <1>0, <1>3, ReadsWanted DEF ReadRegistry, TypeOK
  <2>3. Stage(i)'
    BY <1>0, <1>3, <2>1, <2>2 DEF ReadRegistry, Stage, env, Settled, LivePointer
  <2> QED BY <1>0, <1>3, <2>1, <2>3, OneStage DEF ReadRegistry, env
<1>4. ASSUME NEW i \in Procs, StartFails(i) PROVE Kept'
  <2>1. Alone' /\ Fresh' /\ Holds(i)' /\ pc'[i] = "exit"
    BY <1>4, SameAlone, SameFresh DEF StartFails, env, Holds
  <2>2. Stage(i)'
    BY <1>0, <1>4, <2>1 DEF StartFails, Stage, env, Settled, LivePointer
  <2> QED BY <1>0, <1>4, <2>1, <2>2, OneStage DEF StartFails, env
<1>5. ASSUME NEW i \in Procs, SaveOriginal(i) PROVE Kept'
  <2>1. mem[i] \in Config /\ port[i] \in Ports /\ arg[i] = wanted /\ Settled
    BY <1>0, <1>5 DEF SaveOriginal, LiveMemory, Alive, Stage
  <2>2. mem'[i].saved_sysproxy = wanted /\ disk' = mem'[i]
    BY <1>0, <1>5, <2>1 DEF SaveOriginal, TypeOK, Config
  <2>3. /\ pc'[i] = "take_over" /\ write'[i] = "server"
        /\ \A j \in Procs \ {i} : pc'[j] = pc[j] /\ cell'[j] = cell[j]
    BY <1>0, <1>5 DEF SaveOriginal, Goto, TypeOK
  <2>4. Alone' /\ Holds(i)'
    BY <1>0, <1>5, <2>2, <2>3, StillAlone DEF SaveOriginal, Holds
  <2>5. Held(i)'
    <3>1. cell'[i] = [original |-> arg[i], our_port |-> port[i]]
      BY <1>0, <1>5 DEF SaveOriginal, TypeOK
    <3>2. cell'[i] \in Taken
      BY <2>1, <3>1, WantedIsUsers DEF Taken
    <3>3. cell'[i] # None
      BY <3>2, NoneAssumption
    <3> QED BY <1>5, <2>1, <2>2, <3>1, <3>3 DEF SaveOriginal, Held
  <2>6. TakenSoFar(i)'
    <3>1. arg'[i] = Ours(port[i])
      BY <1>0, <1>5 DEF SaveOriginal, TypeOK
    <3>2. Settled'
      BY <1>5, <2>1, <2>2 DEF SaveOriginal, Settled, LivePointer
    <3> QED BY <2>1, <2>3, <3>1, <3>2 DEF TakenSoFar, Ours
  <2>7. Stage(i)'
    BY <2>3, <2>5, <2>6 DEF Stage
  <2>8. Fresh'
    BY <2>5, OwnedFresh DEF Held
  <2> QED BY <1>0, <1>5, <2>4, <2>7, <2>8, OneStage DEF SaveOriginal
<1>6. ASSUME NEW i \in Procs, SaveOriginalFails(i) PROVE Kept'
  <2>1. Alone' /\ Fresh' /\ Holds(i)' /\ pc'[i] = "exit"
    BY <1>6, SameAlone, SameFresh DEF SaveOriginalFails, Return, env, Holds
  <2>2. Stage(i)'
    BY <1>0, <1>6, <2>1 DEF SaveOriginalFails, Return, Stage, env, Settled, LivePointer
  <2> QED BY <1>0, <1>6, <2>1, <2>2, OneStage DEF SaveOriginalFails, env
<1>7. ASSUME NEW i \in Procs, WriteServer(i) PROVE Kept'
  <2>1. /\ Alone' /\ Holds(i)' /\ pc'[i] = pc[i] /\ pc[i] \in {"take_over", "restore"}
    <3>1. CASE pc[i] = "take_over"
      BY <1>7, <3>1, SameAlone DEF WriteServer, Holds
    <3>2. CASE pc[i] = "restore"
      BY <1>7, <3>2, SameAlone DEF WriteServer, Holds
    <3> QED BY <1>7, <3>1, <3>2 DEF WriteServer, Applying
  <2>2. /\ write'[i] = "override" /\ registry'.server = arg[i].server
        /\ UNCHANGED <<disk, wanted, arg, cell>>
    BY <1>0, <1>7 DEF WriteServer, TypeOK, SysProxySettings
  <2>3. Stage(i)'
    BY <1>0, <2>1, <2>2 DEF Stage, Held, TakenSoFar, RestoredSoFar
  <2>4. Fresh'
    BY <2>1, <2>3, OwnedFresh DEF Stage, Held
  <2> QED BY <1>0, <2>1, <2>2, <2>3, <2>4, OneStage
<1>8. ASSUME NEW i \in Procs, WriteOverride(i) PROVE Kept'
  <2>1. /\ Alone' /\ Holds(i)' /\ pc'[i] = pc[i] /\ pc[i] \in {"take_over", "restore"}
    <3>1. CASE pc[i] = "take_over"
      BY <1>8, <3>1, SameAlone DEF WriteOverride, Holds
    <3>2. CASE pc[i] = "restore"
      BY <1>8, <3>2, SameAlone DEF WriteOverride, Holds
    <3> QED BY <1>8, <3>1, <3>2 DEF WriteOverride, Applying
  <2>2. /\ write[i] = "override" /\ write'[i] = "enable"
        /\ registry'.bypass = arg[i].bypass /\ registry'.server = registry.server
        /\ UNCHANGED <<disk, wanted, arg, cell>>
    BY <1>0, <1>8 DEF WriteOverride, TypeOK, SysProxySettings
  <2>3. Stage(i)'
    BY <1>0, <2>1, <2>2 DEF Stage, Held, TakenSoFar, RestoredSoFar
  <2>4. Fresh'
    BY <2>1, <2>3, OwnedFresh DEF Stage, Held
  <2> QED BY <1>0, <2>1, <2>2, <2>3, <2>4, OneStage
<1>9. ASSUME NEW i \in Procs, WriteEnable(i) PROVE Kept'
  <2>1. /\ Alone' /\ Holds(i)' /\ pc'[i] = pc[i] /\ pc[i] \in {"take_over", "restore"}
    <3>1. CASE pc[i] = "take_over"
      BY <1>9, <3>1, SameAlone DEF WriteEnable, Holds
    <3>2. CASE pc[i] = "restore"
      BY <1>9, <3>2, SameAlone DEF WriteEnable, Holds
    <3> QED BY <1>9, <3>1, <3>2 DEF WriteEnable, Applying
  <2>2. /\ write[i] = "enable" /\ write'[i] = "notify"
        /\ registry'.enabled = arg[i].enabled /\ registry'.server = registry.server
        /\ registry'.bypass = registry.bypass
        /\ UNCHANGED <<disk, wanted, arg, cell>>
    BY <1>0, <1>9 DEF WriteEnable, TypeOK, SysProxySettings
  <2>3. Stage(i)'
    BY <1>0, <2>1, <2>2 DEF Stage, Held, TakenSoFar, RestoredSoFar
  <2>4. Fresh'
    BY <2>1, <2>3, OwnedFresh DEF Stage, Held
  <2> QED BY <1>0, <2>1, <2>2, <2>3, <2>4, OneStage
<1>10. ASSUME NEW i \in Procs, Applied(i) PROVE Kept'
  <2>1. CASE pc[i] = "take_over"
    <3>1. Return(i, "run") /\ UNCHANGED env
      BY <1>10, <2>1 DEF Applied
    <3>2. Alone' /\ Holds(i)' /\ pc'[i] = "run"
      BY <2>1, <3>1, SameAlone DEF Return, env, Holds
    <3>3. LivePointer(registry) /\ Held(i)
      BY <1>0, <1>10, <2>1 DEF Applied, Stage, TakenSoFar, LivePointer
    <3>4. Stage(i)'
      BY <3>1, <3>2, <3>3 DEF Return, env, Stage, Held, LivePointer
    <3>5. Fresh'
      BY <3>1, <3>3, OwnedFresh DEF Return, Held
    <3> QED BY <1>0, <3>1, <3>2, <3>4, <3>5, OneStage DEF env
  <2>2. CASE pc[i] = "restore"
    <3>1. registry = wanted
      BY <1>10, <2>2, RestoreEndsWanted DEF Applied
    <3> QED BY <1>10, <2>2, <3>1, GoneKept DEF Applied, Holds, Settled, env
  <2> QED BY <1>10, <2>1, <2>2 DEF Applied, Applying
<1>11. ASSUME NEW i \in Procs, ApplyFails(i) PROVE Kept'
  <2>1. pc[i] = "take_over" /\ Return(i, "exit") /\ UNCHANGED <<registry, disk, wanted>>
    BY <1>11 DEF ApplyFails, Bearable
  <2>2. Alone' /\ Holds(i)' /\ pc'[i] = "exit"
    BY <2>1, SameAlone DEF Return, env, Holds
  <2>3. Held(i) /\ (registry = wanted \/ registry.server \in Ports)
    BY <1>0, <2>1 DEF Stage, TakenSoFar, Settled, LivePointer
  <2>4. Stage(i)'
    BY <2>1, <2>2, <2>3 DEF Return, env, Stage, Held
  <2>5. Fresh'
    BY <2>1, <2>3, OwnedFresh DEF Return, Held
  <2> QED BY <1>0, <2>1, <2>2, <2>4, <2>5, OneStage DEF env
<1>12. ASSUME NEW i \in Procs, ApplyConfig(i) PROVE Kept'
  <2>1. mem[i] \in Config /\ Alive(i) /\ Holds(i)
    BY <1>0, <1>12 DEF ApplyConfig, LiveMemory, Alive, Holds
  <2>2. PICK p \in Ports, m \in BOOLEAN :
          mem' = [mem EXCEPT ![i].bridge_port = p, ![i].manage_system_proxy = m]
    BY <1>12 DEF ApplyConfig
  <2>3. mem'[i].saved_sysproxy = mem[i].saved_sysproxy
    BY <1>0, <2>1, <2>2 DEF TypeOK, Config
  <2>4. /\ UNCHANGED <<registry, wanted, pc, write, arg, cell, port, listening>>
        /\ disk' = mem'[i] \/ disk' = disk
    BY <1>12 DEF ApplyConfig
  <2>5. mem[i].saved_sysproxy = disk.saved_sysproxy \/ (cell[i] = None /\ registry = wanted)
    <3>1. CASE cell[i] # None
      BY <1>0, <3>1 DEF Alone
    <3>2. CASE cell[i] = None /\ registry # wanted
      <4>1. \A j \in Procs : cell[j] = None /\ pc[j] # "restore"
        BY <1>0, <1>12, <2>1, <3>2 DEF Alone, Holds, ApplyConfig
      <4> QED BY <1>0, <2>1, <3>2, <4>1 DEF Fresh, Orphaned
    <3> QED BY <3>1, <3>2
  <2>6. Alone' /\ Holds(i)'
    BY <1>0, <2>1, <2>3, <2>4, <2>5, StillAlone DEF Holds
  <2>7. Fresh'
    <3>1. CASE registry = wanted
      BY <2>4, <3>1, OwnedFresh
    <3>2. CASE registry # wanted
      <4>1. disk'.saved_sysproxy = disk.saved_sysproxy
        BY <2>3, <2>4, <2>5, <3>2
      <4>2. \A j \in Procs : mem'[j].saved_sysproxy = mem[j].saved_sysproxy
        BY <1>0, <2>2, <2>3 DEF TypeOK
      <4> QED BY <2>4, <4>1, <4>2, StillFresh DEF Alive
    <3> QED BY <3>1, <3>2
  <2>8. Stage(i)'
    <3>1. pc[i] = "run" /\ Stage(i)
      BY <1>0, <1>12 DEF ApplyConfig
    <3>2. registry = wanted \/ disk'.saved_sysproxy = disk.saved_sysproxy
      BY <2>3, <2>4, <2>5
    <3> QED BY <2>4, <3>1, <3>2 DEF Stage, Held, Settled, LivePointer
  <2> QED BY <1>0, <2>4, <2>6, <2>7, <2>8, OneStage
<1>13. ASSUME NEW i \in Procs, Quit(i) \/ BridgeWatchExit(i) PROVE Kept'
  <2>1. pc[i] = "run" /\ Goto(i, "exit")
        /\ UNCHANGED <<env, write, arg, cell, mem, port, listening>>
    BY <1>13 DEF Quit, BridgeWatchExit
  <2>2. Alone' /\ Fresh' /\ Holds(i)' /\ pc'[i] = "exit"
    BY <2>1, SameAlone, SameFresh DEF env, Holds
  <2>3. Stage(i)'
    BY <1>0, <2>1, <2>2 DEF env, Stage, Held, Settled, LivePointer
  <2> QED BY <1>0, <2>1, <2>2, <2>3, OneStage DEF env
<1>14. ASSUME NEW i \in Procs, BridgeStops(i) PROVE Kept'
  BY <1>14 DEF BridgeStops, Bearable
<1>15. ASSUME NEW i \in Procs, Restore(i) PROVE Kept'
  <2>1. pc[i] = "exit" /\ Holds(i) /\ UNCHANGED env
    BY <1>15 DEF Restore, Holds
  <2>2. CASE cell[i] = None
    BY <1>0, <1>15, <2>1, <2>2, GoneKept DEF Restore, Stage, Held, Settled, env
  <2>3. CASE cell[i] # None /\ ~ServerPointsAtPort(registry, cell[i].our_port)
    <3>1. registry = wanted
      <4>1. cell[i].our_port \in Ports
        BY <1>0, <2>3 DEF TypeOK, Taken
      <4> QED BY <1>0, <2>1, <2>3, <4>1 DEF Stage, ServerPointsAtPort, OnePort
    <3>2. Gone(i)
      BY <1>15, <2>3 DEF Restore, Bearable
    <3> QED BY <2>1, <3>1, <3>2, GoneKept DEF Settled, env
  <2>4. CASE cell[i] # None /\ ServerPointsAtPort(registry, cell[i].our_port)
    <3>1. cell[i].our_port \in Ports
      BY <1>0, <2>4 DEF TypeOK, Taken
    <3>2. Held(i)
      BY <1>0, <2>1, <2>4, <3>1, WantedIsUsers DEF Stage, ServerPointsAtPort
    <3>3. /\ Goto(i, "restore") /\ UNCHANGED <<mem, port, listening>>
          /\ arg' = [arg EXCEPT ![i] = cell[i].original]
          /\ cell' = [cell EXCEPT ![i] = None]
          /\ write' = [write EXCEPT ![i] = "server"]
      BY <1>15, <2>4 DEF Restore
    <3>4. Alone' /\ Holds(i)' /\ pc'[i] = "restore"
      BY <2>1, <3>3, SameAlone DEF env
    <3>5. arg'[i] = wanted /\ write'[i] = "server"
      BY <1>0, <3>2, <3>3 DEF Held, TypeOK
    <3>6. Stage(i)'
      BY <2>1, <3>2, <3>4, <3>5 DEF Stage, Held, RestoredSoFar, env
    <3>7. Fresh'
      BY <3>4, OwnedFresh
    <3> QED BY <1>0, <2>1, <3>4, <3>6, <3>7, OneStage DEF env
  <2> QED BY <2>2, <2>3, <2>4
<1>16. ASSUME NEW i \in Procs, Kill(i) PROVE Kept'
  <2>1. /\ pc[i] \in {"loaded", "bound", "save", "run"} /\ "kill" \in Faults
        /\ Gone(i) /\ UNCHANGED <<registry, disk, wanted>> /\ \A j \in Procs \ {i} : pc[j] # "loaded"
    BY <1>0, <1>16 DEF Kill, Bearable, Alive, Applying, TypeOK
  <2>2. CASE pc[i] = "loaded"
    BY <2>1, <2>2, LoadedGone
  <2>3. CASE pc[i] # "loaded"
    <3>1. Settled /\ Holds(i)
      BY <1>0, <2>1, <2>3 DEF Stage, Held, Settled, Holds
    <3> QED BY <2>1, <3>1, GoneKept
  <2> QED BY <2>2, <2>3
<1>17. ASSUME NEW u \in UserSettings, UserEdits(u) PROVE Kept'
  <2>1. \A i \in Procs : ~InWindow(i)
    BY <1>17 DEF UserEdits, EditAllowed, Bearable
  <2>2. registry' = wanted' /\ wanted' \in UserSettings
        /\ UNCHANGED <<disk, pc, write, arg, cell, mem, port, listening>>
    BY <1>17 DEF UserEdits
  <2>3. Alone' /\ Fresh'
    BY <1>0, <2>2 DEF Alone, Holds, Fresh, Orphaned
  <2>4. \A i \in Procs : Stage(i)'
    BY <1>0, <2>1, <2>2 DEF Stage, InWindow, Applying, Settled
  <2> QED BY <2>2, <2>3, <2>4 DEF Kept, Settled
<1>18. ASSUME UserTicks PROVE Kept'
  BY <1>18 DEF UserTicks, Bearable
<1>19. ASSUME EditConfigFile PROVE Kept'
  <2>1. disk'.saved_sysproxy = disk.saved_sysproxy
    BY <1>0, <1>19, EditKeepsOrForgets DEF Bearable
  <2>2. UNCHANGED <<registry, wanted, pc, write, arg, cell, mem, port, listening>>
    BY <1>19 DEF EditConfigFile
  <2>3. Settled' <=> Settled
    BY <2>1, <2>2 DEF Settled, LivePointer
  <2>4. Alone' /\ Fresh'
    BY <1>0, <2>1, <2>2 DEF Alone, Alive, Holds, Fresh, Orphaned
  <2>5. \A i \in Procs : Stage(i)'
    BY <1>0, <2>1, <2>2, <2>3
       DEF Stage, Held, TakenSoFar, RestoredSoFar, LivePointer
  <2> QED BY <2>2, <2>3, <2>4, <2>5 DEF Kept, Holds
<1>20. CASE UNCHANGED vars
  BY <1>20 DEF vars, Kept, Alone, Fresh, Orphaned, Alive, Holds, Settled, Stage, Held, TakenSoFar,
               RestoredSoFar, LivePointer
<1>21. ASSUME NEW i \in Procs, MainThread(i) PROVE Kept'
  BY <1>21, <1>22, <1>2, <1>3, <1>4, <1>5, <1>6, <1>7, <1>8, <1>9, <1>10, <1>11, <1>13,
     <1>15 DEF MainThread
<1> QED
  BY <1>1, <1>12, <1>13, <1>14, <1>16, <1>17, <1>18, <1>19, <1>20, <1>21 DEF Next

\* Rule 1 of proxy.rs: with one port and bearable faults, the user's setting is
\* at every moment in the registry or in the file.
THEOREM SettingsAreKept ==
  ASSUME OnePort, Bearable
  PROVE  Spec => []UserSettingsKept
<1>1. Typed /\ Kept => UserSettingsKept
  <2> SUFFICES ASSUME Typed, Kept PROVE UserSettingsKept
    OBVIOUS
  <2>1. CASE \A i \in Procs : ~Holds(i)
    BY <2>1 DEF Kept, Settled, UserSettingsKept
  <2>2. ASSUME NEW i \in Procs, Holds(i) PROVE UserSettingsKept
    BY <2>2 DEF Typed, TypeOK, Kept, Stage, Holds, Held, Settled, UserSettingsKept
  <2> QED BY <2>1, <2>2
<1> QED BY <1>1, InitTyped, InitKept, NextTyped, NextKept, PTL DEF Spec

\* Under the same conditions a restore that completes has put back exactly what
\* the user last chose.
THEOREM RestoreIsExact ==
  ASSUME OnePort, Bearable
  PROVE  Spec => RestoreGivesBack
<1>1. Typed /\ Kept /\ [Next]_vars
        => [\A i \in Procs :
              pc[i] = "restore" /\ write[i] = "notify" /\ pc'[i] = "off"
                => registry = wanted]_vars
  BY RestoreEndsWanted
<1> QED
  BY <1>1, InitTyped, InitKept, NextTyped, NextKept, PTL DEF Spec, RestoreGivesBack

-----------------------------------------------------------------------------
(* The setting is on loan: every step is one of the abstract borrower, or  *)
(* of none.                                                                *)

\* A step of one process moves its own loan at most.
LEMMA OnePhase ==
  ASSUME NEW i \in Procs, \A j \in Procs \ {i} : pc'[j] = pc[j] /\ cell'[j] = cell[j]
  PROVE  LoanPhases' = [LoanPhases EXCEPT ![i] = LoanPhase(i)']
  BY DEF LoanPhases, LoanPhase

\* The holder of the port is the only one who can have borrowed.
LEMMA LoanIsHeld ==
  ASSUME Typed, Kept, NEW i \in Procs
  PROVE  /\ LoanPhases[i] # "none" <=> cell[i] # None \/ pc[i] = "restore"
         /\ LoanPhases[i] # "none" => Holds(i)
         /\ Holds(i) /\ LoanPhases[i] = "none" => L!Free
<1>1. LoanPhases[i] # "none" <=> cell[i] # None \/ pc[i] = "restore"
  BY DEF LoanPhases, LoanPhase
<1>2. \A j \in Procs : LoanPhases[j] # "none" => Holds(j)
  BY DEF LoanPhases, LoanPhase, Kept, Alone, Holds
<1>3. \A j \in Procs : Holds(i) /\ Holds(j) => i = j
  BY DEF Kept, Alone
<1> QED BY <1>1, <1>2, <1>3 DEF L!Free

LEMMA LoanStutters ==
  ASSUME UNCHANGED <<registry, wanted, LoanPhases>>,
         disk'.saved_sysproxy = disk.saved_sysproxy
  PROVE  [L!Next]_L!vars
  BY DEF L!vars

\* A step of one process that leaves the user's setting alone, and its own loan.
LEMMA LoanRests ==
  ASSUME Typed, NEW i \in Procs, \A j \in Procs \ {i} : pc'[j] = pc[j] /\ cell'[j] = cell[j],
         LoanPhase(i)' = LoanPhase(i), UNCHANGED <<registry, wanted>>,
         disk'.saved_sysproxy = disk.saved_sysproxy
  PROVE  [L!Next]_L!vars
<1>1. LoanPhases' = LoanPhases
  BY DEF LoanPhases, LoanPhase
<1> QED BY <1>1, LoanStutters

LEMMA WriteOnLoan ==
  ASSUME Typed, Typed', Kept, NEW i \in Procs, Applying(i),
         WriteServer(i) \/ WriteOverride(i) \/ WriteEnable(i)
  PROVE  L!Next
<1>1. /\ UNCHANGED <<wanted, disk, pc, cell>> /\ registry' \in SysProxySettings
  BY DEF WriteServer, WriteOverride, WriteEnable, Typed, TypeOK
<1>2. LoanPhases' = LoanPhases
  BY <1>1 DEF LoanPhases, LoanPhase
<1>3. Stage(i)
  BY DEF Kept
<1>4. disk.saved_sysproxy = wanted /\ (cell[i] # None \/ pc[i] = "restore")
  BY <1>3 DEF Stage, Held, Applying
<1>5. LoanPhases[i] # "none"
  BY <1>4, LoanIsHeld
<1> QED BY <1>1, <1>2, <1>4, <1>5 DEF L!Next, L!Write

LEMMA StepOnLoan ==
  ASSUME OnePort, Bearable
  PROVE  Typed /\ Typed' /\ Kept /\ [Next]_vars => [L!Next]_L!vars
<1> SUFFICES ASSUME Typed, Typed', Kept, [Next]_vars PROVE [L!Next]_L!vars
  OBVIOUS
<1>0. /\ \A i \in Procs : Stage(i)
      /\ \A i \in Procs : cell[i] # None => Holds(i) /\ mem[i].saved_sysproxy = disk.saved_sysproxy
      /\ DOMAIN pc = Procs /\ DOMAIN cell = Procs /\ DOMAIN LoanPhases = Procs
  BY DEF Kept, Alone, Typed, TypeOK, LoanPhases
<1>1. ASSUME NEW i \in Procs, Load(i) \/ Bind(i) PROVE [L!Next]_L!vars
  <2>1. cell[i] = None /\ cell'[i] = None
    BY <1>0, <1>1 DEF Load, Bind, Gone, Holds
  <2>2. LoanPhase(i)' = LoanPhase(i)
    BY <1>0, <1>1, <2>1 DEF Load, Bind, Gone, Goto, LoanPhase
  <2> QED BY <1>0, <1>1, <2>2, LoanRests DEF Load, Bind, Gone, Goto, env
<1>2. ASSUME NEW i \in Procs,
             SkipTakeOver(i) \/ ReadRegistry(i) \/ StartFails(i) \/ SaveOriginalFails(i)
      PROVE  [L!Next]_L!vars
  <2>1. cell[i] = None /\ UNCHANGED cell
    BY <1>0, <1>2 DEF Stage, SkipTakeOver, ReadRegistry, StartFails, SaveOriginalFails, Return
  <2>2. LoanPhase(i)' = LoanPhase(i)
    BY <1>0, <1>2, <2>1
       DEF SkipTakeOver, ReadRegistry, StartFails, SaveOriginalFails, Return, Goto, LoanPhase
  <2> QED
    BY <1>0, <1>2, <2>1, <2>2, LoanRests
       DEF SkipTakeOver, ReadRegistry, StartFails, SaveOriginalFails, Return, Goto, env
<1>3. ASSUME NEW i \in Procs, SaveOriginal(i) PROVE [L!Next]_L!vars
  <2>1. /\ cell[i] = None /\ arg[i] = wanted /\ Holds(i)
        /\ \A j \in Procs \ {i} : pc'[j] = pc[j] /\ cell'[j] = cell[j]
    BY <1>0, <1>3 DEF Stage, SaveOriginal, Goto, Holds
  <2>2. L!Free
    BY <1>3, <2>1, LoanIsHeld DEF SaveOriginal
  <2>3. disk'.saved_sysproxy = wanted
    BY <1>3, <2>1 DEF SaveOriginal, Typed, TypeOK, LiveMemory, Alive, Config
  <2>4. cell'[i] # None /\ pc'[i] = "take_over"
    <3>1. [original |-> arg[i], our_port |-> port[i]] \in Taken
      BY <1>3 DEF SaveOriginal, Typed, LiveMemory, Alive, InWindow, Taken
    <3> QED BY <1>0, <1>3, <3>1, NoneAssumption DEF SaveOriginal, Goto
  <2>5. LoanPhases' = [LoanPhases EXCEPT ![i] = "lent"]
    BY <2>1, <2>4, OnePhase DEF LoanPhase
  <2> QED BY <1>3, <2>2, <2>3, <2>5 DEF SaveOriginal, L!Next, L!Borrow
<1>4. ASSUME NEW i \in Procs, WriteServer(i) \/ WriteOverride(i) \/ WriteEnable(i)
      PROVE  [L!Next]_L!vars
  BY <1>4, WriteOnLoan DEF WriteServer, WriteOverride, WriteEnable
<1>5. ASSUME NEW i \in Procs, Applied(i) PROVE [L!Next]_L!vars
  <2>1. CASE pc[i] = "take_over"
    <3>1. LoanPhase(i)' = LoanPhase(i)
      BY <1>0, <1>5, <2>1 DEF Applied, Return, Goto, Stage, Held, LoanPhase
    <3> QED BY <1>0, <1>5, <2>1, <3>1, LoanRests DEF Applied, Return, Goto, env
  <2>2. CASE pc[i] = "restore"
    <3>1. /\ registry = wanted /\ LoanPhases[i] = "returning"
          /\ LoanPhases' = [LoanPhases EXCEPT ![i] = "none"]
      BY <1>0, <1>5, <2>2, OnePhase, RestoreEndsWanted DEF Applied, Gone, LoanPhases, LoanPhase
    <3> QED BY <1>5, <2>2, <3>1 DEF Applied, Applying, env, L!Next, L!GiveBack
  <2> QED BY <1>5, <2>1, <2>2 DEF Applied
<1>6. ASSUME NEW i \in Procs, ApplyFails(i) \/ Quit(i) \/ BridgeWatchExit(i)
      PROVE  [L!Next]_L!vars
  <2>1. /\ pc[i] \in {"take_over", "run"} /\ pc'[i] = "exit" /\ UNCHANGED <<registry, disk, wanted, cell>>
        /\ \A j \in Procs \ {i} : pc'[j] = pc[j]
    BY <1>0, <1>6 DEF Bearable, ApplyFails, Return, Quit, BridgeWatchExit, Goto, env
  <2>2. CASE cell[i] = None
    BY <2>1, <2>2, LoanRests DEF LoanPhase
  <2>3. CASE cell[i] # None
    <3>1. LoanPhases[i] = "lent" /\ LoanPhases' = [LoanPhases EXCEPT ![i] = "returning"]
      BY <2>1, <2>3, OnePhase DEF LoanPhases, LoanPhase
    <3> QED BY <2>1, <3>1 DEF L!Next, L!Turn
  <2> QED BY <2>2, <2>3
<1>7. ASSUME NEW i \in Procs, BridgeStops(i) PROVE [L!Next]_L!vars
  BY <1>7, LoanStutters DEF BridgeStops, env, LoanPhases, LoanPhase
<1>8. ASSUME NEW i \in Procs, Restore(i) PROVE [L!Next]_L!vars
  <2>1. \A j \in Procs \ {i} : pc'[j] = pc[j] /\ cell'[j] = cell[j]
    BY <1>0, <1>8 DEF Restore, Gone, Goto
  <2>2. CASE cell[i] = None
    BY <1>0, <1>8, <2>1, <2>2, LoanRests DEF Restore, Gone, LoanPhase, env
  <2>3. CASE cell[i] # None /\ Gone(i)
    <3>1. registry.server # cell[i].our_port
      <4>1. Gone(i) => pc'[i] = "off"
        BY <1>0 DEF Gone
      <4>2. Goto(i, "restore") => pc'[i] = "restore"
        BY <1>0 DEF Goto
      <4> QED BY <1>8, <2>3, <4>1, <4>2 DEF Restore, ServerPointsAtPort
    <3>2. registry.server \notin Ports
      BY <2>3, <3>1 DEF OnePort, Typed, TypeOK, Taken
    <3>3. registry = wanted
      BY <1>0, <1>8, <2>3, <3>2 DEF Stage, Restore
    <3>4. LoanPhases[i] = "returning" /\ LoanPhases' = [LoanPhases EXCEPT ![i] = "none"]
      BY <1>0, <1>8, <2>1, <2>3, OnePhase DEF Restore, Gone, LoanPhases, LoanPhase
    <3> QED BY <1>8, <3>3, <3>4 DEF Restore, env, L!Next, L!GiveBack
  <2>4. CASE cell[i] # None /\ ~Gone(i)
    <3>1. LoanPhase(i)' = LoanPhase(i)
      BY <1>0, <1>8, <2>4 DEF Restore, Goto, LoanPhase
    <3> QED BY <1>8, <2>1, <3>1, LoanRests DEF Restore, env
  <2> QED BY <2>2, <2>3, <2>4
<1>9. ASSUME NEW i \in Procs, Kill(i) PROVE [L!Next]_L!vars
  <2>1. /\ "kill" \in Faults /\ pc[i] \notin {"exit", "restore"}
        /\ pc'[i] = "off" /\ cell'[i] = None
        /\ \A j \in Procs \ {i} : pc'[j] = pc[j] /\ cell'[j] = cell[j]
    BY <1>0, <1>9 DEF Bearable, Kill, Applying, Gone
  <2>2. CASE cell[i] = None
    BY <1>9, <2>1, <2>2, LoanRests DEF Kill, LoanPhase
  <2>3. CASE cell[i] # None
    <3>1. LoanPhases[i] = "lent" /\ LoanPhases' = [LoanPhases EXCEPT ![i] = "none"]
      BY <2>1, <2>3, OnePhase DEF LoanPhases, LoanPhase
    <3> QED BY <1>9, <2>1, <3>1 DEF Kill, L!Next, L!Die
  <2> QED BY <2>2, <2>3
<1>10. ASSUME NEW i \in Procs, ApplyConfig(i) PROVE [L!Next]_L!vars
  <2>1. /\ pc[i] = "run" /\ UNCHANGED <<registry, wanted, pc, cell>>
        /\ disk'.saved_sysproxy \in {mem[i].saved_sysproxy, disk.saved_sysproxy}
    <3>1. pc[i] = "run" /\ mem[i] \in Config /\ DOMAIN mem = Procs
      BY <1>10 DEF ApplyConfig, Typed, TypeOK, LiveMemory, Alive
    <3>2. PICK p \in Ports, m \in BOOLEAN :
            mem' = [mem EXCEPT ![i].bridge_port = p, ![i].manage_system_proxy = m]
      BY <1>10 DEF ApplyConfig
    <3>3. mem'[i].saved_sysproxy = mem[i].saved_sysproxy
      BY <3>1, <3>2 DEF Config
    <3> QED BY <1>10, <3>1, <3>3 DEF ApplyConfig
  <2>2. LoanPhases' = LoanPhases
    BY <2>1 DEF LoanPhases, LoanPhase
  <2>3. CASE mem[i].saved_sysproxy = disk.saved_sysproxy
    BY <2>1, <2>2, <2>3, LoanStutters
  <2>4. CASE mem[i].saved_sysproxy # disk.saved_sysproxy
    <3>1. cell[i] = None /\ Holds(i) /\ LoanPhases[i] = "none"
      BY <1>0, <2>1, <2>4, LoanIsHeld DEF Holds
    <3>2. L!Free
      BY <3>1, LoanIsHeld
    <3>3. registry = wanted
      BY <2>1, <2>4, <3>2, LoanIsHeld DEF Kept, Fresh, Orphaned, L!Free, Alive
    <3> QED BY <2>1, <2>2, <3>2, <3>3 DEF L!Next, L!Forget
  <2> QED BY <2>3, <2>4
<1>11. ASSUME NEW u \in UserSettings, UserEdits(u) PROVE [L!Next]_L!vars
  <2>1. u \in SysProxySettings
    BY <1>11 DEF UserEdits, Typed, TypeOK
  <2>2. LoanPhases' = LoanPhases
    BY <1>11 DEF UserEdits, LoanPhases, LoanPhase
  <2> QED BY <1>11, <2>1, <2>2 DEF UserEdits, L!Next, L!Choose
<1>12. CASE EditConfigFile
  <2>1. disk'.saved_sysproxy = disk.saved_sysproxy /\ UNCHANGED <<registry, wanted, pc, cell>>
    BY <1>12 DEF Bearable, EditConfigFile, Typed, TypeOK, Config
  <2> QED BY <2>1, LoanStutters DEF LoanPhases, LoanPhase
<1>13. ~UserTicks
  BY DEF Bearable, UserTicks
<1>14. CASE UNCHANGED vars
  BY <1>14, LoanStutters DEF vars, LoanPhases, LoanPhase
<1> QED
  BY <1>1, <1>2, <1>3, <1>4, <1>5, <1>6, <1>7, <1>8, <1>9, <1>10, <1>11, <1>12, <1>13, <1>14
     DEF Next, MainThread

\* Refinement: overlapping starts, kills, failing writes and failing saves included, the
\* lifecycle of the setting is the loan of Loan (SettingIsOnLoan).
THEOREM LentAndGivenBack ==
  ASSUME OnePort, Bearable
  PROVE  Spec => SettingIsOnLoan
<1>1. Init => L!Init
  BY DEF Init, L!Init, UserSettings, SysProxySettings, LoanPhases, LoanPhase
<1>2. Typed /\ Typed' /\ Kept /\ [Next]_vars => [L!Next]_L!vars
  BY StepOnLoan
<1> QED
  BY <1>1, <1>2, InitTyped, InitKept, NextTyped, NextKept, PTL DEF Spec, SettingIsOnLoan, L!Spec

\* What the abstract borrower is for: whoever keeps to it loses no setting, whatever else
\* he does.
THEOREM LoansAreSafe == L!Spec => []UserSettingsKept
<1>1. L!Init => UserSettingsKept
  BY DEF L!Init, UserSettingsKept
<1>2. UserSettingsKept /\ [L!Next]_L!vars => UserSettingsKept'
  BY DEF UserSettingsKept, L!Next, L!vars, L!Borrow, L!Write, L!Turn, L!GiveBack, L!Die,
         L!Choose, L!Forget
<1> QED BY <1>1, <1>2, PTL DEF L!Spec

-----------------------------------------------------------------------------
(***************************************************************************)
(* Whose pointer it is.  Either the port is the mutual exclusion, and then *)
(* the listener must not die under its owner, or instances follow each     *)
(* other; every other fault is allowed.                                    *)
(***************************************************************************)
Exclusive ==
  \/ OnePort /\ "bridge-stop" \notin Faults
  \/ "overlap" \notin Faults

\* At most one instance is past its bind.
AtMostOne ==
  /\ OnePort /\ "bridge-stop" \notin Faults => \A i \in Procs : Holds(i) => listening[i]
  /\ "overlap" \notin Faults => \A i, j \in Procs : Alive(i) /\ Alive(j) => i = j
  /\ \A i, j \in Procs : Holds(i) /\ Holds(j) => i = j

\* This instance will take the address of its port out of the registry.
Owes(i) == cell[i] # None \/ (pc[i] = "restore" /\ write[i] = "server")

\* What an instance keeps and is about to write.  Nothing that take_over read, and
\* nothing that restore writes, has the address of a port.
Clean(i) ==
  /\ pc[i] \in {"off", "loaded", "bound", "save"} => cell[i] = None
  /\ pc[i] = "save" => arg[i].server \notin Ports
  /\ pc[i] = "take_over" => cell[i] # None /\ arg[i].server = port[i]
  /\ cell[i] # None => /\ cell[i].our_port = port[i]
                       /\ cell[i].original.server \notin Ports
  /\ pc[i] = "restore" => cell[i] = None /\ arg[i].server \notin Ports

\* PointedOnlyWhileOwned, for every address of ours whether it is switched on or
\* not: the checkbox is not ours alone, and half a write leaves it as it was.
Owned ==
  ~harmed => /\ \A i \in Procs : Clean(i)
             /\ registry.server \in Ports =>
                  \E i \in Procs : Owes(i) /\ port[i] = registry.server

LEMMA InitOwned == Init => AtMostOne /\ Owned
  BY ServersAssumption DEF Init, AtMostOne, Owned, Owes, Clean, Holds, Alive, UserSettings

\* Whoever binds finds nobody past the bind.
LEMMA NextApart ==
  ASSUME Exclusive
  PROVE  Typed /\ AtMostOne /\ [Next]_vars => AtMostOne'
<1> SUFFICES ASSUME Typed, AtMostOne, [Next]_vars PROVE AtMostOne'
  OBVIOUS
<1>0. TypeOK /\ LiveMemory
  BY DEF Typed
<1>1. ASSUME NEW i \in Procs, Load(i) PROVE AtMostOne'
  <2>1. /\ pc'[i] = "loaded" /\ pc[i] = "off" /\ UNCHANGED listening
        /\ \A j \in Procs \ {i} : pc'[j] = pc[j]
        /\ "overlap" \notin Faults => \A j \in Procs : ~Alive(j)
    BY <1>0, <1>1 DEF Load, Goto, TypeOK
  <2> QED BY <2>1 DEF AtMostOne, Holds, Alive
<1>2. ASSUME NEW i \in Procs, Gone(i) PROVE AtMostOne'
  BY <1>0, <1>2 DEF Gone, TypeOK, AtMostOne, Holds, Alive
<1>3. ASSUME NEW i \in Procs, Bind(i) PROVE AtMostOne'
  <2>1. CASE Gone(i)
    BY <1>2, <2>1
  <2>2. CASE ~Gone(i)
    <3>1. /\ pc[i] = "loaded" /\ ~Busy(port[i]) /\ pc'[i] = "bound" /\ listening'[i]
          /\ \A j \in Procs \ {i} : pc'[j] = pc[j] /\ listening'[j] = listening[j]
      BY <1>0, <1>3, <2>2 DEF Bind, Goto, TypeOK
    <3>2. Alive(i) /\ port[i] \in Ports
      BY <1>0, <3>1 DEF LiveMemory, Alive
    <3>3. \A j \in Procs : ~Holds(j)
      <4>1. CASE OnePort /\ "bridge-stop" \notin Faults
        <5>1. ASSUME NEW j \in Procs, Holds(j) PROVE FALSE
          <6>1. listening[j] /\ port[j] \in Ports
            BY <1>0, <4>1, <5>1 DEF AtMostOne, LiveMemory, Holds, Alive
          <6> QED BY <3>1, <3>2, <4>1, <6>1 DEF OnePort, Busy
        <5> QED BY <5>1
      <4>2. CASE "overlap" \notin Faults
        BY <3>1, <3>2, <4>2 DEF AtMostOne, Holds, Alive
      <4> QED BY <4>1, <4>2 DEF Exclusive
    <3> QED BY <3>1, <3>2, <3>3 DEF AtMostOne, Holds, Alive
  <2> QED BY <2>1, <2>2
<1>4. ASSUME NEW i \in Procs, NEW w \in {"bound", "save", "take_over", "run", "exit", "restore"},
             Holds(i), Goto(i, w), UNCHANGED listening
      PROVE  AtMostOne'
  BY <1>0, <1>4 DEF Goto, TypeOK, AtMostOne, Holds, Alive
<1>5. ASSUME NEW i \in Procs, SkipTakeOver(i) \/ StartFails(i) \/ ReadRegistry(i) \/ SaveOriginal(i)
                              \/ SaveOriginalFails(i) \/ Quit(i) \/ BridgeWatchExit(i)
      PROVE  AtMostOne'
  <2>1. PICK w \in {"bound", "save", "take_over", "run", "exit", "restore"} :
          Holds(i) /\ Goto(i, w) /\ UNCHANGED listening
    BY <1>5 DEF SkipTakeOver, StartFails, ReadRegistry, SaveOriginal, SaveOriginalFails, Return,
                Quit, BridgeWatchExit, Holds
  <2> QED BY <1>4, <2>1
<1>6. ASSUME NEW i \in Procs, Applied(i) \/ ApplyFails(i) \/ Restore(i) PROVE AtMostOne'
  <2>1. \/ Gone(i)
        \/ \E w \in {"run", "exit", "restore"} : Holds(i) /\ Goto(i, w) /\ UNCHANGED listening
    BY <1>6 DEF Applied, ApplyFails, Restore, Return, Holds
  <2> QED BY <1>2, <1>4, <2>1
<1>7. ASSUME UNCHANGED <<pc, listening>> PROVE AtMostOne'
  BY <1>7 DEF AtMostOne, Holds, Alive
<1>8. ASSUME NEW i \in Procs, BridgeStops(i) PROVE AtMostOne'
  <2>1. "bridge-stop" \in Faults /\ pc' = pc
    BY <1>8 DEF BridgeStops
  <2> QED BY <2>1 DEF AtMostOne, Holds, Alive
<1>9. ASSUME NEW i \in Procs, MainThread(i) PROVE AtMostOne'
  BY <1>3, <1>5, <1>6, <1>7, <1>9 DEF MainThread, WriteServer, WriteOverride, WriteEnable
<1> QED
  BY <1>1, <1>2, <1>5, <1>7, <1>8, <1>9
     DEF Next, vars, ApplyConfig, Kill, UserEdits, UserTicks, EditConfigFile

\* A step of one instance, unharmed, after which it is clean; and after which, if the
\* address of its port is in the registry, it is the one that owes it.
LEMMA StepOwned ==
  ASSUME Typed, Owned, ~harmed, NEW i \in Procs,
         \A j \in Procs \ {i} : /\ pc'[j] = pc[j] /\ write'[j] = write[j] /\ arg'[j] = arg[j]
                                /\ cell'[j] = cell[j] /\ port'[j] = port[j],
         Clean(i)',
         \/ registry'.server \notin Ports
         \/ registry'.server = registry.server /\ (Owes(i) /\ port[i] = registry.server
                                                    => Owes(i)' /\ port'[i] = port[i])
         \/ Owes(i)' /\ registry'.server = port'[i]
  PROVE  Owned'
<1>1. \A j \in Procs \ {i} : (Clean(j) => Clean(j)') /\ (Owes(j) => Owes(j)')
  BY DEF Clean, Owes
<1>2. \A j \in Procs : Clean(j)'
  BY <1>1 DEF Owned
<1>3. ASSUME registry'.server \in Ports
      PROVE  \E j \in Procs : Owes(j)' /\ port'[j] = registry'.server
  <2>1. CASE Owes(i)' /\ registry'.server = port'[i]
    BY <2>1
  <2>2. CASE /\ registry'.server = registry.server
             /\ Owes(i) /\ port[i] = registry.server => Owes(i)' /\ port'[i] = port[i]
    <3>1. PICK j \in Procs : Owes(j) /\ port[j] = registry.server
      BY <1>3, <2>2 DEF Owned
    <3>2. CASE j = i
      BY <2>2, <3>1, <3>2
    <3>3. CASE j # i
      BY <1>1, <2>2, <3>1, <3>3
    <3> QED BY <3>2, <3>3
  <2> QED BY <1>3, <2>1, <2>2
<1> QED BY <1>2, <1>3 DEF Owned

\* An instance may die unless the address in the registry is its own to remove.
LEMMA GoneOwned ==
  ASSUME Typed, Owned, ~harmed, NEW i \in Procs, Gone(i), registry' = registry,
         Owes(i) => port[i] # registry.server
  PROVE  Owned'
<1>1. /\ pc'[i] = "off" /\ cell'[i] = None
      /\ \A j \in Procs \ {i} : /\ pc'[j] = pc[j] /\ write'[j] = write[j] /\ arg'[j] = arg[j]
                                /\ cell'[j] = cell[j] /\ port'[j] = port[j]
  BY DEF Typed, TypeOK, Gone
<1>2. Clean(i)'
  BY <1>1 DEF Clean
<1> QED BY <1>1, <1>2, StepOwned

\* Whoever has just taken the port finds no address of ours in the registry.
LEMMA ReadsForeign ==
  ASSUME Typed, AtMostOne, Owned, ~harmed, NEW i \in Procs, pc[i] = "bound"
  PROVE  registry.server \notin Ports /\ Original(i) = registry
<1>1. ASSUME registry.server \in Ports PROVE FALSE
  <2>1. PICK j \in Procs : Owes(j)
    BY <1>1 DEF Owned
  <2>2. Clean(j) /\ pc[j] \notin {"off", "loaded", "bound", "save"}
    <3>1. Clean(j)
      BY DEF Owned
    <3> QED BY <2>1, <3>1 DEF Clean, Owes
  <2>3. Holds(i) /\ Holds(j)
    BY <2>2 DEF Holds
  <2> QED BY <2>2, <2>3 DEF AtMostOne
<1>2. port[i] \in Ports
  BY DEF Typed, LiveMemory, Alive
<1> QED BY <1>1, <1>2 DEF Original, IsStalePointer, ServerPointsAtPort

LEMMA NextOwned == Typed /\ AtMostOne /\ Owned /\ [Next]_vars => Owned'
<1> SUFFICES ASSUME Typed, AtMostOne, Owned, [Next]_vars PROVE Owned'
  OBVIOUS
<1> DEFINE Others(i) == \A j \in Procs \ {i} :
             /\ pc'[j] = pc[j] /\ write'[j] = write[j] /\ arg'[j] = arg[j]
             /\ cell'[j] = cell[j] /\ port'[j] = port[j]
<1>0. TypeOK /\ LiveMemory
  BY DEF Typed
<1>1. CASE harmed
  <2>1. harmed'
    BY <1>0, <1>1 DEF TypeOK, Next, MainThread, vars, env, Load, Bind, SkipTakeOver, ReadRegistry,
          StartFails, SaveOriginal, SaveOriginalFails, WriteServer, WriteOverride, WriteEnable,
          Applied, ApplyFails, ApplyConfig, Quit, BridgeStops, BridgeWatchExit, Restore, Kill,
          UserEdits, UserTicks, EditConfigFile
  <2> QED BY <2>1 DEF Owned
<1>2. CASE ~harmed
  <2>0. \A i \in Procs : Clean(i)
    BY <1>2 DEF Owned
  <2>1. ASSUME NEW i \in Procs, Load(i) PROVE Owned'
    <3>1. /\ pc[i] = "off" /\ pc'[i] = "loaded" /\ cell[i] = None /\ cell'[i] = None
          /\ Others(i) /\ UNCHANGED registry
      BY <1>0, <2>0, <2>1 DEF Load, Goto, TypeOK, env, Clean
    <3>2. Clean(i)' /\ ~Owes(i)
      BY <3>1 DEF Clean, Owes
    <3> QED BY <1>2, <3>1, <3>2, StepOwned
  <2>2. ASSUME NEW i \in Procs, Bind(i) PROVE Owned'
    <3>0. pc[i] = "loaded" /\ cell[i] = None /\ UNCHANGED registry
      BY <2>0, <2>2 DEF Bind, env, Clean
    <3>1. CASE Gone(i)
      BY <1>2, <3>0, <3>1, GoneOwned DEF Owes
    <3>2. CASE ~Gone(i)
      <4>1. pc'[i] = "bound" /\ cell'[i] = None /\ Others(i)
        BY <1>0, <2>2, <3>0, <3>2 DEF Bind, Goto, TypeOK
      <4>2. Clean(i)' /\ ~Owes(i)
        BY <3>0, <4>1 DEF Clean, Owes
      <4> QED BY <1>2, <3>0, <4>1, <4>2, StepOwned
    <3> QED BY <3>1, <3>2
  <2>3. ASSUME NEW i \in Procs, ReadRegistry(i) PROVE Owned'
    <3>1. registry.server \notin Ports /\ Original(i) = registry
      BY <1>2, <2>3, ReadsForeign DEF ReadRegistry
    <3>2. /\ pc'[i] = "save" /\ cell'[i] = None /\ arg'[i] = registry /\ Others(i)
          /\ UNCHANGED registry
      BY <1>0, <2>0, <2>3, <3>1 DEF ReadRegistry, Goto, TypeOK, env, Clean
    <3>3. Clean(i)'
      BY <3>1, <3>2 DEF Clean
    <3> QED BY <1>2, <3>1, <3>2, <3>3, StepOwned
  <2>4. ASSUME NEW i \in Procs, SaveOriginal(i) PROVE Owned'
    <3>1. /\ pc'[i] = "take_over" /\ UNCHANGED <<registry, port>> /\ Others(i)
          /\ cell'[i] = [original |-> arg[i], our_port |-> port[i]]
          /\ arg'[i] = Ours(port[i])
      BY <1>0, <2>4 DEF SaveOriginal, Goto, TypeOK
    <3>2. arg[i] \in SysProxySettings /\ port[i] \in Ports /\ pc[i] = "save"
      BY <1>0, <2>4 DEF SaveOriginal, LiveMemory, InWindow, Alive
    <3>3. cell'[i] # None /\ ~Owes(i)
      BY <2>0, <3>1, <3>2, NoneAssumption DEF Taken, Clean, Owes
    <3>4. Clean(i)'
      BY <2>0, <3>1, <3>2, <3>3 DEF Clean, Ours
    <3> QED BY <1>2, <3>1, <3>3, <3>4, StepOwned
  <2>5. ASSUME NEW i \in Procs, WriteServer(i) PROVE Owned'
    <3>1. /\ registry'.server = arg[i].server /\ UNCHANGED <<pc, arg, cell, port>>
          /\ write'[i] = "override" /\ Others(i) /\ pc[i] \in {"take_over", "restore"}
      BY <1>0, <2>5 DEF WriteServer, TypeOK, SysProxySettings, Applying
    <3>2. Clean(i)' /\ Clean(i)
      BY <2>0, <3>1 DEF Clean
    <3>3. \/ registry'.server \notin Ports
          \/ Owes(i)' /\ registry'.server = port'[i]
      BY <3>1, <3>2 DEF Clean, Owes
    <3> QED BY <1>2, <3>1, <3>2, <3>3, StepOwned
  <2>6. ASSUME NEW i \in Procs, WriteOverride(i) \/ WriteEnable(i) PROVE Owned'
    <3>1. /\ registry'.server = registry.server /\ UNCHANGED <<pc, arg, cell, port>>
          /\ write[i] # "server" /\ Others(i)
      BY <1>0, <2>6 DEF WriteOverride, WriteEnable, TypeOK, SysProxySettings
    <3>2. Clean(i)' /\ (Owes(i) => Owes(i)')
      BY <2>0, <3>1 DEF Clean, Owes
    <3> QED BY <1>2, <3>1, <3>2, StepOwned
  <2>7. ASSUME NEW i \in Procs, Gone(i), UNCHANGED registry,
               ~Owes(i) \/ registry.server # port[i]
        PROVE  Owned'
    BY <1>2, <2>7, GoneOwned
  <2>8. ASSUME NEW i \in Procs, NEW w \in {"run", "exit"}, Goto(i, w),
               pc[i] \notin {"off", "loaded", "restore"},
               UNCHANGED <<registry, cell, port>>, Others(i)
        PROVE  Owned'
    <3>1. pc'[i] = w
      BY <1>0, <2>8 DEF Goto, TypeOK
    <3>2. Clean(i)' /\ (Owes(i) => Owes(i)')
      BY <2>0, <2>8, <3>1 DEF Clean, Owes
    <3> QED BY <1>2, <2>8, <3>2, StepOwned
  <2>9. ASSUME NEW i \in Procs,
               SkipTakeOver(i) \/ StartFails(i) \/ SaveOriginalFails(i) \/ Quit(i) \/ BridgeWatchExit(i)
        PROVE  Owned'
    <3>1. \E w \in {"run", "exit"} : Goto(i, w) /\ Others(i)
      BY <1>0, <2>9 DEF SkipTakeOver, StartFails, SaveOriginalFails, Quit, BridgeWatchExit,
                        Return, Goto, TypeOK
    <3>2. pc[i] \notin {"off", "loaded", "restore"} /\ UNCHANGED <<registry, cell, port>>
      BY <2>9 DEF SkipTakeOver, StartFails, SaveOriginalFails, Quit, BridgeWatchExit, Return, env
    <3> QED BY <2>8, <3>1, <3>2
  <2>10. ASSUME NEW i \in Procs, Applied(i) \/ ApplyFails(i) PROVE Owned'
    <3>1. CASE harmed'
      BY <3>1 DEF Owned
    <3>2. CASE ~harmed' /\ pc[i] = "take_over"
      <4>1. /\ \E w \in {"run", "exit"} : Goto(i, w)
            /\ UNCHANGED <<registry, cell, port>>
        BY <2>10, <3>2 DEF Applied, ApplyFails, Return, env
      <4>2. Others(i)
        BY <1>0, <2>10, <3>2 DEF Applied, ApplyFails, Return, Goto, TypeOK
      <4> QED BY <2>8, <3>2, <4>1, <4>2
    <3>3. CASE ~harmed' /\ pc[i] # "take_over"
      <4>1. Gone(i) /\ pc[i] = "restore" /\ write[i] = "notify" /\ UNCHANGED registry
        BY <1>0, <2>10, <3>3 DEF Applied, ApplyFails, Applying, env, TypeOK
      <4>2. ~Owes(i)
        BY <2>0, <4>1 DEF Clean, Owes
      <4> QED BY <2>7, <4>1, <4>2
    <3> QED BY <3>1, <3>2, <3>3
  <2>11. ASSUME NEW i \in Procs, Restore(i) PROVE Owned'
    <3>0. pc[i] = "exit" /\ UNCHANGED registry /\ Clean(i)
      BY <2>0, <2>11 DEF Restore, env
    <3>1. CASE Gone(i)
      <4>1. \/ cell[i] = None
            \/ cell[i].our_port # registry.server
        BY <1>0, <2>11, <3>1, <3>0 DEF Restore, Gone, Goto, TypeOK, ServerPointsAtPort
      <4> QED BY <2>7, <3>0, <3>1, <4>1 DEF Clean, Owes
    <3>2. CASE ~Gone(i)
      <4>1. /\ pc'[i] = "restore" /\ write'[i] = "server" /\ arg'[i] = cell[i].original
            /\ cell'[i] = None /\ cell[i] # None /\ Others(i) /\ UNCHANGED port
        BY <1>0, <2>11, <3>2 DEF Restore, Goto, TypeOK
      <4>2. Clean(i)' /\ Owes(i)'
        BY <3>0, <4>1 DEF Clean, Owes
      <4> QED BY <1>2, <3>0, <4>1, <4>2, StepOwned
    <3> QED BY <3>1, <3>2
  <2>12. ASSUME UNCHANGED <<registry, pc, write, arg, cell, port>> PROVE Owned'
    BY <1>2, <2>12 DEF Owned, Clean, Owes
  <2>13. ASSUME NEW u \in UserSettings, UserEdits(u) PROVE Owned'
    BY <1>2, <2>13, ServersAssumption DEF UserEdits, UserSettings, Owned, Clean
  <2>14. CASE UserTicks
    <3>1. registry'.server = registry.server
      BY <1>0, <2>14 DEF UserTicks, TypeOK, SysProxySettings
    <3> QED BY <1>2, <2>14, <3>1 DEF UserTicks, Owned, Clean, Owes
  <2>15. ASSUME NEW i \in Procs, Kill(i) PROVE Owned'
    BY <2>15 DEF Kill, Owned
  <2>16. ASSUME NEW i \in Procs, MainThread(i) PROVE Owned'
    BY <2>2, <2>3, <2>4, <2>5, <2>6, <2>9, <2>10, <2>11, <2>16 DEF MainThread
  <2> QED
    BY <2>1, <2>9, <2>12, <2>13, <2>14, <2>15, <2>16
       DEF Next, vars, env, ApplyConfig, BridgeStops, EditConfigFile
<1> QED BY <1>1, <1>2

\* Unless instances overlap and the listener of one may die under it, or they overlap
\* on different ports: whatever else fails, if nobody is killed and no restoring write
\* fails, the registry points at one of our ports only while an instance lives there
\* that will take the address out again.
THEOREM PointedIsOwned ==
  ASSUME Exclusive
  PROVE  Spec => []PointedOnlyWhileOwned
<1>1. Typed /\ Owned => PointedOnlyWhileOwned
  <2> SUFFICES ASSUME Typed, Owned, ~harmed, LivePointer(registry)
               PROVE  \E i \in Procs : /\ Alive(i) /\ port[i] = registry.server
                                       /\ cell[i] # None \/ pc[i] = "restore"
    BY DEF PointedOnlyWhileOwned
  <2>1. PICK i \in Procs : Owes(i) /\ port[i] = registry.server
    BY DEF Owned, LivePointer
  <2>2. Alive(i)
    BY <2>1 DEF Owned, Clean, Owes, Alive
  <2> QED BY <2>1, <2>2 DEF Owes
<1> QED BY <1>1, InitTyped, InitOwned, NextTyped, NextApart, NextOwned, PTL DEF Spec

-----------------------------------------------------------------------------
(* The registry.  Every value that may be there is covered, and every      *)
(* change between the two calls of a reading.                              *)

\* What stands before a zero holds neither a zero nor half a unit, and what is made
\* a String of holds no half of a letter either.
Plain == {d \in Seq(Units) : \A i \in DOMAIN d : d[i] \notin {NUL, Half}}
Texts == {d \in Plain : \A i \in DOMAIN d : IsWhole(d, i)}

\* A set of positions has a first one.
LEMMA LeastIndex ==
  ASSUME NEW S \in SUBSET Nat, S # {}
  PROVE  \E i \in S : \A j \in S : i <= j
<1>1. PICK i \in S : \A j \in S : ~(<<j, i>> \in OpToRel(<, Nat))
  BY WFMin, NatLessThanWellFounded, Zenon
<1>2. \A j \in S : ~(j < i)
  BY <1>1 DEF OpToRel
<1> QED BY <1>2

\* What is cut off ends before the first zero.
LEMMA CutStops ==
  ASSUME NEW d \in Seq(Units)
  PROVE  UpToZero(d) \in Plain
<1> DEFINE zeros == {i \in DOMAIN d : d[i] \in {NUL, Half}}
<1>1. CASE zeros = {}
  <2>1. UpToZero(d) = d
    BY <1>1 DEF UpToZero
  <2> QED BY <1>1, <2>1 DEF Plain
<1>2. CASE zeros # {}
  <2> DEFINE first == CHOOSE i \in zeros : \A j \in zeros : i <= j
  <2>1. zeros \in SUBSET Nat /\ DOMAIN d = 1 .. Len(d) /\ Len(d) \in Nat
    OBVIOUS
  <2>2. first \in zeros /\ \A j \in zeros : first <= j
    <3> HIDE DEF zeros
    <3>1. \E i \in zeros : \A j \in zeros : i <= j
      BY <1>2, <2>1, LeastIndex
    <3> QED BY <3>1
  <2>3. UpToZero(d) = SubSeq(d, 1, first - 1)
    BY <1>2 DEF UpToZero
  <2>4. first \in 1 .. Len(d) /\ \A i \in 1 .. first - 1 : d[i] \notin {NUL, Half}
    BY <2>1, <2>2
  <2> HIDE DEF first, zeros
  <2>5. /\ SubSeq(d, 1, first - 1) \in Seq(Units)
        /\ Len(SubSeq(d, 1, first - 1)) = first - 1
        /\ \A i \in 1 .. first - 1 : SubSeq(d, 1, first - 1)[i] = d[i]
    BY <2>1, <2>4
  <2>6. DOMAIN SubSeq(d, 1, first - 1) = 1 .. first - 1
    BY <2>5, <2>4
  <2> QED BY <2>3, <2>4, <2>5, <2>6 DEF Plain
<1> QED BY <1>1, <1>2

\* The two halves of a letter are told apart, and from what replaces them.
LEMMA HalvesApart ==
  /\ High \cap Low = {}
  /\ Replacement \in Units /\ Replacement \notin High \cup Low \cup {NUL, Half}
  BY SMT DEF High, Low, Replacement, Units, NUL, Half

\* A unit that is no half of a letter is not replaced, nor is its other half.
LEMMA LossyIsWhole ==
  ASSUME NEW t \in Plain
  PROVE  Lossy(t) \in Texts
<1> DEFINE r == Lossy(t)
           n == Len(t)
<1>1. t \in Seq(Units) /\ n \in Nat /\ DOMAIN t = 1 .. n
      /\ \A i \in 1 .. n : t[i] \in Units /\ t[i] \notin {NUL, Half}
  BY DEF Plain
<1>2. r = [i \in 1 .. n |-> IF IsWhole(t, i) THEN t[i] ELSE Replacement]
  BY <1>1 DEF Lossy
<1>3. \A i \in 1 .. n : r[i] = IF IsWhole(t, i) THEN t[i] ELSE Replacement
  BY <1>2, Zenon
<1>4. \A i \in 1 .. n : r[i] \in Units /\ r[i] \notin {NUL, Half}
  BY <1>1, <1>3, HalvesApart
<1>5. r \in Seq(Units) /\ Len(r) = n /\ DOMAIN r = 1 .. n
  BY <1>1, <1>2, <1>4
<1> HIDE DEF r, n
<1>6. ASSUME NEW i \in 1 .. n PROVE IsWhole(r, i)
  <2>1. CASE ~IsWhole(t, i)
    <3>1. r[i] \notin High \cup Low
      BY <1>3, <2>1, HalvesApart
    <3> QED BY <3>1 DEF IsWhole
  <2>2. CASE IsWhole(t, i) /\ t[i] \in High
    <3>1. i + 1 \in 1 .. n /\ t[i + 1] \in Low /\ t[i + 1] \notin High /\ t[i] \notin Low
      BY <1>1, <2>2, HalvesApart DEF IsWhole, n
    <3>2. IsWhole(t, i + 1)
      <4>1. i + 1 > 1 /\ (i + 1) - 1 = i
        BY <1>1
      <4> QED BY <2>2, <3>1, <4>1 DEF IsWhole
    <3>3. r[i] = t[i] /\ r[i + 1] = t[i + 1] /\ i < n
      BY <1>1, <1>3, <2>2, <3>1, <3>2
    <3> QED BY <1>5, <3>1, <3>3 DEF IsWhole
  <2>3. CASE IsWhole(t, i) /\ t[i] \in Low
    <3>1. i - 1 \in 1 .. n /\ t[i - 1] \in High /\ t[i - 1] \notin Low /\ t[i] \notin High
      BY <1>1, <2>3, HalvesApart DEF IsWhole, n
    <3>2. IsWhole(t, i - 1)
      <4>1. i - 1 < n /\ (i - 1) + 1 = i
        BY <1>1
      <4> QED BY <2>3, <3>1, <4>1 DEF IsWhole, n
    <3>3. r[i] = t[i] /\ r[i - 1] = t[i - 1] /\ i > 1
      BY <1>1, <1>3, <2>3, <3>1, <3>2
    <3> QED BY <3>1, <3>3 DEF IsWhole
  <2>4. CASE IsWhole(t, i) /\ t[i] \notin High /\ t[i] \notin Low
    <3>1. r[i] = t[i]
      BY <1>3, <2>4
    <3> QED BY <2>4, <3>1 DEF IsWhole
  <2> QED BY <2>1, <2>2, <2>3, <2>4
<1>7. r \in Plain
  BY <1>4, <1>5 DEF Plain
<1>8. \A i \in DOMAIN r : IsWhole(r, i)
  BY <1>5, <1>6
<1>9. r \in Texts
  BY <1>7, <1>8 DEF Texts
<1> QED BY <1>9 DEF r

\* Where all is whole nothing is replaced.
LEMMA LossyKeeps ==
  ASSUME NEW t \in Texts
  PROVE  Lossy(t) = t
<1>1. t \in Seq(Units) /\ \A i \in DOMAIN t : IsWhole(t, i)
  BY DEF Texts, Plain
<1>2. Lossy(t) = [i \in DOMAIN t |-> t[i]]
  BY <1>1 DEF Lossy
<1> QED BY <1>1, <1>2

LEMMA DecodeStops ==
  ASSUME NEW d \in Seq(Units)
  PROVE  Decode(d) \in Texts
  BY CutStops, LossyIsWhole DEF Decode

\* The zero that is put behind a text is where reading it ends.
LEMMA CutEncode ==
  ASSUME NEW text \in Plain
  PROVE  /\ Encode(text) \in Seq(Units) /\ Encode(text) # << >>
         /\ UpToZero(Encode(text)) = text
<1> DEFINE d == Encode(text)
           zeros == {i \in DOMAIN d : d[i] \in {NUL, Half}}
           n == Len(text)
<1>1. text \in Seq(Units) /\ n \in Nat /\ NUL \in Units /\ \A i \in 1 .. n : text[i] \notin {NUL, Half}
  <2>1. NUL \in Units
    BY SMT DEF NUL, Units
  <2> QED BY <2>1 DEF Plain
<1>2. /\ d \in Seq(Units) /\ Len(d) = n + 1 /\ DOMAIN d = 1 .. n + 1
      /\ d[n + 1] = NUL /\ \A i \in 1 .. n : d[i] = text[i]
  BY <1>1 DEF Encode
<1>3. zeros = {n + 1}
  <2>1. \A i \in 1 .. n + 1 : i \in 1 .. n \/ i = n + 1
    BY <1>1
  <2> QED BY <1>1, <1>2, <2>1
<1>4. UpToZero(d) = SubSeq(d, 1, n)
  <2> DEFINE first == CHOOSE i \in zeros : \A j \in zeros : i <= j
  <2>1. first = n + 1
    BY <1>3, <1>1
  <2>2. UpToZero(d) = SubSeq(d, 1, first - 1)
    BY <1>3 DEF UpToZero
  <2> HIDE DEF first, zeros, d
  <2>3. first - 1 = n
    BY <2>1, <1>1
  <2> HIDE DEF n
  <2> QED BY <2>2, <2>3
<1>5. SubSeq(d, 1, n) = text
  <2> HIDE DEF zeros
  <2>1. SubSeq(d, 1, n) \in Seq(Units) /\ Len(SubSeq(d, 1, n)) = n
        /\ \A i \in 1 .. n : SubSeq(d, 1, n)[i] = d[i]
    BY <1>1, <1>2
  <2> QED BY <2>1, <1>1, <1>2
<1> QED BY <1>2, <1>4, <1>5

LEMMA DecodeEncode ==
  ASSUME NEW text \in Texts
  PROVE  /\ Encode(text) \in Seq(Units) /\ Encode(text) # << >>
         /\ Decode(Encode(text)) = text
<1>1. text \in Plain
  BY DEF Texts
<1> QED BY <1>1, CutEncode, LossyKeeps DEF Decode

\* A sequence over some items is one over more.
LEMMA SeqOfMore ==
  \A S, T : (\A x \in S : x \in T) => \A q \in Seq(S) : q \in Seq(T)
  OBVIOUS

\* A value has bytes, and is none that failed to be read.
LEMMA ValueShape ==
  ASSUME NEW v \in RegValues
  PROVE  v.data \in Seq(Units) /\ v # Error
<1>1. CASE v = Missing
  <2>1. << >> \in Seq(Units)
    OBVIOUS
  <2>2. v.data = << >> /\ v.type = "none"
    BY <1>1 DEF Missing
  <2>3. Error.type = "error"
    BY DEF Error
  <2> QED BY <1>1, <2>1, <2>2, <2>3
<1>2. CASE v # Missing
  <2>1. \/ v \in [type : {"sz", "expand"}, data : Seq(Units)]
        \/ v \in [type : {"dword"}, data : Seq(0 .. 255)]
    BY <1>2, Zenon DEF RegValues
  <2>2. \A b \in 0 .. 255 : b \in Units
    BY SMT DEF Units
  <2>3. \A q \in Seq(0 .. 255) : q \in Seq(Units)
    BY <2>2, SeqOfMore
  <2>4. v.data \in Seq(Units) /\ v.type # "error"
    BY <2>1, <2>3
  <2> QED BY <2>4 DEF Error
<1> QED BY <1>1, <1>2

\* Reading a value that stays as it is gives that value.
LEMMA QuietRead ==
  ASSUME NEW v \in RegValues
  PROVE  QueryRaw(v, v) = v /\ v # Error
<1>1. v.data \in Seq(Units) /\ v # Error
  BY ValueShape
<1>2. ~(Len(v.data) > Len(v.data))
  BY <1>1
<1> QED BY <1>1, <1>2 DEF QueryRaw

\* A reading is that of the value before, or after, or none.
LEMMA ReadsOne ==
  ASSUME NEW v \in RegValues, NEW w \in RegValues
  PROVE  QueryRaw(v, w) \in {v, w, Error}
  BY DEF QueryRaw

\* What a value means as a text and as a number.
StringOf(v) == IF v.type \in {"sz", "expand"} THEN Decode(v.data) ELSE << >>
DwordOf(v) ==
  IF v.type = "dword" /\ Len(v.data) >= 4
  THEN v.data[1] + 256 * v.data[2] + 65536 * v.data[3] + 16777216 * v.data[4] ELSE 0

\* One that stays as it is, is read as what it means.
LEMMA QuietString ==
  ASSUME NEW v \in RegValues
  PROVE  QueryString(v, v) = {StringOf(v)} /\ StringOf(v) \in Texts
<1>1. v.data \in Seq(Units)
  BY ValueShape
<1>2. << >> \in Texts
  <2>1. << >> \in Seq(Units) /\ DOMAIN << >> = {}
    OBVIOUS
  <2>2. << >> \in Plain
    BY <2>1 DEF Plain
  <2> QED BY <2>1, <2>2 DEF Texts
<1>3. StringOf(v) \in Texts
  BY <1>1, <1>2, DecodeStops DEF StringOf
<1>4. QueryString(v, v) = {StringOf(v)}
  BY QuietRead DEF QueryString, StringOf
<1> QED BY <1>3, <1>4

LEMMA QuietDword ==
  ASSUME NEW v \in RegValues
  PROVE  QueryDword(v, v) = {DwordOf(v)}
  BY QuietRead DEF QueryDword, DwordOf

\* One that changes meanwhile means what it meant before, or after.
LEMMA TornString ==
  ASSUME NEW v \in RegValues, NEW w \in RegValues, NEW s \in QueryString(v, w)
  PROVE  s \in {StringOf(v), StringOf(w)}
<1>1. QueryRaw(v, w) # Error /\ s = StringOf(QueryRaw(v, w))
  BY DEF QueryString, StringOf
<1> QED BY <1>1, ReadsOne

LEMMA TornDword ==
  ASSUME NEW v \in RegValues, NEW w \in RegValues, NEW n \in QueryDword(v, w)
  PROVE  n \in {DwordOf(v), DwordOf(w)}
<1>1. QueryRaw(v, w) # Error /\ n = DwordOf(QueryRaw(v, w))
  BY DEF QueryDword, DwordOf
<1> QED BY <1>1, ReadsOne

\* What a quiet key is read as.
Setting(k) ==
  [enabled |-> DwordOf(k.enable) # 0, server |-> StringOf(k.server), bypass |-> StringOf(k.override)]

\* The same for the three values of the setting.
LEMMA QuietKey ==
  ASSUME NEW k \in RegKeys
  PROVE  SysProxyRead(k, k) = {Setting(k)}
<1>1. k.enable \in RegValues /\ k.server \in RegValues /\ k.override \in RegValues
  BY DEF RegKeys
<1>2. /\ QueryDword(k.enable, k.enable) = {DwordOf(k.enable)}
      /\ QueryString(k.server, k.server) = {StringOf(k.server)}
      /\ QueryString(k.override, k.override) = {StringOf(k.override)}
  BY <1>1, QuietDword, QuietString
<1> QED BY <1>2 DEF SysProxyRead, Setting

\* Encoded and decoded, a setting is itself.
LEMMA WrittenReads ==
  ASSUME NEW p \in [enabled : BOOLEAN, server : Texts, bypass : Texts]
  PROVE  SysProxyWritten(p) \in RegKeys /\ Setting(SysProxyWritten(p)) = p
<1> DEFINE w == SysProxyWritten(p)
           n == IF p.enabled THEN 1 ELSE 0
<1>1. /\ Encode(p.server) \in Seq(Units) /\ Decode(Encode(p.server)) = p.server
      /\ Encode(p.bypass) \in Seq(Units) /\ Decode(Encode(p.bypass)) = p.bypass
  BY DecodeEncode
<1>2. w.server = Value("sz", Encode(p.server)) /\ w.override = Value("sz", Encode(p.bypass))
      /\ w.enable = SetDword(n) /\ w = [enable |-> w.enable, server |-> w.server, override |-> w.override]
  BY DEF SysProxyWritten, SetString
<1>3. SetDword(n) = Value("dword", <<n, 0, 0, 0>>)
  <2>1. /\ n % 256 = n /\ (n \div 256) % 256 = 0
        /\ (n \div 65536) % 256 = 0 /\ (n \div 16777216) % 256 = 0
    OBVIOUS
  <2> QED BY <2>1 DEF SetDword
<1>4. <<n, 0, 0, 0>> \in Seq(0 .. 255) /\ n \in Nat
  OBVIOUS
<1>5. w \in RegKeys
  <2>1. w.server \in RegValues /\ w.override \in RegValues
    BY <1>1, <1>2 DEF RegValues, Value
  <2>2. \A q \in Seq(0 .. 255) : Value("dword", q) \in RegValues
    BY DEF RegValues, Value
  <2>3. Value("dword", <<n, 0, 0, 0>>) \in RegValues
    <3> HIDE DEF n
    <3> QED BY <1>4, <2>2
  <2>4. w.enable \in RegValues
    BY <1>2, <1>3, <2>3
  <2> HIDE DEF w
  <2> QED BY <1>2, <2>1, <2>4 DEF RegKeys
<1>6. StringOf(w.server) = p.server /\ StringOf(w.override) = p.bypass
  BY <1>1, <1>2 DEF StringOf, Value
<1>7. DwordOf(w.enable) = n
  BY <1>2, <1>3, <1>4 DEF DwordOf, Value
<1>8. (n # 0) = p.enabled
  OBVIOUS
<1> HIDE DEF n, w
<1>9. Setting(w) = [enabled |-> p.enabled, server |-> p.server, bypass |-> p.bypass]
  BY <1>6, <1>7, <1>8 DEF Setting
<1> QED BY <1>5, <1>9 DEF w

\* What others make of a setting that we have written: the same as we do.
LEMMA WrittenMeans ==
  ASSUME NEW p \in [enabled : BOOLEAN, server : Texts, bypass : Texts]
  PROVE  Meaning(SysProxyWritten(p)) =
           IF p.enabled THEN [on |-> TRUE, server |-> p.server, bypass |-> p.bypass] ELSE Off
<1> DEFINE w == SysProxyWritten(p)
<1>1. w \in RegKeys /\ Setting(w) = p
  BY WrittenReads
<1>2. w.enable \in RegValues /\ QueryDword(w.enable, w.enable) = {DwordOf(w.enable)}
  BY <1>1, QuietDword DEF RegKeys
<1>3. (DwordOf(w.enable) # 0) = p.enabled
  BY <1>1 DEF Setting
<1>4. /\ w.server = Value("sz", Encode(p.server)) /\ w.override = Value("sz", Encode(p.bypass))
  BY DEF SysProxyWritten, SetString
<1>5. UpToZero(Encode(p.server)) = p.server /\ UpToZero(Encode(p.bypass)) = p.bypass
  <2>1. p.server \in Plain /\ p.bypass \in Plain
    BY DEF Texts
  <2> QED BY <2>1, CutEncode
<1>6. TextOf(w.server) = p.server /\ TextOf(w.override) = p.bypass
  BY <1>4, <1>5 DEF TextOf, Stored, Value
<1> HIDE DEF w
<1> QED BY <1>2, <1>3, <1>6 DEF Meaning, w

\* A text that survives is read as it is.
LEMMA SurvivorIsRead ==
  ASSUME NEW v \in RegValues, Survives(v)
  PROVE  StringOf(v) = TextOf(v)
<1>1. v.data \in Seq(Units)
  BY ValueShape
<1>2. CASE v.type \in {"sz", "expand"}
  <2>1. Stored(v) = UpToZero(v.data) /\ StringOf(v) = Lossy(Stored(v)) /\ TextOf(v) = Stored(v)
    BY <1>2 DEF Stored, StringOf, Decode, Survives
  <2>2. Stored(v) \in Texts
    BY <1>1, <2>1, CutStops DEF Texts, Survives
  <2> QED BY <2>1, <2>2, LossyKeeps
<1>3. CASE v.type \notin {"sz", "expand"}
  BY <1>3 DEF Stored, StringOf, TextOf
<1> QED BY <1>2, <1>3

\* The registry gives back what was written into it, and what was read may be
\* written back without changing anything for anybody where a String can carry it;
\* a value that changes while it is read is read as it was or as it is.
LEMMA CallsGiveBack == RegistryGivesBack
<1>1. \A k \in Keys : SysProxyRead(k, k) = {Setting(k)}
                      /\ Setting(k) \in [enabled : BOOLEAN, server : Texts, bypass : Texts]
  <2>1. \A k \in RegKeys : StringOf(k.server) \in Texts /\ StringOf(k.override) \in Texts
    BY QuietString DEF RegKeys
  <2> QED BY <2>1, QuietKey, KeysAssumption DEF Setting
<1>2. ASSUME NEW k \in Keys, NEW p \in SysProxyRead(k, k)
      PROVE  /\ SysProxyRead(SysProxyWritten(p), SysProxyWritten(p)) = {p}
             /\ Meaning(SysProxyWritten(p)).on = Meaning(k).on
             /\ Survives(k.server) /\ Survives(k.override)
                  => Meaning(SysProxyWritten(p)) = Meaning(k)
  <2>1. p = Setting(k) /\ p \in [enabled : BOOLEAN, server : Texts, bypass : Texts]
    BY <1>1, <1>2
  <2>2. SysProxyRead(SysProxyWritten(p), SysProxyWritten(p)) = {p}
    BY <2>1, WrittenReads, QuietKey
  <2>3. k.enable \in RegValues /\ k.server \in RegValues /\ k.override \in RegValues
    BY KeysAssumption DEF RegKeys
  <2>4. Meaning(k) =
          IF p.enabled
          THEN [on |-> TRUE, server |-> TextOf(k.server), bypass |-> TextOf(k.override)] ELSE Off
    <3>1. QueryDword(k.enable, k.enable) = {DwordOf(k.enable)}
      BY <2>3, QuietDword
    <3>2. p.enabled = (DwordOf(k.enable) # 0)
      BY <2>1 DEF Setting
    <3> QED BY <3>1, <3>2 DEF Meaning
  <2>5. Meaning(SysProxyWritten(p)) =
          IF p.enabled THEN [on |-> TRUE, server |-> p.server, bypass |-> p.bypass] ELSE Off
    BY <2>1, WrittenMeans
  <2>6. Meaning(SysProxyWritten(p)).on = Meaning(k).on
    BY <2>4, <2>5
  <2>7. ASSUME Survives(k.server), Survives(k.override)
        PROVE  Meaning(SysProxyWritten(p)) = Meaning(k)
    <3>1. p.server = TextOf(k.server) /\ p.bypass = TextOf(k.override)
      BY <2>1, <2>3, <2>7, SurvivorIsRead DEF Setting
    <3> QED BY <2>4, <2>5, <3>1
  <2> QED BY <2>2, <2>6, <2>7
<1>3. ASSUME NEW k \in Keys, NEW l \in Keys, NEW p \in SysProxyRead(k, l),
             NEW Was, Was = CHOOSE q \in SysProxyRead(k, k) : TRUE,
             NEW Is, Is = CHOOSE q \in SysProxyRead(l, l) : TRUE
      PROVE  /\ p.enabled \in {Was.enabled, Is.enabled}
             /\ p.server \in {Was.server, Is.server} /\ p.bypass \in {Was.bypass, Is.bypass}
  <2>1. Was = Setting(k) /\ Is = Setting(l)
    BY <1>1, <1>3
  <2>2. PICK e \in QueryDword(k.enable, l.enable), s \in QueryString(k.server, l.server),
             b \in QueryString(k.override, l.override) :
          p = [enabled |-> e # 0, server |-> s, bypass |-> b]
    BY DEF SysProxyRead
  <2>3. /\ k.enable \in RegValues /\ k.server \in RegValues /\ k.override \in RegValues
        /\ l.enable \in RegValues /\ l.server \in RegValues /\ l.override \in RegValues
    BY KeysAssumption DEF RegKeys
  <2>4. /\ e \in {DwordOf(k.enable), DwordOf(l.enable)}
        /\ s \in {StringOf(k.server), StringOf(l.server)}
        /\ b \in {StringOf(k.override), StringOf(l.override)}
    BY <2>3, TornString, TornDword
  <2> QED BY <2>1, <2>2, <2>4 DEF Setting
<1> QED BY <1>2, <1>3 DEF RegistryGivesBack

\* So the setting that the lifecycle lends and gives back survives its way through
\* the key, for any values that may be there and any that change meanwhile; what
\* others make of it may change only where half a letter or a variable was there.
THEOREM RegistryIsFaithful == Spec => []KeyGivesBack
<1>1. TypeOK => registry \in SysProxySettings
  BY DEF TypeOK
<1>2. RegistryGivesBack
  BY CallsGiveBack
<1>3. TypeOK => KeyGivesBack
  BY <1>1, <1>2 DEF KeyGivesBack
<1> QED BY <1>3, TypeCorrect, PTL

-----------------------------------------------------------------------------
(***************************************************************************)
(* The list of exceptions, in the words of Windows and of the bridge.      *)
(***************************************************************************)
\* What stands between two commas: a name has a label, and a lone dot is no name.
Labels == DOMAIN Folded
IsElement(e) ==
  \/ e.is \in {"<local>", "ip4", "ip6", "net"}
  \/ /\ e.is = "name" /\ e = Name(e.labels)
     /\ e.labels \in Seq(Labels) /\ e.labels # << >>
IsHost(host) ==
  \/ host.is \in {"ip4", "ip6"}
  \/ host.is = "name" /\ host.labels \in Seq(Labels) /\ host.labels # << >>

\* to_ascii_lowercase makes no label empty and gives an empty one back.
FoldingIsSound ==
  /\ Folded \in [Labels -> Labels] /\ Empty \in Labels
  /\ \A l \in Labels : Folded[l] = Empty <=> l = Empty

LEMMA LowerType ==
  ASSUME FoldingIsSound, NEW s \in Seq(Labels)
  PROVE  /\ Lower(s) \in Seq(Labels) /\ Len(Lower(s)) = Len(s)
         /\ \A i \in 1 .. Len(s) : Lower(s)[i] = Folded[s[i]]
<1>1. DOMAIN s = 1 .. Len(s) /\ \A i \in DOMAIN s : Folded[s[i]] \in Labels
  BY ElementOfSeq, LenProperties DEF FoldingIsSound
<1> QED BY <1>1, IsASeq DEF Lower

\* A suffix is folded after its dot is cut off, or before.
LEMMA LowerTail ==
  ASSUME FoldingIsSound, NEW s \in Seq(Labels), s # << >>
  PROVE  Tail(Lower(s)) = Lower(Tail(s))
<1>1. Tail(s) \in Seq(Labels) /\ Len(Tail(s)) = Len(s) - 1 /\ Len(s) >= 1
      /\ \A i \in 1 .. Len(Tail(s)) : Tail(s)[i] = s[i + 1]
  BY HeadTailProperties, EmptySeq
<1>2. Lower(s) # << >> /\ Lower(s) \in Seq(Labels) /\ Len(Lower(s)) = Len(s)
  BY <1>1, LowerType, EmptySeq
<1>3. Tail(Lower(s)) \in Seq(Labels) /\ Len(Tail(Lower(s))) = Len(s) - 1
      /\ \A i \in 1 .. Len(s) - 1 : Tail(Lower(s))[i] = Lower(s)[i + 1]
  BY <1>2, HeadTailProperties
<1>4. Lower(Tail(s)) \in Seq(Labels) /\ Len(Lower(Tail(s))) = Len(s) - 1
      /\ \A i \in 1 .. Len(s) - 1 : Lower(Tail(s))[i] = Folded[Tail(s)[i]]
  BY <1>1, LowerType
<1>5. \A i \in 1 .. Len(s) - 1 : Tail(Lower(s))[i] = Lower(Tail(s))[i]
  BY <1>1, <1>3, <1>4, LowerType
<1> QED BY <1>3, <1>4, <1>5, SeqEqual

\* Behind a lone dot only names that end in one are found.
LEMMA BelowOne ==
  ASSUME NEW S, NEW s \in Seq(S), NEW d, IsBelow(s, <<d>>)
  PROVE  Len(s) >= 1 /\ s[Len(s)] = d
<1>1. Len(<<d>>) = 1 /\ Len(s) \in Nat
  BY LenProperties
<1>2. Len(s) > 1 /\ SubSeq(s, Len(s) - 1 + 1, Len(s)) = <<d>>
  BY <1>1 DEF IsBelow
<1>3. SubSeq(s, Len(s), Len(s)) = <<d>>
  BY <1>1, <1>2
<1>4. SubSeq(s, Len(s), Len(s))[1] = s[Len(s)]
  BY <1>1, <1>2, SubSeqProperties
<1> QED BY <1>1, <1>2, <1>3, <1>4

LEMMA BelowADot ==
  ASSUME FoldingIsSound, NEW s \in Seq(Labels), IsBelow(Lower(s), <<Empty>>)
  PROVE  Last(s) = Empty
<1>1. Lower(s) \in Seq(Labels) /\ Len(Lower(s)) = Len(s) /\ Len(s) \in Nat
  BY LowerType, LenProperties
<1>2. Len(s) >= 1 /\ Lower(s)[Len(s)] = Empty
  BY <1>1, BelowOne
<1>3. Len(s) \in 1 .. Len(s) /\ s[Len(s)] \in Labels
  <2>1. Len(s) \in 1 .. Len(s)
    BY <1>1, <1>2
  <2> QED BY <2>1, ElementOfSeq
<1>4. Folded[s[Len(s)]] = Empty
  BY <1>2, <1>3, LowerType
<1> QED BY <1>3, <1>4 DEF Last, FoldingIsSound

\* What one element means to Windows is what it means to the bridge.
LEMMA PartMeansEntry ==
  ASSUME FoldingIsSound, NEW e, IsElement(e), NEW host, IsHost(host)
  PROVE  /\ PartMatches(Part(e), host) => EntryMatches(Entry(e), host) \/ PartMatches(Local, host)
         /\ EntryMatches(Entry(e), host) /\ e.is \notin {"net", "ip6"} => PartMatches(Part(e), host)
<1>1. CASE e.is \in {"<local>", "ip4", "ip6", "net"}
  <2>1. Part(e) = e
    BY <1>1 DEF Part
  <2>2. CASE e.is = "<local>"
    <3>1. Entry(e).is = "text"
      BY <2>2 DEF Entry
    <3> QED BY <2>1, <2>2, <3>1 DEF PartMatches, EntryMatches, Local
  <2>3. CASE e.is = "ip4"
    <3>1. Entry(e) = e
      BY <2>3 DEF Entry
    <3> QED BY <2>1, <2>3, <3>1 DEF PartMatches, EntryMatches
  <2>4. CASE e.is \in {"ip6", "net"}
    BY <2>1, <2>4 DEF PartMatches
  <2> QED BY <1>1, <2>2, <2>3, <2>4
<1>2. CASE e.is = "name" /\ Head(e.labels) # Empty
  <2>1. Part(e) = e /\ Entry(e) = [is |-> "exact", labels |-> Lower(e.labels)]
    BY <1>2 DEF Part, Entry
  <2>2. PartMatches(e, host) <=> host.is = "name" /\ Lower(host.labels) = Lower(e.labels)
    BY <1>2 DEF PartMatches
  <2>3. EntryMatches(Entry(e), host) <=> host.is = "name" /\ Lower(host.labels) = Lower(e.labels)
    BY <2>1 DEF EntryMatches
  <2> QED BY <2>1, <2>2, <2>3
<1>3. CASE e.is = "name" /\ Head(e.labels) = Empty
  <2>1. /\ Part(e) = [is |-> "pattern", labels |-> Tail(e.labels)]
        /\ Entry(e) = [is |-> "suffix", labels |-> Tail(Lower(e.labels))]
    BY <1>3 DEF Part, Entry
  <2>2. Tail(Lower(e.labels)) = Lower(Tail(e.labels))
    BY <1>3, LowerTail DEF IsElement
  <2>3. PartMatches(Part(e), host)
          <=> host.is = "name" /\ IsBelow(Lower(host.labels), Lower(Tail(e.labels)))
    BY <2>1 DEF PartMatches
  <2>4. EntryMatches(Entry(e), host)
          <=> host.is = "name" /\ IsBelow(Lower(host.labels), Tail(Lower(e.labels)))
    BY <2>1 DEF EntryMatches
  <2> QED BY <2>2, <2>3, <2>4
<1> QED BY <1>1, <1>2, <1>3 DEF IsElement

\* So leaving the lone dot out takes nothing from Windows that the bridge has.
LEMMA LoneDot ==
  ASSUME FoldingIsSound, NEW host, IsHost(host),
         EntryMatches(Entry(Name(<<Empty, Empty>>)), host)
  PROVE  host.is = "name" /\ Last(host.labels) = Empty
<1> DEFINE dots == <<Empty, Empty>>
<1>0. Folded[Empty] = Empty
  BY DEF FoldingIsSound
<1>1. Tail(Lower(dots)) = <<Empty>>
  <2>1. dots \in Seq(Labels) /\ dots # << >> /\ Tail(dots) = <<Empty>>
    BY DEF FoldingIsSound
  <2>2. Lower(<<Empty>>) = <<Empty>>
    BY <1>0 DEF Lower
  <2> HIDE DEF dots
  <2>3. Tail(Lower(dots)) = Lower(Tail(dots))
    BY <2>1, LowerTail, Zenon
  <2> QED BY <2>1, <2>2, <2>3
<1>2. Entry(Name(dots)) = [is |-> "suffix", labels |-> <<Empty>>]
  <2>1. Head(dots) = Empty
    OBVIOUS
  <2> HIDE DEF dots
  <2>2. Name(dots).is = "name" /\ Name(dots).labels = dots
    BY DEF Name
  <2>3. Entry(Name(dots)) = [is |-> "suffix", labels |-> Tail(Lower(dots))]
    BY <2>1, <2>2 DEF Entry
  <2> QED BY <1>1, <2>3
<1> QED BY <1>2, BelowADot DEF EntryMatches, IsHost

\* The list of exceptions (to_bypass_string, BypassList::matches): whatever the user has
\* listed, Windows sends past the bridge only what the bridge would send directly, plain
\* names excepted; and it sends past it whatever the bridge would, except for networks,
\* IPv6 addresses and names that end in a dot.
THEOREM ListsMeanTheSame ==
  ASSUME FoldingIsSound,
         NEW lists, \A list \in lists : \A i \in DOMAIN list : IsElement(list[i]),
         NEW hosts, \A host \in hosts : IsHost(host)
  PROVE  ListsAgree(lists, hosts)
<1> SUFFICES ASSUME NEW list \in lists, NEW host \in hosts
             PROVE  LET direct == WindowsMatches(ToBypassString(list), host)
                    IN /\ direct => Matches(list, host) \/ PartMatches(Local, host)
                       /\ ~(host.is = "name" /\ Last(host.labels) = Empty) =>
                            \A i \in DOMAIN list :
                              list[i].is \notin {"net", "ip6"} /\ EntryMatches(Entry(list[i]), host)
                                => direct
  BY DEF ListsAgree
<1>1. ASSUME WindowsMatches(ToBypassString(list), host)
      PROVE  Matches(list, host) \/ PartMatches(Local, host)
  <2>1. PICK part \in ToBypassString(list) : PartMatches(part, host)
    BY <1>1 DEF WindowsMatches
  <2>2. CASE part = Local
    BY <2>1, <2>2
  <2>3. CASE \E i \in DOMAIN list : part = Part(list[i])
    BY <2>1, <2>3, PartMeansEntry DEF Matches
  <2> QED BY <2>2, <2>3 DEF ToBypassString
<1>2. ASSUME ~(host.is = "name" /\ Last(host.labels) = Empty), NEW i \in DOMAIN list,
             list[i].is \notin {"net", "ip6"}, EntryMatches(Entry(list[i]), host)
      PROVE  WindowsMatches(ToBypassString(list), host)
  <2>1. list[i] # Name(<<Empty, Empty>>)
    BY <1>2, LoneDot
  <2>2. Part(list[i]) \in ToBypassString(list)
    BY <2>1 DEF ToBypassString
  <2> QED BY <1>2, <2>2, PartMeansEntry DEF WindowsMatches
<1> QED BY <1>1, <1>2
=============================================================================
