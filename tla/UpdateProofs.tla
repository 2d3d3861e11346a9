----------------------------- MODULE UpdateProofs -----------------------------
(***************************************************************************)
(* What TLAPS proves about Update, for any processes and releases.         *)
(***************************************************************************)
EXTENDS Update, TLAPS

Names == {"exe", "old", "staged", "partial"}

\* The variables are functions; what their values are does not matter at first.
Shape ==
  /\ DOMAIN disk = Names
  /\ pc \in [Procs -> Places] /\ lies \in [Procs -> {"exe", "old"}]
  /\ DOMAIN image = Procs /\ DOMAIN worker = Procs

-----------------------------------------------------------------------------
(* The exchange.                                                           *)

Swapping(i) == pc[i] \in {"in", "back"}

\* Nobody's image is gone.  Who exchanges the files runs from exe.old, which therefore
\* can be neither removed nor replaced, and there is no second one.
Placed ==
  /\ \A i \in Procs : pc[i] # "off" => Exists(lies[i])
  /\ \A i \in Procs : Swapping(i) => lies[i] = "old" /\ ~Exists("exe")
  /\ \A i, j \in Procs : Swapping(i) /\ Swapping(j) => i = j

LEMMA InitPlaced == Init => Shape /\ Placed
  BY DEF Init, Shape, Names, Placed, Swapping, Exists, Places

\* The files of the exchange and the places of the processes stay.
LEMMA StillPlaced ==
  ASSUME Shape, Placed, UNCHANGED starting, DOMAIN disk' = Names, DOMAIN worker' = Procs,
         disk'["exe"] = disk["exe"], disk'["old"] = disk["old"]
  PROVE  Shape' /\ Placed'
<1>1. \A i \in Procs : lies[i] \in {"exe", "old"}
  BY DEF Shape
<1> QED BY <1>1 DEF Shape, Placed, Swapping, Exists, starting

\* A process that is not in the exchange goes where it is not either, or ends.
LEMMA MovesOn ==
  ASSUME Shape, Placed, NEW i \in Procs, NEW place \in Places \ {"in"},
         pc' = [pc EXCEPT ![i] = place],
         place = "back" => Swapping(i), pc[i] # "off",
         lies' = lies \/ (place = "off" /\ lies' = [lies EXCEPT ![i] = "exe"]),
         DOMAIN image' = Procs, DOMAIN worker' = Procs,
         DOMAIN disk' = Names, disk'["exe"] = disk["exe"],
         disk'["old"] = disk["old"] \/ ~Mapped("old")
  PROVE  Shape' /\ Placed'
<1>1. ASSUME NEW j \in Procs, pc'[j] # "off"
      PROVE  lies'[j] = lies[j] /\ pc[j] # "off" /\ disk'[lies[j]] = disk[lies[j]]
  BY <1>1 DEF Shape, Mapped
<1>2. \A j \in Procs : Swapping(j)' => Swapping(j)
  BY DEF Shape, Swapping
<1>3. Shape'
  BY DEF Shape, Places
<1>4. \A j \in Procs : pc'[j] # "off" => Exists(lies[j])'
  BY <1>1 DEF Placed, Exists
<1>5. \A j \in Procs : Swapping(j)' => lies'[j] = "old" /\ ~Exists("exe")'
  BY <1>1, <1>2 DEF Placed, Exists, Swapping
<1> QED BY <1>2, <1>3, <1>4, <1>5 DEF Placed

\* exe moves away under everybody who runs from it, and comes back under them.
LEMMA AwayPlaced ==
  ASSUME Shape, Placed, NEW i \in Procs, pc[i] = "away", MayRename("exe", "old"),
         Renamed("exe", "old"), ImagesMove("exe", "old"),
         pc' = [pc EXCEPT ![i] = "in"], UNCHANGED <<image, worker>>
  PROVE  Shape' /\ Placed'
<1>1. Exists("exe") /\ (Exists("old") => ~Mapped("old"))
  BY DEF MayRename
<1>2. \A j \in Procs : pc[j] # "off" => lies[j] = "exe"
  BY <1>1 DEF Shape, Placed, Mapped
<1>3. disk'["old"] = disk["exe"] /\ disk'["exe"] = Nothing /\ DOMAIN disk' = Names
  BY DEF Renamed, Shape, Names
<1>4. \A j \in Procs : pc'[j] # "off" => lies'[j] = "old"
  BY <1>2 DEF ImagesMove, Shape
<1>5. \A j \in Procs : ~Swapping(j)
  BY <1>1 DEF Placed
<1>6. Shape'
  BY <1>3 DEF Shape, Places, ImagesMove
<1>7. \A j \in Procs : Swapping(j)' => j = i
  BY <1>5 DEF Shape, Swapping
<1>8. pc'[i] # "off"
  BY DEF Shape
<1> QED BY <1>1, <1>3, <1>4, <1>6, <1>7, <1>8 DEF Placed, Exists, Swapping

LEMMA InPlaced ==
  ASSUME Shape, Placed, NEW i \in Procs, pc[i] = "in", Renamed("staged", "exe"),
         Exists("staged"), pc' = [pc EXCEPT ![i] = "relaunch"], UNCHANGED <<image, lies, worker>>
  PROVE  Shape' /\ Placed'
<1>1. disk'["exe"] # Nothing /\ disk'["old"] = disk["old"] /\ DOMAIN disk' = Names
  BY DEF Renamed, Shape, Names, Exists
<1>2. \A j \in Procs : ~Swapping(j)'
  BY DEF Shape, Placed, Swapping
<1>3. \A j \in Procs : pc'[j] # "off" => lies[j] \in {"exe", "old"} /\ Exists(lies[j])
  BY DEF Shape, Placed
<1>4. Shape'
  BY <1>1 DEF Shape, Places
<1> QED BY <1>1, <1>2, <1>3, <1>4 DEF Placed, Exists

LEMMA BackPlaced ==
  ASSUME Shape, Placed, NEW i \in Procs, pc[i] = "back", Renamed("old", "exe"),
         ImagesMove("old", "exe"), pc' = [pc EXCEPT ![i] = "bind"], UNCHANGED <<image, worker>>
  PROVE  Shape' /\ Placed'
<1>1. Exists("old") /\ disk'["exe"] = disk["old"] /\ DOMAIN disk' = Names
  BY DEF Renamed, Shape, Names, Placed, Swapping
<1>2. \A j \in Procs : ~Swapping(j)'
  BY DEF Shape, Placed, Swapping
<1>3. \A j \in Procs : pc'[j] # "off" => lies'[j] = "exe"
  BY DEF Shape, Placed, Swapping, Exists, ImagesMove
<1>4. Shape'
  BY <1>1 DEF Shape, Places, ImagesMove
<1> QED BY <1>1, <1>2, <1>3, <1>4 DEF Placed, Exists

\* A process begins where there is an executable.
LEMMA LaunchPlaced ==
  ASSUME Shape, Placed, NEW j \in Procs, NEW gone \in [Procs -> Places], Launch(j, gone),
         Exists("exe"), UNCHANGED <<disk, worker>>,
         \A k \in Procs : gone[k] = pc[k] \/ (gone[k] = "leaving" /\ pc[k] = "relaunch")
  PROVE  Shape' /\ Placed'
<1>1. /\ pc'[j] = "cleanup" /\ lies'[j] = "exe"
      /\ \A k \in Procs \ {j} : pc'[k] = gone[k] /\ lies'[k] = lies[k]
  BY DEF Launch, Shape
<1>2. \A k \in Procs : ~Swapping(k)'
  BY <1>1 DEF Placed, Swapping
<1>3. Shape'
  BY DEF Launch, Shape, Places
<1> QED BY <1>1, <1>2, <1>3 DEF Placed, Exists

LEMMA NextPlaced == Shape /\ Placed /\ [Next]_vars => Shape' /\ Placed'
<1> SUFFICES ASSUME Shape, Placed, [Next]_vars PROVE Shape' /\ Placed'
  OBVIOUS
<1> USE DEF starting, checking
<1>0. DOMAIN disk = Names /\ DOMAIN image = Procs /\ DOMAIN worker = Procs
  BY DEF Shape
<1>1. ASSUME NEW i \in Procs, Start(i) PROVE Shape' /\ Placed'
  BY <1>1, LaunchPlaced DEF Start, Shape
<1>2. ASSUME NEW i \in Procs, Cleanup(i) PROVE Shape' /\ Placed'
  <2>1. /\ DOMAIN disk' = Names /\ disk'["exe"] = disk["exe"]
        /\ disk'["old"] = disk["old"] \/ ~Mapped("old")
    BY <1>0, <1>2 DEF Cleanup, Removed, Names
  <2> QED BY <1>0, <1>2, <2>1, MovesOn DEF Cleanup, Goto, Places
<1>3. ASSUME NEW i \in Procs, Find(i) \/ VerifyStaged(i) \/ Bind(i) \/ Quit(i) PROVE Shape' /\ Placed'
  <2>1. PICK place \in Places \ {"in", "back", "off"} : Goto(i, place)
    BY <1>3 DEF Find, VerifyStaged, Bind, Quit, Places
  <2>2. /\ pc[i] # "off" /\ DOMAIN disk' = Names /\ DOMAIN worker' = Procs
        /\ disk'["exe"] = disk["exe"] /\ disk'["old"] = disk["old"]
    BY <1>0, <1>3 DEF Find, VerifyStaged, Bind, Quit, Removed, Names
  <2> QED BY <1>0, <2>1, <2>2, MovesOn DEF Goto
<1>4. ASSUME NEW i \in Procs, MoveAway(i) PROVE Shape' /\ Placed'
  <2>1. CASE Goto(i, "bind") /\ UNCHANGED disk
    BY <1>0, <1>4, <2>1, MovesOn DEF MoveAway, Goto, Places
  <2>2. CASE ~(Goto(i, "bind") /\ UNCHANGED disk)
    BY <1>4, <2>2, AwayPlaced DEF MoveAway
  <2> QED BY <2>1, <2>2
<1>5. ASSUME NEW i \in Procs, MoveIn(i) PROVE Shape' /\ Placed'
  <2>1. CASE Goto(i, "back") /\ UNCHANGED disk
    BY <1>0, <1>5, <2>1, MovesOn DEF MoveIn, Goto, Places, Swapping
  <2>2. CASE ~(Goto(i, "back") /\ UNCHANGED disk)
    BY <1>5, <2>2, InPlaced DEF MoveIn, MayRename, Goto
  <2> QED BY <2>1, <2>2
<1>6. ASSUME NEW i \in Procs, MoveBack(i) PROVE Shape' /\ Placed'
  <2>1. CASE Goto(i, "bind") /\ UNCHANGED disk
    BY <1>0, <1>6, <2>1, MovesOn DEF MoveBack, Goto, Places
  <2>2. CASE ~(Goto(i, "bind") /\ UNCHANGED disk)
    BY <1>6, <2>2, BackPlaced DEF MoveBack
  <2> QED BY <2>1, <2>2
<1>7. ASSUME NEW i \in Procs, Relaunch(i) PROVE Shape' /\ Placed'
  <2>1. CASE Goto(i, "bind")
    BY <1>0, <1>7, <2>1, MovesOn DEF Relaunch, Goto, Places
  <2>2. CASE ~Goto(i, "bind")
    <3>1. PICK j \in Procs : Launch(j, pc) \/ Launch(j, [pc EXCEPT ![i] = "leaving"])
      BY <1>7, <2>2 DEF Relaunch
    <3>2. Exists("exe") /\ pc[i] = "relaunch" /\ UNCHANGED <<disk, worker>>
      BY <1>7, <2>2 DEF Relaunch
    <3>3. pc \in [Procs -> Places] /\ [pc EXCEPT ![i] = "leaving"] \in [Procs -> Places]
      BY DEF Shape, Places
    <3> QED BY <3>1, <3>2, <3>3, LaunchPlaced
  <2> QED BY <2>1, <2>2
<1>8. ASSUME NEW i \in Procs, pc[i] # "off", Ended(i) PROVE Shape' /\ Placed'
  BY <1>0, <1>8, MovesOn DEF Ended, Places
<1>9. ASSUME NEW i \in Procs, Leave(i) \/ Kill(i) PROVE Shape' /\ Placed'
  BY <1>8, <1>9 DEF Leave, Kill
<1>10. ASSUME NEW i \in Procs, Worker(i) \/ Tick(i, TRUE) \/ Tick(i, FALSE) \/ TimeOut(i)
       PROVE  Shape' /\ Placed'
  <2>1. UNCHANGED starting
    BY <1>10 DEF Worker, Ask, AskFails, Download, DownloadFails, WritePartial, VerifyPartial, Stage,
                 Tick, TimeOut
  <2>2. DOMAIN worker' = Procs
    BY <1>0, <1>10
       DEF Worker, Ask, AskFails, Download, DownloadFails, WritePartial, VerifyPartial, Stage,
           Tick, TimeOut, Finish, Step
  <2>3. DOMAIN disk' = Names /\ disk'["exe"] = disk["exe"] /\ disk'["old"] = disk["old"]
    BY <1>0, <1>10
       DEF Worker, Ask, AskFails, Download, DownloadFails, WritePartial, VerifyPartial, Stage,
           Tick, TimeOut, Removed, Renamed, Names
  <2> QED BY <2>1, <2>2, <2>3, StillPlaced
<1>11. ASSUME UNCHANGED <<disk, starting, worker>> PROVE Shape' /\ Placed'
  BY <1>0, <1>11, StillPlaced
<1> QED
  BY <1>1, <1>2, <1>3, <1>4, <1>5, <1>6, <1>7, <1>9, <1>10, <1>11
     DEF Next, Process, ApplyPendingUpdate, Publish, vars

\* The exchange is undone when its second half fails: what the code cannot help is a
\* kill between the two renames, and a rollback that is refused.
Undone == {"kill-in-swap", "rollback"} \cap Faults = {}

LEMMA NothingIsNoRelease == \A r \in Releases : r # Nothing
<1> SUFFICES ASSUME NEW r \in Releases PROVE r # Nothing
  OBVIOUS
<1>1. "tag" \in DOMAIN r
  BY ReleasesAssumption
<1>2. "tag" \notin DOMAIN Nothing
  BY DEF Nothing
<1> QED BY <1>1, <1>2

\* Who is killed or fails the rollback in the exchange is not there.
LEMMA StillStartable ==
  ASSUME Undone, Shape, Placed, ExecutableSurvives, [Next]_vars
  PROVE  ExecutableSurvives'
<1> USE DEF starting, checking
<1>0. /\ DOMAIN disk = Names /\ pc \in [Procs -> Places]
      /\ "kill-in-swap" \notin Faults /\ "rollback" \notin Faults
  BY DEF Shape, Undone
<1>1. ASSUME disk'["exe"] = disk["exe"], \A k \in Procs : Swapping(k) => Swapping(k)'
      PROVE  ExecutableSurvives'
  BY <1>1 DEF ExecutableSurvives, Swapping, Exists
<1>2. ASSUME NEW i \in Procs, ~Swapping(i), DOMAIN pc' = Procs, \A k \in Procs \ {i} : pc'[k] = pc[k]
      PROVE  \A k \in Procs : Swapping(k) => Swapping(k)'
  BY <1>2 DEF Swapping
<1>3. ASSUME NEW i \in Procs, Start(i) \/ Relaunch(i) PROVE ExecutableSurvives'
  <2>1. UNCHANGED disk
    BY <1>3 DEF Start, Relaunch
  <2>2. \A k \in Procs : Swapping(k) => Swapping(k)'
    <3>1. CASE Start(i)
      BY <1>0, <3>1 DEF Start, Launch, Swapping
    <3>2. CASE Relaunch(i)
      BY <1>0, <3>2 DEF Relaunch, Launch, Goto, Swapping
    <3> QED BY <1>3, <3>1, <3>2
  <2> QED BY <1>1, <2>1, <2>2
<1>4. ASSUME NEW i \in Procs, Cleanup(i) \/ Find(i) \/ VerifyStaged(i) \/ Bind(i) \/ Quit(i)
             \/ Leave(i) \/ Kill(i)
      PROVE  ExecutableSurvives'
  <2>1. disk'["exe"] = disk["exe"]
    BY <1>0, <1>4
       DEF Cleanup, Find, VerifyStaged, Bind, Quit, Leave, Kill, Ended, Removed, Names
  <2>2. ~Swapping(i)
    BY <1>0, <1>4 DEF Cleanup, Find, VerifyStaged, Bind, Quit, Leave, Kill, Swapping
  <2>3. DOMAIN pc' = Procs /\ \A k \in Procs \ {i} : pc'[k] = pc[k]
    BY <1>0, <1>4 DEF Cleanup, Find, VerifyStaged, Bind, Quit, Leave, Kill, Ended, Goto
  <2> QED BY <1>1, <1>2, <2>1, <2>2, <2>3
<1>5. ASSUME NEW i \in Procs, MoveAway(i) PROVE ExecutableSurvives'
  <2>1. CASE pc' = [pc EXCEPT ![i] = "in"]
    BY <1>0, <2>1 DEF ExecutableSurvives
  <2>2. CASE pc' # [pc EXCEPT ![i] = "in"]
    BY <1>0, <1>1, <1>2, <1>5, <2>2 DEF MoveAway, Goto, Swapping
  <2> QED BY <2>1, <2>2
<1>6. ASSUME NEW i \in Procs, MoveIn(i) PROVE ExecutableSurvives'
  <2>1. CASE Goto(i, "back")
    BY <1>0, <2>1 DEF Goto, ExecutableSurvives
  <2>2. CASE ~Goto(i, "back")
    BY <1>0, <1>6, <2>2 DEF MoveIn, MayRename, Renamed, Exists, Names, ExecutableSurvives
  <2> QED BY <2>1, <2>2
<1>7. ASSUME NEW i \in Procs, MoveBack(i) PROVE ExecutableSurvives'
  <2>1. MayRename("old", "exe")
    BY <1>7 DEF MoveBack, MayRename, Placed, Swapping, Exists
  <2>2. Renamed("old", "exe")
    BY <1>0, <1>7, <2>1 DEF MoveBack, Luck
  <2> QED BY <1>0, <2>1, <2>2 DEF MayRename, Renamed, Exists, Names, ExecutableSurvives
<1>8. ASSUME NEW i \in Procs, Worker(i) \/ Tick(i, TRUE) \/ Tick(i, FALSE) \/ TimeOut(i)
      PROVE  ExecutableSurvives'
  <2>1. UNCHANGED pc
    BY <1>8 DEF Worker, Ask, AskFails, Download, DownloadFails, WritePartial, VerifyPartial, Stage,
                Tick, TimeOut
  <2>2. disk'["exe"] = disk["exe"]
    BY <1>0, <1>8
       DEF Worker, Ask, AskFails, Download, DownloadFails, WritePartial, VerifyPartial, Stage,
           Tick, TimeOut, Removed, Renamed, Names
  <2> QED BY <1>1, <2>1, <2>2 DEF Swapping
<1>9. ASSUME UNCHANGED <<disk, starting>> PROVE ExecutableSurvives'
  BY <1>1, <1>9 DEF Swapping
<1> QED
  BY <1>3, <1>4, <1>5, <1>6, <1>7, <1>8, <1>9
     DEF Next, Process, ApplyPendingUpdate, Publish, vars

\* Under every other fault there is an executable under its name, or a start is about to
\* put one there (ExecutableSurvives).
THEOREM AlwaysStartable ==
  ASSUME Undone
  PROVE  Spec => []ExecutableSurvives
<1>1. Init => ExecutableSurvives
  <2>1. First # Nothing
    BY ReleasesAssumption, NothingIsNoRelease
  <2> QED BY <2>1 DEF Init, ExecutableSurvives, Exists
<1>2. Shape /\ Placed /\ ExecutableSurvives /\ [Next]_vars => ExecutableSurvives'
  BY StillStartable
<1> QED BY <1>1, <1>2, InitPlaced, NextPlaced, PTL DEF Spec

-----------------------------------------------------------------------------
(* The signature.                                                          *)

\* One check at a time has the partial file to itself, and what it is about to put by is
\* what it has verified.
Alone ==
  /\ \A i \in Procs : "step" \in DOMAIN worker[i]
  /\ \A i, j \in Procs : worker[i] # Idle /\ worker[j] # Idle => i = j
  /\ \A i \in Procs : worker[i].step = "stage" => disk["partial"].signed

\* So nothing gets beside the executable that is not signed, and nothing further.
Verified ==
  /\ \A file \in Names \ {"partial"} : Exists(file) => disk[file].signed
  /\ \A i \in Procs : pc[i] # "off" => image[i].signed

LEMMA InitVerified == Init => Alone /\ Verified
<1> SUFFICES ASSUME Init PROVE Alone /\ Verified
  OBVIOUS
<1>1. \A i \in Procs : worker[i] = Idle
  BY DEF Init
<1>2. "step" \in DOMAIN Idle /\ Idle.step # "stage"
  BY DEF Idle
<1>3. Alone
  BY <1>1, <1>2 DEF Alone
<1>4. Verified
  BY ReleasesAssumption DEF Init, Verified, Names, Exists
<1> QED BY <1>3, <1>4

\* The checks rest, or end with the process.
LEMMA StillAlone ==
  ASSUME Shape, Alone, NEW i \in Procs,
         UNCHANGED worker \/ worker' = [worker EXCEPT ![i] = Idle],
         \/ disk'["partial"] = disk["partial"]
         \/ worker[i] # Idle /\ worker' = [worker EXCEPT ![i] = Idle]
  PROVE  Alone'
<1>1. "step" \in DOMAIN Idle /\ Idle.step # "stage"
  BY DEF Idle
<1>2. \A j \in Procs : worker'[j] = worker[j] \/ worker'[j] = Idle
  BY DEF Shape
<1>3. \A j \in Procs : worker'[j].step = "stage" =>
        worker'[j] = worker[j] /\ disk'["partial"] = disk["partial"]
  <2> SUFFICES ASSUME NEW j \in Procs, worker'[j].step = "stage"
               PROVE  worker'[j] = worker[j] /\ disk'["partial"] = disk["partial"]
    OBVIOUS
  <2>1. worker'[j] # Idle /\ worker'[j] = worker[j]
    BY <1>1, <1>2
  <2>2. CASE worker[i] # Idle /\ worker' = [worker EXCEPT ![i] = Idle]
    BY <2>1, <2>2 DEF Alone, Shape
  <2> QED BY <2>1, <2>2
<1> QED BY <1>1, <1>2, <1>3 DEF Alone

\* The check of process i takes a step.
LEMMA StepsAlone ==
  ASSUME Shape, Alone, NEW i \in Procs, worker[i] # Idle,
         NEW step, worker' = [worker EXCEPT ![i].step = step],
         step = "stage" => disk'["partial"].signed
  PROVE  Alone'
<1>1. \A j \in Procs \ {i} : worker'[j] = worker[j] /\ worker[j] = Idle
  BY DEF Shape, Alone
<1>2. "step" \in DOMAIN worker'[i] /\ worker'[i].step = step
  BY DEF Shape, Alone
<1>3. \A j \in Procs \ {i} : worker'[j].step # "stage" /\ "step" \in DOMAIN worker'[j]
  BY <1>1 DEF Idle
<1> QED BY <1>1, <1>2, <1>3 DEF Alone

\* A check begins its work, or the next part of it.
LEMMA BeginsAlone ==
  ASSUME Shape, Alone, NEW i \in Procs, \A j \in Procs \ {i} : worker[j] = Idle,
         NEW step, NEW r, step # "stage", worker' = [worker EXCEPT ![i] = Work(step, r)]
  PROVE  Alone'
<1>1. \A j \in Procs \ {i} : worker'[j] = Idle
  BY DEF Shape
<1>2. "step" \in DOMAIN worker'[i] /\ worker'[i].step # "stage"
  BY DEF Shape, Work
<1>3. "step" \in DOMAIN Idle /\ Idle.step # "stage"
  BY DEF Idle
<1> QED BY <1>1, <1>2, <1>3 DEF Alone

LEMMA WorkerAlone ==
  ASSUME Shape, Alone, NEW i \in Procs, Worker(i)
  PROVE  Alone'
<1>0. /\ worker[i].step # "idle" => worker[i] # Idle
      /\ worker[i] # Idle => \A j \in Procs \ {i} : worker[j] = Idle
      /\ DOMAIN disk = Names
  BY DEF Alone, Idle, Shape
<1>1. CASE Ask(i)
  BY <1>0, <1>1, StillAlone, BeginsAlone DEF Ask, Finish
<1>2. CASE AskFails(i)
  BY <1>2, StillAlone DEF AskFails, Finish
<1>3. CASE Download(i) \/ WritePartial(i)
  BY <1>0, <1>3, StepsAlone DEF Download, WritePartial, Step
<1>4. CASE DownloadFails(i)
  BY <1>0, <1>4, StillAlone DEF DownloadFails, Finish
<1>5. CASE VerifyPartial(i)
  BY <1>0, <1>5, StillAlone, StepsAlone DEF VerifyPartial, Finish, Step
<1>6. CASE Stage(i)
  BY <1>0, <1>6, StillAlone DEF Stage, Finish
<1> QED BY <1>1, <1>2, <1>3, <1>4, <1>5, <1>6 DEF Worker

LEMMA NextAlone == "race" \notin Faults /\ Shape /\ Alone /\ [Next]_vars => Alone'
<1> SUFFICES ASSUME "race" \notin Faults, Shape, Alone, [Next]_vars PROVE Alone'
  OBVIOUS
<1>0. DOMAIN disk = Names
  BY DEF Shape
<1>1. ASSUME NEW i \in Procs, Worker(i) PROVE Alone'
  BY <1>1, WorkerAlone
<1>2. ASSUME NEW i \in Procs, Tick(i, TRUE) PROVE Alone'
  BY <1>2, BeginsAlone DEF Tick
<1>3. ASSUME UNCHANGED worker, disk'["partial"] = disk["partial"] PROVE Alone'
  BY <1>3 DEF Alone
<1>4. ASSUME NEW i \in Procs, Leave(i) \/ Kill(i) PROVE Alone'
  BY <1>4, StillAlone DEF Leave, Kill, Ended
<1>5. ASSUME NEW i \in Procs,
             \/ Start(i) \/ ApplyPendingUpdate(i) \/ Relaunch(i) \/ Bind(i) \/ Quit(i)
             \/ Tick(i, FALSE) \/ TimeOut(i)
      PROVE  UNCHANGED worker /\ disk'["partial"] = disk["partial"]
  BY <1>0, <1>5
     DEF Start, ApplyPendingUpdate, Cleanup, Find, VerifyStaged, MoveAway, MoveIn, MoveBack,
         Relaunch, Bind, Quit, Tick, TimeOut, checking, Removed, Renamed, Names
<1>6. ASSUME NEW r \in Releases, Publish(r)
      PROVE  UNCHANGED worker /\ disk'["partial"] = disk["partial"]
  BY <1>6 DEF Publish, checking
<1>7. CASE UNCHANGED vars
  BY <1>3, <1>7 DEF vars, checking
<1> QED BY <1>1, <1>2, <1>3, <1>4, <1>5, <1>6, <1>7 DEF Next, Process

LEMMA NextVerified == Shape /\ Placed /\ Alone /\ Verified /\ [Next]_vars => Verified'
<1> SUFFICES ASSUME Shape, Placed, Alone, Verified, [Next]_vars PROVE Verified'
  OBVIOUS
<1> USE DEF starting, checking
<1>0. DOMAIN disk = Names /\ DOMAIN image = Procs /\ DOMAIN pc = Procs
  BY DEF Shape
<1>1. ASSUME \A file \in Names \ {"partial"} : Exists(file)' => disk'[file].signed,
             \A k \in Procs : pc'[k] # "off" => pc[k] # "off" /\ image'[k] = image[k]
      PROVE  Verified'
  BY <1>1 DEF Verified
<1>2. ASSUME UNCHANGED disk
      PROVE  \A file \in Names \ {"partial"} : Exists(file)' => disk'[file].signed
  BY <1>2 DEF Verified, Exists
<1>3. ASSUME NEW i \in Procs, NEW j \in Procs, NEW gone, DOMAIN gone = Procs, Launch(j, gone),
             \A k \in Procs : gone[k] # "off" => pc[k] # "off", Exists("exe"), UNCHANGED disk
      PROVE  Verified'
  <2>1. disk["exe"].signed
    BY <1>3 DEF Verified, Names
  <2>2. \A k \in Procs : pc'[k] # "off" => image'[k].signed
    BY <1>0, <1>3, <2>1 DEF Launch, Verified
  <2> QED BY <1>2, <1>3, <2>2 DEF Verified
<1>4. ASSUME NEW i \in Procs, Start(i) PROVE Verified'
  BY <1>0, <1>3, <1>4 DEF Start
<1>5. ASSUME NEW i \in Procs, Relaunch(i) PROVE Verified'
  <2>1. CASE Goto(i, "bind")
    BY <1>0, <1>1, <1>2, <1>5, <2>1 DEF Relaunch, Goto
  <2>2. CASE ~Goto(i, "bind")
    <3>1. PICK j \in Procs : Launch(j, pc) \/ Launch(j, [pc EXCEPT ![i] = "leaving"])
      BY <1>5, <2>2 DEF Relaunch
    <3>2. Exists("exe") /\ pc[i] = "relaunch" /\ UNCHANGED disk
      BY <1>5, <2>2 DEF Relaunch
    <3>3. CASE Launch(j, pc)
      BY <1>0, <1>3, <3>2, <3>3
    <3>4. CASE Launch(j, [pc EXCEPT ![i] = "leaving"])
      <4> DEFINE gone == [pc EXCEPT ![i] = "leaving"]
      <4>1. DOMAIN gone = Procs /\ \A k \in Procs : gone[k] # "off" => pc[k] # "off"
        BY <1>0, <3>2
      <4> HIDE DEF gone
      <4> QED BY <1>3, <3>2, <3>4, <4>1 DEF gone
    <3> QED BY <3>1, <3>3, <3>4
  <2> QED BY <2>1, <2>2
<1>6. ASSUME NEW i \in Procs, ApplyPendingUpdate(i) PROVE Verified'
  <2>1. \A k \in Procs : pc'[k] # "off" => pc[k] # "off" /\ image'[k] = image[k]
    BY <1>0, <1>6
       DEF ApplyPendingUpdate, Cleanup, Find, VerifyStaged, MoveAway, MoveIn, MoveBack, Goto
  <2>2. \/ UNCHANGED disk \/ Removed("old") \/ Removed("staged") \/ Renamed("exe", "old")
        \/ Renamed("staged", "exe") \/ Renamed("old", "exe")
    BY <1>6 DEF ApplyPendingUpdate, Cleanup, Find, VerifyStaged, MoveAway, MoveIn, MoveBack
  <2>3. \A file \in Names \ {"partial"} : Exists(file)' => disk'[file].signed
    BY <1>0, <2>2 DEF Removed, Renamed, Verified, Exists, Names
  <2> QED BY <1>1, <2>1, <2>3
<1>7. ASSUME NEW i \in Procs, Worker(i) PROVE Verified'
  <2>1. UNCHANGED starting
    BY <1>7 DEF Worker, Ask, AskFails, Download, DownloadFails, WritePartial, VerifyPartial, Stage
  <2>2. \A file \in Names \ {"partial"} :
          \/ disk'[file] = disk[file]
          \/ worker[i].step = "stage" /\ disk'[file] = disk["partial"]
    <3>1. CASE Stage(i)
      BY <1>0, <3>1 DEF Stage, Removed, Renamed, Names
    <3>2. CASE \/ Ask(i) \/ AskFails(i) \/ Download(i) \/ DownloadFails(i) \/ WritePartial(i)
               \/ VerifyPartial(i)
      BY <1>0, <3>2 DEF Ask, AskFails, Download, DownloadFails, WritePartial, VerifyPartial,
                        Removed, Names
    <3> QED BY <1>7, <3>1, <3>2 DEF Worker
  <2>3. \A file \in Names \ {"partial"} : Exists(file)' => disk'[file].signed
    BY <2>2 DEF Alone, Verified, Exists
  <2> QED BY <1>1, <2>1, <2>3
<1>8. ASSUME NEW i \in Procs,
             Bind(i) \/ Quit(i) \/ Leave(i) \/ Kill(i) \/ Tick(i, TRUE) \/ Tick(i, FALSE) \/ TimeOut(i)
      PROVE  Verified'
  <2>1. UNCHANGED disk
    BY <1>8 DEF Bind, Quit, Leave, Kill, Ended, Tick, TimeOut
  <2>2. \A k \in Procs : pc'[k] # "off" => pc[k] # "off" /\ image'[k] = image[k]
    BY <1>0, <1>8 DEF Bind, Quit, Leave, Kill, Ended, Tick, TimeOut, Goto
  <2> QED BY <1>1, <1>2, <2>1, <2>2
<1>9. ASSUME UNCHANGED <<disk, starting>> PROVE Verified'
  BY <1>1, <1>2, <1>9
<1> QED
  BY <1>4, <1>5, <1>6, <1>7, <1>8, <1>9 DEF Next, Process, Publish, vars

\* Every file that is run, and every one that stands where it may be run, has passed the
\* verification, whoever is killed and whatever fails (OnlyVerifiedRuns).  Two checks at
\* once would share the partial file: a process that waits for its own to end while its
\* successor starts another.
THEOREM OnlySignedFilesRun ==
  ASSUME "race" \notin Faults
  PROVE  Spec => []OnlyVerifiedRuns
<1>1. Verified => OnlyVerifiedRuns
  BY DEF Verified, OnlyVerifiedRuns, Names
<1> QED BY <1>1, InitPlaced, NextPlaced, InitVerified, NextAlone, NextVerified, PTL DEF Spec

-----------------------------------------------------------------------------
(* Types.  That a file is a release and not the torn half of one rests on  *)
(* the partial file being the whole of what the check downloads.           *)

Genuine ==
  /\ \A file \in Names \ {"partial"} : Exists(file) => disk[file] \in Releases
  /\ \A i \in Procs : worker[i].step \in {"verify", "stage"} => disk["partial"] = worker[i].release

LEMMA InitTyped == Init => TypeOK /\ Genuine
<1> SUFFICES ASSUME Init PROVE TypeOK /\ Genuine
  OBVIOUS
<1>1. First \in Releases
  BY ReleasesAssumption
<1>2. TypeOK
  <2>1. Said("unknown") \in Outcomes
    BY DEF Outcomes
  <2> QED BY <1>1, <2>1 DEF Init, TypeOK, Files, Places, Checks
<1>3. Genuine
  BY <1>1 DEF Init, Genuine, Idle, Names, Exists
<1> QED BY <1>2, <1>3

\* A process goes on.
LEMMA GotoTyped ==
  ASSUME TypeOK, NEW i \in Procs, NEW place \in Places \ {"off"}, pc[i] # "off",
         pc' = [pc EXCEPT ![i] = place], lies' \in [Procs -> {"exe", "old"}],
         UNCHANGED <<published, image, worker, status>>, disk' \in [Names -> Files],
         worker[i] = Idle \/ place = "leaving",
         waiting' = [waiting EXCEPT ![i] = FALSE]
  PROVE  TypeOK'
<1>1. pc' \in [Procs -> Places] /\ waiting' \in [Procs -> BOOLEAN]
  BY DEF TypeOK, Places
<1>2. ASSUME NEW k \in Procs
      PROVE  /\ (image'[k] = Nothing) = (pc'[k] = "off")
             /\ waiting'[k] => pc'[k] = "run" /\ worker'[k] # Idle
             /\ worker'[k] # Idle => pc'[k] \in {"run", "leaving"}
  <2>1. CASE k = i
    BY <2>1 DEF TypeOK
  <2>2. CASE k # i
    BY <2>2 DEF TypeOK
  <2> QED BY <2>1, <2>2
<1> QED BY <1>1, <1>2 DEF TypeOK, Names

\* A process that has not bound the port waits for nothing.
LEMMA NotYetWaiting ==
  ASSUME TypeOK, NEW i \in Procs, pc[i] \notin {"run", "leaving"}
  PROVE  worker[i] = Idle /\ ~waiting[i] /\ waiting = [waiting EXCEPT ![i] = FALSE]
BY DEF TypeOK

LEMMA LaunchTyped ==
  ASSUME TypeOK, Genuine, NEW i \in Procs, NEW j \in Procs, NEW gone \in [Procs -> Places],
         \A k \in Procs : gone[k] = pc[k] \/ (pc[k] = "relaunch" /\ gone[k] = "leaving"),
         pc[j] \in {"off", "relaunch"}, Launch(j, gone), Exists("exe"),
         UNCHANGED <<published, disk, worker, waiting>>
  PROVE  TypeOK'
<1>1. disk["exe"] \in Releases /\ disk["exe"] # Nothing
  BY DEF Genuine, Names, Exists
<1>2. Said("unknown") \in Outcomes
  BY DEF Outcomes
<1>3. /\ pc' \in [Procs -> Places] /\ image' \in [Procs -> Releases \cup {Nothing}]
      /\ lies' \in [Procs -> {"exe", "old"}] /\ status' \in [Procs -> Outcomes]
  BY <1>1, <1>2 DEF TypeOK, Launch, Places
<1>4. ASSUME NEW k \in Procs
      PROVE  /\ (image'[k] = Nothing) = (pc'[k] = "off")
             /\ waiting'[k] => pc'[k] = "run" /\ worker'[k] # Idle
             /\ worker'[k] # Idle => pc'[k] \in {"run", "leaving"}
  <2>1. CASE k = j
    BY <1>1, <2>1 DEF TypeOK, Launch
  <2>2. CASE k # j
    BY <2>2 DEF TypeOK, Launch
  <2> QED BY <2>1, <2>2
<1> QED BY <1>3, <1>4 DEF TypeOK

LEMMA EndedTyped ==
  ASSUME TypeOK, NEW i \in Procs, Ended(i)
  PROVE  TypeOK'
<1>1. Said("unknown") \in Outcomes
  BY DEF Outcomes
<1>2. /\ pc' \in [Procs -> Places] /\ image' \in [Procs -> Releases \cup {Nothing}]
      /\ lies' \in [Procs -> {"exe", "old"}] /\ waiting' \in [Procs -> BOOLEAN]
      /\ worker' \in [Procs -> Checks]
      /\ status' \in [Procs -> Outcomes] /\ UNCHANGED <<published, disk>>
  BY <1>1 DEF TypeOK, Ended, Places, Checks
<1>3. ASSUME NEW k \in Procs
      PROVE  /\ (image'[k] = Nothing) = (pc'[k] = "off")
             /\ waiting'[k] => pc'[k] = "run" /\ worker'[k] # Idle
             /\ worker'[k] # Idle => pc'[k] \in {"run", "leaving"}
  <2>1. CASE k = i
    BY <2>1 DEF TypeOK, Ended
  <2>2. CASE k # i
    BY <2>2 DEF TypeOK, Ended
  <2> QED BY <2>1, <2>2
<1> QED BY <1>2, <1>3 DEF TypeOK

\* A check that is under way goes on, or ends.
LEMMA CheckTyped ==
  ASSUME TypeOK, NEW i \in Procs, pc[i] \in {"run", "leaving"},
         UNCHANGED <<published, starting>>, disk' \in [Names -> Files],
         NEW work \in Checks,
         worker' = [worker EXCEPT ![i] = work],
         waiting' \in [Procs -> BOOLEAN], status' \in [Procs -> Outcomes],
         \A k \in Procs \ {i} : waiting'[k] => waiting[k],
         waiting'[i] => pc[i] = "run" /\ work # Idle
  PROVE  TypeOK'
<1>1. worker' \in [Procs -> Checks]
  BY DEF TypeOK
<1>2. UNCHANGED <<pc, image, lies>>
  BY DEF starting
<1>3. ASSUME NEW k \in Procs
      PROVE  /\ waiting'[k] => pc[k] = "run" /\ worker'[k] # Idle
             /\ worker'[k] # Idle => pc[k] \in {"run", "leaving"}
  <2>1. CASE k = i
    BY <2>1 DEF TypeOK
  <2>2. CASE k # i
    BY <2>2 DEF TypeOK
  <2> QED BY <2>1, <2>2
<1> QED BY <1>1, <1>2, <1>3 DEF TypeOK, Names

LEMMA FinishTyped ==
  ASSUME TypeOK, NEW i \in Procs, worker[i] # Idle, NEW outcome \in Outcomes,
         Finish(i, outcome), UNCHANGED <<published, starting>>, disk' \in [Names -> Files]
  PROVE  TypeOK'
<1>1. pc[i] \in {"run", "leaving"}
  BY DEF TypeOK
<1>2. waiting' \in [Procs -> BOOLEAN] /\ status' \in [Procs -> Outcomes]
  BY DEF Finish, TypeOK
<1>3. ~waiting'[i] /\ \A k \in Procs \ {i} : waiting'[k] = waiting[k]
  BY DEF Finish, TypeOK
<1>4. Idle \in Checks
  BY DEF Checks
<1> QED BY <1>1, <1>2, <1>3, <1>4, CheckTyped DEF Finish

LEMMA StepTyped ==
  ASSUME TypeOK, NEW i \in Procs, worker[i] # Idle, NEW step \in Steps,
         Step(i, step), UNCHANGED <<published, starting>>, disk' \in [Names -> Files]
  PROVE  TypeOK'
<1>1. pc[i] \in {"run", "leaving"}
  BY DEF TypeOK
<1>2. PICK s \in Steps, r \in Releases : worker[i] = Work(s, r)
  BY DEF TypeOK, Checks
<1>3. worker' = [worker EXCEPT ![i] = Work(step, r)]
  <2>1. [worker[i] EXCEPT !.step = step] = Work(step, r)
    BY <1>2 DEF Work
  <2> QED BY <2>1 DEF Step
<1>4. Work(step, r) # Idle
  <2>1. "release" \in DOMAIN Work(step, r)
    BY DEF Work
  <2>2. "release" \notin DOMAIN Idle
    BY DEF Idle
  <2> QED BY <2>1, <2>2
<1>5. waiting[i] => pc[i] = "run"
  BY DEF TypeOK
<1>6. waiting' \in [Procs -> BOOLEAN] /\ status' \in [Procs -> Outcomes] /\ waiting' = waiting
  BY DEF TypeOK, Step
<1>7. Work(step, r) \in Checks
  BY DEF Checks
<1> QED BY <1>1, <1>3, <1>4, <1>5, <1>6, <1>7, CheckTyped

\* What the files can hold besides a release is the torn half of one.
LEMMA FilesStay ==
  ASSUME TypeOK
  PROVE  /\ \A file \in Names, f \in Files : [disk EXCEPT ![file] = f] \in [Names -> Files]
         /\ \A file \in Names : Removed(file) => disk' \in [Names -> Files]
         /\ \A from, to \in Names : Renamed(from, to) => disk' \in [Names -> Files]
         /\ UNCHANGED disk => disk' \in [Names -> Files]
<1>1. disk \in [Names -> Files] /\ Nothing \in Files
  BY DEF TypeOK, Files, Names
<1> HIDE DEF Files, Names
<1> QED BY <1>1 DEF Removed, Renamed

LEMMA ApplyTyped ==
  ASSUME TypeOK, NEW i \in Procs, ApplyPendingUpdate(i)
  PROVE  TypeOK'
<1>1. pc[i] \notin {"off", "run", "leaving"} /\ UNCHANGED <<published, image, worker, waiting, status>>
  BY DEF ApplyPendingUpdate, Cleanup, Find, VerifyStaged, MoveAway, MoveIn, MoveBack, Goto, checking
<1>2. disk' \in [Names -> Files]
  BY FilesStay DEF ApplyPendingUpdate, Cleanup, Find, VerifyStaged, MoveAway, MoveIn, MoveBack, Names
<1>3. lies' \in [Procs -> {"exe", "old"}]
  BY DEF TypeOK, ApplyPendingUpdate, Cleanup, Find, VerifyStaged, MoveAway, MoveIn, MoveBack,
         Goto, ImagesMove
<1>4. PICK place \in Places \ {"off"} : pc' = [pc EXCEPT ![i] = place]
  BY DEF ApplyPendingUpdate, Cleanup, Find, VerifyStaged, MoveAway, MoveIn, MoveBack, Goto, Places
<1>5. worker[i] = Idle /\ waiting = [waiting EXCEPT ![i] = FALSE]
  BY <1>1, NotYetWaiting
<1> QED BY <1>1, <1>2, <1>3, <1>4, <1>5, GotoTyped

\* A check asks for a release; what it may do next is download one that was published.
LEMMA DecideIn ==
  \A current, tag :
    Decide(current, tag)
      \in {"unrecognized", "prerelease", "available", "current-is-newer", "up-to-date"}
<1> SUFFICES ASSUME NEW current, NEW tag
             PROVE  Decide(current, tag)
                      \in {"unrecognized", "prerelease", "available", "current-is-newer", "up-to-date"}
  OBVIOUS
<1> DEFINE cur == ParseTag(current)
           new == ParseTag(tag)
<1>1. CASE cur = Nothing \/ new = Nothing
  BY <1>1 DEF Decide
<1>2. CASE cur # Nothing /\ new # Nothing /\ new.pre # "no"
  BY <1>2 DEF Decide
<1>3. CASE cur # Nothing /\ new # Nothing /\ new.pre = "no"
  BY <1>3 DEF Decide
<1> QED BY <1>1, <1>2, <1>3

\* The check that goes on after its question is about the release now published.
LEMMA AskFinds ==
  ASSUME Readable, TypeOK, NEW i \in Procs, Ask(i)
  PROVE  \/ /\ worker' = [worker EXCEPT ![i] = Work("download", published)]
            /\ UNCHANGED <<waiting, status>>
            /\ Decide(image[i].tag, published.tag) = "available"
         \/ \E k \in {"failed", "unrecognized", "prerelease", "current-is-newer", "up-to-date"} :
              Finish(i, Said(k))
<1> DEFINE info == Latest[published]
           decision == IF info = Nothing THEN "failed" ELSE Decide(image[i].tag, info.tag)
<1>1. published \in Releases
  BY DEF TypeOK
<1>2. IF decision = "available"
      THEN worker' = [worker EXCEPT ![i] = Work("download", ReleaseAt(info.url))]
           /\ UNCHANGED <<waiting, status>>
      ELSE Finish(i, Said(decision))
  BY DEF Ask
<1>3. decision \in {"failed", "unrecognized", "prerelease", "available", "current-is-newer", "up-to-date"}
  BY DecideIn
<1>4. info # Nothing => info.tag = published.tag /\ ReleaseAt(info.url) = published
  BY <1>1 DEF Readable
<1>5. CASE decision = "available"
  <2>1. info # Nothing
    BY <1>5
  <2> QED BY <1>2, <1>4, <1>5, <2>1
<1>6. CASE decision # "available"
  BY <1>2, <1>3, <1>6
<1> QED BY <1>5, <1>6

LEMMA WorkerTyped ==
  ASSUME Readable, TypeOK, NEW i \in Procs, Worker(i)
  PROVE  TypeOK'
<1>1. worker[i].step # "idle" => worker[i] # Idle
  BY DEF Idle
<1>2. /\ \A r \in Releases : StagedFor(r.tag) \in Outcomes
      /\ \A k \in {"failed", "refused", "unrecognized", "prerelease", "current-is-newer", "up-to-date"} :
           Said(k) \in Outcomes
  BY DEF Outcomes
<1>3. worker[i] # Idle => worker[i].release \in Releases /\ worker[i].release \in Files
                          /\ Torn(worker[i].release) \in Files
  BY DEF TypeOK, Checks, Work, Files
<1>4. CASE Ask(i)
  <2>1. /\ worker[i] # Idle /\ UNCHANGED <<published, starting>> /\ disk' \in [Names -> Files]
        /\ published \in Releases
    BY <1>1, <1>4, FilesStay DEF Ask, TypeOK
  <2>2. CASE worker' = [worker EXCEPT ![i] = Work("download", published)] /\ UNCHANGED <<waiting, status>>
    <3>1. Work("download", published) \in Checks
      BY <2>1 DEF Checks, Steps
    <3>2. Work("download", published) # Idle
      <4>1. "release" \in DOMAIN Work("download", published)
        BY DEF Work
      <4>2. "release" \notin DOMAIN Idle
        BY DEF Idle
      <4> QED BY <4>1, <4>2
    <3>3. pc[i] \in {"run", "leaving"} /\ (waiting[i] => pc[i] = "run")
          /\ waiting \in [Procs -> BOOLEAN] /\ status \in [Procs -> Outcomes]
      BY <2>1 DEF TypeOK
    <3> QED BY <2>1, <2>2, <3>1, <3>2, <3>3, CheckTyped
  <2>3. ASSUME NEW k \in {"failed", "unrecognized", "prerelease", "current-is-newer", "up-to-date"},
               Finish(i, Said(k))
        PROVE  TypeOK'
    BY <1>2, <2>1, <2>3, FinishTyped
  <2> QED BY <1>4, <2>2, <2>3, AskFinds
<1>5. CASE AskFails(i)
  BY <1>1, <1>2, <1>5, FinishTyped, FilesStay DEF AskFails
<1>6. CASE Download(i)
  <2>1. worker[i] # Idle /\ disk' \in [Names -> Files]
    BY <1>1, <1>3, <1>6, FilesStay DEF Download, Names
  <2> QED BY <1>6, <2>1, StepTyped DEF Download, Steps
<1>7. CASE DownloadFails(i)
  <2>1. worker[i] # Idle /\ disk' \in [Names -> Files]
    BY <1>1, <1>7, FilesStay DEF DownloadFails, Names
  <2> QED BY <1>2, <1>7, <2>1, FinishTyped DEF DownloadFails
<1>8. CASE WritePartial(i)
  <2>1. worker[i] # Idle /\ disk' \in [Names -> Files]
    BY <1>1, <1>3, <1>8, FilesStay DEF WritePartial, Names
  <2> QED BY <1>8, <2>1, StepTyped DEF WritePartial, Steps
<1>9. CASE VerifyPartial(i)
  <2>1. worker[i] # Idle /\ disk' \in [Names -> Files]
    BY <1>1, <1>9, FilesStay DEF VerifyPartial, Names
  <2> QED BY <1>2, <1>9, <2>1, StepTyped, FinishTyped DEF VerifyPartial, Steps
<1>10. CASE Stage(i)
  <2>1. worker[i] # Idle /\ disk' \in [Names -> Files]
    BY <1>1, <1>10, FilesStay DEF Stage, Names
  <2> QED BY <1>2, <1>3, <1>10, <2>1, FinishTyped DEF Stage
<1> QED BY <1>4, <1>5, <1>6, <1>7, <1>8, <1>9, <1>10 DEF Worker

LEMMA TimerTyped ==
  ASSUME TypeOK, NEW i \in Procs, Tick(i, TRUE) \/ Tick(i, FALSE) \/ TimeOut(i)
  PROVE  TypeOK'
<1>1. disk' \in [Names -> Files] /\ UNCHANGED <<published, starting>>
  BY FilesStay DEF Tick, TimeOut
<1>2. Said("disabled") \in Outcomes /\ Said("failed") \in Outcomes
  BY DEF Outcomes
<1>3. /\ worker \in [Procs -> Checks] /\ waiting \in [Procs -> BOOLEAN] /\ status \in [Procs -> Outcomes]
      /\ waiting[i] => pc[i] = "run" /\ worker[i] # Idle
  BY DEF TypeOK
<1>4. CASE Tick(i, TRUE)
  <2>1. pc[i] = "run" /\ image[i] \in Releases
    BY <1>4 DEF Tick, TypeOK
  <2>2. Work("ask", image[i]) \in Checks
    BY <2>1 DEF Checks, Steps
  <2>3. Work("ask", image[i]) # Idle
    <3>1. "release" \in DOMAIN Work("ask", image[i])
      BY DEF Work
    <3>2. "release" \notin DOMAIN Idle
      BY DEF Idle
    <3> QED BY <3>1, <3>2
  <2>4. /\ worker' = [worker EXCEPT ![i] = Work("ask", image[i])] /\ UNCHANGED status
        /\ waiting' \in [Procs -> BOOLEAN] /\ \A k \in Procs \ {i} : waiting'[k] = waiting[k]
    BY <1>3, <1>4 DEF Tick
  <2> HIDE DEF Work
  <2> QED BY <1>1, <1>3, <2>1, <2>2, <2>3, <2>4, CheckTyped
<1>5. CASE Tick(i, FALSE) \/ TimeOut(i)
  <2>1. /\ pc[i] = "run" /\ UNCHANGED worker /\ status' \in [Procs -> Outcomes]
        /\ waiting' \in [Procs -> BOOLEAN] /\ \A k \in Procs : waiting'[k] => waiting[k]
    BY <1>2, <1>3, <1>5 DEF Tick, TimeOut
  <2>2. worker' = [worker EXCEPT ![i] = worker[i]] /\ worker[i] \in Checks
    BY <1>3, <2>1
  <2> QED BY <1>1, <1>3, <2>1, <2>2, CheckTyped
<1> QED BY <1>4, <1>5

LEMMA NextTyped == Readable /\ TypeOK /\ Genuine /\ [Next]_vars => TypeOK'
<1> SUFFICES ASSUME Readable, TypeOK, Genuine, [Next]_vars PROVE TypeOK'
  OBVIOUS
<1>0. pc \in [Procs -> Places]
  BY DEF TypeOK
<1>1. ASSUME NEW i \in Procs, Start(i) PROVE TypeOK'
  BY <1>0, <1>1, LaunchTyped DEF Start
<1>2. ASSUME NEW i \in Procs, ApplyPendingUpdate(i) PROVE TypeOK'
  BY <1>2, ApplyTyped
<1>3. ASSUME NEW i \in Procs, Relaunch(i) PROVE TypeOK'
  <2>1. CASE Goto(i, "bind") /\ UNCHANGED status
    <3>1. worker[i] = Idle /\ waiting = [waiting EXCEPT ![i] = FALSE] /\ pc[i] # "off"
      BY <1>3, NotYetWaiting DEF Relaunch
    <3>2. UNCHANGED <<published, image, worker, waiting, status>> /\ disk' \in [Names -> Files]
          /\ lies' \in [Procs -> {"exe", "old"}]
      BY <1>3, <2>1, FilesStay DEF Relaunch, Goto, TypeOK
    <3> QED BY <2>1, <3>1, <3>2, GotoTyped DEF Goto, Places
  <2>2. CASE ~(Goto(i, "bind") /\ UNCHANGED status)
    <3>1. PICK j \in Procs : \/ j = i /\ Launch(j, pc)
                             \/ pc[j] = "off" /\ Launch(j, [pc EXCEPT ![i] = "leaving"])
      BY <1>3, <2>2 DEF Relaunch
    <3>2. Exists("exe") /\ pc[i] = "relaunch" /\ UNCHANGED <<published, disk, worker, waiting>>
      BY <1>3, <2>2 DEF Relaunch
    <3>3. [pc EXCEPT ![i] = "leaving"] \in [Procs -> Places]
      BY <1>0 DEF Places
    <3>4. \A k \in Procs : \/ [pc EXCEPT ![i] = "leaving"][k] = pc[k]
                           \/ pc[k] = "relaunch" /\ [pc EXCEPT ![i] = "leaving"][k] = "leaving"
      BY <1>0, <3>2
    <3>5. CASE j = i /\ Launch(j, pc)
      BY <1>0, <3>2, <3>5, LaunchTyped
    <3>6. CASE pc[j] = "off" /\ Launch(j, [pc EXCEPT ![i] = "leaving"])
      BY <3>2, <3>3, <3>4, <3>6, LaunchTyped
    <3> QED BY <3>1, <3>5, <3>6
  <2> QED BY <2>1, <2>2
<1>4. ASSUME NEW i \in Procs, Bind(i) PROVE TypeOK'
  <2>1. worker[i] = Idle /\ waiting = [waiting EXCEPT ![i] = FALSE] /\ pc[i] # "off"
    BY <1>4, NotYetWaiting DEF Bind
  <2>2. PICK place \in {"run", "leaving"} : Goto(i, place)
    BY <1>4 DEF Bind
  <2>3. UNCHANGED <<published, image, worker, waiting, status>> /\ disk' \in [Names -> Files]
        /\ lies' \in [Procs -> {"exe", "old"}]
    BY <1>4, <2>2, FilesStay DEF Bind, Goto, checking, TypeOK
  <2> QED BY <2>1, <2>2, <2>3, GotoTyped DEF Goto, Places
<1>5. ASSUME NEW i \in Procs, Quit(i) PROVE TypeOK'
  BY <1>5, FilesStay, GotoTyped DEF Quit, Goto, Places, TypeOK
<1>6. ASSUME NEW i \in Procs, Leave(i) \/ Kill(i) PROVE TypeOK'
  BY <1>6, EndedTyped DEF Leave, Kill
<1>7. ASSUME NEW i \in Procs, Tick(i, TRUE) \/ Tick(i, FALSE) \/ TimeOut(i) PROVE TypeOK'
  BY <1>7, TimerTyped
<1>8. ASSUME NEW i \in Procs, Worker(i) PROVE TypeOK'
  BY <1>8, WorkerTyped
<1>9. ASSUME NEW r \in Releases, Publish(r) PROVE TypeOK'
  BY <1>9 DEF Publish, TypeOK, starting, checking
<1>10. CASE UNCHANGED vars
  BY <1>10 DEF vars, TypeOK, starting, checking
<1> QED
  BY <1>1, <1>2, <1>3, <1>4, <1>5, <1>6, <1>7, <1>8, <1>9, <1>10 DEF Next, Process

\* A check that is past its question.
Busy == Steps \ {"ask"}

\* The only check there is goes on with its release, which is all that the partial file
\* holds once it is written; or it has just been told of the one that is published.
LEMMA CheckMoves ==
  ASSUME Readable, TypeOK, Alone, Genuine, NEW i \in Procs, Worker(i),
         NEW k \in Procs, worker'[k].step \in Busy
  PROVE  /\ k = i /\ worker[i].step \in Steps
         /\ \/ /\ worker[i].step \in Busy /\ worker'[i].release = worker[i].release
               /\ worker'[i].step \in {"verify", "stage"} => disk'["partial"] = worker[i].release
            \/ /\ worker[i].step = "ask" /\ worker'[i].step = "download"
               /\ worker'[i].release = published
               /\ Decide(image[i].tag, published.tag) = "available"
<1>0. /\ Idle.step \notin Steps /\ DOMAIN disk = Names /\ worker \in [Procs -> Checks]
      /\ worker[i].step \in Steps => worker[i] # Idle
      /\ worker[i] # Idle => \A j \in Procs \ {i} : worker[j] = Idle
  BY DEF Idle, Steps, TypeOK, Alone, Names
<1>1. worker[i].step \in Steps
  BY DEF Worker, Ask, AskFails, Download, DownloadFails, WritePartial, VerifyPartial, Stage, Steps
<1>2. k = i
  <2>1. \A j \in Procs \ {i} : worker'[j] = worker[j]
    BY <1>0 DEF Worker, Ask, AskFails, Download, DownloadFails, WritePartial, VerifyPartial, Stage,
                Finish, Step
  <2> QED BY <1>0, <1>1, <2>1 DEF Busy
<1>3. PICK s \in Steps, r \in Releases : worker[i] = Work(s, r)
  BY <1>0, <1>1 DEF Checks
<1>4. worker'[i] # Idle
  BY <1>0, <1>2 DEF Busy
<1>5. \A t : Step(i, t) => worker'[i].release = worker[i].release /\ worker'[i].step = t
  BY <1>0, <1>3 DEF Step, Work
<1>6. \A o : ~Finish(i, o)
  BY <1>0, <1>4 DEF Finish
<1>7. CASE Ask(i)
  <2>1. /\ worker'[i] = Work("download", published)
        /\ Decide(image[i].tag, published.tag) = "available"
    BY <1>0, <1>6, <1>7, AskFinds
  <2> QED BY <1>1, <1>2, <1>7, <2>1 DEF Ask, Work
<1>8. CASE AskFails(i) \/ DownloadFails(i) \/ Stage(i)
  BY <1>6, <1>8 DEF AskFails, DownloadFails, Stage
<1>9. CASE Download(i)
  BY <1>1, <1>2, <1>5, <1>9 DEF Download, Busy
<1>10. CASE WritePartial(i)
  BY <1>0, <1>1, <1>2, <1>5, <1>10 DEF WritePartial, Busy, Names
<1>11. CASE VerifyPartial(i)
  BY <1>1, <1>2, <1>5, <1>6, <1>11 DEF VerifyPartial, Busy, Genuine
<1> QED BY <1>7, <1>8, <1>9, <1>10, <1>11 DEF Worker

\* In every other step a check that goes on does not notice.
LEMMA CheckStays ==
  ASSUME TypeOK, [Next]_vars, ~\E i \in Procs : Worker(i),
         NEW k \in Procs, worker'[k].step \in Busy
  PROVE  worker'[k] = worker[k] /\ disk'["partial"] = disk["partial"]
<1>0. /\ Idle.step \notin Busy /\ DOMAIN disk = Names /\ worker \in [Procs -> Checks]
      /\ \A r : Work("ask", r).step \notin Busy
  BY DEF Idle, Steps, Busy, TypeOK, Names, Work
<1>1. ASSUME NEW i \in Procs, Leave(i) \/ Kill(i) \/ Tick(i, TRUE)
      PROVE  worker'[k] = worker[k] /\ disk'["partial"] = disk["partial"]
  BY <1>0, <1>1 DEF Leave, Kill, Ended, Tick
<1>2. ASSUME NEW i \in Procs,
             \/ Start(i) \/ ApplyPendingUpdate(i) \/ Relaunch(i) \/ Bind(i) \/ Quit(i)
             \/ Tick(i, FALSE) \/ TimeOut(i)
      PROVE  UNCHANGED worker /\ disk'["partial"] = disk["partial"]
  BY <1>0, <1>2
     DEF Start, ApplyPendingUpdate, Cleanup, Find, VerifyStaged, MoveAway, MoveIn, MoveBack,
         Relaunch, Bind, Quit, Tick, TimeOut, checking, Removed, Renamed, Names
<1>3. ASSUME NEW r \in Releases, Publish(r)
      PROVE  UNCHANGED worker /\ disk'["partial"] = disk["partial"]
  BY <1>3 DEF Publish, checking
<1>4. CASE UNCHANGED vars
  BY <1>4 DEF vars, checking
<1> QED BY <1>1, <1>2, <1>3, <1>4 DEF Next, Process

LEMMA NextGenuine ==
  Readable /\ TypeOK /\ Alone /\ Genuine /\ [Next]_vars => Genuine'
<1> SUFFICES ASSUME Readable, TypeOK, Alone, Genuine, [Next]_vars PROVE Genuine'
  OBVIOUS
<1> DEFINE Kept == Names \ {"partial"}
<1>0. DOMAIN disk = Names
  BY DEF TypeOK, Names
<1>1. \A k \in Procs :
        worker'[k].step \in {"verify", "stage"} => disk'["partial"] = worker'[k].release
  <2> SUFFICES ASSUME NEW k \in Procs, worker'[k].step \in {"verify", "stage"}
               PROVE  disk'["partial"] = worker'[k].release
    OBVIOUS
  <2>1. worker'[k].step \in Busy /\ "download" \notin {"verify", "stage"}
    BY DEF Busy, Steps
  <2>2. CASE \E i \in Procs : Worker(i)
    BY <2>1, <2>2, CheckMoves
  <2>3. CASE ~\E i \in Procs : Worker(i)
    BY <2>1, <2>3, CheckStays DEF Genuine
  <2> QED BY <2>2, <2>3
<1>2. \/ UNCHANGED disk \/ \E file \in Names : Removed(file)
      \/ Renamed("exe", "old") \/ Renamed("staged", "exe") \/ Renamed("old", "exe")
      \/ \E i \in Procs : worker[i].step = "stage" /\ Renamed("partial", "staged")
      \/ \E f : disk' = [disk EXCEPT !["partial"] = f]
  <2>1. ASSUME NEW i \in Procs, ApplyPendingUpdate(i)
        PROVE  \/ UNCHANGED disk \/ Removed("old") \/ Removed("staged")
               \/ Renamed("exe", "old") \/ Renamed("staged", "exe") \/ Renamed("old", "exe")
    BY <2>1 DEF ApplyPendingUpdate, Cleanup, Find, VerifyStaged, MoveAway, MoveIn, MoveBack
  <2>2. ASSUME NEW i \in Procs, Worker(i)
        PROVE  \/ UNCHANGED disk \/ Removed("partial")
               \/ worker[i].step = "stage" /\ Renamed("partial", "staged")
               \/ \E f : disk' = [disk EXCEPT !["partial"] = f]
    BY <2>2 DEF Worker, Ask, AskFails, Download, DownloadFails, WritePartial, VerifyPartial, Stage
  <2>3. ASSUME NEW i \in Procs,
               \/ Start(i) \/ Relaunch(i) \/ Bind(i) \/ Quit(i) \/ Leave(i) \/ Kill(i)
               \/ Tick(i, TRUE) \/ Tick(i, FALSE) \/ TimeOut(i)
        PROVE  UNCHANGED disk
    BY <2>3 DEF Start, Relaunch, Bind, Quit, Leave, Kill, Ended, Tick, TimeOut
  <2>4. ASSUME NEW r \in Releases, Publish(r) PROVE UNCHANGED disk
    BY <2>4 DEF Publish
  <2>5. CASE UNCHANGED vars
    BY <2>5 DEF vars
  <2> QED BY <2>1, <2>2, <2>3, <2>4, <2>5 DEF Next, Process, Names
<1>3. \A i \in Procs : worker[i].step = "stage" => disk["partial"] \in Releases
  BY DEF Genuine, TypeOK, Checks, Work, Idle
<1>4. \A file \in Kept : Exists(file) => disk[file] \in Releases
  BY DEF Genuine
<1>5. \A file \in Kept : Exists(file)' => disk'[file] \in Releases
  BY <1>0, <1>2, <1>3, <1>4 DEF Removed, Renamed, Exists, Names
<1> QED BY <1>1, <1>5 DEF Genuine

\* Whatever happens the variables have their types, unless two checks share a file.
THEOREM TypeCorrect ==
  ASSUME Readable, "race" \notin Faults
  PROVE  Spec => []TypeOK
<1>1. Readable /\ "race" \notin Faults
  OBVIOUS
<1> QED
  BY <1>1, InitTyped, NextTyped, NextGenuine, InitPlaced, NextPlaced, InitVerified, NextAlone, PTL
     DEF Spec

-----------------------------------------------------------------------------
(* The order of the releases.                                              *)

\* What is installed or still runs.
Installed ==
  {disk[file] : file \in {f \in {"exe", "old"} : Exists(f)}}
  \cup {image[i] : i \in {j \in Procs : pc[j] # "off"}}

\* r was published, and no earlier than what is installed.
Tops(r, installed, latest) ==
  r \in Releases /\ Age[r] <= Age[latest] /\ \A q \in installed : Age[q] <= Age[r]

Final(r) == Spelling[r.tag].pre = "no"

\* What is put by for the next start tops what is installed, and what a check is about to
\* put by tops both.  No release can be taken for one published later than it was.
Ordered ==
  /\ Installed \subseteq Releases /\ Tops(published, Installed, published)
  /\ Exists("staged") =>
       Tops(disk["staged"], Installed, published) /\ Final(disk["staged"])
  /\ \A i \in Procs : worker[i].step \in Busy =>
       /\ Tops(worker[i].release, Installed, published) /\ Final(worker[i].release)
       /\ Exists("staged") => Age[disk["staged"]] <= Age[worker[i].release]

LEMMA InitOrdered == Init => Ordered
<1> SUFFICES ASSUME Init PROVE Ordered
  OBVIOUS
<1>1. \A q \in Installed : q = First
  BY DEF Init, Installed, Exists
<1>2. First \in Releases /\ Age[First] \in Nat /\ published = First /\ ~Exists("staged")
  BY ReleasesAssumption DEF Init, Exists
<1>3. \A i \in Procs : worker[i].step \notin Busy
  BY DEF Init, Idle, Busy, Steps
<1> QED BY <1>1, <1>2, <1>3 DEF Ordered, Tops

\* Less is installed, or what was put by.
LEMMA StillOrdered ==
  ASSUME Ordered, published' \in Releases, Age[published] <= Age[published'],
         \/ Installed' \subseteq Installed /\ disk'["staged"] \in {disk["staged"], Nothing}
         \/ /\ Exists("staged") /\ disk'["staged"] = Nothing
            /\ Installed' \subseteq Installed \cup {disk["staged"]},
         \A k \in Procs : worker'[k].step \in Busy =>
           worker[k].step \in Busy /\ worker'[k].release = worker[k].release
  PROVE  Ordered'
<1>0. Age \in [Releases -> Nat]
  BY ReleasesAssumption
<1>1. Installed \subseteq Releases /\ Tops(published, Installed, published)
  BY DEF Ordered
<1>2. Exists("staged") => Tops(disk["staged"], Installed, published) /\ Final(disk["staged"])
  BY DEF Ordered
<1>3. Installed' \subseteq Releases /\ Tops(published', Installed', published')
  BY <1>0, <1>1, <1>2 DEF Tops
<1>4. Exists("staged")' => disk'["staged"] = disk["staged"] /\ Exists("staged")
                           /\ Installed' \subseteq Installed
  BY DEF Exists
<1>5. Exists("staged")' => Tops(disk'["staged"], Installed', published') /\ Final(disk'["staged"])
  BY <1>0, <1>1, <1>2, <1>4 DEF Tops
<1>6. ASSUME NEW k \in Procs, worker'[k].step \in Busy
      PROVE  /\ Tops(worker'[k].release, Installed', published') /\ Final(worker'[k].release)
             /\ Exists("staged")' => Age[disk'["staged"]] <= Age[worker'[k].release]
  <2> DEFINE r == worker[k].release
  <2>1. /\ Tops(r, Installed, published) /\ Final(r) /\ worker'[k].release = r
        /\ Exists("staged") => Age[disk["staged"]] <= Age[r]
    BY <1>6 DEF Ordered
  <2>2. \A q \in Installed' : Age[q] <= Age[r]
    BY <1>1, <1>2, <2>1 DEF Tops
  <2>3. Age[r] <= Age[published'] /\ r \in Releases
    BY <1>0, <1>1, <2>1 DEF Tops
  <2> HIDE DEF r
  <2> QED BY <1>4, <2>1, <2>2, <2>3 DEF Tops
<1> QED BY <1>3, <1>5, <1>6 DEF Ordered

\* Nothing is installed that no file held and no process ran.
LEMMA InstalledShrinks ==
  ASSUME DOMAIN disk = Names,
         \A f \in {"exe", "old"} : disk'[f] = Nothing \/ \E g \in {"exe", "old"} : disk'[f] = disk[g],
         \A k \in Procs : pc'[k] # "off" =>
           \/ pc[k] # "off" /\ image'[k] = image[k]
           \/ Exists("exe") /\ image'[k] = disk["exe"]
  PROVE  Installed' \subseteq Installed
<1> SUFFICES ASSUME NEW q \in Installed' PROVE q \in Installed
  OBVIOUS
<1>1. CASE \E f \in {"exe", "old"} : disk'[f] # Nothing /\ q = disk'[f]
  BY <1>1 DEF Installed, Exists
<1>2. CASE \E k \in Procs : pc'[k] # "off" /\ q = image'[k]
  BY <1>2 DEF Installed
<1> QED BY <1>1, <1>2 DEF Installed, Exists

\* Only a version that is no prerelease is available.
LEMMA AvailableIsFinal ==
  ASSUME NEW r \in Releases, NEW current, Decide(current, r.tag) = "available"
  PROVE  Final(r)
<1>1. ParseTag(r.tag) # Nothing /\ ParseTag(r.tag).pre = "no"
  <2> DEFINE cur == ParseTag(current)
             new == ParseTag(r.tag)
  <2>1. CASE cur = Nothing \/ new = Nothing
    BY <2>1 DEF Decide
  <2>2. CASE cur # Nothing /\ new # Nothing /\ new.pre # "no"
    BY <2>2 DEF Decide
  <2> QED BY <2>1, <2>2
<1> QED BY <1>1 DEF ParseTag, Final

LEMMA NextOrdered ==
  Readable /\ "withdraw" \notin Faults /\ TypeOK /\ Alone /\ Genuine /\ Ordered /\ [Next]_vars
  => Ordered'
<1> SUFFICES ASSUME Readable, "withdraw" \notin Faults, TypeOK, Alone, Genuine, Ordered, [Next]_vars
             PROVE  Ordered'
  OBVIOUS
<1>0. /\ DOMAIN disk = Names /\ pc \in [Procs -> Places] /\ DOMAIN image = Procs
      /\ worker \in [Procs -> Checks]
      /\ published \in Releases /\ Age[published] <= Age[published]
  <2>1. Age \in [Releases -> Nat] /\ published \in Releases
    BY ReleasesAssumption DEF TypeOK
  <2>2. Age[published] <= Age[published]
    BY <2>1
  <2> QED BY <2>1, <2>2 DEF TypeOK, Names
<1>1. ASSUME ~\E i \in Procs : Worker(i)
      PROVE  \A k \in Procs : worker'[k].step \in Busy =>
               worker[k].step \in Busy /\ worker'[k].release = worker[k].release
  BY <1>1, CheckStays
<1>2. ASSUME ~\E i \in Procs : Worker(i), published' \in Releases, Age[published] <= Age[published'],
             disk'["exe"] = disk["exe"], disk'["old"] \in {disk["old"], Nothing},
             disk'["staged"] \in {disk["staged"], Nothing},
             \A k \in Procs : pc'[k] # "off" =>
               \/ pc[k] # "off" /\ image'[k] = image[k]
               \/ Exists("exe") /\ image'[k] = disk["exe"]
      PROVE  Ordered'
  <2>1. Installed' \subseteq Installed
    BY <1>0, <1>2, InstalledShrinks
  <2> QED BY <1>1, <1>2, <2>1, StillOrdered
<1>3. CASE \E i \in Procs : Worker(i)
  <2>1. PICK i \in Procs : Worker(i)
    BY <1>3
  <2>2. UNCHANGED <<published, pc, image>> /\ disk'["exe"] = disk["exe"] /\ disk'["old"] = disk["old"]
    BY <1>0, <2>1 DEF Worker, Ask, AskFails, Download, DownloadFails, WritePartial, VerifyPartial,
                      Stage, starting, Removed, Renamed, Names
  <2>3. Installed' \subseteq Installed
    BY <1>0, <2>2, InstalledShrinks
  <2>4. \A k \in Procs : worker'[k].step \in Busy =>
          /\ \/ worker[k].step \in Busy /\ worker'[k].release = worker[k].release
             \/ worker'[k].release = published /\ Final(published)
          /\ k = i
    BY <1>0, <2>1, CheckMoves, AvailableIsFinal
  <2>5. CASE disk'["staged"] = disk["staged"]
    <3>1. CASE worker'[i].step \in Busy => worker[i].step \in Busy /\ worker'[i].release = worker[i].release
      BY <1>0, <2>2, <2>3, <2>4, <2>5, <3>1, StillOrdered
    <3>2. CASE worker'[i].release = published /\ Final(published)
      <4>1. Tops(published, Installed', published)
        BY <2>3 DEF Ordered, Tops
      <4>2. Installed' \subseteq Releases
        BY <2>3 DEF Ordered
      <4>3. Exists("staged")' =>
              /\ Tops(disk'["staged"], Installed', published) /\ Final(disk'["staged"])
              /\ Age[disk'["staged"]] <= Age[published]
        BY <2>3, <2>5 DEF Ordered, Tops, Exists
      <4>4. \A k \in Procs : worker'[k].step \in Busy => worker'[k].release = published
        BY <2>4, <3>2
      <4> QED BY <2>2, <3>2, <4>1, <4>2, <4>3, <4>4 DEF Ordered
    <3> QED BY <2>4, <3>1, <3>2
  <2>6. CASE disk'["staged"] # disk["staged"]
    <3>1. /\ worker[i].step = "stage" /\ disk'["staged"] = disk["partial"]
          /\ worker'[i] = Idle
      BY <1>0, <2>1, <2>6 DEF Worker, Ask, AskFails, Download, DownloadFails, WritePartial,
                              VerifyPartial, Stage, Removed, Renamed, Finish, Names
    <3>2. disk'["staged"] = worker[i].release /\ worker[i].step \in Busy
      BY <3>1 DEF Genuine, Busy, Steps
    <3>3. Tops(worker[i].release, Installed', published) /\ Final(worker[i].release)
      BY <2>3, <3>2 DEF Ordered, Tops
    <3>4. Installed' \subseteq Releases /\ Tops(published, Installed', published)
      BY <2>3 DEF Ordered, Tops
    <3>5. \A k \in Procs : worker'[k].step \notin Busy
      BY <2>4, <3>1 DEF Idle, Busy, Steps
    <3> QED BY <2>2, <3>2, <3>3, <3>4, <3>5 DEF Ordered
  <2> QED BY <2>5, <2>6
<1>4. CASE ~\E i \in Procs : Worker(i)
  <2>1. ASSUME NEW i \in Procs, Start(i) \/ Relaunch(i) PROVE Ordered'
    <3>1. UNCHANGED <<published, disk>>
      BY <2>1 DEF Start, Relaunch
    <3>2. \A k \in Procs : pc'[k] # "off" =>
            \/ pc[k] # "off" /\ image'[k] = image[k]
            \/ Exists("exe") /\ image'[k] = disk["exe"]
      <4>1. CASE Start(i)
        BY <1>0, <4>1 DEF Start, Launch
      <4>2. CASE Relaunch(i)
        BY <1>0, <4>2 DEF Relaunch, Launch, Goto
      <4> QED BY <2>1, <4>1, <4>2
    <3> QED BY <1>0, <1>2, <1>4, <3>1, <3>2
  <2>2. ASSUME NEW i \in Procs,
               \/ Cleanup(i) \/ Find(i) \/ VerifyStaged(i) \/ Bind(i) \/ Quit(i) \/ Leave(i) \/ Kill(i)
               \/ Tick(i, TRUE) \/ Tick(i, FALSE) \/ TimeOut(i)
        PROVE  Ordered'
    <3>1. /\ UNCHANGED published /\ disk'["exe"] = disk["exe"]
          /\ disk'["old"] \in {disk["old"], Nothing} /\ disk'["staged"] \in {disk["staged"], Nothing}
      BY <1>0, <2>2 DEF Cleanup, Find, VerifyStaged, Bind, Quit, Leave, Kill, Ended, Tick, TimeOut,
                        Removed, Names
    <3>2. \A k \in Procs : pc'[k] # "off" => pc[k] # "off" /\ image'[k] = image[k]
      BY <1>0, <2>2 DEF Cleanup, Find, VerifyStaged, Bind, Quit, Leave, Kill, Ended, Tick, TimeOut,
                        Goto, starting
    <3> QED BY <1>0, <1>2, <1>4, <3>1, <3>2
  <2>3. ASSUME NEW i \in Procs, MoveAway(i) \/ MoveIn(i) \/ MoveBack(i) PROVE Ordered'
    <3>1. /\ UNCHANGED <<published, image>> /\ \A k \in Procs : pc'[k] # "off" => pc[k] # "off"
      BY <1>0, <2>3 DEF MoveAway, MoveIn, MoveBack, Goto
    <3>2. CASE Renamed("staged", "exe") /\ Exists("staged")
      <4>1. disk'["exe"] = disk["staged"] /\ disk'["old"] = disk["old"] /\ disk'["staged"] = Nothing
        BY <1>0, <3>2 DEF Renamed, Names
      <4>2. Installed' \subseteq Installed \cup {disk["staged"]}
        BY <1>0, <3>1, <4>1 DEF Installed, Exists
      <4> QED BY <1>0, <1>1, <1>4, <3>1, <3>2, <4>1, <4>2, StillOrdered
    <3>3. CASE ~(Renamed("staged", "exe") /\ Exists("staged"))
      <4>1. UNCHANGED disk \/ Renamed("exe", "old") \/ Renamed("old", "exe")
        BY <2>3, <3>3 DEF MoveAway, MoveIn, MoveBack, MayRename
      <4>2. /\ disk'["staged"] = disk["staged"]
            /\ \A f \in {"exe", "old"} : disk'[f] = Nothing \/ \E g \in {"exe", "old"} : disk'[f] = disk[g]
        BY <1>0, <4>1 DEF Renamed, Names
      <4>3. Installed' \subseteq Installed
        BY <1>0, <3>1, <4>2, InstalledShrinks
      <4> QED BY <1>0, <1>1, <1>4, <3>1, <4>2, <4>3, StillOrdered
    <3> QED BY <3>2, <3>3
  <2>4. ASSUME NEW r \in Releases, Publish(r) PROVE Ordered'
    <3>1. Age[published] \in Nat /\ Age[r] \in Nat
      BY <1>0, ReleasesAssumption
    <3>2. published' = r /\ Age[r] > Age[published] /\ UNCHANGED <<disk, pc, image>>
      BY <1>0, <2>4 DEF Publish, starting
    <3>3. Age[published] <= Age[published']
      BY <3>1, <3>2
    <3> QED BY <1>2, <1>4, <3>2, <3>3
  <2>5. CASE UNCHANGED vars
    BY <1>0, <1>2, <1>4, <2>5 DEF vars, starting
  <2> QED BY <1>4, <2>1, <2>2, <2>3, <2>4, <2>5 DEF Next, Process, ApplyPendingUpdate
<1> QED BY <1>3, <1>4

\* The installed release is never replaced by one that was published earlier, and no
\* prerelease replaces it (OnlyUpward), as long as none is withdrawn.
THEOREM NeverBackwards ==
  ASSUME Readable, {"race", "withdraw"} \cap Faults = {}
  PROVE  Spec => OnlyUpward
<1> DEFINE Inv == Shape /\ Placed /\ Alone /\ TypeOK /\ Genuine /\ Ordered
<1>0. Readable /\ "race" \notin Faults /\ "withdraw" \notin Faults
  OBVIOUS
<1>1. Inv /\ [Next]_vars =>
        [LET r == disk'["exe"]
         IN  \A i \in Procs : pc[i] = "in" /\ pc'[i] = "relaunch" =>
                Age[r] >= Age[image[i]] /\ Spelling[r.tag].pre = "no"]_vars
  <2> SUFFICES ASSUME Inv, Next, NEW i \in Procs, pc[i] = "in", pc'[i] = "relaunch"
               PROVE  Age[disk'["exe"]] >= Age[image[i]] /\ Spelling[disk'["exe"].tag].pre = "no"
    OBVIOUS
  <2>0. DOMAIN disk = Names /\ pc \in [Procs -> Places] /\ image[i] \in Installed
    BY DEF Shape, Installed
  <2>1. MoveIn(i)
    <3>1. \A j \in Procs \ {i} : Process(j) => pc'[i] = pc[i]
      BY <2>0 DEF Process, Start, ApplyPendingUpdate, Cleanup, Find, VerifyStaged, MoveAway, MoveIn,
                  MoveBack, Relaunch, Launch, Bind, Quit, Leave, Kill, Ended, Goto, Tick, TimeOut,
                  Worker, Ask, AskFails, Download, DownloadFails, WritePartial, VerifyPartial, Stage,
                  starting
    <3>2. \A r \in Releases : Publish(r) => pc'[i] = pc[i]
      BY DEF Publish, starting
    <3>3. Process(i)
      BY <3>1, <3>2 DEF Next
    <3>4. ~(\/ Tick(i, TRUE) \/ Tick(i, FALSE) \/ TimeOut(i) \/ Worker(i))
      BY DEF Tick, TimeOut, Worker, Ask, AskFails, Download, DownloadFails, WritePartial,
             VerifyPartial, Stage, starting
    <3>5. ~(\/ Start(i) \/ Cleanup(i) \/ Find(i) \/ VerifyStaged(i) \/ MoveAway(i) \/ MoveBack(i)
            \/ Relaunch(i) \/ Bind(i) \/ Quit(i) \/ Leave(i) \/ Kill(i))
      BY <2>0 DEF Start, Cleanup, Find, VerifyStaged, MoveAway, MoveBack, Relaunch, Bind, Quit,
                  Leave, Kill, Ended
    <3> QED BY <3>3, <3>4, <3>5 DEF Process, ApplyPendingUpdate
  <2>2. Exists("staged") /\ disk'["exe"] = disk["staged"]
    BY <2>0, <2>1 DEF MoveIn, MayRename, Renamed, Goto, Names
  <2>3. Tops(disk["staged"], Installed, published) /\ Final(disk["staged"])
    BY <2>2 DEF Ordered
  <2>4. Age[disk["staged"]] \in Nat /\ Age[image[i]] \in Nat
    BY <2>0, <2>3, ReleasesAssumption DEF Tops, Ordered
  <2> QED BY <2>0, <2>2, <2>3, <2>4 DEF Tops, Final
<1>2. Init => Inv
  BY InitPlaced, InitVerified, InitTyped, InitOrdered
<1>3. Inv /\ [Next]_vars => Inv'
  BY <1>0, NextPlaced, NextAlone, NextTyped, NextGenuine, NextOrdered
<1> QED BY <1>1, <1>2, <1>3, PTL DEF Spec, OnlyUpward

\* What was put by waits for the next start, or has been installed under the process that
\* was told so, which runs on from the file that was moved away.
Holds(f, tag) == f # Nothing /\ \E r \in Releases : r.tag = tag /\ Age[f] >= Age[r]

Told ==
  \A i \in Procs : status[i].kind = "staged" =>
    /\ pc[i] # "off"
    /\ \/ Holds(disk["staged"], status[i].tag)
       \/ lies[i] = "old" /\ Holds(disk["exe"], status[i].tag)

LEMMA SaidNothing ==
  \A k \in {"unknown", "disabled", "failed", "refused", "unrecognized", "prerelease",
            "current-is-newer", "up-to-date"} : Said(k).kind # "staged"
BY DEF Said

\* Whoever was told so before and still runs from where it ran.
LEMMA StillTold ==
  ASSUME Told, disk'["exe"] = disk["exe"], disk'["staged"] = disk["staged"],
         \A k \in Procs : status'[k].kind = "staged" =>
           status'[k] = status[k] /\ pc'[k] # "off" /\ lies'[k] = lies[k]
  PROVE  Told'
BY DEF Told

LEMMA ApplyTold ==
  ASSUME Shape, Placed, Verified, Told, NEW i \in Procs, ApplyPendingUpdate(i)
  PROVE  Told'
<1>0. /\ DOMAIN disk = Names /\ pc \in [Procs -> Places] /\ lies \in [Procs -> {"exe", "old"}]
      /\ UNCHANGED status
  BY DEF Shape, ApplyPendingUpdate, Cleanup, Find, VerifyStaged, MoveAway, MoveIn, MoveBack, checking
<1>1. \A k \in Procs : pc[k] # "off" => pc'[k] # "off"
  BY <1>0 DEF ApplyPendingUpdate, Cleanup, Find, VerifyStaged, MoveAway, MoveIn, MoveBack, Goto
<1>2. CASE UNCHANGED lies /\ disk'["exe"] = disk["exe"] /\ disk'["staged"] = disk["staged"]
  BY <1>0, <1>1, <1>2, StillTold DEF Told
<1>3. CASE Cleanup(i) \/ Find(i)
  BY <1>0, <1>2, <1>3 DEF Cleanup, Find, Goto, Removed, Names
<1>4. CASE VerifyStaged(i)
  <2>1. UNCHANGED disk \/ disk["staged"] = Nothing
    BY <1>4 DEF VerifyStaged, Verified, Exists, Names
  <2> QED BY <1>0, <1>2, <1>4, <2>1 DEF VerifyStaged, Goto, Removed, Names
<1>5. CASE MoveAway(i) /\ pc' = [pc EXCEPT ![i] = "in"]
  <2>1. MayRename("exe", "old") /\ Renamed("exe", "old") /\ ImagesMove("exe", "old")
    BY <1>0, <1>5 DEF MoveAway, Goto
  <2>2. \A k \in Procs : pc[k] # "off" => lies[k] # "old"
    BY <2>1 DEF MayRename, Placed, Mapped
  <2>3. disk'["staged"] = disk["staged"]
    BY <1>0, <2>1 DEF Renamed, Names
  <2> QED BY <1>0, <1>1, <2>2, <2>3 DEF Told
<1>6. CASE MoveIn(i) /\ Renamed("staged", "exe") /\ Exists("staged")
  <2>1. disk'["exe"] = disk["staged"] /\ UNCHANGED lies
    BY <1>0, <1>6 DEF MoveIn, Renamed, Goto, Names
  <2>2. \A k \in Procs : pc[k] # "off" => lies[k] = "old"
    BY <1>0, <1>6 DEF MoveIn, Placed, Swapping
  <2>3. disk["exe"] = Nothing
    BY <1>6 DEF MoveIn, Placed, Swapping, Exists
  <2> QED BY <1>0, <1>1, <2>1, <2>2, <2>3 DEF Told, Holds
<1>7. CASE MoveBack(i) /\ Renamed("old", "exe")
  <2>1. disk["exe"] = Nothing /\ disk'["staged"] = disk["staged"]
    BY <1>0, <1>7 DEF MoveBack, Placed, Swapping, Exists, Renamed, Names
  <2> QED BY <1>0, <1>1, <2>1 DEF Told, Holds
<1> QED
  BY <1>0, <1>2, <1>3, <1>4, <1>5, <1>6, <1>7
     DEF ApplyPendingUpdate, MoveAway, MoveIn, MoveBack, MayRename, Goto

LEMMA WorkerTold ==
  ASSUME Readable, Shape, TypeOK, Alone, Genuine, Ordered, Told, NEW i \in Procs, Worker(i)
  PROVE  Told'
<1>0. /\ DOMAIN disk = Names /\ UNCHANGED starting /\ disk'["exe"] = disk["exe"]
      /\ DOMAIN status = Procs /\ DOMAIN worker = Procs
  <2>1. DOMAIN disk = Names
    BY DEF Shape
  <2>2. UNCHANGED starting /\ disk'["exe"] = disk["exe"]
    BY <2>1 DEF Worker, Ask, AskFails, Download, DownloadFails, WritePartial, VerifyPartial, Stage,
                Removed, Renamed, Names
  <2> QED BY <2>1, <2>2 DEF TypeOK
<1>1. ASSUME disk'["staged"] = disk["staged"], NEW k \in {"failed", "refused", "unrecognized",
             "prerelease", "current-is-newer", "up-to-date"}, Finish(i, Said(k))
      PROVE  Told'
  <2>1. Said(k).kind # "staged"
    BY SaidNothing
  <2>2. \A j \in Procs : status'[j] = status[j] \/ status'[j].kind # "staged"
    BY <1>0, <1>1, <2>1 DEF Finish
  <2> QED BY <1>0, <1>1, <2>2, StillTold DEF starting, Told
<1>2. ASSUME disk'["staged"] = disk["staged"], UNCHANGED status PROVE Told'
  BY <1>0, <1>2, StillTold DEF starting, Told
<1>3. CASE Ask(i)
  <2>1. disk'["staged"] = disk["staged"]
    BY <1>3 DEF Ask
  <2> QED BY <1>1, <1>2, <1>3, <2>1, AskFinds
<1>4. CASE AskFails(i) \/ DownloadFails(i)
  BY <1>0, <1>1, <1>4 DEF AskFails, DownloadFails, Removed, Names
<1>5. CASE Download(i) \/ WritePartial(i)
  BY <1>0, <1>2, <1>5 DEF Download, WritePartial, Step, Names
<1>6. CASE VerifyPartial(i)
  BY <1>0, <1>1, <1>2, <1>6 DEF VerifyPartial, Step, Removed, Names
<1>7. CASE Stage(i)
  <2>1. CASE Removed("partial") /\ Finish(i, Said("failed"))
    BY <1>0, <1>1, <2>1 DEF Removed, Names
  <2>2. CASE Renamed("partial", "staged") /\ Finish(i, StagedFor(worker[i].release.tag))
    <3> DEFINE r == worker[i].release
    <3>1. worker[i].step \in Busy /\ worker[i].step = "stage"
      BY <1>7 DEF Stage, Busy, Steps
    <3>2. disk'["staged"] = r /\ r \in Releases /\ Age[r] \in Nat
      <4>1. disk'["staged"] = disk["partial"]
        BY <1>0, <2>2 DEF Renamed, Names
      <4>2. disk["partial"] = r /\ r \in Releases
        BY <3>1 DEF Genuine, Ordered, Tops
      <4> QED BY <4>1, <4>2, ReleasesAssumption
    <3>3. disk'["staged"] # Nothing
      BY <3>2, NothingIsNoRelease
    <3>4. \A tag : Holds(disk["staged"], tag) => Holds(disk'["staged"], tag)
      <4> SUFFICES ASSUME NEW tag, Holds(disk["staged"], tag) PROVE Holds(disk'["staged"], tag)
        OBVIOUS
      <4>1. Exists("staged") /\ disk["staged"] \in Releases
        BY DEF Holds, Exists, Genuine, Names
      <4>2. Age[disk["staged"]] <= Age[r]
        BY <3>1, <4>1 DEF Ordered
      <4>3. PICK q \in Releases : q.tag = tag /\ Age[disk["staged"]] >= Age[q]
        BY DEF Holds
      <4>4. Age[q] \in Nat /\ Age[disk["staged"]] \in Nat
        BY <4>1, ReleasesAssumption
      <4>5. Age[r] >= Age[q]
        BY <3>2, <4>2, <4>3, <4>4
      <4> QED BY <3>2, <3>3, <4>3, <4>5 DEF Holds
    <3>5. Holds(disk'["staged"], r.tag)
      BY <3>2, <3>3 DEF Holds
    <3>6. /\ waiting[i] => pc[i] # "off"
          /\ StagedFor(r.tag).tag = r.tag
      BY DEF TypeOK, StagedFor
    <3>7. \A k \in Procs : status'[k] = status[k] \/ (k = i /\ waiting[i] /\ status'[k] = StagedFor(r.tag))
      BY <1>0, <2>2 DEF Finish
    <3>8. UNCHANGED <<pc, lies>>
      BY <1>0 DEF starting
    <3> HIDE DEF r
    <3>9. ASSUME NEW k \in Procs, status'[k].kind = "staged"
          PROVE  /\ pc'[k] # "off"
                 /\ \/ Holds(disk'["staged"], status'[k].tag)
                    \/ lies'[k] = "old" /\ Holds(disk'["exe"], status'[k].tag)
      <4>1. CASE status'[k] = status[k]
        BY <1>0, <3>4, <3>8, <3>9, <4>1 DEF Told
      <4>2. CASE k = i /\ waiting[i] /\ status'[k] = StagedFor(r.tag)
        BY <3>5, <3>6, <3>8, <4>2
      <4> QED BY <3>7, <4>1, <4>2
    <3> QED BY <3>9 DEF Told
  <2> QED BY <1>7, <2>1, <2>2 DEF Stage
<1> QED BY <1>3, <1>4, <1>5, <1>6, <1>7 DEF Worker

LEMMA NextTold ==
  Readable /\ Shape /\ Placed /\ Verified /\ TypeOK /\ Alone /\ Genuine /\ Ordered /\ Told /\ [Next]_vars
  => Told'
<1> SUFFICES ASSUME Readable, Shape, Placed, Verified, TypeOK, Alone, Genuine, Ordered, Told, [Next]_vars
             PROVE  Told'
  OBVIOUS
<1>0. DOMAIN status = Procs /\ pc \in [Procs -> Places] /\ DOMAIN lies = Procs
  BY DEF TypeOK
<1>1. ASSUME UNCHANGED disk,
             \A k \in Procs : status'[k].kind = "staged" /\ status[k].kind = "staged" /\ pc[k] # "off" =>
               pc'[k] # "off" /\ lies'[k] = lies[k],
             \A k \in Procs : status'[k] = status[k] \/ status'[k].kind # "staged"
      PROVE  Told'
  <2>1. \A k \in Procs : status'[k].kind = "staged" =>
          status'[k] = status[k] /\ pc'[k] # "off" /\ lies'[k] = lies[k]
    BY <1>1 DEF Told
  <2> QED BY <1>1, <2>1, StillTold
<1>2. Said("unknown").kind # "staged" /\ Said("disabled").kind # "staged" /\ Said("failed").kind # "staged"
  BY SaidNothing
<1>3. ASSUME NEW i \in Procs, Start(i) PROVE Told'
  BY <1>0, <1>1, <1>2, <1>3 DEF Start, Launch
<1>4. ASSUME NEW i \in Procs, Relaunch(i) PROVE Told'
  <2>1. CASE Goto(i, "bind") /\ UNCHANGED status
    BY <1>0, <1>1, <1>4, <2>1 DEF Relaunch, Goto
  <2>2. CASE ~(Goto(i, "bind") /\ UNCHANGED status)
    <3>1. PICK j \in Procs : Launch(j, pc) \/ Launch(j, [pc EXCEPT ![i] = "leaving"])
      BY <1>4, <2>2 DEF Relaunch
    <3>2. UNCHANGED disk
      BY <1>4 DEF Relaunch
    <3> QED BY <1>0, <1>1, <1>2, <3>1, <3>2 DEF Launch
  <2> QED BY <2>1, <2>2
<1>5. ASSUME NEW i \in Procs,
             \/ Bind(i) \/ Quit(i) \/ Leave(i) \/ Kill(i)
             \/ Tick(i, TRUE) \/ Tick(i, FALSE) \/ TimeOut(i)
      PROVE  Told'
  BY <1>0, <1>1, <1>2, <1>5
     DEF Bind, Quit, Leave, Kill, Ended, Goto, Tick, TimeOut, starting, checking
<1>6. ASSUME NEW r \in Releases, Publish(r) PROVE Told'
  BY <1>1, <1>6 DEF Publish, starting, checking
<1>7. CASE UNCHANGED vars
  BY <1>1, <1>7 DEF vars, starting, checking
<1> QED
  BY <1>3, <1>4, <1>5, <1>6, <1>7, ApplyTold, WorkerTold DEF Next, Process

\* Who reads that an update is put by finds it, or a later one (StatusIsHonest): the file
\* that was announced is nowhere but in its place, or under the name of the executable.
THEOREM AnnouncedIsThere ==
  ASSUME Readable, {"race", "withdraw"} \cap Faults = {}
  PROVE  Spec => []StatusIsHonest
<1> DEFINE Inv == Shape /\ Placed /\ Alone /\ Verified /\ TypeOK /\ Genuine /\ Ordered /\ Told
<1>0. Readable /\ "race" \notin Faults /\ "withdraw" \notin Faults
  OBVIOUS
<1>1. Inv => StatusIsHonest
  <2> SUFFICES ASSUME Inv, NEW i \in Procs, status[i].kind = "staged"
               PROVE  \E file \in {"staged", "exe"} :
                        /\ Exists(file) /\ disk[file].signed
                        /\ \E r \in Releases : r.tag = status[i].tag /\ Age[disk[file]] >= Age[r]
    BY DEF StatusIsHonest
  <2>1. PICK file \in {"staged", "exe"} : Holds(disk[file], status[i].tag)
    BY DEF Told
  <2> QED BY <2>1 DEF Holds, Exists, Verified, Names
<1>2. Init => Inv
  <2>1. Init => Told
    BY SaidNothing DEF Init, Told
  <2> QED BY <2>1, InitPlaced, InitVerified, InitTyped, InitOrdered
<1>3. Inv /\ [Next]_vars => Inv'
  BY <1>0, NextPlaced, NextAlone, NextVerified, NextTyped, NextGenuine, NextOrdered, NextTold
<1> QED BY <1>1, <1>2, <1>3, PTL DEF Spec

-----------------------------------------------------------------------------
(* One upgrade after the other.                                            *)

\* What is installed lies under its own name or, during the exchange, under the other one,
\* where it can be neither removed nor replaced.
LEMMA AlwaysInstalled ==
  ASSUME Shape, Placed, ExecutableSurvives
  PROVE  /\ ~Exists("exe") => Exists("old") /\ Mapped("old")
         /\ InstalledRelease \in Installed
<1>1. ASSUME ~Exists("exe") PROVE Exists("old") /\ Mapped("old")
  <2>1. PICK i \in Procs : Swapping(i)
    BY <1>1 DEF ExecutableSurvives, Swapping
  <2>2. pc[i] # "off" /\ lies[i] = "old"
    BY <2>1 DEF Placed, Swapping
  <2> QED BY <2>2 DEF Placed, Mapped
<1> QED BY <1>1 DEF InstalledRelease, Installed, Exists

\* A step that leaves the three files and what is published alone.
LEMMA NothingUpgraded ==
  ASSUME InstalledRelease' = InstalledRelease, disk'["staged"] = disk["staged"],
         UNCHANGED published
  PROVE  [U!Next]_U!vars
  BY DEF U!vars

LEMMA FilesUpgraded ==
  ASSUME Shape, Placed, Verified, ExecutableSurvives, NEW i \in Procs, ApplyPendingUpdate(i)
  PROVE  [U!Next]_U!vars
<1>0. /\ DOMAIN disk = Names /\ UNCHANGED published
      /\ \A f \in Names : Exists(f) <=> disk[f] # Nothing
  BY DEF Shape, ApplyPendingUpdate, Cleanup, Find, VerifyStaged, MoveAway, MoveIn, MoveBack, Exists
<1>1. CASE UNCHANGED disk
  BY <1>0, <1>1, NothingUpgraded DEF InstalledRelease, Exists
<1>2. CASE Cleanup(i) /\ ~Mapped("old") /\ Removed("old")
  <2>1. Exists("exe") /\ disk'["exe"] = disk["exe"] /\ disk'["staged"] = disk["staged"]
    BY <1>0, <1>2, AlwaysInstalled DEF Removed, Names
  <2> QED BY <1>0, <2>1, NothingUpgraded DEF InstalledRelease, Exists
<1>3. CASE VerifyStaged(i) /\ Removed("staged")
  <2>1. UNCHANGED disk \/ disk["staged"] = Nothing
    BY <1>0, <1>3 DEF VerifyStaged, Verified, Exists, Names
  <2>2. \A f \in Names : disk'[f] = disk[f]
    BY <1>0, <1>3, <2>1 DEF Removed, Names
  <2> QED BY <1>0, <2>2, NothingUpgraded DEF InstalledRelease, Exists, Names
<1>4. CASE MayRename("exe", "old") /\ Renamed("exe", "old")
  <2>1. /\ Exists("exe") /\ disk'["exe"] = Nothing /\ disk'["old"] = disk["exe"]
        /\ disk'["staged"] = disk["staged"]
    BY <1>0, <1>4 DEF MayRename, Renamed, Names
  <2> QED BY <1>0, <2>1, NothingUpgraded DEF InstalledRelease, Exists
<1>5. CASE MayRename("staged", "exe") /\ Renamed("staged", "exe")
  <2>1. /\ disk["staged"] # Nothing /\ disk'["exe"] = disk["staged"] /\ disk'["staged"] = Nothing
    BY <1>0, <1>5 DEF MayRename, Renamed, Names
  <2> QED BY <1>0, <2>1 DEF InstalledRelease, Exists, U!Next, U!Install
<1>6. CASE MoveBack(i) /\ Renamed("old", "exe")
  <2>1. ~Exists("exe")
    BY <1>6 DEF MoveBack, Placed, Swapping
  <2>2. /\ disk["old"] # Nothing /\ disk'["exe"] = disk["old"] /\ disk'["staged"] = disk["staged"]
    BY <1>0, <1>6, <2>1, AlwaysInstalled DEF Renamed, Names
  <2> QED BY <1>0, <2>1, <2>2, NothingUpgraded DEF InstalledRelease, Exists
<1> QED
  BY <1>1, <1>2, <1>3, <1>4, <1>5, <1>6
     DEF ApplyPendingUpdate, Cleanup, Find, VerifyStaged, MoveAway, MoveIn, MoveBack

LEMMA WorkerUpgrades ==
  ASSUME Shape, Placed, ExecutableSurvives, TypeOK, Alone, Genuine, Ordered,
         NEW i \in Procs, Worker(i)
  PROVE  [U!Next]_U!vars
<1>0. /\ DOMAIN disk = Names /\ UNCHANGED published
      /\ disk'["exe"] = disk["exe"] /\ disk'["old"] = disk["old"]
  <2>1. DOMAIN disk = Names
    BY DEF Shape
  <2> QED BY <2>1 DEF Worker, Ask, AskFails, Download, DownloadFails, WritePartial, VerifyPartial, Stage,
                      starting, Removed, Renamed, Names
<1>1. InstalledRelease' = InstalledRelease
  BY <1>0 DEF InstalledRelease, Exists
<1>2. CASE disk'["staged"] = disk["staged"]
  BY <1>0, <1>1, <1>2, NothingUpgraded
<1>3. CASE disk'["staged"] # disk["staged"]
  <2> DEFINE r == worker[i].release
  <2>1. worker[i].step = "stage" /\ disk'["staged"] = disk["partial"]
    BY <1>0, <1>3 DEF Worker, Ask, AskFails, Download, DownloadFails, WritePartial, VerifyPartial,
                      Stage, Removed, Renamed, Names
  <2>2. disk["partial"] = r /\ r.signed /\ worker[i].step \in Busy
    BY <2>1 DEF Genuine, Alone, Busy, Steps
  <2>3. /\ Tops(r, Installed, published) /\ Final(r)
        /\ Exists("staged") => Age[disk["staged"]] <= Age[r]
    BY <2>2 DEF Ordered
  <2>4. /\ r \in Releases /\ Age[InstalledRelease] <= Age[r] /\ Age[r] <= Age[published]
        /\ disk["staged"] # Nothing => Age[disk["staged"]] <= Age[r]
    BY <2>3, AlwaysInstalled DEF Tops, Exists
  <2> HIDE DEF r
  <2>5. U!PutBy(r)
    BY <1>0, <1>1, <2>1, <2>2, <2>3, <2>4 DEF U!PutBy, Final
  <2> QED BY <2>4, <2>5 DEF U!Next
<1> QED BY <1>2, <1>3

LEMMA StepUpgrades ==
  ASSUME "withdraw" \notin Faults
  PROVE  Shape /\ Placed /\ Verified /\ ExecutableSurvives /\ TypeOK /\ Alone /\ Genuine /\ Ordered
         /\ [Next]_vars => [U!Next]_U!vars
<1> SUFFICES ASSUME Shape, Placed, Verified, ExecutableSurvives, TypeOK, Alone, Genuine, Ordered,
                    [Next]_vars
             PROVE  [U!Next]_U!vars
  OBVIOUS
<1>1. ASSUME NEW i \in Procs,
             \/ Start(i) \/ Relaunch(i) \/ Bind(i) \/ Quit(i) \/ Leave(i) \/ Kill(i)
             \/ Tick(i, TRUE) \/ Tick(i, FALSE) \/ TimeOut(i)
      PROVE  [U!Next]_U!vars
  <2>1. UNCHANGED <<disk, published>>
    BY <1>1 DEF Start, Relaunch, Bind, Quit, Leave, Kill, Ended, Tick, TimeOut
  <2> QED BY <2>1, NothingUpgraded DEF InstalledRelease, Exists
<1>2. ASSUME NEW r \in Releases, Publish(r) PROVE [U!Next]_U!vars
  <2>1. Age[r] > Age[published] /\ published' = r /\ UNCHANGED disk
    BY <1>2 DEF Publish
  <2> QED BY <2>1 DEF InstalledRelease, Exists, U!Next, U!Release
<1>3. CASE UNCHANGED vars
  BY <1>3, NothingUpgraded DEF vars, InstalledRelease, Exists
<1> QED BY <1>1, <1>2, <1>3, FilesUpgraded, WorkerUpgrades DEF Next, Process

\* Refinement: all processes with all their files do one upgrade after the other
\* (UpgradesInOrder), whoever is killed outside the exchange and whatever else fails.
THEOREM OneUpgradeAfterTheOther ==
  ASSUME Readable, Undone, {"race", "withdraw"} \cap Faults = {}
  PROVE  Spec => UpgradesInOrder
<1> DEFINE Inv == /\ Shape /\ Placed /\ Verified /\ ExecutableSurvives
                  /\ TypeOK /\ Alone /\ Genuine /\ Ordered
<1>0. Readable /\ Undone /\ "race" \notin Faults /\ "withdraw" \notin Faults
  OBVIOUS
<1>1. Init => Inv /\ U!Init
  <2>1. First # Nothing /\ First \in Releases
    BY ReleasesAssumption, NothingIsNoRelease
  <2>2. Init => ExecutableSurvives
    BY <2>1 DEF Init, ExecutableSurvives, Exists
  <2>3. Init => U!Init
    BY <2>1 DEF Init, U!Init, InstalledRelease, Exists
  <2> QED BY <2>2, <2>3, InitPlaced, InitVerified, InitTyped, InitOrdered
<1>2. Inv /\ [Next]_vars => Inv'
  BY <1>0, NextPlaced, NextAlone, NextVerified, NextTyped, NextGenuine, NextOrdered, StillStartable
<1>3. Inv /\ [Next]_vars => [U!Next]_U!vars
  BY <1>0, StepUpgrades
<1> QED BY <1>1, <1>2, <1>3, PTL DEF Spec, UpgradesInOrder, U!Spec
===============================================================================
