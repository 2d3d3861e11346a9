-------------------------------- MODULE Update --------------------------------
(***************************************************************************)
(* How ProxyPilot replaces itself (app/src/update): a check in the         *)
(* background asks GitHub for the latest release, downloads the executable *)
(* and, its signature verified, puts it beside the running one; the next   *)
(* start verifies it again, exchanges the two files by two renames and     *)
(* starts the new one.                                                     *)
(*                                                                         *)
(* Several processes may be about: a second click on the icon goes through *)
(* the same start before it finds the port taken, and a process that quits *)
(* waits for a check it cannot cancel.  The files outlive all of them.     *)
(* Windows lets a running executable be renamed but neither removed nor    *)
(* replaced.                                                               *)
(***************************************************************************)
EXTENDS Json

CONSTANTS
  Procs,     \* processes of ProxyPilot; one that has ended may start again
  Releases,  \* what may be published: a tag, an address, a file
  Spelling,  \* how a tag is spelt: its dotted parts and what follows the hyphen
  Age,       \* Age[r]: the order in which the releases are published
  First,     \* the release that is installed to begin with
  Asset,     \* ASSET_NAME
  MaxBody,   \* MAX_DOWNLOAD_BYTES
  Faults     \* which faults of the environment this instance allows

AllFaults ==
  { "kill",          \* a process is killed outside the exchange
    "kill-in-swap",  \* ... between the two renames
    "rename",        \* a rename fails that nothing stands in the way of
    "rollback",      \* ... the one that takes the first of the two back
    "spawn",         \* the new executable does not start
    "unlink",        \* the backup cannot be removed
    "slow",          \* a check does not end in time
    "race",          \* two checks at once, of a process and of its predecessor
    "withdraw" }     \* a release is withdrawn and an older one is the latest again

ASSUME ReleasesAssumption ==
  /\ Releases \subseteq [tag : Strings, url : Strings, signed : BOOLEAN, size : Nat]
  /\ Age \in [Releases -> Nat]
  /\ First \in Releases /\ First.signed
  /\ Spelling \in [{r.tag : r \in Releases} -> [parts : Seq(Nat), pre : {"no", "", "rc"}]]
ASSUME UpdateFaultsAssumption == Faults \subseteq AllFaults

-----------------------------------------------------------------------------
(* version.rs.                                                             *)

\* What if the suffix were cut off and forgotten?
ParseTag_NoSuffix(tag) ==
  LET s == Spelling[tag]
  IN  IF Len(s.parts) = 3
      THEN [major |-> s.parts[1], minor |-> s.parts[2], patch |-> s.parts[3], pre |-> "no"]
      ELSE Nothing

\* Three numbers exactly, and no hyphen without something behind it.
ParseTag(tag) ==
  LET s == Spelling[tag]
  IN  IF Len(s.parts) = 3 /\ s.pre # ""
      THEN [major |-> s.parts[1], minor |-> s.parts[2], patch |-> s.parts[3], pre |-> s.pre]
      ELSE Nothing

\* What if the versions were compared from the last number on?
Newer_Backwards(a, b) ==
  \/ a.patch > b.patch
  \/ a.patch = b.patch /\ a.minor > b.minor
  \/ a.patch = b.patch /\ a.minor = b.minor /\ a.major > b.major

\* Version::cmp = Greater.  Two prereleases are never compared: `decide' has
\* turned the published one down before.
Newer(a, b) ==
  \/ a.major > b.major
  \/ a.major = b.major /\ a.minor > b.minor
  \/ a.major = b.major /\ a.minor = b.minor /\ a.patch > b.patch
  \/ /\ a.major = b.major /\ a.minor = b.minor /\ a.patch = b.patch
     /\ a.pre = "no" /\ b.pre # "no"

Decide(current, tag) ==
  LET cur == ParseTag(current)
      published == ParseTag(tag)
  IN  CASE cur = Nothing \/ published = Nothing -> "unrecognized"
        [] cur # Nothing /\ published # Nothing /\ published.pre # "no" -> "prerelease"
        [] cur # Nothing /\ published # Nothing /\ published.pre = "no" ->
             IF Newer(published, cur) THEN "available"
             ELSE IF Newer(cur, published) THEN "current-is-newer" ELSE "up-to-date"

-----------------------------------------------------------------------------
(* source.rs.                                                              *)

\* A request of WinHTTP that does not fail: the status, and the body unless it
\* passes the limit.
Request(status, size, limit) ==
  IF size > limit THEN Nothing ELSE [status |-> status, size |-> size]

\* get_https and download_https: nothing but 200 will do.
Fetched(status, size, limit) == Request(status, size, limit) = [status |-> 200, size |-> size]

\* What GitHub says of release r: members in any order, other assets as well.
Answer(r) ==
  LET Member(key, value) == <<key, ":">> \o value
      Asset1(name, url) == <<"{">> \o Member("name", <<name>>) \o <<",">>
                           \o Member("browser_download_url", <<url>>) \o <<"}">>
  IN  <<"{">> \o Member("assets", <<"[">> \o Asset1("other", "other") \o <<",", " ">>
                                  \o Asset1(Asset, r.url) \o <<"]">>)
      \o <<",", " ">> \o Member("tag_name", <<r.tag>>) \o <<"}">>

\* latest_release.
Latest == [r \in Releases |-> ParseReleaseResponse(Answer(r), Asset)]

ReleaseAt(url) == CHOOSE r \in Releases : r.url = url

\* Whatever is read of an answer names the release it is about, whose file lies under an
\* address of its own.
Readable ==
  \A r \in Releases : \A info \in {Latest[r]} \ {Nothing} :
    info.tag = r.tag /\ ReleaseAt(info.url) = r

-----------------------------------------------------------------------------
VARIABLES
  published,  \* the release GitHub calls the latest
  disk,       \* the four files: exe, old, staged, partial
  pc,         \* pc[i]: where the main thread of process i is
  image,      \* image[i]: the release process i runs
  lies,       \* lies[i]: the file its image lies in now
  worker,     \* worker[i]: the check in the background
  waiting,    \* waiting[i]: `check::run' awaits the worker
  status      \* status[i]: what the settings page says of the last check

starting == <<pc, image, lies>>
checking == <<worker, waiting, status>>
vars == <<published, disk, starting, checking>>

Torn(r) == [r EXCEPT !.signed = FALSE]
Files == Releases \cup {Torn(r) : r \in Releases} \cup {Nothing}
Places == {"off", "cleanup", "find", "verify", "away", "in", "back", "relaunch",
           "bind", "run", "leaving"}
Steps == {"ask", "download", "write", "verify", "stage"}
Idle == [step |-> "idle"]
Work(step, r) == [step |-> step, release |-> r]
Checks == {Idle} \cup {Work(s, r) : s \in Steps, r \in Releases}
Said(kind) == [kind |-> kind]
StagedFor(tag) == [kind |-> "staged", tag |-> tag]
Outcomes == {Said(k) : k \in {"unknown", "disabled", "up-to-date", "current-is-newer",
                              "prerelease", "unrecognized", "failed", "refused"}}
            \cup {StagedFor(r.tag) : r \in Releases}

TypeOK ==
  /\ published \in Releases
  /\ disk \in [{"exe", "old", "staged", "partial"} -> Files]
  /\ pc \in [Procs -> Places]
  /\ image \in [Procs -> Releases \cup {Nothing}]
  /\ lies \in [Procs -> {"exe", "old"}]
  /\ worker \in [Procs -> Checks]
  /\ waiting \in [Procs -> BOOLEAN]
  /\ status \in [Procs -> Outcomes]
  /\ \A i \in Procs : /\ (image[i] = Nothing) = (pc[i] = "off")
                      /\ waiting[i] => pc[i] = "run" /\ worker[i] # Idle
                      /\ worker[i] # Idle => pc[i] \in {"run", "leaving"}

-----------------------------------------------------------------------------
(* The files.                                                              *)

Exists(file) == disk[file] # Nothing

Mapped(file) == \E i \in Procs : pc[i] # "off" /\ lies[i] = file

\* rename replaces what is there, unless it is running.
MayRename(from, to) == Exists(from) /\ (Exists(to) => ~Mapped(to))

Renamed(from, to) == disk' = [disk EXCEPT ![to] = disk[from], ![from] = Nothing]

\* The images of the processes that run from the file move with it.
ImagesMove(from, to) ==
  lies' = [i \in Procs |-> IF pc[i] # "off" /\ lies[i] = from THEN to ELSE lies[i]]

\* Whether what may succeed does.
Luck(fault) == IF fault \in Faults THEN BOOLEAN ELSE {TRUE}

Removed(file) == disk' = [disk EXCEPT ![file] = Nothing]

Goto(i, place) == pc' = [pc EXCEPT ![i] = place] /\ UNCHANGED <<image, lies>>

-----------------------------------------------------------------------------
(* A start, up to the port.                                                *)

Launch(j, gone) ==
  /\ pc' = [gone EXCEPT ![j] = "cleanup"]
  /\ image' = [image EXCEPT ![j] = disk["exe"]]
  /\ lies' = [lies EXCEPT ![j] = "exe"]
  /\ status' = [status EXCEPT ![j] = Said("unknown")]

\* Somebody starts ProxyPilot, whether it runs already or not.
Start(i) ==
  /\ pc[i] = "off" /\ Exists("exe")
  /\ Launch(i, pc)
  /\ UNCHANGED <<published, disk, worker, waiting>>

\* cleanup_stale_backup: silent when it fails.
Cleanup(i) ==
  /\ pc[i] = "cleanup"
  /\ \E ok \in Luck("unlink") :
       IF ok /\ ~Mapped("old") THEN Removed("old") ELSE UNCHANGED disk
  /\ Goto(i, "find")
  /\ UNCHANGED <<published, checking>>

Find(i) ==
  /\ pc[i] = "find"
  /\ Goto(i, IF Exists("staged") THEN "verify" ELSE "bind")
  /\ UNCHANGED <<published, disk, checking>>

\* The second verification: a file that fails it is removed.
VerifyStaged(i) ==
  /\ pc[i] = "verify"
  /\ IF Exists("staged") /\ disk["staged"].signed
     THEN Goto(i, "away") /\ UNCHANGED disk
     ELSE Goto(i, "bind") /\ Removed("staged")
  /\ UNCHANGED <<published, checking>>

\* exe becomes exe.old.
MoveAway(i) ==
  /\ pc[i] = "away"
  /\ \E ok \in Luck("rename") :
       IF ok /\ MayRename("exe", "old")
       THEN /\ Renamed("exe", "old") /\ ImagesMove("exe", "old")
            /\ pc' = [pc EXCEPT ![i] = "in"] /\ UNCHANGED image
       ELSE Goto(i, "bind") /\ UNCHANGED disk
  /\ UNCHANGED <<published, checking>>

\* What if the downloaded file itself were moved in?
MoveIn_Partial(i) ==
  /\ pc[i] = "in"
  /\ IF Exists("partial")
     THEN Renamed("partial", "exe") /\ Goto(i, "relaunch")
     ELSE Goto(i, "back") /\ UNCHANGED disk
  /\ UNCHANGED <<published, checking>>

\* staged.exe becomes exe.
MoveIn(i) ==
  /\ pc[i] = "in"
  /\ \E ok \in Luck("rename") :
       IF ok /\ MayRename("staged", "exe")
       THEN Renamed("staged", "exe") /\ Goto(i, "relaunch")
       ELSE Goto(i, "back") /\ UNCHANGED disk
  /\ UNCHANGED <<published, checking>>

\* What if a failed second rename were only reported?
MoveBack_Reported(i) ==
  /\ pc[i] = "back"
  /\ Goto(i, "bind")
  /\ UNCHANGED <<published, disk, checking>>

\* The rollback: exe.old becomes exe again.
MoveBack(i) ==
  /\ pc[i] = "back"
  /\ \E ok \in Luck("rollback") :
       IF ok /\ MayRename("old", "exe")
       THEN /\ Renamed("old", "exe") /\ ImagesMove("old", "exe")
            /\ pc' = [pc EXCEPT ![i] = "bind"] /\ UNCHANGED image
       ELSE Goto(i, "bind") /\ UNCHANGED disk
  /\ UNCHANGED <<published, checking>>

\* relaunch: the new process starts, before or after this one has gone; when it
\* does not start, this one goes on with the old image in memory.
Relaunch(i) ==
  /\ pc[i] = "relaunch"
  /\ \E ok \in Luck("spawn") :
       IF ok /\ Exists("exe")
       THEN \E j \in Procs :
              \/ j = i /\ Launch(j, pc)
              \/ pc[j] = "off" /\ Launch(j, [pc EXCEPT ![i] = "leaving"])
       ELSE Goto(i, "bind") /\ UNCHANGED status
  /\ UNCHANGED <<published, disk, worker, waiting>>

\* One process holds the port; the others report the failure and end.
Bind(i) ==
  /\ pc[i] = "bind"
  /\ IF \E j \in Procs : pc[j] = "run"
     THEN Goto(i, "leaving") ELSE Goto(i, "run")
  /\ UNCHANGED <<published, disk, checking>>

-----------------------------------------------------------------------------
(* The end of a process.                                                   *)

Quit(i) ==
  /\ pc[i] = "run"
  /\ Goto(i, "leaving")
  /\ waiting' = [waiting EXCEPT ![i] = FALSE]
  /\ UNCHANGED <<published, disk, worker, status>>

Ended(i) ==
  /\ pc' = [pc EXCEPT ![i] = "off"]
  /\ image' = [image EXCEPT ![i] = Nothing]
  /\ lies' = [lies EXCEPT ![i] = "exe"]
  /\ worker' = [worker EXCEPT ![i] = Idle]
  /\ waiting' = [waiting EXCEPT ![i] = FALSE]
  /\ status' = [status EXCEPT ![i] = Said("unknown")]
  /\ UNCHANGED <<published, disk>>

\* The runtime is dropped last and waits for the thread of the check.
Leave(i) == pc[i] = "leaving" /\ worker[i] = Idle /\ Ended(i)

Kill(i) ==
  /\ pc[i] # "off"
  /\ (IF pc[i] \in {"in", "back"} THEN "kill-in-swap" ELSE "kill") \in Faults
  /\ Ended(i)

-----------------------------------------------------------------------------
(* The check: spawn_update_check, check::run and its worker.               *)

Step(i, step) == worker' = [worker EXCEPT ![i].step = step] /\ UNCHANGED <<waiting, status>>

\* The worker is done; nobody may be waiting for what it found.
Finish(i, outcome) ==
  /\ worker' = [worker EXCEPT ![i] = Idle]
  /\ waiting' = [waiting EXCEPT ![i] = FALSE]
  /\ status' = [status EXCEPT ![i] = IF waiting[i] THEN outcome ELSE @]

\* The timer: the switch is read anew each time.
Tick(i, enabled) ==
  /\ pc[i] = "run" /\ worker[i] = Idle
  /\ "race" \in Faults \/ \A j \in Procs : worker[j] = Idle
  /\ IF enabled
     THEN /\ worker' = [worker EXCEPT ![i] = Work("ask", image[i])]
          /\ waiting' = [waiting EXCEPT ![i] = TRUE]
          /\ UNCHANGED status
     ELSE status' = [status EXCEPT ![i] = Said("disabled")] /\ UNCHANGED <<worker, waiting>>
  /\ UNCHANGED <<published, disk, starting>>

\* The time is up, and the worker goes on.
TimeOut(i) ==
  /\ "slow" \in Faults /\ waiting[i]
  /\ waiting' = [waiting EXCEPT ![i] = FALSE]
  /\ status' = [status EXCEPT ![i] = Said("failed")]
  /\ UNCHANGED <<published, disk, starting, worker>>

\* run_sync.  The version compared is the one of the running image.
Ask(i) ==
  /\ worker[i].step = "ask"
  /\ \E info \in {Latest[published]} :
       \E decision \in {IF info = Nothing THEN "failed" ELSE Decide(image[i].tag, info.tag)} :
         IF decision = "available"
         THEN worker' = [worker EXCEPT ![i] = Work("download", ReleaseAt(info.url))]
              /\ UNCHANGED <<waiting, status>>
         ELSE Finish(i, Said(decision))
  /\ UNCHANGED <<published, disk, starting>>

\* GitHub does not answer, or not with 200.
AskFails(i) ==
  /\ worker[i].step = "ask"
  /\ Finish(i, Said("failed"))
  /\ UNCHANGED <<published, disk, starting>>

\* The whole body is read before the file is opened, which empties it.
Download(i) ==
  /\ worker[i].step = "download"
  /\ Fetched(200, worker[i].release.size, MaxBody)
  /\ disk' = [disk EXCEPT !["partial"] = Torn(worker[i].release)]
  /\ Step(i, "write")
  /\ UNCHANGED <<published, starting>>

\* The network fails, the answer is not 200, or the body is too long.
DownloadFails(i) ==
  /\ worker[i].step = "download"
  /\ Removed("partial")
  /\ Finish(i, Said("failed"))
  /\ UNCHANGED <<published, starting>>

WritePartial(i) ==
  /\ worker[i].step = "write"
  /\ disk' = [disk EXCEPT !["partial"] = worker[i].release]
  /\ Step(i, "verify")
  /\ UNCHANGED <<published, starting>>

\* What if the file were left where it is?
VerifyPartial_Kept(i) ==
  /\ worker[i].step = "verify"
  /\ Step(i, "stage") /\ UNCHANGED disk
  /\ UNCHANGED <<published, starting>>

VerifyPartial(i) ==
  /\ worker[i].step = "verify"
  /\ IF Exists("partial") /\ disk["partial"].signed
     THEN Step(i, "stage") /\ UNCHANGED disk
     ELSE Removed("partial") /\ Finish(i, Said("refused"))
  /\ UNCHANGED <<published, starting>>

\* staged.exe.partial becomes staged.exe, which is the mark that there is
\* something to install.
Stage(i) ==
  /\ worker[i].step = "stage"
  /\ \E ok \in Luck("rename") :
       IF ok /\ MayRename("partial", "staged")
       THEN Renamed("partial", "staged") /\ Finish(i, StagedFor(worker[i].release.tag))
       ELSE Removed("partial") /\ Finish(i, Said("failed"))
  /\ UNCHANGED <<published, starting>>

-----------------------------------------------------------------------------
(* GitHub.                                                                 *)

Publish(r) ==
  /\ r # published
  /\ "withdraw" \in Faults \/ Age[r] > Age[published]
  /\ published' = r
  /\ UNCHANGED <<disk, starting, checking>>

-----------------------------------------------------------------------------
Init ==
  /\ published = First
  /\ disk = [file \in {"exe", "old", "staged", "partial"} |->
               IF file = "exe" THEN First ELSE Nothing]
  /\ pc = [i \in Procs |-> "off"]
  /\ image = [i \in Procs |-> Nothing]
  /\ lies = [i \in Procs |-> "exe"]
  /\ worker = [i \in Procs |-> Idle]
  /\ waiting = [i \in Procs |-> FALSE]
  /\ status = [i \in Procs |-> Said("unknown")]

ApplyPendingUpdate(i) ==
  \/ Cleanup(i) \/ Find(i) \/ VerifyStaged(i) \/ MoveAway(i) \/ MoveIn(i) \/ MoveBack(i)

Worker(i) ==
  \/ Ask(i) \/ AskFails(i) \/ Download(i) \/ DownloadFails(i) \/ WritePartial(i)
  \/ VerifyPartial(i) \/ Stage(i)

Process(i) ==
  \/ Start(i) \/ ApplyPendingUpdate(i) \/ Relaunch(i) \/ Bind(i)
  \/ Quit(i) \/ Leave(i) \/ Kill(i)
  \/ Tick(i, TRUE) \/ Tick(i, FALSE) \/ TimeOut(i) \/ Worker(i)

Next ==
  \/ \E i \in Procs : Process(i)
  \/ \E r \in Releases : Publish(r)

Spec == Init /\ [][Next]_vars

\* The threads run, people start ProxyPilot and quit it, the switch is not off
\* for ever, and of infinitely many requests one succeeds.
Fairness ==
  \A i \in Procs :
    /\ WF_vars(ApplyPendingUpdate(i) \/ Relaunch(i) \/ Bind(i) \/ Leave(i))
    /\ WF_vars(Worker(i))
    /\ WF_vars(Start(i)) /\ SF_vars(Quit(i) /\ worker[i] = Idle)
    /\ SF_vars(Tick(i, TRUE)) /\ SF_vars(Ask(i)) /\ SF_vars(Download(i))

FairSpec == Spec /\ Fairness

-----------------------------------------------------------------------------
(* What should hold.                                                       *)

\* There is an executable under its name, except between the two renames of a
\* start that goes on: two processes that start at once, one that still runs the
\* image to be replaced and an exchange that fails half way included.
ExecutableSurvives == Exists("exe") \/ \E i \in Procs : pc[i] \in {"in", "back"}

\* Nothing is ever installed, or run, that is not whole and signed.
OnlyVerifiedRuns ==
  /\ Exists("exe") => disk["exe"].signed
  /\ \A i \in Procs : pc[i] # "off" => image[i].signed

\* The installed release is never replaced by one published earlier, and none is
\* installed that is a prerelease.
OnlyUpward ==
  [][LET r == disk'["exe"]
     IN  \A i \in Procs : pc[i] = "in" /\ pc'[i] = "relaunch" =>
            Age[r] >= Age[image[i]] /\ Spelling[r.tag].pre = "no"]_vars

\* Who reads that an update is put by for the next start finds it there, or a
\* later one, unless a start has installed it since.
StatusIsHonest ==
  \A i \in Procs : status[i].kind = "staged" =>
    \E file \in {"staged", "exe"} :
      /\ Exists(file) /\ disk[file].signed
      /\ \E r \in Releases : r.tag = status[i].tag /\ Age[disk[file]] >= Age[r]

Installable == {r \in Releases : /\ r.signed /\ r.size <= MaxBody
                                 /\ Spelling[r.tag].pre = "no"
                                 /\ Len(Spelling[r.tag].parts) = 3}

\* The process is killed, or a rename is refused that need not be.
Trouble(i) ==
  \/ Kill(i) /\ ~Leave(i)
  \/ MoveAway(i) /\ MayRename("exe", "old") /\ disk' = disk
  \/ MoveIn(i) /\ MayRename("staged", "exe") /\ disk' = disk
  \/ Stage(i) /\ MayRename("partial", "staged") /\ disk'["staged"] # disk["partial"]

\* The release that stays the latest is installed in the end, unless there is
\* trouble again and again.
UpdateArrives ==
  <>[][\A i \in Procs : ~Trouble(i)]_vars =>
    \A r \in Installable : <>[](published = r) => <>(disk["exe"] = r)

\* Between the two renames it is exe.old that is installed.
InstalledRelease == IF Exists("exe") THEN disk["exe"] ELSE disk["old"]

U == INSTANCE Upgrade
  WITH Versions <- Releases, Age <- Age, None <- Nothing,
       Acceptable <- {r \in Releases : r.signed /\ Spelling[r.tag].pre = "no"},
       released <- published, installed <- InstalledRelease, candidate <- disk["staged"]

\* However the processes follow, overlap and hinder each other, together they do one
\* upgrade after the other: what is installed is never missing, torn or older than before,
\* and what was verified and put by is not lost again but replaced by a later one or
\* installed.
UpgradesInOrder == U!Spec
===============================================================================
