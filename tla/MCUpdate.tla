------------------------------- MODULE MCUpdate -------------------------------
(***************************************************************************)
(* Instances of Update for TLC: two processes, a release to begin with,    *)
(* one that follows it and two that must not be installed.  The numbers    *)
(* are such that neither the order of texts nor that of the last numbers   *)
(* is the right one.                                                       *)
(***************************************************************************)
EXTENDS Update

Release(tag, signed, size) ==
  [tag |-> tag, url |-> "https " \o tag, signed |-> signed, size |-> size]

Old == Release("v1.9.9", TRUE, 1)
Newest == Release("v1.10.0", TRUE, 1)
Candidate == Release("v2.1.0-rc", TRUE, 1)
Unsigned == Release("v3.0.0", FALSE, 1)

SomeReleases == {Old, Newest, Candidate, Unsigned}
SomeAges == [r \in SomeReleases |-> CASE r = Old -> 1 [] r = Newest -> 2
                                      [] r = Candidate -> 3 [] OTHER -> 4]
SomeSpelling ==
  [t \in {r.tag : r \in SomeReleases} |->
     CASE t = "v1.9.9" -> [parts |-> <<1, 9, 9>>, pre |-> "no"]
       [] t = "v1.10.0" -> [parts |-> <<1, 10, 0>>, pre |-> "no"]
       [] t = "v2.1.0-rc" -> [parts |-> <<2, 1, 0>>, pre |-> "rc"]
       [] t = "v3.0.0" -> [parts |-> <<3, 0, 0>>, pre |-> "no"]]
SomeStrings ==
  {r.tag : r \in SomeReleases} \cup {r.url : r \in SomeReleases}
  \cup {"assets", "name", "browser_download_url", "tag_name", "other", "proxypilot.exe"}

\* The reader of texts, on a small alphabet and two levels.
Small == INSTANCE Json WITH Strings <- {"s"}, Words <- {}, MaxDepth <- 2

\* The answers about these releases are read for what they say.
ASSUME AnswersAssumption == Readable

ReaderFacts == Small!ReadsJson(6) /\ Small!ReadsScalars(5)

\* The reader of GitHub's answer (json.rs) agrees with the grammar of JSON and
\* with its escapes on every short text, and the answers that the processes
\* read keep their shape.
ReaderIsExact == TypeOK /\ ReaderFacts
===============================================================================
