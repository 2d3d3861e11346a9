SPECIFICATION FairSpec
CONSTANTS
  Procs = {p1, p2}
  Releases <- SomeReleases
  Spelling <- SomeSpelling
  Age <- SomeAges
  First <- Old
  Asset = "proxypilot.exe"
  MaxBody = 2
  Strings <- SomeStrings
  Words = {"null"}
  MaxDepth = 4
  Faults = {"kill", "unlink", "slow", "spawn", "rename"}
INVARIANTS ExecutableSurvives OnlyVerifiedRuns StatusIsHonest ReaderIsExact
PROPERTIES UpgradesInOrder UpdateArrives
CHECK_DEADLOCK FALSE
