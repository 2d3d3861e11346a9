SPECIFICATION FairSpec
CONSTANTS
  Procs = {i1}
  Ports = {p3129}
  UserServers = {empty, corp}
  NoServer = empty
  UserBypasses = {nolist}
  NoBypass = nolist
  OurBypass = ourlist
  None = None
  Faults = {"kill", "kill-in-write", "takeover-write", "restore-write",
            "restore-read", "save", "untick", "edit-in-window", "erase-config",
            "bridge-stop"}
  Keys <- MCKeys
  Filled <- MCFilled
INVARIANTS OriginalIsNeverOurs PointedOnlyWhileOwned KeyGivesBack
PROPERTY DeadPointerIsTemporary
