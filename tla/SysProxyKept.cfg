SPECIFICATION Spec
CONSTANTS
  Procs = {i1, i2}
  Ports = {p3129}
  UserServers = {empty, corp}
  NoServer = empty
  UserBypasses = {nolist}
  NoBypass = nolist
  OurBypass = ourlist
  None = None
  Faults = {"kill", "takeover-write", "save", "overlap"}
  Keys <- MCKeys
  Filled <- MCFilled
SYMMETRY Symmetry
INVARIANT UserSettingsKept
PROPERTY SettingIsOnLoan
