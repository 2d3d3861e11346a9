SPECIFICATION Spec
CONSTANTS
  Exe <- MCExe
  Disk <- MCDisk
  Folded <- MCFolded
  WithExe <- MCWithExe
  Expanded <- MCExpanded
  Numbers <- MCNumbers
  Tabs = {t1, t2}
  First <- MCFirst
  Nets <- MCNets
  Modes = {"auto", "direct"}
  Entries <- MCEntries
  Edits = {"nothing", "socks", "bypass", "tick", "row", "clear", "port", "box"}
  Actions = 2
  Width = 2
  Subnets <- MCSubnets
  Others <- MCOthers
  Handlers = {h1, h2}
  Clicks = 3
  Events = 3
  Mishaps = {"disk", "end", "restart", "kill", "foreign", "unreadable", "install", "registry"}
SYMMETRY Alike
INVARIANTS
  PageIsExact ProfileIsSafe SectionIsHonest
PROPERTIES SavedAsMeant NoSecondTunnel
CHECK_DEADLOCK FALSE
