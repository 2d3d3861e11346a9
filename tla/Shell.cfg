SPECIFICATION FairSpec
CONSTANTS
  Conns = {c1, c2}
  MaxConnections = 1
  MaxErrors = 2
INVARIANTS SleepsOnlyWhenDone
PROPERTIES TrayCatchesUp DoorIsRight
CHECK_DEADLOCK FALSE
