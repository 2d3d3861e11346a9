SPECIFICATION FairSpec
CONSTANTS
  EventCapacity = 1
  CommandCapacity = 1
  Faults = {"nlm", "iphelper", "pump-ends", "dropped"}
  MaxChanges = 3
PROPERTIES ChangesAreNoticed NobodyIsLeftBehind
CHECK_DEADLOCK FALSE
