SPECIFICATION RelayFairSpec
CONSTANTS
  Scripts <- SomeScripts
  Payload <- SomePayload
  Chunk = 3
  MaxHead = 4
INVARIANTS StatusComesFirst
PROPERTIES BothWaysAreChannels
CHECK_DEADLOCK FALSE
