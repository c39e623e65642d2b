SPECIFICATION Spec
CONSTANTS
  PoolSize = 3
  OffsetLimit = 4
  ByteLimit = 4
  Lengths = {2, 5}
  Strings <- SomeStrings
  MaxBuffers = 3
  MaxCalls = 2
INVARIANTS TypeOK ReadsOwnBytes SendsItsBytes
CHECK_DEADLOCK FALSE
