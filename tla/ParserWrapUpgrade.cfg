SPECIFICATION Spec
CONSTANTS
  Requests <- SomeRequests
  MaxRequests = 1
  MaxConnections = 1
  Null = Null
INVARIANT UpgradeHeadCaptured
CHECK_DEADLOCK FALSE
