SPECIFICATION Spec
CONSTANTS
  Requests <- SomeRequests
  MaxRequests = 2
  MaxConnections = 2
  Null = Null
INVARIANTS AnnouncedAsSent 
CHECK_DEADLOCK FALSE
