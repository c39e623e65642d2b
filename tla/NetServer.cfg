SPECIFICATION FairSpec
CONSTANTS
  Sockets = {s1, s2, s3, s4}
  MaxConnections = 3
  MaxFree = 2
INVARIANTS
  ConnectionsCounted
  ParsersOwned
PROPERTIES
  ClosesDrained
  ClosedServerSaysSo
CHECK_DEADLOCK FALSE
