SPECIFICATION Spec
CONSTANTS
  Sockets = {s1}
  Buffers = {b1}
  Requests = {r1, r2}
  Functions = {f1, f2}
  Nothing = Nothing
  String = String
  Shutdown = Shutdown
INVARIANTS
  TypeOK
  InFlightAlive
  BuffersAccounted
CHECK_DEADLOCK FALSE
