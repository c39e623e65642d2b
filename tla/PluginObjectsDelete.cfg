SPECIFICATION Spec
CONSTANTS
  Sockets = {s1}
  Buffers = {b1}
  Requests = {r1}
  Functions = {f1}
  Nothing = Nothing
  String = String
  Shutdown = Shutdown
INVARIANT DestroyedAtZero
CHECK_DEADLOCK FALSE
