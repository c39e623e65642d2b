SPECIFICATION Spec
CONSTANTS
  Handles = {h1, h2}
  MaxCalls = 3
  MaxReads = 1
  SendMayFail = TRUE
  WriteAfterEnd = TRUE
INVARIANTS TypeOK NoLostWakeup OneWakeupInFlight InvokeTargetAlive CloseIsLast RequestsCounted 
SYMMETRY HandleSymmetry
CHECK_DEADLOCK FALSE
