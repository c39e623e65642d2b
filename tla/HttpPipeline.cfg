SPECIFICATION FairSpec
CONSTANTS
  MaxRequests = 3
  MaxWrites = 2
  Expect = TRUE
INVARIANTS
  
  ResponsesInOrder
  LastIsLast
  PartsInOrder
PROPERTY EndedResponseLeaves
CHECK_DEADLOCK FALSE
