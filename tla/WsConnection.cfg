SPECIFICATION FairSpec
CONSTANTS
  MaxCalls = 2
  MaxChunks = 1
  MaxFrames = 3
  MaxPings = 1
  MaxMessage = 2
  DropOptions = {TRUE, FALSE}
INVARIANTS
  TypeOK
  OneKeepaliveTimer
  PauseIsLifted
  FramesInOrder
  CloseFrameIsLast
  WholeMessages
PROPERTIES
  NeverWritesAfterEnd
  
  QueueIsFlushed
CHECK_DEADLOCK FALSE
