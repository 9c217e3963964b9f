CONSTANTS
  Chunks = 3
  Replies = 0
  SockCap = 1
  FillChunks = 1
  MaxRetries = 2
  NetworkFails = FALSE
  EarlyClose = FALSE
  HalfClosers = {}
  LoopClosesOnError = FALSE
SPECIFICATION Spec
INVARIANT HandlerCleansUp
CHECK_DEADLOCK FALSE
