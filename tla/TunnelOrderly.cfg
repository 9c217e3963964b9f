CONSTANTS
  Chunks = 3
  Replies = 1
  SockCap = 1
  FillChunks = 2
  MaxRetries = 2
  NetworkFails = FALSE
  EarlyClose = FALSE
  HalfClosers = {}
  LoopClosesOnError = TRUE
SPECIFICATION Spec
INVARIANTS
  TypeOK
  HandlerCleansUp
PROPERTIES
  ClosedStreamArrives
  TunnelIsFifo
\* A migration ends: afterwards nothing is left to happen.
CHECK_DEADLOCK FALSE
