CONSTANTS
  Chunks = 2
  Replies = 1
  SockCap = 1
  FillChunks = 1
  MaxRetries = 1
  NetworkFails = TRUE
  EarlyClose = TRUE
  HalfClosers = {"D"}
  LoopClosesOnError = TRUE
SPECIFICATION Spec
INVARIANTS
  PrefixDelivered
  CancelBeforeClose
PROPERTIES
  TruncationHasCause
  CloseEndsTunnel
\* A migration ends: afterwards nothing is left to happen.
CHECK_DEADLOCK FALSE
