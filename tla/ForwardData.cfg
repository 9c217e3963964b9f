CONSTANTS
  MaxSize = 3
  FillChunks = 2
  StreamLen = 6
SPECIFICATION Spec
INVARIANTS
  TypeOK
  Lossless
  BacklogBounded
  NoIdleWork
  FlushedOnReturn
PROPERTIES
  EofReturns
  CancelReturns
  ImplementsFifo
\* forward_data ends: afterwards nothing is left to happen.
CHECK_DEADLOCK FALSE
