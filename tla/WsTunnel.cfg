CONSTANTS
  Chunks = 4
  NetSize = 2
  HighWater = 1
  Attempts = 2
SPECIFICATION Spec
CHECK_DEADLOCK FALSE
INVARIANTS
  TypeOK
PROPERTIES
  ImplementsFifo
  EndReachesAll
