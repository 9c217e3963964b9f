CONSTANTS
  Relays = {r1, r2}
  Chunks = 2
  Buffer = 1
  HandshakesFail = TRUE
SPECIFICATION Spec
CHECK_DEADLOCK FALSE
INVARIANTS
  TypeOK
  PrefixReceived
  ReportsAgree
PROPERTIES
  EndReachesThread
