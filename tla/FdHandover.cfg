CONSTANTS
  MaxStarts = 5
  Interrupts = TRUE
SPECIFICATION Spec
CHECK_DEADLOCK FALSE
INVARIANTS
  TypeOK
  ShutsNothingShared
  HandshakeFirst
PROPERTIES
  EverybodyLetsGo
