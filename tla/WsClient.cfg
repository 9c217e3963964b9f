CONSTANTS
  Conns = {c1, c2}
  ConnectFails = TRUE
SPECIFICATION Spec
INVARIANTS
  TypeOK
  ClosedBeforeForgotten
  StaleEntriesHaveCause
PROPERTIES
  FailuresHaveCause
  EndReachesHandler
  CtrlCStops
\* Every connection ends: afterwards nothing is left to happen.
CHECK_DEADLOCK FALSE
