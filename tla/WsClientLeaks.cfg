CONSTANTS
  Conns = {c1}
  ConnectFails = TRUE
SPECIFICATION Spec
INVARIANT HandlerReleases
CHECK_DEADLOCK FALSE
