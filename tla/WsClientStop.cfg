CONSTANTS
  Conns = {c1, c2}
  ConnectFails = FALSE
SPECIFICATION Spec
INVARIANT StopCleansUp
CHECK_DEADLOCK FALSE
