CONSTANTS
  Servers = {s1, s2}
  Conns = {c1, c2}
  MaxLoads = 3
  MapSize = 3
  Arguments = {0, 1, 2, 3}
  NoServer = NoServer
SPECIFICATION Spec
SYMMETRY Symmetry
CHECK_DEADLOCK FALSE
INVARIANTS
  TypeOK
  MisroutedIsEarly
  UnreachableHasCause
