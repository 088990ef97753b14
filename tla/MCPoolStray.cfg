CONSTANTS
  Clients = {c1, c2, c3}
  Conns = {k1, k2, k3}
  None = None
  MaxIdle = 1
  MaxConcurrency = 2
SPECIFICATION PoolSpec
SYMMETRY Symmetry
INVARIANT
  IdleIsClean
CHECK_DEADLOCK FALSE
