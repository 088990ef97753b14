CONSTANTS
  Clients = {c1, c2, c3}
  Conns = {k1, k2}
  None = None
  MaxIdle = 1
  MaxConcurrency = 2
SPECIFICATION FairPoolSpec
INVARIANTS
  PermitsConserved
  ConcurrencyBound
PROPERTIES
  KeepsContract
  WaiterServed
CHECK_DEADLOCK FALSE
