CONSTANTS
  Clients = {c1, c2, c3}
  Conns = {k1, k2, k3}
  None = None
  MaxIdle = 2
SPECIFICATION CompioPoolSpec
SYMMETRY Symmetry
PROPERTY
  KeepsContract
CHECK_DEADLOCK FALSE
