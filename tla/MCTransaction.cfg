CONSTANTS
  c1 = c1
  c2 = c2
  Conns = {c1, c2}
  connection_id <- Distinct
  MaxWrites <- Writing
SPECIFICATION TxSpec
INVARIANTS AllOrNothing NoBlockLeftOpen BlockHeld
PROPERTY UsesSessions
CHECK_DEADLOCK FALSE
