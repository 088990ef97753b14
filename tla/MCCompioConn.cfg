CONSTANTS
  Requests = {r1, r2}
  MaxBatch = 2
  MaxChunks = 2
SPECIFICATION FairSpec
INVARIANTS
  OkMeansNoServerError
PROPERTIES
  ImplementsSession
  CallEnds
CHECK_DEADLOCK FALSE
