CONSTANTS
  Requests = {r1, r2}
  MaxBatch = 2
  MaxChunks = 2
  MaxUnread = 1
SPECIFICATION SyncSpec
SYMMETRY Symmetry
INVARIANTS
  DrainedUnlessEarly
  SyncOwnAnswers
  SyncNeverHangs
CHECK_DEADLOCK FALSE
