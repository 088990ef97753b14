CONSTANTS
  Requests = {r1, r2}
  MaxBatch = 2
  MaxChunks = 2
  MaxUnread = 1
SPECIFICATION SyncSpec
SYMMETRY Symmetry
INVARIANT
  UnbrokenMeansDrained
CHECK_DEADLOCK FALSE
