CONSTANTS
  Requests = {r1, r2, r3}
  MaxBatch = 1
  MaxChunks = 1
  MaxUnread = 0
  MaxQueue = 2
  Usage = {}
SPECIFICATION SPSpec
SYMMETRY Symmetry
INVARIANTS
  SyncsMatch
  SyncClaimReadsOwnAnswer
  SyncPipeNeverHangs
  GivesBackDrained
CHECK_DEADLOCK FALSE
