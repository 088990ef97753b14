CONSTANTS
  Requests = {r1, r2, r3}
  MaxBatch = 2
  MaxChunks = 2
  MaxQueue = 2
  Usage = {}
SPECIFICATION PSpec
SYMMETRY Symmetry
INVARIANTS
  UsableMeansDrained
  OwnAnswersOnly
  NeverWaitsForNothing
  OkMeansNoServerError
  QueueMatchesWire
  ClaimReadsOwnAnswer
  AbortedMeansSkipped
  PipeNeverWaitsForNothing
PROPERTIES
  CleanupReleases
  ImplementsSession
CHECK_DEADLOCK FALSE
