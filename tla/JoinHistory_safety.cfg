\* A join or a resync against draws, flushes, a failure, a crash and a compaction.
CONSTANTS
  FlushBatchSize = 1
  MaxFlushRetries = 0
  MaxBaseline = 1
  MaxStrokes = 2
  MaxFailures = 1
  MaxCrashes = 1
  StrokeCap = 1
  DeleteBatchSize = 2
  Compactors = {c1}
  Requests = {q1}
SPECIFICATION HSpec
INVARIANTS
  HistoryAscending
  DurableServed
