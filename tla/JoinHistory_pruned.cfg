\* A join between the baseline and the DELETE statements of a compaction.
CONSTANTS
  FlushBatchSize = 1
  MaxFlushRetries = 0
  MaxBaseline = 0
  MaxStrokes = 4
  MaxFailures = 0
  MaxCrashes = 0
  StrokeCap = 2
  DeleteBatchSize = 1
  Compactors = {c1}
  Requests = {q1}
SPECIFICATION HSpec
INVARIANT NoHalfPrunedPrefix
