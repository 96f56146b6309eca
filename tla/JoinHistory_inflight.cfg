\* A join while the last batch is being written.
CONSTANTS
  FlushBatchSize = 1
  MaxFlushRetries = 0
  MaxBaseline = 0
  MaxStrokes = 2
  MaxFailures = 0
  MaxCrashes = 0
  StrokeCap = 9
  DeleteBatchSize = 2
  Compactors = {c1}
  Requests = {q1}
SPECIFICATION HSpec
INVARIANT DrawnServed
