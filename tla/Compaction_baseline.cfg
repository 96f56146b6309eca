\* The older of two overlapping compactions writes its baseline last.
CONSTANTS
  FlushBatchSize = 1
  MaxFlushRetries = 0
  MaxBaseline = 0
  MaxStrokes = 4
  MaxFailures = 0
  MaxCrashes = 0
  StrokeCap = 1
  DeleteBatchSize = 10
  Compactors = {c1, c2}
SPECIFICATION CSpec
INVARIANT PrunedBelowBaseline
