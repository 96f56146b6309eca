\* Overlapping compactions with flushes between their queries, a failure and a
\* crash; every stroke is a batch of its own.
CONSTANTS
  FlushBatchSize = 1
  MaxFlushRetries = 0
  MaxBaseline = 0
  MaxStrokes = 4
  MaxFailures = 1
  MaxCrashes = 1
  StrokeCap = 1
  DeleteBatchSize = 2
  Compactors = {c1, c2}
SYMMETRY CompactorSymmetry
SPECIFICATION CSpec
INVARIANTS
  OnlyBaselinePruned
  NumbersOutlivePruning
  FlagHasCompaction
