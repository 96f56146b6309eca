\* An exit loses accepted strokes: forced while a client stays connected.
CONSTANTS
  FlushBatchSize = 2
  MaxFlushRetries = 1
  MaxBaseline = 0
  MaxStrokes = 3
  MaxFailures = 2
  MaxCrashes = 0
  MaxClients = 1
  MaxSignals = 2
SPECIFICATION SSpec
INVARIANT NothingLostOnExit
