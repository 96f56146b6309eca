\* The shutdown sequence over two clients' worth of draws, two signals, failures.
CONSTANTS
  FlushBatchSize = 2
  MaxFlushRetries = 1
  MaxBaseline = 0
  MaxStrokes = 3
  MaxFailures = 2
  MaxCrashes = 0
  MaxClients = 1
  MaxSignals = 2
SPECIFICATION SSpec
INVARIANTS
  CleanExitLosesNothing
PROPERTIES
  NoDrawAfterFlush
  SignalledExits
