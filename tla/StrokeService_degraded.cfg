\* An interval flush finds the buffer empty while a retry has its batch in flight.
CONSTANTS
  FlushBatchSize = 2
  MaxFlushRetries = 0
  MaxBaseline = 0
  MaxStrokes = 2
  MaxFailures = 1
  MaxCrashes = 0
SPECIFICATION Spec
PROPERTY DegradedClearedByWrite
