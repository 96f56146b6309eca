\* The write path: size, interval and retry flushes, failures with and without a
\* committed INSERT, one crash and restart, with the default delays and with a base
\* delay above the ceiling.
CONSTANTS
  FlushBatchSize = 2
  MaxFlushRetries = 2
  MaxBaseline = 1
  MaxStrokes = 4
  MaxFailures = 3
  MaxCrashes = 1
  BaseOptions = {0, 5}
  CeilingOptions = {0}
  DefaultBase = 1
  DefaultCeiling = 4
  Infinite = 8
SPECIFICATION BFairSpec
INVARIANTS
  NoAcceptedStrokeLost
  SeqNamesOneStroke
  DegradedIffExhausted
  Inv
  DelayFollowsAttempts
PROPERTIES
  ImplementsDurableLog
  AcceptedBecomesDurable
  DegradedRecovers
