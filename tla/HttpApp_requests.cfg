SPECIFICATION ASpec
CONSTANTS
  Probes = {p}
  Requests = {r1, r2}
  RequireSecure = TRUE
  Peers <- Edges
  Stores = {database, redis}
  Database = database
  Persistence = persistence
  Budget = 1
  MaxClock = 2
  MaxChanges = 1
INVARIANTS
  ReadyMeansReached
  TokenWarranted
  ServedInside
PROPERTIES
  ReadyzAnswers
CHECK_DEADLOCK FALSE
