\* A room of two with two colors, a failure of Redis and a death of an instance.
CONSTANTS
  Sockets = {s1, s2}
  PoolSize = 2
  Maintained = TRUE
  MaxFailures = 1
  MaxDeaths = 1
SPECIFICATION FairSpec
INVARIANTS
  ColorsDistinct
  SweepReaches
  KeysExpirable
PROPERTY RoomReclaimed
