\* Three members, two colors: the pool overflows; a failure and a death.
CONSTANTS
  Sockets = {s1, s2, s3}
  PoolSize = 2
  Maintained = TRUE
  MaxFailures = 1
  MaxDeaths = 1
SPECIFICATION Spec
SYMMETRY SocketSymmetry
INVARIANTS
  TypeOK
  ColorsDistinct
  SweepReaches
  KeysExpirable
  Inv
