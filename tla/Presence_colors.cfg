\* Three members share two colors; two leave and another joins.
CONSTANTS
  Sockets = {s1, s2, s3, s4}
  PoolSize = 2
  Maintained = FALSE
  MaxFailures = 0
  MaxDeaths = 0
SPECIFICATION Spec
SYMMETRY SocketSymmetry
PROPERTY DistinctWithinPool
