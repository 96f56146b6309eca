\* The server as it is, in which nothing calls sweep, and a death of an instance: expected
\* to fail.
CONSTANTS
  Sockets = {s1, s2}
  PoolSize = 2
  Maintained = FALSE
  MaxFailures = 0
  MaxDeaths = 1
SPECIFICATION FairSpec
PROPERTY GhostsReaped
