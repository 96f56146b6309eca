\* Two joins whose histories are loaded in the other order.
CONSTANTS
  Sockets = {s1, s2}
  PoolSize = 2
  Maintained = FALSE
  MaxFailures = 0
  MaxDeaths = 0
SPECIFICATION Spec
PROPERTY AnnouncesCurrent
