SPECIFICATION ClusterSpec
CONSTANTS
  Processes = {p1, p2}
  MaxStrokes = 3
INVARIANTS
  ShownIsLogged
CHECK_DEADLOCK FALSE
