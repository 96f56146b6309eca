SPECIFICATION PSpec
CONSTANTS
  Pointers = {finger, thumb}
  Interval = 2
  MaxClock = 6
  MaxMoves = 4
  MaxPresses = 3
INVARIANTS
  OnePress
CHECK_DEADLOCK FALSE
