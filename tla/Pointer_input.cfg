\* One pointer, with strokes, pans and the input attached anew; an interval of two ticks.
CONSTANTS
  Pointers = {mouse}
  Interval = 2
  MaxClock = 6
  MaxMoves = 4
  MaxPresses = 3
SPECIFICATION PSpec
INVARIANT OnePress
PROPERTIES
  CursorFramesPaced
  LatestSent
CHECK_DEADLOCK FALSE
