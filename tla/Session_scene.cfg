\* The scene of a view whose board changes keeps the strokes of the board before: expected
\* to fail.
CONSTANTS
  Pointers = {mouse}
  Interval = 1
  MaxClock = 0
  MaxMoves = 0
  MaxPresses = 0
  Boards = {a, b}
  NoBoard = home
  Names = {x}
  NoName = anonymous
  MaxBoards = 2
  MaxVisits = 2
  MaxDrops = 0
SPECIFICATION SSpec
INVARIANT SceneOfOneBoard
CHECK_DEADLOCK FALSE
