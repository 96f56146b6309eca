\* The same instance: the type invariant, and smaller properties.
CONSTANTS
  Pointers = {mouse}
  Interval = 1
  MaxClock = 1
  MaxMoves = 2
  MaxPresses = 1
  Boards = {a, b}
  NoBoard = home
  Names = {x}
  NoName = anonymous
  MaxBoards = 2
  MaxVisits = 2
  MaxDrops = 1
SPECIFICATION SSpec
INVARIANTS
  STypeOK
  RecentBoards
  LatestKept
CHECK_DEADLOCK FALSE
