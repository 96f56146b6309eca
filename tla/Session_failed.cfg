\* A join that fails is answered, and not tried again: expected to fail.
CONSTANTS
  Pointers = {mouse}
  Interval = 1
  MaxClock = 0
  MaxMoves = 0
  MaxPresses = 0
  Boards = {a, b}
  NoBoard = home
  Names = {x}
  NoName = anonymous
  MaxBoards = 2
  MaxVisits = 2
  MaxDrops = 0
SPECIFICATION AnsweredSpec
PROPERTY JoinedIsServed
CHECK_DEADLOCK FALSE
