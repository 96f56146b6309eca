\* Two boards, two navigations and a lost connection, with a stroke and cursor moves.
CONSTANTS
  Pointers = {mouse}
  Interval = 1
  MaxClock = 1
  MaxMoves = 3
  MaxPresses = 1
  Boards = {a, b}
  NoBoard = home
  Names = {x}
  NoName = anonymous
  MaxBoards = 2
  MaxVisits = 2
  MaxDrops = 1
SPECIFICATION SSpec
INVARIANTS
  ConnectionFollowsView
  MembersOfBoard
  JoinNeedsGate
  OnePress
PROPERTIES
  CursorFramesPaced
  JoinedIsAsked
  LatestSent
CHECK_DEADLOCK FALSE
