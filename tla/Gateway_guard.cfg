SPECIFICATION GSpec
CONSTANTS
  TicksPerSec = 1
  Rooms <- MCRooms
  Tokens <- MCTokens
  NoToken = NoToken
  NoRoom = NoRoom
  NoUser = NoUser
  Anonymous = Anonymous
  SocketId = SocketId
  OpenMode = FALSE
  RequireSecure = TRUE
  DrawConfig <- MCDrawConfig
  CursorConfig <- MCCursorConfig
  MaxClock = 2
  MaxChunk = 2
  MaxDraws = 2
INVARIANTS
  EffectsFresh
  MembershipKept
CHECK_DEADLOCK FALSE
