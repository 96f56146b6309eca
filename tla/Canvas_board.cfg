SPECIFICATION KSpec
CONSTANTS
  Peers = {p, q}
  Colors = {red, blue}
  NoColor = NoColor
  Places = {there, here}
  MaxSegments = 3
  MaxViews = 2
  MaxUpdates = 3
INVARIANTS
  CleanShowsScene
  CursorsTracked
PROPERTIES
  SceneShown
CHECK_DEADLOCK FALSE
