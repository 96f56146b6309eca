\* Two buckets and a window of two seconds on a clock that is set back once.
CONSTANTS
  TicksPerSec = 2
  Keys = {"draw", "cursor-move"}
  ConfigOf <- MCConfigOf
  WindowSeconds = 2
  MaxClock = 6
  MaxBack = 1
  MaxGranted = 3
  MaxRecorded = 1
SPECIFICATION MSpec
INVARIANTS
  LimitExact
  WindowTotalExact
