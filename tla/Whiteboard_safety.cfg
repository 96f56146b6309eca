\* Two clients, two strokes, two troubles of any kind.
CONSTANTS
  Clients = {c1, c2}
  MaxStrokes = 2
  MaxTrouble = 2
SYMMETRY ClientSymmetry
SPECIFICATION Spec
INVARIANTS
  MarkCovered
  Converged
