SPECIFICATION Spec
CONSTANTS
  Job = {j1, j2, j3, j4, j5, j6, j7}
  MaxRank = 3
SYMMETRY Symmetry
INVARIANTS
  PeekIsBest
PROPERTIES
  NoJobLost
