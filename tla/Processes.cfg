SPECIFICATION SpecWriting
CONSTANTS
  Processes = {p1, p2}
  MaxStarts = 3
  Commands = {c1}
  Library = {n1}
  Ghosts = {g1}
  MaxMarkers = 4
SYMMETRY Alike
CHECK_DEADLOCK FALSE
INVARIANTS
  AloneIsReachable
  LeftoverOnlyAfterKill
  LoneRebuildIsWhole
