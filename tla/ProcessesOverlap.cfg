SPECIFICATION SpecWriting
CONSTANTS
  Processes = {p1}
  MaxStarts = 1
  Commands = {c1}
  Library = {n1}
  Ghosts = {g1}
  MaxMarkers = 3
CHECK_DEADLOCK FALSE
INVARIANTS
  QuietIsWhole
