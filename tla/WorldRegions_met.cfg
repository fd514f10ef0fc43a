SPECIFICATION Spec
CONSTANTS
  Players = {p1, p2}
  Movables = {s}
  Cells <- MCStrip
  RegionHeight = 8
  Network = {n1}
  WorldThread = world
  Nowhere = Nowhere
  Isolation = "world"
CHECK_DEADLOCK TRUE
INVARIANTS
  Acquainted
  NoGhosts
  Indexed
  RegionAlwaysCorrect
