SPECIFICATION PSpec
CONSTANTS
  Writers = {w1}
  MaxHeight = 2
  Blocks = {a, b}
  MaxOffset = 3
  Interval = 2
  Bytes = 2
  MaxLosses = 2
  MaxCrashes = 1
  Syncing = TRUE
  Settled = TRUE
  NoBlock = none
  Torn = torn
  Failure = error
SYMMETRY Symmetry
INVARIANTS AckedKept FloorDurable
