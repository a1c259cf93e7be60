SPECIFICATION PSpec
CONSTANTS
  Writers = {w1, w2}
  MaxHeight = 2
  Blocks = {a}
  MaxOffset = 2
  Interval = 2
  Bytes = 2
  MaxLosses = 1
  MaxCrashes = 0
  Syncing = TRUE
  Settled = TRUE
  NoBlock = none
  Torn = torn
  Failure = error
SYMMETRY Symmetry
INVARIANT AckedKept
