SPECIFICATION Spec
CONSTANTS
  Writers = {w1, w2}
  MinHeight = 1
  MaxHeight = 2
  Ids = {a, b}
  Sizes = {1, 2}
  HeaderSize = 2
  Cap = 0
  MaxOffset = 12
  MaxFileIndex = 3
  MaxBlockSize = 2
  CheckpointInterval = 100
  CheckpointBytes = 100
  WindowSize = 3
  ChunkEntries = 2
  Syncing = FALSE
  MaxWrites = 3
  MaxFailures = 0
  MaxCrashes = 1
SYMMETRY Symmetry
CHECK_DEADLOCK FALSE
INVARIANTS AckedSurvive
