SPECIFICATION Spec
CONSTANTS
  Writers = {w1, w2}
  MinHeight = 1
  MaxHeight = 2
  Ids = {a, b}
  Sizes = {1}
  HeaderSize = 2
  Cap = 0
  MaxOffset = 9
  MaxFileIndex = 3
  MaxBlockSize = 2
  CheckpointInterval = 2
  CheckpointBytes = 6
  WindowSize = 3
  ChunkEntries = 2
  Syncing = FALSE
  MaxWrites = 3
  MaxFailures = 2
  MaxCrashes = 0
SYMMETRY Symmetry
CHECK_DEADLOCK FALSE
INVARIANTS FloorReadable NoOverlap
PROPERTIES ImplementsHeightMap PublishedBytesStable
