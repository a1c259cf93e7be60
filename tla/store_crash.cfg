SPECIFICATION Spec
CONSTANTS
  Writers = {w1}
  MinHeight = 1
  MaxHeight = 2
  Ids = {a, b}
  Sizes = {1, 2}
  HeaderSize = 2
  Cap = 0
  MaxOffset = 12
  MaxFileIndex = 3
  MaxBlockSize = 2
  CheckpointInterval = 2
  CheckpointBytes = 6
  WindowSize = 3
  ChunkEntries = 1
  Syncing = TRUE
  MaxWrites = 3
  MaxFailures = 1
  MaxCrashes = 2
SYMMETRY Symmetry
INVARIANTS TypeOK FloorReadable FloorComplete NeverRefused GapBounded
PROPERTIES ImplementsHeightMap
