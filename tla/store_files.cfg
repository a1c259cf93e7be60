SPECIFICATION FairSpec
CONSTANTS
  Writers = {w1}
  MinHeight = 1
  MaxHeight = 2
  Ids = {a}
  Sizes = {1, 2}
  HeaderSize = 2
  Cap = 6
  MaxOffset = 18
  MaxFileIndex = 2
  MaxBlockSize = 2
  CheckpointInterval = 2
  CheckpointBytes = 5
  WindowSize = 5
  ChunkEntries = 2
  Syncing = FALSE
  MaxWrites = 5
  MaxFailures = 0
  MaxCrashes = 1
CHECK_DEADLOCK FALSE
INVARIANTS Durable FloorComplete CleanReopens
PROPERTIES RecoveryEnds
