SPECIFICATION DSpec
CONSTANTS
  Writers = {w1, w2, w3}
  Threads = {w1, w2, w3}
  Sizes = {2, 3}
  Cap = 4
  MaxOffset = 14
  MaxFileIndex = 2
  Start = 1
  Indices = {0, 1, 2}
  Capacity = 2
SYMMETRY Symmetry
CHECK_DEADLOCK FALSE
INVARIANTS RTypeOK NoOverlap HighwaterCovers WithinOneFile AliasConfined CacheConsistent CacheBounded NoSpuriousBlock
