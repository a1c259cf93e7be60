SPECIFICATION TSpec
CONSTANTS
  User = u
  Source = s
  Target = t
  Sessions = {u, s, t}
  Dirs = {d1, d2}
  MaxHeight = 2
  Blocks = {a}
  NoBlock = none
  Failure = error
  MinHeights = {1}
  Caps = {0, 1}
  MaxFile = 1
  MaxBlocks = 2
  Polite = TRUE
  Recreate = TRUE
  Starts = {2}
  Tables = {{1, 2}, {2}}
SYMMETRY Symmetry
INVARIANTS FreshIsEmpty LiveStoreIntact CopyExact ImportExact
