SPECIFICATION HSpec
CONSTANTS
  Threads = {t1, t2}
  Heights = {1, 2}
  Blocks = {a, b, big}
  Oversize = {big}
  Careful = TRUE
  LateErrors = TRUE
  NoBlock = none
  Failure = error
  Quiet = TRUE
SYMMETRY Symmetry
INVARIANTS Coherent HandleLive BuffersReturned ReadCurrent
