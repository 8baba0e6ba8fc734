SPECIFICATION Spec
CONSTANTS
  Threads = {t1, t2}
  LeafCount = 2
  LeafSize = 4
  Average = 2
  Sizes = {1, 2}
  DoOSMalloc = TRUE
  MaxMallocs = 4
INVARIANT NoOverlap
CHECK_DEADLOCK FALSE
