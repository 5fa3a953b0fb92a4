CONSTANTS
  Threads = {t1, t2}
  Keys = {a, b}
  Sizes = {2, 3}
  MaxSize = 5
  EnableSwap = TRUE
  SwapSize = 2
  MaxBlocks = 3
  MaxCounter = 3
SPECIFICATION Spec
INVARIANTS ResidencyAgrees EntriesNotOverstated TreeIndexResident
SYMMETRY Symmetry
CHECK_DEADLOCK FALSE
