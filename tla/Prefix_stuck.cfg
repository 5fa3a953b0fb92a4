CONSTANTS
  Threads = {t1}
  Keys = {a, b}
  Sizes = {3}
  MaxSize = 5
  EnableSwap = TRUE
  SwapSize = 2
  MaxBlocks = 2
  MaxCounter = 6
SPECIFICATION FairSpec
PROPERTY GetCompletes
CHECK_DEADLOCK FALSE
