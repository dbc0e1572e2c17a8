SPECIFICATION Spec
CONSTANTS
  Pages = 3
  Threads = {t1, t2}
  NoThread = NoThread
  NumClasses = 2
  PageSize = 2
  ClassSize <- MCClassSize
  PagesFor <- MCPagesFor
  Batch <- MCBatch
  MaxRanges <- MCMaxRanges
  Limit = 2
  LargePages = {2}
  MaxHeld = 1
SYMMETRY ThreadSymmetry
INVARIANTS
  HeapTiled
  
  CountsExact

  
CHECK_DEADLOCK FALSE
