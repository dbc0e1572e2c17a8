CONSTANTS
  c1 = c1
  c2 = c2
  f1 = f1
  f2 = f2
  w1 = w1
  None = None
  k1 = k1
  k2 = k2
SPECIFICATION Spec
SYMMETRY Symmetry
INVARIANTS
  StateOwnsFd
  EndsOnce
  FinishAfterSends
  StoppedClean
  Timely
PROPERTIES
  TickProgress
CHECK_DEADLOCK FALSE
