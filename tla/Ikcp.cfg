SPECIFICATION Spec
CONSTANTS
  A = A
  B = B
  Script <- MCScript
  SndWnd = 3
  RcvWnd = 3
  WndRcv = 3
  M = 16
  First = 14
  PerDatagram = 3
  NetCap = 4
  Faults = 2
INVARIANTS
  InOrder
  AckedIsHeld
PROPERTIES
  AllDelivered
CHECK_DEADLOCK FALSE
