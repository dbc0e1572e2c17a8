SPECIFICATION TunnelSpec
CONSTANTS
  a = a
  b = b
  c = c
  far = far
  m1 = m1
  m2 = m2
  None = None
  NoStore = NoStore
  Node = {a, b, c, far}
  Msg = {m1, m2}
  Networks <- MCNetworks
  MaxFaults = 2
INVARIANTS
  
  DeliveredOnce
  
PROPERTIES
  
  Coverage
CHECK_DEADLOCK FALSE
