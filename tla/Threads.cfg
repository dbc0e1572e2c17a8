CONSTANTS
  Producer = {p1, p2}
  Consumer = {c1, c2}
  Items = 2
  Capacity = 2
  Pusher = {t1, t2}
  Loop = Loop
  Stopper = Stopper
  Wake = Wake
  NoRequest = NoRequest
  Request = {r1, r2, r3, r4}
  t1 = t1
  t2 = t2
  r1 = r1
  r2 = r2
  r3 = r3
  r4 = r4
  Todo <- MCTodo
  Follow <- MCFollow
  Parts <- MCParts
  Immediate = {r2}
  QueueCapacity = 4
  MaxEvents = 2
  MaxFaults = 1
  Id = {i1, i2}
  Socket = {s1, s2}
  Fd = {f1, f2}
  None = None
  MaxStreams = 1
SPECIFICATION NodeSpec
INVARIANTS
  CellExclusive
  CallbackOnce
  WakeupPending
  OpenOwnsFd
PROPERTIES
  IsFifo
  NobodyWaitsForever
CHECK_DEADLOCK FALSE
