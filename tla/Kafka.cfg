CONSTANTS
  Node = {n1, n2}
  Msg = {m1, m2}
  Named = {m1}
  Store = {r1}
  StoreOf <- MCStoreOf
  Faults = {"refused", "error", "request_lost", "reply_lost", "not_produced", "not_delivered", "crash"}
  MaxFaults = 3
  r1 = r1
  w1 = w1
  w2 = w2
  i1 = i1
  i2 = i2
  d1 = d1
  d2 = d2
SPECIFICATION KafkaSpec
INVARIANTS
  LossNeedsFault
  
  

  
  
CHECK_DEADLOCK FALSE
