SPECIFICATION Spec
CONSTANTS
  Writer = {w1, w2}
  Text = {"0", "1", "DROP"}
  Cpu = {u1, u2}
  Packet <- MCPacket
  Rules <- MCRules
  MaxWrites = 3
  MaxPackets = 3
PROPERTIES
  WrittenIsSet
CHECK_DEADLOCK FALSE
