SPECIFICATION Spec
CONSTANTS
  c1 = c1
  c2 = c2
  Client = {c1, c2}
  CommandLine <- MCCommandLine
  Packet <- MCPacket
  Files <- MCFiles
  Conf <- MCConf
  SockCap = 3
  MaxRules = 3
  MaxCommands = 2
  MaxFaults = 1
  MaxRestarts = 1
INVARIANTS
  ListedIsEnforced
  NodesExact
PROPERTIES
  RestoredAfterRestart
  Answered
CHECK_DEADLOCK FALSE
