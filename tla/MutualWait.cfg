SPECIFICATION FairHandshakeSpec
CONSTANTS
  t1 = t1
  t2 = t2
  ClientRole <- One
  AgentRole <- Other
  Connections = 1
  InTurn = FALSE
  Overlap = FALSE
  MayFail = FALSE
  MayReset = FALSE
  MayHangUp = FALSE
  MayExpire = FALSE
CHECK_DEADLOCK FALSE
PROPERTIES
  BothWaitInEventPool
