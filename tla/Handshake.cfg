SPECIFICATION FairHandshakeSpec
CONSTANTS
  t1 = t1
  t2 = t2
  ClientRole <- One
  AgentRole <- Other
  Connections = 2
  InTurn = TRUE
  Overlap = FALSE
  MayFail = FALSE
  MayReset = FALSE
  MayHangUp = FALSE
  MayExpire = FALSE
INVARIANTS
  SameConnections
PROPERTIES
  BothSetUp
  BothWaitInEventPool
