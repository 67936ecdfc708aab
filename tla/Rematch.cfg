SPECIFICATION Spec
CONSTANTS
  t1 = t1
  t2 = t2
  ClientRole <- One
  AgentRole <- Other
  Connections = 2
  Overlap = TRUE
  MayFail = FALSE
  MayReset = FALSE
  MayHangUp = FALSE
  MayExpire = FALSE
PROPERTIES
  OnlyWaitingClients
