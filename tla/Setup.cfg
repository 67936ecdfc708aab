SPECIFICATION FairSpec
CONSTANTS
  t1 = t1
  t2 = t2
  ClientRole <- One
  AgentRole <- Other
  Connections = 2
  Overlap = FALSE
  MayFail = TRUE
  MayExpire = TRUE
  MayReset = TRUE
  MayHangUp = TRUE
CHECK_DEADLOCK FALSE
INVARIANTS
  TypeOK
  ForkedComplete
  CounterIsExact
  HandedOverOnce
  NoFatalExit
PROPERTIES
  SetUp
