SPECIFICATION Spec
CONSTANTS
  t1 = t1
  t2 = t2
  t3 = t3
  Transfers <- Two
  Daemon = daemon
  Connections = 2
  Overlap = TRUE
  MayExpire = TRUE
CHECK_DEADLOCK FALSE
INVARIANTS
  EverythingClosed
