SPECIFICATION Spec
CONSTANTS
  t1 = t1
  t2 = t2
  t3 = t3
  Transfers <- Three
  Daemon = daemon
  Connections = 2
  Overlap = FALSE
  MayExpire = TRUE
SYMMETRY Symmetry
CHECK_DEADLOCK FALSE
INVARIANTS
  EverythingClosed
