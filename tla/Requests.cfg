SPECIFICATION FairSpec
CONSTANTS
  c1 = c1
  c2 = c2
  c3 = c3
  a1 = a1
  host1 = host1
  host2 = host2
  None = None
  Uuids <- Transfers
  type <- Types
  source <- Sources
  Copies <- CopiesOf
  Arrivals <- ArrivalsOf
  MayExpire <- Expiring
CHECK_DEADLOCK FALSE
INVARIANTS
  MatchedOwn
  CopiesAccounted
PROPERTIES
  Served
