SPECIFICATION Spec
CONSTANTS
  a = a
  b = b
  h = h
  Agents <- OneAgent
  Host = h
  QueueSize = 1
  HeaderLen = 1
  PayloadLen = 1
  SndBuf = 2
  RcvBuf = 3
  HostBuf = 1
  OutChunks = 0
  InPackets = 1
  MayClose <- HostOnly
  MayReset <- NoSocket
  MayCut <- NoSocket
CHECK_DEADLOCK FALSE
PROPERTIES
  ClosesEmptySockets
