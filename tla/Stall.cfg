SPECIFICATION FairSpec
CONSTANTS
  a = a
  b = b
  h = h
  Agents <- OneAgent
  Host = h
  QueueSize = 1
  HeaderLen = 1
  PayloadLen = 1
  SndBuf = 2
  RcvBuf = 1
  HostBuf = 1
  OutChunks = 2
  InPackets = 0
  MayClose <- NoSocket
  MayReset <- NoSocket
  MayCut <- NoSocket
CHECK_DEADLOCK FALSE
PROPERTIES
  PollinComesBack
