SPECIFICATION OneWaySpec
CONSTANTS
  a = a
  b = b
  h = h
  Agents <- TwoAgents
  Host = h
  QueueSize = 1
  HeaderLen = 2
  PayloadLen = 1
  SndBuf = 4
  RcvBuf = 2
  HostBuf = 1
  OutChunks = 3
  InPackets = 3
  MayClose <- AllSockets
  MayReset <- NoSocket
  MayCut <- NoSocket
CHECK_DEADLOCK FALSE
PROPERTIES
  InboundDelivered
  OutboundSent
  EndsAfterHost
  EndsAfterAgents
