SPECIFICATION TunnelSpec
CONSTANTS
  a = a
  b = b
  h = h
  Agents <- TwoAgents
  Host = h
  QueueSize = 1
  HeaderLen = 2
  PayloadLen = 1
  SndBuf = 2
  RcvBuf = 1
  HostBuf = 1
  OutChunks = 3
  InPackets = 1
  MayClose <- AllSockets
  EastMayClose <- TwoAgents
  MayReset <- NoSocket
  MayCut <- NoSocket
CONSTRAINT Load
SYMMETRY Symmetry
CHECK_DEADLOCK FALSE
INVARIANTS
  ParserSeesWire
  EndOfStreamIsComplete
PROPERTIES
  TunnelIsStream
  EastIsDataTransfer
