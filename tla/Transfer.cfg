SPECIFICATION Spec
CONSTANTS
  a = a
  b = b
  h = h
  Agents <- TwoAgents
  Host = h
  QueueSize = 2
  HeaderLen = 2
  PayloadLen = 2
  SndBuf = 5
  RcvBuf = 1
  HostBuf = 1
  OutChunks = 3
  InPackets = 4
  MayClose <- AllSockets
  MayReset <- AllSockets
  MayCut <- TwoAgents
CONSTRAINT Load
SYMMETRY Symmetry
CHECK_DEADLOCK FALSE
INVARIANTS
  TypeOK
  PendingPolled
  NextPacketPolled
  BlockedPacketIsNext
  NextPacketHandled
  SlotAccounting
  NeverTriggeredInVain
  FramingInStep
  InOrderDelivery
  OrderlyEnd
  NoFatalExit
  FramesContiguous
  OutboundConservation
PROPERTIES
  ImplementsStream
