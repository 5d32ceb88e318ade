SPECIFICATION LiveSpec
CONSTANTS
  LenSend = 1
  LenRecv = 1
  Limited <- NoTopic
  Policy <- LatestThenBuffer
  QueueCap = 1
  ScheduledFault = FALSE
  MaxMsg <- TwoThenThree
  MaxFaults = 2
INVARIANTS
  SingleFlusher
  BufferGuarded
  Coordination
  BufferLosesNothing
  LatestKeepsNewest
  NoLeak
  OneOvertakerPerFault
  SendOrderKept
  SocketNotShared
PROPERTIES
  StartClearsNothing
  ImplementsLink
  BufferedGetsOut
