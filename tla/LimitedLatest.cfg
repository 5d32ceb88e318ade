SPECIFICATION Spec
CONSTANTS
  LenSend = 1
  LenRecv = 0
  Limited <- FirstTopic
  Policy <- AllLatest
  QueueCap = 2
  ScheduledFault = FALSE
  MaxMsg <- TwoEach
  MaxFaults = 1
INVARIANT LatestKeepsNewest
