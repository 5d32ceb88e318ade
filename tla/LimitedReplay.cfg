SPECIFICATION Spec
CONSTANTS
  LenSend = 1
  LenRecv = 0
  Limited <- FirstTopic
  Policy <- AllBuffer
  QueueCap = 2
  ScheduledFault = FALSE
  MaxMsg <- ThreeEach
  MaxFaults = 1
PROPERTY ReplayLosesNothing
