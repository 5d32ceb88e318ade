SPECIFICATION Spec
CONSTANTS
  LenSend = 0
  LenRecv = 1
  Limited <- NoTopic
  Policy <- AllBuffer
  QueueCap = 1
  ScheduledFault = FALSE
  MaxMsg <- TwoEach
  MaxFaults = 1
INVARIANT DeliveredInOrder
