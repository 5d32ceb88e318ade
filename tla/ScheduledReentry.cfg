SPECIFICATION Spec
CONSTANTS
  LenSend = 0
  LenRecv = 1
  Limited <- NoTopic
  Policy <- AllBuffer
  QueueCap = 1
  ScheduledFault = TRUE
  MaxMsg <- OneEach
  MaxFaults = 2
PROPERTY NoReentrantStart
