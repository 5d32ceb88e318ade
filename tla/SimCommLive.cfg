SPECIFICATION LiveSpec
CONSTANTS
  LenSend = 1
  LenRecv = 0
  Limited <- FirstTopic
  Policy <- AllBuffer
  QueueCap = 1
  ScheduledFault = TRUE
  MaxMsg <- TwoEach
  MaxFaults = 2
INVARIANTS
  TypeOK
  NoDuplicate
PROPERTIES
  FaultEnds
  WorkersReturn
  StopCompletes
