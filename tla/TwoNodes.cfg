SPECIFICATION LiveSpec
CONSTANTS
  Topics = {1, 2}
  SendPolicy <- BufferThenDrop
  RecvPolicy <- BufferThenLatest
  HighWater = 1
  MaxMsg <- ThreeAndOne
  MaxFaults = 1
INVARIANTS
  NothingMislaid
  ReceiverAloneReorders
PROPERTY DeliveredOrLost
