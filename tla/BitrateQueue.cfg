SPECIFICATION LiveSpec
CONSTANTS
  Lens <- SomeLens
  MaxLen = 3
  Rate = 1
  Window = 2
  MaxQueue = 3
  MaxTime = 6
INVARIANTS
  TypeOK
  BytesExact
  BacklogBounded
  RateKept
  IntervalRateKept
PROPERTIES
  BacklogMoves
