SPECIFICATION Spec
CONSTANTS
  MaxFreq = 3
  Second = 2
  MaxTime = 8
  MaxForwarded = 11
INVARIANTS
  TypeOK
  IntervalFreqKept
  PeriodFreqKept
