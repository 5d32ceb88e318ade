SPECIFICATION LiveSpec
CONSTANTS
  Configs <- SomeConfigs
  SubMax = 2
  None = None
INVARIANTS
  TypeOK
  ConfigJudged
  ReadyBeforeUse
  CleanExit
PROPERTIES
  StartAndStopComplete
