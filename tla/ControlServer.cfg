SPECIFICATION LiveSpec
CONSTANTS
  Clients = {c1, c2}
  Requests <- SomeRequests
  TokenSet = TRUE
  Scheduled = TRUE
  None = None
INVARIANTS
  TypeOK
  AnswersTrue
  NoThreadLeft
  SpinMeansBound
PROPERTIES
  StartAndStopComplete
  RequestsAnswered
