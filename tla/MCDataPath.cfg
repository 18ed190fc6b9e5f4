SPECIFICATION PathSpec
CONSTANTS
  Paths <- MCPaths
  Locations <- MCLocations
  Timed = TRUE
  Guarded = TRUE
  MaxRequests = 2
  Kinds = {"splice", "timed", "connect", "uds", "bridge"}
  MaxBytes = 2
INVARIANTS
  CountsMatchAnswers
  StreamsAreIntact
  OkMeansDelivered
PROPERTIES
  SilenceIsBounded
  FinishedTunnelsEnd
CHECK_DEADLOCK FALSE
