CONSTANTS
  Errors = {"e1"}
  MaxFrames = 6
  EnvSize = 2
  GsSize = 2
  MaxCountdown = 2
  ForeignCalls = FALSE
  Remappers = TRUE
  ReplInterrupt = TRUE
SPECIFICATION FairSpec
CHECK_DEADLOCK FALSE
INVARIANTS
  CatchersLive
  GlobalsExact
  RunsExact
PROPERTIES
  ThrownHandled
