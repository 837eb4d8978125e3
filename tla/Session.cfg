SPECIFICATION FairSpec
CONSTANTS
  Builds = {1, 2}
  Schemes = {"tcp", "tcps", "socket"}
  SslModes = {"enabled", "disabled", "forced"}
  Early = {2}
  MaxCalls = 4
  MaxServices = 3
  MaxPushes = 1
INVARIANTS
  Understood
  InTurn
  CallsConserved
PROPERTIES
  CallsAnswered
CHECK_DEADLOCK FALSE
