SPECIFICATION FairSpec
CONSTANTS
  Builds = {2}
  Schemes = {"tcps"}
  SslModes = {"enabled"}
  Early = {2}
  MaxCalls = 2
  MaxServices = 1
  MaxPushes = 0
PROPERTIES
  SslCallsAnswered
CHECK_DEADLOCK FALSE
