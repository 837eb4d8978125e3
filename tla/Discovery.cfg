SPECIFICATION DiscoverySpec
CONSTANTS
  Cases = {"publisher", "finder", "both", "names"}
  Names = {n1}
  Backends = {"avahi", "bonjour"}
  MaxScans = 2
  MaxErrors = 1
  MaxAnswers = 2
  MaxIds = 3
  MaxCalls = 3
  ServiceTexts <- SomeServiceTexts
  ByteOrders = {"little", "big"}
INVARIANTS
  RegisteredOnce
  FinderKeepsTrack
  NamedAlike
PROPERTIES
  AllTold
  PublishedFound
CHECK_DEADLOCK FALSE
