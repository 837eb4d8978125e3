SPECIFICATION FairSpec
CONSTANTS
  Proxies = {p1, p2}
  NoProxy = NoProxy
  MaxGets = 1
  MaxCalls = 2
  MaxPushes = 1
INVARIANTS
  DataAgree
  RoutedToHolders
  ChainsUnderWay
PROPERTIES
  AllReported
CHECK_DEADLOCK FALSE
