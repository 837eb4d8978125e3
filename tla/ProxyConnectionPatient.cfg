SPECIFICATION FairSpec
CONSTANTS
  Proxies = {p1}
  MaxConns = 2
  Sharing = FALSE
  BadUrls = TRUE
  Patient = {p1}
INVARIANTS
  LossIsOwn
  ReportedOnce
PROPERTIES
  ConnectionsEnd
CHECK_DEADLOCK FALSE
