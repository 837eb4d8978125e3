SPECIFICATION Spec
CONSTANTS
  Proxies = {p1, p2}
  MaxConns = 2
  Sharing = TRUE
  BadUrls = FALSE
  Patient = {p2}
INVARIANTS
  BusFreedOnce
CHECK_DEADLOCK FALSE
