SPECIFICATION Spec
CONSTANTS
  Proxies = {p1}
  MaxConns = 2
  Sharing = FALSE
  BadUrls = FALSE
  Patient = {}
INVARIANTS
  LossIsOwn
CHECK_DEADLOCK FALSE
