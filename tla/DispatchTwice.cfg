SPECIFICATION Spec
CONSTANTS
  ClientClasses <- SomeClientClasses
  ServerClasses <- SomeServerClasses
  MaxCalls = 1
  MaxInits = 2
INVARIANTS
  SentOnce
CHECK_DEADLOCK FALSE
