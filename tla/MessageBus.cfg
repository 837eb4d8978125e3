SPECIFICATION FairSpec
CONSTANTS
  c1 = c1
  c2 = c2
  o1 = o1
  Callers <- TwoCallers
  Objects <- OneObject
  NoObject = NoObject
  MaxCalls = 2
  Racing = FALSE
INVARIANTS
  NoLostWakeup
  OnceAndOwn
  NobodyForgotten
PROPERTIES
  ContractSpec
  CallsReturn
CHECK_DEADLOCK FALSE
