SPECIFICATION TableSpec
CONSTANTS
  Connections = {c1, c2}
  ServiceNames = {n1}
  Objects = {o1, o2}
  Keys = {k1}
INVARIANTS
  SharersAnswered
CHECK_DEADLOCK FALSE
