SPECIFICATION CallsSpec
CONSTANTS
  Parts = {"dispatch", "framing", "table", "values", "auth"}
  ClientClasses <- SomeClientClasses
  ServerClasses <- SomeServerClasses
  MaxCalls = 2
  MaxInits = 2
  Directions = {"toServer", "toClient"}
  Targets = {0, 1, 2}
  MaxMessages = 3
  Connections = {c1, c2}
  ServiceNames = {n1}
  Objects = {o1, o2}
  Keys = {k1}
  Classes = {"signature", "returnValue", "message"}
  Handles = {h1, h2}
  Texts <- SomeTexts
  Names = {"f", "g"}
  Types = {"", "int"}
  Contents = {0, 1}
  Logins = {k1, k2}
  Tokens = {t1}
  Accounts = {ann, bob}
  Offered = {s1}
  MaxChanges = 1
  MaxGets = 1
INVARIANTS
  ReachesAsListed
  AnsweredOnce
  ReadAsWritten
  ServicesKept
  LoggedInAsMeant
PROPERTIES
  CallAnswered
  ChannelSpec
  CopiesIndependent
CHECK_DEADLOCK FALSE
