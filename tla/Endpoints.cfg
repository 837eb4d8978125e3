SPECIFICATION EndpointsFairSpec
CONSTANTS
  Parts = {"pool", "listener", "fork", "keepalive", "thread", "token", "poll", "socket"}
  Instances = {i1, i2, i3, i4, i5}
  ThreadTypes = {"SingleThread", "ThreadPool", "ThreadPerInstance", "ProcessPerInstance"}
  Threads = 3
  Setters = {s1, s2}
  Values = {v1, v2}
  Threadings = {TRUE, FALSE}
  Peers = {p1, p2}
  Configs = {"first", "second"}
  MaxStops = 2
  Timeouts = {1, 3}
  Late = FALSE
  MaxSets = 2
  Callers = {a1, a2}
  Users = {u1, u2}
  TokenValues = {0, 1}
  MaxUses = 2
  MaxUpdates = 3
  Servers = {w1, w2, w3}
  SocketClients = {c1}
INVARIANTS
  CountsLive
  HomeRuns
  FutureOnly
  KeptAlive
  HandedOverWhole
  SocketReachable
  CallbacksSound
PROPERTIES
  Placed
  LossNoticed
  NobodyStuck
CHECK_DEADLOCK FALSE
