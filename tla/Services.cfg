SPECIFICATION Spec
CONSTANTS
  Humans = {h1, h2}
  AIs = {a1, a2}
  Files = {f1, f2}
  Regions <- TheRegions
  Durations = {1}
  MaxZoneTime = 1
  AgentIds = {g1, g2}
  MaxAgents = 1
  Actions = {edit}
  MaxOperations = 2
  WindowMs = 2
  CooldownMs = 3
  HealthTimeout = 1
  MaxClock = 6
  Tasks = {t1, t2, t3}
  Priorities = {1, 2}
  MaxTime = 0
  MaxRepeating = 1
  Workers = {w1, w2}
  RoleOf <- TheRoles
  MaxMessages = 3
  MaxHistory = 2
  Names = {fs, db}
  NoServer = NoServer
  Configs = {1, 2}
  MCPClients = {1, 2}
  Closers = {k1, k2}
  MaxCalls = 3
  MaxPieces = 5
  MaxNodes = 3
  MaxDependencies = 2
  Sockets = {s1, s2, s3}
  MaxTimers = 3
  IdleTimeout = 1
  AwayTimeout = 3
  MaxSilence = 4
  Positions = {1, 2}
  KeyProviders = {openai, gemini}
  KeyCalls = {kc1, kc2}
SYMMETRY Symmetric
INVARIANTS
  TypeOK
  NoOverlap
  WithinRate
  NothingLost
  ConnectedIsCallable
  CallsAreWhole
  OrderIsRight
  NeverGivesUp
  ShownIsCurrent
  RemovedIsGone
PROPERTIES
  HumansPrevail
  ImplementsOrderedWork
CHECK_DEADLOCK FALSE
