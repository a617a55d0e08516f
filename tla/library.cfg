SPECIFICATION Spec
CONSTANTS
  c1 = c1
  c2 = c2
  p1 = p1
  p2 = p2
  A = A
  B = B
  C = C
  Clients = {c1, c2}
  Keys = {k1, k2}
  Foreign = {f1}
  Kinds = {"redis", "async_redis", "memcached", "django", "memory", "null", "asyncio"}
  Lifetimes = {0, 1, 3}
  NoTTL = NoTTL
  Never = Never
  Unit = 2
  Month = 1
  Ahead <- MCAhead
  Skew = 1
  DefaultTTL = 2
  MaxSize = 1
  Epoch = 4
  MaxTime = 8
  MaxCalls = 2
  Requests = {r1, r2}
  Pks = {p1, p2}
  NewPk = NewPk
  Values = {0, 1}
  Default = 0
  Inputs <- MCInputs
  Seed <- MCSeed
  Strict = TRUE
  Schemas = {A, B, C}
  Root = A
  FieldsOf <- MCFieldsOf
  KindsOf <- MCKindsOf
  Extra = "extra"
  NoSchema = NoSchema
  Experimented = {"serializer", "environment", "inventory", "plugins", "full_gc", "preparation"}
  Repeats <- MCRepeats
  Seeds = {1, 2}
  MaxShocks = 1
  Nothing = Nothing
  Nodes = {1, 2, 3, 4}
  MaxEdges = 4
  Workers <- MCWorkers
  Reads = 2
  MaxCollections = 2
  MaxPause = 1
  MaxFreed = 1
  SlowNs = 2
INVARIANTS
  TypeOK
  LivesForItsTTL
  ClearIsExact
  RowsSatisfySchema
  PlanServesSerializer
  
  VerdictIsRight
  CyclesFound
  TimelineIsTrue
  CollectedAsAsked
CHECK_DEADLOCK FALSE
