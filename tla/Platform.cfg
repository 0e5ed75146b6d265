SPECIFICATION PlatformSpec
CONSTANTS
  Parts = {"bus", "coroutines", "processes", "clients", "requests", "batch"}
  MaxActors = 2
  MaxSends = 4
  MaxDepth = 2
  Cos = {c1, c2}
  MaxYields = 2
  Builds <- AllBuilds
  NumWorkers = 2
  Capacity = 2
  MaxSize = 3
  MaxAsks = 2
  NumClients = 2
  MaxApplies = 2
  Configs <- FewConfigs
  ClientBackends = {"curl", "libuv", "libevent", "raw", "winhttp", "wininet", "libsoup3", "fetch", "wasm", "msh3", "apple", "picoquic", "xquic"}
  HeaderRoom = 1
  PartRoom = 1
  PartShapes <- FewParts
  MaxOperations = 3
  BatchSize = 3
  BatchBackends = {"none", "curl", "winhttp", "raw", "fetch", "msh3", "apple", "picoquic", "xquic"}
INVARIANT ListIsQueue
INVARIANT NodesOwned
INVARIANT RunsInTurn
INVARIANT MessagesWhole
INVARIANT EndsOwned
INVARIANT LastConfigRules
INVARIANT ResourcesOwned
INVARIANT BlocksReachable
INVARIANT BodyWhole
INVARIANT LoopServesCurl
INVARIANT StopsAtError
PROPERTY EveryMessageHandled
PROPERTY CallsReturn
PROPERTY CallsEnd
PROPERTY FutureIsFinal
PROPERTY BatchCompletes
CHECK_DEADLOCK FALSE
