SPECIFICATION PlatformSpec
CONSTANTS
  Parts = {"coroutines"}
  MaxActors = 2
  MaxSends = 4
  MaxDepth = 2
  Cos = {c1, c2}
  MaxYields = 2
  Builds <- NestedContexts
  NumWorkers = 2
  Capacity = 2
  MaxSize = 3
  MaxAsks = 2
  NumClients = 2
  MaxApplies = 2
  Configs <- FewConfigs
  ClientBackends = {"curl", "libuv", "libevent", "raw", "winhttp", "wininet", "libsoup3", "fetch", "wasm", "msh3", "apple", "picoquic", "xquic"}
  HeaderRoom = 1
  PartRoom = 1
  PartShapes <- FewParts
  MaxOperations = 0
  BatchSize = 1
  BatchBackends = {"none"}
CHECK_DEADLOCK FALSE
INVARIANT RunsInTurn
