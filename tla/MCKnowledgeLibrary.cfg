SPECIFICATION LibrarySpec
CONSTANTS
  h1 = h1
  Runner = Runner
  Http <- MCOneHttp
  MaxTasks = 2
  MaxRetries = 1
  MaxCrashes = 1
  MaxFaults = 1
  Items = 1
  Chunks = 2
  MaxVersion = 2
CONSTRAINT MCBounds
INVARIANTS
  IndexedIsWhole
  OldIndexScheduled
  UnfinishedScheduled
