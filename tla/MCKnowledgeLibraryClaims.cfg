SPECIFICATION LibrarySpec
CONSTANTS
  h1 = h1
  Runner = Runner
  Http <- MCOneHttp
  MaxTasks = 2
  MaxRetries = 0
  MaxCrashes = 1
  MaxFaults = 0
  Items = 1
  Chunks = 2
  MaxVersion = 2
INVARIANTS
  NotLeftRunning
  ChangedIsRebuilt
