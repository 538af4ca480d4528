SPECIFICATION Spec
CONSTANTS
  h1 = h1
  h2 = h2
  Runner = Runner
  Http <- MCOneHttp
  MaxTasks = 1
  MaxRetries = 0
  MaxCrashes = 0
  MaxFaults = 0
INVARIANTS
  OneOwnerPerTask
