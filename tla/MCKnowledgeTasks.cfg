SPECIFICATION FairSpec
CONSTANTS
  h1 = h1
  h2 = h2
  Runner = Runner
  Http <- MCHttp
  MaxTasks = 2
  MaxRetries = 1
  MaxCrashes = 1
  MaxFaults = 1
CONSTRAINT RetryOrFault
INVARIANTS
  RunningHasOwner
  StartupLosesNothing
PROPERTY
  EveryTaskSettles
