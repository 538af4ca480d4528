\* One task or edit and two asks: enough for a change between the build of the
\* engine and its use, and for two asks that share caches and documents.
INIT Init
NEXT Next
CONSTANTS
  t1 = t1
  t2 = t2
  u1 = u1
  u2 = u2
  p1 = p1
  Threads <- MCThreads
  Uploads <- MCUploads
  Policies <- MCPolicies
  Changing <- MCChanging
  Asks <- MCAsks
  TopK = 2
  MaxFiles = 2
  CorpusLimit = 2
  MaxTexts = 2
  MaxChanges = 1
  MaxAsks = 2
SYMMETRY Symmetry
INVARIANTS
  CachesAreCurrent
  UploadsAreShown
  FusionIsFair
  MixedSharesPlaces
CHECK_DEADLOCK FALSE
