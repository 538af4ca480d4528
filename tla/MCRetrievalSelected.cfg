\* Three asks of one knowledge base with different selections, no change.
INIT Init
NEXT Next
CONSTANTS
  t1 = t1
  t2 = t2
  u1 = u1
  u2 = u2
  p1 = p1
  Threads <- MCThreads
  Uploads <- MCUploads
  Policies <- MCPolicies
  Changing <- MCChanging
  Asks <- SelectedAsks
  TopK = 2
  MaxFiles = 2
  CorpusLimit = 2
  MaxTexts = 2
  MaxChanges = 0
  MaxAsks = 3
SYMMETRY Symmetry
CHECK_DEADLOCK FALSE
INVARIANTS
  HitsAreSelected
