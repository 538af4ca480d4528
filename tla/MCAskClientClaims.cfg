SPECIFICATION ClientSpec
CONSTANTS
  p1 = p1
  p2 = p2
  Poster <- MCPoster
  MaxExchanges = 2
  AutoTitle = FALSE
  MaxAttempts = 1
  Pieces = 2
  MaxDeletes = 0
  MaxCrashes = 0
  MaxTries = 2
INVARIANTS
  DoneIsWhole
  OneMessagePerGroup
CHECK_DEADLOCK FALSE
