SPECIFICATION ClientFairSpec
CONSTANTS
  p1 = p1
  p2 = p2
  Poster <- MCOnePoster
  MaxExchanges = 2
  AutoTitle = TRUE
  MaxAttempts = 2
  Pieces = 2
  MaxDeletes = 1
  MaxCrashes = 1
  MaxTries = 3
INVARIANTS
  ToldIsKept
  ShownIsSent
PROPERTIES
  ClientSettles
CHECK_DEADLOCK FALSE
