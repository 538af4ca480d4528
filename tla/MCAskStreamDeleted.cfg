SPECIFICATION FairSpec
CONSTANTS
  p1 = p1
  Poster <- MCOnePoster
  MaxExchanges = 1
  AutoTitle = TRUE
  MaxAttempts = 2
  Pieces = 1
  MaxDeletes = 1
  MaxCrashes = 0
PROPERTIES
  EveryStreamEnds
