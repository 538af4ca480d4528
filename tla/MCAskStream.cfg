SPECIFICATION Spec
CONSTANTS
  p1 = p1
  Poster <- MCOnePoster
  MaxExchanges = 2
  AutoTitle = TRUE
  MaxAttempts = 2
  Pieces = 2
  MaxDeletes = 1
  MaxCrashes = 1
INVARIANTS
  StreamTellsMessage
  StreamReadsOnce
  OneAnswerPerGroup
