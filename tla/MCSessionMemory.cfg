INIT MCInit
NEXT MCNext
CONSTANTS
  w1 = w1
  w2 = w2
  h1 = h1
  Ask <- MCThread
  Keep = 4
  MinRecent = 2
  MaxMessages = 8
  MaxCrashes = 1
  Clerk <- MCThread
  Titler <- MCTitler
  MaxTurns = 3
SYMMETRY MCSymmetry
INVARIANTS
  SummaryIsAccount
  RecentIsSpared
  ContextIsWhole
  ExchangesBelong
PROPERTY
  SettledTitleStays
CHECK_DEADLOCK FALSE
