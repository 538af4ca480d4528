SPECIFICATION FairSpec
CONSTANTS
  c1 = c1
  c2 = c2
  a1 = a1
  k1 = k1
  Sources = 2
  Candidates <- MCCandidates
  SourceOf <- MCSourceOf
  UrlOf <- MCUrlOf
  Admins <- MCOneAdmin
  Workers = {}
  AutoPublish = FALSE
  Interval = 1
  Backoff = 1
  MaxManual = 1
  MaxFaults = 1
INVARIANTS
  InterruptedIsDue
  TickIsCurrent
PROPERTIES
  KeepsPromise
  EverySourceComesRound
