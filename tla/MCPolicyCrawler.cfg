SPECIFICATION Spec
CONSTANTS
  c1 = c1
  c2 = c2
  a1 = a1
  k1 = k1
  Sources = 1
  Candidates <- MCCandidates
  SourceOf <- MCSourceOf
  UrlOf <- MCUrlOf
  Admins <- MCOneAdmin
  Workers <- MCOneWorker
  AutoPublish = TRUE
  Interval = 1
  Backoff = 1
  MaxManual = 0
  MaxFaults = 1
SYMMETRY MCVersions
INVARIANT
  LibraryFollowsReview
PROPERTY
  ReviewIsKept
