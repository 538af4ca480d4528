SPECIFICATION MCSpec
CONSTANTS
  t1 = t1  t2 = t2  s1 = s1  s2 = s2
  None = None
  NoFactor = "none"
  Threads <- MCThreads
  Sessions <- MCSessions
  Rows <- MCRows
  Readable <- MCReadable
  LiveSnapshots <- MCLiveSnapshots
  FileFactors <- MCFileFactors
  Payloads <- MCPayloads
  Patterns <- MCPatterns
  ActivityOf <- MCActivityOf
  UnitOf <- MCUnitOf
  TermsOf <- MCTermsOf
  Regions <- MCRegions
  RegionOf <- MCRegionOf
  Rank <- MCRank
  MatchScore <- MCMatchScore
  Batches <- MCBatches
  Citings <- MCCitings
  Documents <- MCDocuments
  JobLimit = 2
  MaxRequests = 4
  MaxJobs = 3
  MaxFaults = 1
  MaxMessages = 1
  MaxReports = 1
PROPERTY SwitchedOffStaysOff
CHECK_DEADLOCK FALSE
