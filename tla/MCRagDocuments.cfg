SPECIFICATION Spec
CONSTANTS
  d1 = d1
  w1 = w1
  w2 = w2
  Doc <- MCDoc
  Thread <- MCThread
  NoDoc = NoDoc
  MaxTexts = 2
  MaxRuns = 3
  MaxCuts = 2
  MaxCrashes = 1
SYMMETRY MCSymmetry
INVARIANTS
  QuietIsWhole
CHECK_DEADLOCK FALSE
