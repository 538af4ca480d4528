INIT MCInit
NEXT MCNext
CONSTANTS
  u0 = u0
  u1 = u1
  u2 = u2
  t1 = t1
  t2 = t2
  w1 = w1
  w2 = w2
  p1 = p1
  UserId <- MCUserId
  Name <- MCName
  Password <- MCPassword
  Token <- MCToken
  Thread <- MCThread
  Seed = u0
  Nobody = Nobody
  MaxWrites = 4
  MaxCrashes = 1
  Desk <- MCThread
  Profile <- MCProfile
  Nothing = Nothing
SYMMETRY MCSymmetry
INVARIANTS
  SessionsAreCurrent
  ActiveProviderIsThere
PROPERTY
  AdminsStay
CHECK_DEADLOCK FALSE
