SPECIFICATION FairSpec
CONSTANTS
  Keys = {k1, k2}
  Requests = {r1, r2, r3}
  Sids = {s1, s2}
  MaxAttempts = 2
  TwoListeners = TRUE
INVARIANTS
  LimiterHolds
  EndedStaysOut
PROPERTIES
  LockoutEnds
