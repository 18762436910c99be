SPECIFICATION FairSpec
CONSTANTS
  Apps = {a1, a2, a3}
  LockClight = clight
  MaxRefs = 2
  MaxPending = 3
  OwnCookies = TRUE
  UserLock = "alone"
INVARIANTS TypeOK HoldsConserved HeldIsInhibited
PROPERTY InhibitionEnds
