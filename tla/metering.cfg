SPECIFICATION Spec
CONSTANTS
  w1 = w1
  w2 = w2
  u1 = u1
  i1 = i1
  i2 = i2
  Nobody = Nobody
  Clients = {w1, w2}
  Account <- OneAccount
  Items = {i1, i2}
  LeaseTTL = 2
  ClockLag = 1
  MaxClock = 5
  MaxClaims = 3
  MaxReworks = 1
  MaxVersion = 5
SYMMETRY Symmetric
INVARIANTS
  TypeOK
  ReviewedWorkIsFresh
PROPERTIES
  RecordedUnderClaim
  LeasesHoldByTheClock
  ImplementsReviewCycle
CHECK_DEADLOCK FALSE
