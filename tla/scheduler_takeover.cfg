SPECIFICATION Spec
CONSTANTS
  w1 = w1
  w2 = w2
  u1 = u1
  Empty = Empty
  Workers = {w1, w2}
  Account <- OneAccount
  Releases = {r1}
  Jobs = {1}
  MaxAttempts = 2
  LeaseTTL = 2
  RetryBase = 1
  ClockLag = 0
  MaxClock = 5
  MaxVersion = 4
PROPERTY NoEarlyTakeover
CHECK_DEADLOCK FALSE
