SPECIFICATION LiveSpec
CONSTANTS
  w1 = w1
  u1 = u1
  Empty = Empty
  Workers = {w1}
  Account <- OwnAccount
  Releases = {r1}
  Jobs = {1, 2}
  MaxAttempts = 2
  LeaseTTL = 1
  RetryBase = 1
  ClockLag = 0
  MaxClock = 4
  MaxVersion = 2
PROPERTIES
  EveryJobEnds
  OldestFirst
CHECK_DEADLOCK FALSE
