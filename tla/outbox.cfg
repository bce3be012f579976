SPECIFICATION Spec
CONSTANTS
  w1 = w1
  w2 = w2
  Nobody = Nobody
  Workers = {w1, w2}
  Events = {1}
  MaxAttempts = 3
  LeaseTTL = 2
  RetryBase = 1
  ClockLag = 1
  MaxClock = 6
  MaxVersion = 5
SYMMETRY Symmetric
INVARIANTS
  TypeOK
  DeliveriesAreAccounted
PROPERTIES
  OwnedUntilExpiry
  ImplementsQueue
CHECK_DEADLOCK FALSE
