SPECIFICATION Spec
CONSTANTS
  w1 = w1
  w2 = w2
  u1 = u1
  Empty = Empty
  Workers = {w1, w2}
  Account <- OneAccount
  Releases = {r1}
  Jobs = {1}
  MaxAttempts = 3
  LeaseTTL = 2
  RetryBase = 1
  ClockLag = 1
  MaxClock = 7
  MaxVersion = 6
SYMMETRY Symmetric
INVARIANTS
  TypeOK
  OneOutcome
  RevokedIsQuiet
  WaitingHasBudget
  TicketsAreFenced
  AnnouncedIsFinal
PROPERTIES
  StaleProcessWritesNothing
  TerminalIsFinal
  LeasesErrByATick
  ImplementsQueue
CHECK_DEADLOCK FALSE
