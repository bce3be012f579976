SPECIFICATION Spec
CONSTANTS
  o1 = o1
  p1 = p1
  p2 = p2
  k1 = k1
  None = None
  Operators = {o1}
  Pools = {p1, p2}
  Keys = {k1}
  Ids = {1, 2}
  LeaseTTL = 2
  KeyTTL = 3
  ClockLag = 1
  MaxClock = 5
  MaxVersion = 2
SYMMETRY Symmetric
INVARIANTS
  FreePoolCanReopen
CHECK_DEADLOCK FALSE
