SPECIFICATION Spec
CONSTANTS
  r1 = r1
  r2 = r2
  c1 = c1
  c2 = c2
  Runtimes = {r1, r2}
  Callers = {c1, c2}
  MaxWorkers = 2
INVARIANTS
  TypeOK
  CleanStopMeansEnded
PROPERTIES
  StopEnds
CHECK_DEADLOCK FALSE
