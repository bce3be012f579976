SPECIFICATION Spec
CONSTANTS
  l1 = l1
  l2 = l2
  w1 = w1
  w2 = w2
  Ledgers = {l1, l2}
  Workloads = {w1, w2}
SYMMETRY Symmetric
INVARIANTS
  FrozenCanBeReviewed
CHECK_DEADLOCK FALSE
