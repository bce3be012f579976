SPECIFICATION ExchangeSpec
CONSTANTS
  l1 = l1
  w1 = w1
  w2 = w2
  gpu = gpu
  cpu = cpu
  network = network
  Ledgers = {l1}
  Workloads = {w1, w2}
  Followed = w1
  MaxBatches = 2
  Kinds = {gpu, cpu, network}
  Segments <- Sent
  MaxBatch = 2
  MaxTolerance = 1
SYMMETRY Symmetric
INVARIANTS
  Types
  RowsTellSegments
  MeteredStreamsMeet
  ReleasedAsReviewed
  BilledIsMetered
  ReleasedAsUsed
PROPERTIES
  MeteredIsFrozen
CHECK_DEADLOCK FALSE
