SPECIFICATION Spec
CONSTANTS
  c1 = c1
  c2 = c2
  k1 = k1
  k2 = k2
  k3 = k3
  Callers = {c1, c2}
  Nobody = Nobody
  NoCall = NoCall
  MaxTold = 1
  Keys = {k1, k2, k3}
  Deposited = {1, 2}
  Reserved = {1}
  MaxInt64 = 2
  Calls <- ServiceCalls
  Outcome <- ServiceOutcome
  StartsWriting <- InsertsFirst
  EmptyDatabase <- EmptyTables
SYMMETRY Symmetric
INVARIANTS
  WriterIsCurrent
  BalancesTellEntries
  AuditsTellChanges
  AnswersStand
PROPERTIES
  ImplementsSerial
CHECK_DEADLOCK FALSE
