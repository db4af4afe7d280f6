SPECIFICATION Spec
CONSTANTS
  s1 = s1
  s2 = s2
  Sessions <- MCSessions
  Batch <- MCBatch
  MaxFaults = 1
INVARIANTS
  TypeOK
  CertifiedIsComplete
PROPERTIES
  RecordsAreExact
  ImplementsPromise
CHECK_DEADLOCK FALSE
