SPECIFICATION Spec
CONSTANTS
  t1 = t1
  t2 = t2
  NoLog = NoLog
  Tokens <- MCTokens
  Batches <- MCBatches
INVARIANTS
  TypeOK
  LogsComeFirst
PROPERTIES
  ImplementsPromise
CHECK_DEADLOCK FALSE
