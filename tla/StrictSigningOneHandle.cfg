SPECIFICATION Spec
CONSTANTS
  t1 = t1
  t2 = t2
  s1 = s1
  s2 = s2
  NoSession = NoSession
  Handles = {h1}
  Tokens <- MCTokens
  Sessions <- MCSessions
  BatchOf <- MCBatchOf
INVARIANTS
  TypeOK
  OneTimeUse
  UseIsDurable
  SessionsStayOver
PROPERTIES
  ImplementsPromise
CHECK_DEADLOCK FALSE
