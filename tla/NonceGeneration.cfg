SPECIFICATION Spec
CONSTANTS
  Parties = {1, 2}
  Threshold = 2
  Q = 13
  Gamma1 = 4
  Tags = {1}
  Entropies <- MCEntropies
  Setups <- MCSetups
  Hash <- MCHash
INVARIANTS
  TypeOK
  BoundBeforeCoin
  
  QuietIsFinished
CHECK_DEADLOCK FALSE
