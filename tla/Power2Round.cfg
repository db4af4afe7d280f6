SPECIFICATION Spec
CONSTANTS
  Low = 3
  Width = 5
  D = 3
  NCanonical = 2
  NAdd = 1
  Inputs <- MCInputs
INVARIANTS
  TypeOK
  T1IsPower2Round
  DriverIsEarned
CHECK_DEADLOCK FALSE
