SPECIFICATION Spec
CONSTANTS
  MaxWidth = 5
  MaxBits = 8
  MaxFailure = 1
  Jobs <- MCJobs
INVARIANTS
  TypeOK
  
PROPERTY CircuitFinishes
CHECK_DEADLOCK FALSE
