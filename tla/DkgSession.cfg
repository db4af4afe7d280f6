SPECIFICATION DkgSpec
CONSTANTS
  p1 = p1
  p2 = p2
  Party <- MCParty
  NResidues = 2
  NVectors = 1
  MaxFaults = 1
INVARIANTS
  DkgTypeOK
  
  CompleteIsWhole
  QuietIsComplete
SYMMETRY Symmetry
CHECK_DEADLOCK FALSE
