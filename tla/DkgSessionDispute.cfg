SPECIFICATION DkgSpec
CONSTANTS
  p1 = p1
  p2 = p2
  Party <- MCParty
  NResidues = 2
  NVectors = 1
  MaxFaults = 0
INVARIANTS
  DisputeAborts
SYMMETRY Symmetry
CHECK_DEADLOCK FALSE
