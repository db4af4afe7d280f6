SPECIFICATION Spec
CONSTANTS
  p1 = p1
  p2 = p2
  p3 = p3
  mul = mul
  open = open
  All = All
  Stray = Stray
  NoVec = NoVec
  Order <- MCOrder
  Honest <- MCHonest
  Phases <- MCPhases
  Directed <- MCDirected
  FaultyShares <- MCFaultyShares
  FaultyOpenings <- MCFaultyOpenings
  MaxDraw = 2
  MaxCrash = 1
  MaxFailure = 1
INVARIANTS
  TypeOK
  LivesAgree
  PartiesAgree
CHECK_DEADLOCK FALSE
