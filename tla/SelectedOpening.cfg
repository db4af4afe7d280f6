SPECIFICATION OpeningSpec
CONSTANTS
  Q = 13
  Width = 4
  Gamma = 4
  Gamma2 = 2
  Omega = 1
  A <- MCA
  S1 <- MCS1
  T <- MCT
  ChunkLanes = 3
  Batches <- MCBatches
  Masks <- MCMasks
  NoArtifact = NoArtifact
INVARIANTS
  OpeningTypeOK
  SelectionIsFirst
  OpensTheFirst
  PhasesAreDistinct
CHECK_DEADLOCK FALSE
