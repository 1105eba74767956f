CONSTANTS
  Chunks <- MCChunks
  Requests <- MCRequests
  Gain <- MCGain
  Sizes = {1, 2, 3, 4}
  Ks = {1, 2, 5}
  Depths = {0, 1, 3}
  RrfK = 60
  DefaultCandidates = 2
SPECIFICATION Spec
INVARIANTS
  FusionRespectsBoth
  BestCandidates
  ScoresAreFractions
CHECK_DEADLOCK FALSE
