CONSTANTS
  Docs = {d1, d2}
  MaxPieces = 3
  EmbedBatch = 2
  Queries = {q1}
  TopK = 1
  Candidates = 2
  EmbedModel = "law"
  EmbedDim = 2
  QueryModel = "law"
  DenseDim = 2
  Hybrid = FALSE
  MaxFaults = 1
SPECIFICATION Spec
INVARIANTS
  StoresAgree
  TotalsAreTheCalls
  AnswersAreCited
  GoldIsSearchable
SYMMETRY DocSymmetry
CHECK_DEADLOCK FALSE
