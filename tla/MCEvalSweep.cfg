CONSTANTS
  Sweeps = {s1, s2}
  Combos <- MCCombos
  Modes <- HybridOnly
  Reranks <- Once
  Docs = 2
  Queries = 1
  ProviderDim <- MCDims
  QueryModel = "law"
  ServiceModel = "law"
  DenseDim = 2
  Hybrid = TRUE
  ServiceModes = {"per_chunk"}
  MaxFaults = 1
SPECIFICATION Spec
INVARIANTS
  ScoresOwnCorpus
  ScoredDocsReady
  CombosIsolated
  UploadsAreFound
  SkippedHasCause
SYMMETRY SweepSymmetry
CHECK_DEADLOCK FALSE
