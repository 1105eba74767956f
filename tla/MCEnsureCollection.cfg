CONSTANTS
  t1 = t1
  t2 = t2
  perChunk = perChunk
  perDocument = perDocument
  bench = bench
  Main = Main
  None = None
  Threads = {t1, t2}
  Benchmarks = {bench}
  Contexts = {perChunk, perDocument}
  Default = perChunk
  DenseDim = 2
  VectorDim = 2
  MaxFaults = 1
SPECIFICATION FairSpec
INVARIANTS
  OwnCreatesNeverClash
  UseIsSafe
  DefaultIsWarm
PROPERTY
  EnsureEnds
