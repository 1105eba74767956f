CONSTANTS
  u1 = u1
  u2 = u2
  f1 = f1
  f2 = f2
  b1 = b1
  None = None
  Uploads = {u1, u2}
  Files = {f1, f2}
  Batches = {b1}
  Concurrency = 0
  QueueMax = 1
  MaxFaults = 2
  MaxKills = 1
SPECIFICATION FairSpec
PROPERTIES
  UploadsAnswered
  RowsSettle
  DrainEnds
  ImplementsLifecycle
