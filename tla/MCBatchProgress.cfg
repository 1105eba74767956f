CONSTANTS
  u1 = u1
  u2 = u2
  f1 = f1
  b1 = b1
  None = None
  Uploads = {u1, u2}
  Files = {f1}
  Batches = {b1}
  Watched = b1
  Concurrency = 1
  QueueMax = 1
  MaxFaults = 1
  MaxKills = 1
SPECIFICATION MCSpec
INVARIANTS
  LeftLoopSettled
  ListIsNewer
  TotalsLagBounded
PROPERTY
  PollingEnds
