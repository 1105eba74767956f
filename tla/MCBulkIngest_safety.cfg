CONSTANTS
  u1 = u1
  u2 = u2
  u3 = u3
  f1 = f1
  f2 = f2
  b1 = b1
  None = None
  Uploads = {u1, u2, u3}
  Files = {f1, f2}
  Batches = {b1}
  Concurrency = 2
  QueueMax = 1
  MaxFaults = 1
  MaxKills = 1
SYMMETRY UploadSymmetry
SPECIFICATION Spec
INVARIANTS
  AtMostOneOriginal
  DuplicateHasOriginal
  OneOwner
  ReadyIsComplete
  MetricsFollowStatus
  TotalFollowsRows
  DrainFinishesWork
  StrandedHasCause
PROPERTIES
  TerminalStable
  PoisonIsOwned
