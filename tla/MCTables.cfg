CONSTANTS
  Files = {f1, f2}
  Batches = {b1}
  None = None
  MaxDocs = 2
  Pieces = 2
  MaxTime = 3
  CommitTime = 1
  BumpTime = 1
  Limit = 1
SPECIFICATION Spec
INVARIANTS
  DoublesAgree
PROPERTIES
  ElapsedPinned
  ElapsedNeverFalls
SYMMETRY FileSymmetry
CHECK_DEADLOCK FALSE
