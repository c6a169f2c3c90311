SPECIFICATION Spec
CONSTANTS
  f1 = f1
  f2 = f2
  Follower = {f1, f2}
  MinInSync = 3
  BatchRecords = 2
  SyncOnApply = FALSE
  MayRetain = FALSE
  MayFail = FALSE
  MaxSeq = 2
  MaxConns = 2
  MaxWire = 1
SYMMETRY FollowerSymmetry
CHECK_DEADLOCK FALSE
INVARIANTS
  ConfirmedIsReplicated
  AckedIsHeld
  HighWatermarkIsHeld
PROPERTY
  KeepsThePromise
