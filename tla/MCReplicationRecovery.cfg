SPECIFICATION FairSpec
CONSTANTS
  f1 = f1
  Follower = {f1}
  MinInSync = 3
  BatchRecords = 2
  SyncOnApply = TRUE
  MayRetain = TRUE
  MayFail = TRUE
  MaxSeq = 3
  MaxConns = 2
  MaxWire = 2
CHECK_DEADLOCK FALSE
INVARIANTS
  TypeOK
  FollowerIsPrefix
PROPERTY
  ServedFollowersReachHead
