SPECIFICATION FairSpec
CONSTANTS
  m1 = m1
  m2 = m2
  c1 = c1
  Msg = {m1, m2}
  NoMsg = NoMsg
  Delayed = {m1}
  Expiring = {m2}
  Consumer = {c1}
  QueueCap = 1
  MaxRetry = 1
  MaxCompactions = 0
  MaxPurges = 1
  MaxCrashes = 1
PROPERTY
  EveryMessageSettles
