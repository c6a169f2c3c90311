SPECIFICATION Spec
CONSTANTS
  m1 = m1
  m2 = m2
  c1 = c1
  Msg = {m1, m2}
  NoMsg = NoMsg
  Delayed = {}
  Expiring = {}
  Consumer = {c1}
  QueueCap = 2
  MaxRetry = 1
  MaxCompactions = 1
  MaxPurges = 0
  MaxCrashes = 0
INVARIANT
  CompactionKeepsActive
