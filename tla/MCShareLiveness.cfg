SPECIFICATION FairSpec
CONSTANTS
  c1 = c1
  Consumer = {c1}
  NoConsumer = NoConsumer
  MaxInFlight = 2
  MaxDelivery = 2
  MaxFetch = 1
  MaxSeq = 2
  MaxCount = 3
  MaxRestarts = 1
  DeadLetterMayFail = FALSE
  MayDisconnect = FALSE
  MayRetain = TRUE
CHECK_DEADLOCK FALSE
PROPERTY EveryRecordLeavesTheQueue
