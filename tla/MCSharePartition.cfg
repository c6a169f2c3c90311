SPECIFICATION Spec
CONSTANTS
  c1 = c1
  c2 = c2
  Consumer = {c1, c2}
  NoConsumer = NoConsumer
  MaxInFlight = 2
  MaxDelivery = 2
  MaxFetch = 2
  MaxSeq = 3
  MaxCount = 3
  MaxRestarts = 1
  DeadLetterMayFail = TRUE
  MayDisconnect = TRUE
  MayRetain = TRUE
SYMMETRY ConsumerSymmetry
CHECK_DEADLOCK FALSE
INVARIANTS
  TypeOK
  WindowPartitioned
  InFlightBounded
  HeapMatchesWindow
  AtLeastOnce
  SettledStaysOut
  CursorWithinLog
