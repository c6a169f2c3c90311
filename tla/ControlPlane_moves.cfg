SPECIFICATION Spec
CONSTANTS
  Broker = {n1, n2, n3}
  NoBroker = NoBroker
  Controller = {n1}
  ReplicationFactor = 2
  PreferredLeaderRebalance = TRUE
  AllowUncleanElection = FALSE
  Rebalance = TRUE
  MaxEpoch = 2
  MaxCrashes = 0
  MaxMissed = 1
  MaxFailures = 1
  MaxHandovers = 0
  MaxReports = 1
SYMMETRY Symmetric
INVARIANTS TypeOK InSyncIsPlaced NeverUnderReplicated LeaderIsPlaced ControllerNotFenced
CHECK_DEADLOCK FALSE
