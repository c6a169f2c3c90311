SPECIFICATION Spec
CONSTANTS
  Broker = {n1, n2}
  NoBroker = NoBroker
  Controller = {n1, n2}
  ReplicationFactor = 2
  PreferredLeaderRebalance = TRUE
  AllowUncleanElection = FALSE
  Rebalance = FALSE
  MaxEpoch = 2
  MaxCrashes = 0
  MaxMissed = 1
  MaxFailures = 1
  MaxHandovers = 1
  MaxReports = 1
SYMMETRY Symmetric
INVARIANT OneLeaderPerEpoch
CHECK_DEADLOCK FALSE
