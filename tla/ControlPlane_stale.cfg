SPECIFICATION Spec
CONSTANTS
  Broker = {n1, n2}
  NoBroker = NoBroker
  Controller = {n1}
  ReplicationFactor = 2
  PreferredLeaderRebalance = TRUE
  AllowUncleanElection = FALSE
  Rebalance = FALSE
  MaxEpoch = 6
  MaxCrashes = 0
  MaxMissed = 1
  MaxFailures = 0
  MaxHandovers = 0
  MaxReports = 1
CHECK_DEADLOCK FALSE
PROPERTY ElectedFromISR
