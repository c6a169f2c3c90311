SPECIFICATION FairSpec
CONSTANTS
  Broker = {n1, n2}
  NoBroker = NoBroker
  Controller = {n1}
  ReplicationFactor = 2
  PreferredLeaderRebalance = FALSE
  AllowUncleanElection = TRUE
  Rebalance = FALSE
  MaxEpoch = 10
  MaxCrashes = 1
  MaxMissed = 1
  MaxFailures = 0
  MaxHandovers = 0
  MaxReports = 1
PROPERTIES FencedLeaderIsReplaced BackInSync
CHECK_DEADLOCK FALSE
