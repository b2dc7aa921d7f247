\* Safety of balancing by settings weight, one of them 0, and by latency,
\* when SIGKILL may leave an nft process behind.
SPECIFICATION Spec
CONSTANTS
  Wan <- MCWan
  Policy <- BalancePolicy
  Config <- BalanceConfig
  DirRank <- MCRank
  SettingsWeight <- BalanceWeights
  StatsContents <- BalanceStats
  Probes = 2
  Tunnel = {}
  Reachable <- AllAnswer
  NetStates <- FixedNet
  HardKill = TRUE
INVARIANT BalanceTiles
INVARIANT StatusFollowsCriteria
