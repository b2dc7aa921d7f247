\* LATENCY weights from two reads of the file: expected to fail.
SPECIFICATION FairSpec
CONSTANTS
  Wan <- MCWan
  Policy <- BalancePolicy
  Config <- BalanceConfig
  DirRank <- MCRank
  SettingsWeight <- MCWeight
  StatsContents <- FewStats
  Probes = 2
  Tunnel = {}
  Reachable <- AllAnswer
  NetStates <- FixedNet
  HardKill = FALSE
PROPERTY RoundsComplete
