\* A last write of the statistics during a round: expected to fail.
SPECIFICATION LonelySpec
CONSTANTS
  Wan <- MCWan
  Policy <- LivePolicy
  Config <- LiveConfig
  DirRank <- MCRank
  SettingsWeight <- MCWeight
  StatsContents <- LiveStats
  Probes = 2
  Tunnel = {}
  Reachable <- AllAnswer
  NetStates <- FixedNet
  HardKill = FALSE
PROPERTY ActsOnLastWrite
