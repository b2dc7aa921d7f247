\* Liveness under fair scheduling of the daemon and the generator.
SPECIFICATION FairSpec
CONSTANTS
  Wan <- MCWan
  Policy <- LivePolicy
  Config <- LiveConfig
  DirRank <- MCRank
  SettingsWeight <- MCWeight
  StatsContents <- LiveStats
  Probes = 2
  Tunnel = {}
  Reachable <- LostHost
  NetStates <- FixedNet
  HardKill = FALSE
PROPERTY RoundsComplete
PROPERTY Converges
PROPERTY FailedWanLeavesRoutes
