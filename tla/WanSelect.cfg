\* Safety of selection: two WANs, a best_of and a specific policy.
SPECIFICATION Spec
CONSTANTS
  Wan <- MCWan
  Policy <- SelectPolicy
  Config <- SelectConfig
  DirRank <- MCRank
  SettingsWeight <- MCWeight
  StatsContents <- FewStats
  Probes = 2
  Tunnel = {}
  Reachable <- LostHost
  NetStates <- AnyNet
  HardKill = FALSE
INVARIANT TypeOK
INVARIANT StatusMatchesChain
INVARIANT StatusFollowsCriteria
PROPERTY RoutesOnlyToUpWans
PROPERTY Refines
