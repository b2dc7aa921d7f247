SPECIFICATION FairSpec
CONSTANTS
  Wan       <- Wans
  Addresses <- WanAddresses
  Tunnels   <- TwoTunnels
  Roving    = {}
  LocalGateway <- EastOnWan1
  Matches   <- MatchesItself
  FirstBest <- FirstPolicies
  MaxEvents = 2
INVARIANTS
  TypeOK
  DeviceMatchesConf
PROPERTY
  FollowsBestWan
