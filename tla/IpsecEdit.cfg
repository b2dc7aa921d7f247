SPECIFICATION Spec
CONSTANTS
  Wan       <- Wans
  Addresses <- WanAddresses
  Tunnels   <- TwoTunnels
  Roving    = {}
  LocalGateway <- EastOnWan1
  Matches   <- MatchesItself
  FirstBest <- FirstPolicies
  MaxEvents = 1
PROPERTY
  EditsOurLeft
