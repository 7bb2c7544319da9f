SPECIFICATION FairSpec
CONSTANTS
  Peer = {"p1", "p2"}
  Leaf = {}
  Threads = 2
  Allowed = {"p2"}
  Unreliable = {}
  MaxCampaign = 1
  MaxTip = 1
INVARIANT AppliedMeansUpdated
PROPERTY CampaignReachesAll
