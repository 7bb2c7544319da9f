SPECIFICATION Spec
CONSTANTS
  Peer = {"p1", "p2", "p3"}
  Leaf = {"leaf"}
  Threads = 2
  Allowed = {"p1", "p2", "p3", "leaf"}
  Unreliable = {"leaf"}
  MaxCampaign = 1
  MaxTip = 1
INVARIANT PassedOnOnce
