SPECIFICATION GossipFairSpec
CONSTANTS
  GossipPeer = {"p1"}
  GossipLeaf = {"leaf"}
  Ttl = 1
  MinTtl = 2
  ReshareEvery = 2
  Community = TRUE
  MaxBans = 2
  MaxRestarts = 1
  MaxGossipTime = 2
PROPERTIES PeerBansSpread LeafBansSpread
