SPECIFICATION BansSpec
CONSTANTS
  a = a
  b = b
  p = p
  NoIP = NoIP
  Loop = loop
  Workers = {w1}
  IP = {a, b, p}
  Protected = {p}
  Ttls = {1}
  MaxActive = 1
  MaxTime = 2
  GossipPeer = {"p1", "p2"}
  GossipLeaf = {"leaf"}
  Ttl = 1
  MinTtl = 2
  ReshareEvery = 1
  Community = TRUE
  MaxBans = 1
  MaxRestarts = 0
  MaxGossipTime = 3
SYMMETRY Symmetry
INVARIANTS TypeOK ProtectedNeverDenied EdgeFollowsTable OriginDecided
PROPERTIES   PublishesTheBanList
