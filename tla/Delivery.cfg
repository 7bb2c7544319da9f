SPECIFICATION DeliverySpec
CONSTANTS
  MaxLine = 3
  Noted = {1, 3}
  MaxInode = 3
  MaxCuts = 1
  Tears = TRUE
  Container = {c1}
  Image = {i1, i2}
  NotThere = notthere
  LinkMax = 1
  MaxMishaps = 2
  Banned = {"a"}
  Synthetic = "s"
  NoFile = nofile
  Writer = {"loop", "pool"}
  Drill = {"d1"}
  MaxDrills = 1
  MaxUpsets = 2
  Queryable = {"a", "b"}
  Steady = "b"
  Edge = "l"
  BatchLimit = 1
  MaxEvents = 1
  MaxLost = 1
  MaxOutages = 1
  MaxRemovals = 1
INVARIANTS CountedOnce 
PROPERTIES SteadyNotAnnounced  LoopsAreTold  LeafEventsArrive MembersMeet
CHECK_DEADLOCK FALSE
