SPECIFICATION EdgeSpec
CONSTANTS
  Banned = {"a"}
  Synthetic = "s"
  NoFile = nofile
  Writer = {"loop", "pool"}
  Drill = {"d1"}
  MaxDrills = 1
  MaxUpsets = 2
INVARIANT DrillReachesTheEdge
CHECK_DEADLOCK FALSE
