SPECIFICATION ProcSpec
CONSTANTS
  Pid = {"p1", "p2"}
  Signature = {"miner", "shell"}
  Dest = {"d1", "d2"}
  PollSuppress = 2
  MaxPolls = 4
PROPERTY EgressIsReported
CHECK_DEADLOCK FALSE
