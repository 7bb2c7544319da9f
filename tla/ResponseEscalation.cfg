SPECIFICATION ResponseSpec
CONSTANTS
  IP = {"a"}
  Trusted = {}
  Private = {}
  EventRule = {"probe", "scan"}
  Probe = "probe"
  QuietRules = {"scan"}
  BanRules = {"probe", "scan"}
  SuppressFor = 2
  AlertCooldown = 3
  QueueMax = 1
  MaxEventTime = 5
INVARIANT HitsAreBanned
CHECK_DEADLOCK FALSE
