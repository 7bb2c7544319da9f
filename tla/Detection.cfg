SPECIFICATION DetectionSpec
CONSTANTS
  Token = {t1, t2}
  RateWindow = 1
  RateLimit = 2
  ScanWindow = 1
  ScanLimit = 2
  BotWindow = 2
  BotLimit = 3
  StuffWindow = 2
  StuffLimit = 2
  EpWindow = 3
  EpLimit = 2
  EnumWindow = 1
  EnumLimit = 2
  EnumSlack = 1
  IdlePrune = 3
  CrowdedPrune = 2
  StaleWindow = 3
  MaxFeeds = 4
  MaxClock = 5
  IP = {"a"}
  Trusted = {}
  Private = {}
  EventRule = {"probe", "scan"}
  Probe = "probe"
  QuietRules = {"probe"}
  BanRules = {"probe", "scan"}
  SuppressFor = 2
  AlertCooldown = 3
  QueueMax = 1
  MaxEventTime = 4
  Key = {k1, k2, ports}
  Fixed = {ports}
  Kind = {units, sockets}
  k1 = k1
  k2 = k2
  ports = ports
  units = units
  sockets = sockets
  KindOf <- KindOfKey
  Value = {v, w}
  Absent = absent
  EventSuppress = 2
  MaxTime = 4
  File = {f1, f2}
  Content = {other}
  Body = body
  Gone = gone
  Canaries = TRUE
  FileSuppress = 2
  MaxFileClock = 5
  Fault = {oom, pcie}
  HighFault = {oom}
  Precursor = {disk}
  DiskFull = disk
  Autofix = TRUE
  SnapshotGap = 1
  FixGap = 2
  SnapshotsKept = 1
  MaxKernTime = 3
  MaxManual = 1
  Pid = {p1}
  Signature = {"miner", "shell"}
  Dest = {"d1", "d2"}
  PollSuppress = 2
  MaxPolls = 3
  SilenceLimit = 3
  AlarmSuppress = 2
  AlarmCooldown = 6
  MaxAlarmTime = 4
  MaxRefusals = 1
  Path = {"a", "b", "c"}
  Primary = "a"
  MaxManaged = 2
  MaxDeaths = 1
  Install = {"x", "y"}
  Consensus = 2
  ListWindow = 1
  CommunityTtl = 1
  OwnTtl = 1
  PullEvery = 1
  MaxCommunityTime = 4
INVARIANTS
  WindowsAreExact EnumerationIsExact  
  OutageIsRecorded  ListRestsOnDetections
PROPERTIES
  NoRepeats AlertsSpaced  ReportedOnce  EvidenceAtHand
CHECK_DEADLOCK FALSE
