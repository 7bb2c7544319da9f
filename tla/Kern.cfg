SPECIFICATION KernSpec
CONSTANTS
  Fault = {oom, pcie}
  HighFault = {oom}
  Precursor = {disk}
  DiskFull = disk
  Autofix = TRUE
  SnapshotGap = 1
  FixGap = 2
  SnapshotsKept = 1
  MaxKernTime = 3
  MaxManual = 1
INVARIANT DetectionsAreRecorded
CHECK_DEADLOCK FALSE
