SPECIFICATION AlarmSpec
CONSTANTS
  SilenceLimit = 3
  AlarmSuppress = 2
  AlarmCooldown = 6
  MaxAlarmTime = 8
  MaxRefusals = 0
INVARIANT SilenceIsNotified
CHECK_DEADLOCK FALSE
