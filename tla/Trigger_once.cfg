SPECIFICATION Spec
CHECK_DEADLOCK FALSE
CONSTANTS
  Schedulers = {p1, p2}
  Types = {"cron", "heartbeat"}
  CronTimes = {2, 3, 5}
  Interval = 2
  Jitter = 1
  MaxSkew = 1
  MaxTime = 5
  MaxErrors = 2
  MaxCrashes = 1
INVARIANTS OneRunPerSlot
