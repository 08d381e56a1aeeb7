SPECIFICATION KeptSpec
CONSTANTS
  scheduler = p1
  Types = {"cron", "heartbeat"}
  CronTimes = {2, 3, 5}
  Interval = 2
  Jitter = 1
  MaxSkew = 1
  MaxTime = 9
  MaxErrors = 1
  MaxCrashes = 2
  None = None
  p1 = p1
  p2 = p2
  e1 = e1
  e2 = e2
  e3 = e3
  g1 = g1
  g2 = g2
  Hosts = {e1, e2, e3}
  Pool <- ThreeHosts
  Edges = {g1, g2}
  Requests = {p1, p2}
  Labels = {"a"}
  HalfOpen = TRUE
  MaxSockets = 3
  MaxGreets = 1
  MaxAdmin = 2
PROPERTY ManagedConnects
CHECK_DEADLOCK FALSE
