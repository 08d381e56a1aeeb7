SPECIFICATION LiveSpec
CONSTANTS
  None = None
  p1 = p1
  p2 = p2
  e1 = e1
  e2 = e2
  g1 = g1
  g2 = g2
  NodeCount = 2
  Remote = {}
  Policy <- AllAllowed
  MaxAttempts = 3
  Push = FALSE
  Conts = {p1}
  MaxErrors = 0
  MaxCrashes = 1
  MaxApprovals = 0
  AttemptCap = 4
INVARIANT NotOrphaned
PROPERTIES RunFinishes LifecycleSpec RemoteBlockResolves Answered DispatchAnswered
CHECK_DEADLOCK FALSE
