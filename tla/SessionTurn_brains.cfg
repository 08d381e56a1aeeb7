SPECIFICATION FairSpec
CHECK_DEADLOCK FALSE
CONSTANTS
  NoBrain = NoBrain
  NoExecutor = NoExecutor
  Brains = {b1, b2}
  Executors = {e1}
  Managed = {}
  Selectors = {"byon"}
  Refusals = TRUE
  MaxTurns = 8
  MaxMsgs = 2
  MaxExtras = 1
  MaxCrashes = 1
  MaxDrops = 1
  MaxTogether = 2
INVARIANTS OneTurnAtATime FinalIsGenuine AnswersBounded
PROPERTIES SessionUnlocks
