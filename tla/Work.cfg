SPECIFICATION WorkSpec
CONSTANTS
  None = None
  d1 = d1
  d2 = d2
  d3 = d3
  r1 = r1
  r2 = r2
  r3 = r3
  x = x
  y = y
  Calls = {d1, d2, d3}
  Requests = {r1, r2, r3}
  Dispatches <- OnceOrTwice
  Kind <- TheKinds
  Executors = {x, y}
  NoCall = None
  NoExecutor = None
  MaxAtOnce = 2
  MaxFaults = 1
  Graphs <- TheGraphs
  MaxRunAttempts = 2
  MaxCrashes = 1
  Allow = {"connector", "shell", "team.map"}
  Team <- TheTeam
  Tasks <- TheTasks
  MaxParallel = 2
  MaxTurns = 3
  MaxToolCalls = 3
  MaxHistory = 2
  MaxTries = 2
  MaxDeaths = 2
  Edges <- TheEdges
  Deliveries <- TheDeliveries
  EdgeOf <- TheEdgeOf
  Messages = {"first", "second"}
  Env <- TheEnv
  Workflows = {"w"}
  Trigger <- TheTrigger
  Entries <- TheEntries
  Accounts <- TheAccounts
  MaxEdits = 1
  MaxFailures = 2
  MaxPosts = 2
  Channels <- TheChannels
  Notes <- TheNotes
  Body <- TheBody
  Chat <- TheChat
  Names <- Identities
  Secrets <- TheSecrets
  KeyOf <- TheKey
  Shown <- TheShown
  MaxCalls = 4
INVARIANTS WorkspaceHolds GraphIsFollowed LoopHolds ChannelsHold AdaptersHold
PROPERTY KnownCallsStay
SYMMETRY Symmetry
CHECK_DEADLOCK FALSE
