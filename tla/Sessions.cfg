SPECIFICATION SessionsSpec
CONSTANTS
  None = None
  ann = ann
  bea = bea
  e1 = e1
  e2 = e2
  c1 = c1
  c2 = c2
  Users = {b1}
  Orgs = {q1, q2}
  Providers = {"vertex", "codex"}
  Slots = {p1, p2}
  MaxFlows = 2
  MaxSecrets = 2
  Requests <- TheRequests
  Norm <- TheNorm
  Pool <- ThePool
  Messages <- TheMessages
  MaxSessions = 2
  MaxEntries = 3
  Edges = {e1, e2}
  Brains = {b1}
  Chats = {"x", "y"}
  Clients = {c1, c2}
  EdgeOf <- TheEdges
  TailLimit = 1
  MaxEvents = 2
  MaxPins = 1
  Unpublished = {"org"}
  Slugs = {"slug"}
  Contents = {"c1", "c2", "secret"}
  Safe = {"c1", "c2"}
  MaxToolsets = 2
  Sittings = {b1}
  Keys = {"mcp", "madeup"}
  Catalog = {"mcp"}
  Texts = {"words"}
  Models = {"openai", "anthropic"}
  Connectors <- TheConnectors
  SecretOf <- TheSecrets
  Default <- TheDefaults
  Managed = {"anthropic"}
  TurnLimit = 3
  TurnTail = 2
  MaxTurns = 4
INVARIANTS RoutesHold ClientsFollow GalleryHolds BuilderHolds SecretsHold
SYMMETRY Symmetry
CHECK_DEADLOCK FALSE
