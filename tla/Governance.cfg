SPECIFICATION GovernanceSpec
CONSTANTS
  None = None
  Slots = {p1, p2}
  Guests = {q1, q2}
  Member = u1
  MonthlyLimit = 2
  InflightLimit = 1
  MaxInvites = 2
  MaxRuns = 3
  MaxFaults = 1
  People = {u1}
  Browsers = {b1}
  Sessions = {q1, q2}
  States = {x1}
  MaxTokens = 3
  MaxOutages = 1
  Users = {u1, u2}
  Founder = u1
  Invites = {q1, q2}
  Bootstrap = {}
  Fields = {q1, q2}
  MaxWrites = 3
  Workflows = {q1, q2, q3}
  Deliveries = {p1, p2}
  MaxEdits = 5
  MaxSubscriptions = 3
INVARIANTS SignInsHold MembershipHolds RevisionsHold SharesHold
PROPERTY NobodyOversteps
SYMMETRY Symmetry
CHECK_DEADLOCK FALSE
