SPECIFICATION QueueSpec
CONSTANTS
  u1 = u1 u2 = u2 k1 = k1 k2 = k2 k3 = k3
  p1 = p1 p2 = p2 p4 = p4
  Levels <- MCLevels
  RequireExp <- MCRequireExp
  Users = {u1, u2}
  Handlers = {h1, h2}
  RecordIds = {r1, r2}
  Ids = {k1, k2, k3}
  NoId = noId
  NoUser = noUser
  NoRecord = noRecord
  NoHandler = noHandler
  Plays <- MCPlays
  Gain <- MCGain
  Completed = {p1, p2}
  Exhibition = {}
  Storable = {p1, p2}
  Verdict <- MCVerdict
  Pass = "ok"
  SanityMode = "shadow"
  Requests <- MCRequests
  Backlog <- MCBacklog
  BatchLimit = 2
  MaxRequests = 0
  MaxFaults = 2
CHECK_DEADLOCK FALSE
INVARIANT ForgottenIsSettled
PROPERTY QueueDrains
