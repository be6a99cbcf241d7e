SPECIFICATION HistorySpec
CONSTANTS
  u1 = u1 u2 = u2 k1 = k1 k2 = k2 none = none
  p1 = p1 p2 = p2 p3 = p3 p4 = p4
  r1 = r1 r2 = r2 r3 = r3 r4 = r4
  Levels <- MCLevels
  RequireExp <- MCRequireExp
  Users = {u1, u2}
  RecordIds = {r1, r2, r3, r4}
  Ids = {k1, k2}
  NoId = noId
  NoUser = noUser
  NoRecord = noRecord
  Plays <- MCPlays
  Gain <- MCGain
  Completed <- MCCompleted
  Exhibition <- MCExhibition
  Storable <- MCStorable
  Verdict <- MCVerdict
  Pass = "ok"
  Handlers = {h1}
  SanityMode = "off"
  Requests <- ExhibitionRequests
  MaxRequests = 2
  MaxFaults = 0
CHECK_DEADLOCK FALSE
INVARIANT ExhibitionEarnsNothing
