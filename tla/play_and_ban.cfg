SPECIFICATION MCSpec
CONSTANTS
  MaxNotes = 7
  Durations <- MCDurations
  PlayTimes <- MCPlayTimes
  Difficulties = {0, 1, 15}
  Coefficients = {5, 10, 13}
  u1 = u1
  u2 = u2
  q1 = q1
  q2 = q2
  Users = {u1, u2}
  Requests = {q1, q2}
  NoUser = noUser
  TTL = 2
  SlowestRead = 1
SYMMETRY BanSymmetry
INVARIANTS
  HonestPlaysPass
  RankSpellingsAgree
  BetterNeverEarnsLess
  BanTypeOK
  StalenessBounded
