\* One account, the exhibition's, which a player may sign in to as well; two
\* requests, entries that live for one tick and calls that take up to one, one
\* consent, one fault.
SPECIFICATION PipelineSpec
CONSTANTS
  Users = {u1}
  Requests = {q1, q2}
  NoUser = noUser
  Booth = u1
  Consents = {c1}
  TTL = 1
  SlowestRead = 1
  PlayerSlots = {q1}
  MaxFaults = 1
INVARIANTS
  BanReachesTheHandler
PROPERTIES
  BoothDecidedAtBoot
  ConsentNamesItsSender
  ReturnsAfterBan
