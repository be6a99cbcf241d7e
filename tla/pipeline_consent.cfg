\* As pipeline.cfg, without a fault.
SPECIFICATION PipelineSpec
CONSTANTS
  Users = {u1}
  Requests = {q1, q2}
  NoUser = noUser
  Booth = u1
  Consents = {c1}
  TTL = 1
  SlowestRead = 1
  PlayerSlots = {q1}
  MaxFaults = 0
PROPERTIES
  SigninLinksConsents
