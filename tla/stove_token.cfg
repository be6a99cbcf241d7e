\* Three sign-ins, tokens that live shorter and longer than the margin or for
\* an unknown time, and HTTP calls of up to a tick.
SPECIFICATION FairSpec
CONSTANTS
  Calls = {"c1", "c2", "c3"}
  Lifetimes = {0, 1, 4}
  Timeout = 1
  Margin = 2
  Default = 3
INVARIANTS
  TokenAliveOnArrival
  NoFetchWhileFresh
  WaitBound
PROPERTIES
  Answered
  RevokedTokenIsDropped
