\* A user of the enforced set and one outside it; two roll-outs after the
\* first deployment.
SPECIFICATION GateSpec
CONSTANTS
  Users = {listed, other}
  Enforced = {listed}
  MaxRedeploys = 2
  MaxFaults = 1
INVARIANTS
  VerifiedOnce
  RefusedForCause
PROPERTY LockoutEnds
