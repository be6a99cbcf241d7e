SPECIFICATION LogSpec
CONSTANTS
  u1 = u1 u2 = u2 k1 = k1 k2 = k2 noKey = noKey e1 = e1 e2 = e2
  r1 = r1 r2 = r2 r3 = r3 r4 = r4
  Users = {u1, u2}
  NoUser = noUser
  Handlers = {h1, h2}
  RowIds = {r1, r2, r3, r4}
  Keys = {k1, k2, noKey}
  NoKey = noKey
  Entries = {e1, e2}
  Storable = {e1}
  Requests <- MCRequests
  MaxRequests = 2
  MaxFaults = 2
CHECK_DEADLOCK FALSE
SYMMETRY RowSymmetry
INVARIANTS
  OneRowPerKey
  DroppedIsStored
