SPECIFICATION Spec
CONSTANTS
  Land = {l1, l2}
  Key = {k1, k2, k3, k4}
  Caller = {c1, c2}
  Size = {1, 2}
  Limit = {3, 4}
  Keep = 2
SYMMETRY Symmetry
INVARIANTS QuotaHeld RevisionsReadable ObjectsAccounted
CHECK_DEADLOCK FALSE
