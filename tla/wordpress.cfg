SPECIFICATION WordPressSpec
CONSTANTS
  User = {u1, u2}
  Request = {r1, r2}
  Key = {k1, k2, k3}
  Edit = {e1}
  Object = {o1}
  Operation = {c1, c2}
SYMMETRY Symmetry
INVARIANTS SitesWereApproved  AssetsAreStored
CONSTRAINT EditsWithOneRequest
CHECK_DEADLOCK FALSE
