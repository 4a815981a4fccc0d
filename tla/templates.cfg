SPECIFICATION MCSpec
CONSTANTS
  Version = {v1, v2}
  Caller = {c1, c2}
  Drivers = {"local", "s3"}
  Share = {s1}
  View = {x1, x2, x3}
  Limits = {{}, {1}, {2}}
SYMMETRY Symmetry
INVARIANTS PublicIsApproved OnlySubmittedApproved RowsAreStored SharesHold
CHECK_DEADLOCK FALSE
