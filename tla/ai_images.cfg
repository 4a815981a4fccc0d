SPECIFICATION MCSpec
CONSTANTS
  Variant = {v1, v2}
  Price = {1, 2}
  Admin = {a1, a2}
  MaxKeys = 2
  Key = {j1, j2, k1}
  Job = {j1, j2}
  Provider = {"replicate", "google", "xai"}
  MaxPolls = 1
  Charging = TRUE
  Balance = 2
  MaxAmount = 3
  MaxFaults = 1
  Text = {t1}
  External = TRUE
SYMMETRY Symmetry
INVARIANTS ImagesSettled BlameIsDeserved OneDefault HistoryReadable
CHECK_DEADLOCK FALSE
