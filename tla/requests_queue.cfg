SPECIFICATION MCSpec
CONSTANTS
  Record = {r1, r2, r3, r4}
  MaxQueue = 2
  Sync = FALSE
  MaxAttempts = 2
  Shape <- Shapes
  Capture = TRUE
  Limit = 1
  Reader = {r1, r2, r3}
  First = r1
CONSTRAINT Bound
INVARIANTS NoSilentLoss QueueServed SecretsRedacted ReadsAreTrue
PROPERTY RecordSettles
CHECK_DEADLOCK FALSE
