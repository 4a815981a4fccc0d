SPECIFICATION Spec
CONSTANTS
  c1 = c1
  c2 = c2
  c3 = c3
  c4 = c4
  k1 = k1
  k2 = k2
  r1 = r1
  r2 = r2
  Key = {k1, k2}
  RequestId = {r1, r2}
  Call <- Calls
  KeyOf <- Keys
  RequestIdOf <- RequestIds
  Keyed = {c1, c2}
  UserKey = {c3, c4}
  Estimate = 2
  Cost = {1, 3}
  Balance = 3
  MaxAmount = 4
  MaxFaults = 1
INVARIANTS ChargesRecorded FailedIsFree NoForgottenHold
SYMMETRY CallPairs
CHECK_DEADLOCK FALSE
