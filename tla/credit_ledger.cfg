SPECIFICATION FairSpec
CONSTANTS
  User = {u1}
  Key = {k1, k2}
  Amount = {0, 1, 2, 3}
  MaxAmount = 2
  Sweeper = {s1, s2}
  BatchSize = 2
  Auditor = {p1}
  MaxEntries = 3
  MaxCrashes = 1
CONSTRAINT Bound
INVARIANTS TypeOK AccountsConsistent EffectOncePerKey MismatchIsStale ExpiredWasSwept
PROPERTIES SettledForever ExpiredHoldsReturned
CHECK_DEADLOCK FALSE
