SPECIFICATION TransactionsSpec
CONSTANTS
  User = {u1}
  Key = {k1}
  Amount = {1, 2}
  MaxAmount = 2
  Sweeper = {s1, s2}
  BatchSize = 1
  Auditor = {p1}
  MaxEntries = 3
  MaxCrashes = 1
  Client = {c1, c2}
  Movement = {"PURCHASE", "CONSUMPTION"}
  Attempts = 2
CONSTRAINT Bound
SYMMETRY Symmetry
INVARIANT HeldIsTrue
PROPERTY ImplementsLedger
CHECK_DEADLOCK FALSE
