SPECIFICATION SubscriptionsSpec
CONSTANTS
  Order = {o1, o2}
  Payment = {p1, p2}
  Event = {e1, e2}
  Payer = {c1, c2}
  Handler = {h1, h2}
  MayFail = TRUE
  MaxStarts = 2
  MaxDay = 2
  MaxCrashes = 1
INVARIANTS SubscribedIffProcessed NewestIsActive
SYMMETRY Symmetry
CHECK_DEADLOCK FALSE
