SPECIFICATION FairOrdersSpec
CONSTANTS
  Order = {o1}
  Payment = {p1, p2}
  Event = {e1, e2}
  Caller = {c1, c2}
  Handler = {h1, h2}
  RefundKey = {k1, k2}
  CreditTotal = 2
  Limit = 1
  MayFail = TRUE
  MaxStarts = 2
  MaxDeaths = 1
INVARIANTS ProcessedIffCredited RefundsWithinPurchase PaidWasCredited
PROPERTY PaymentCredited
CHECK_DEADLOCK FALSE
