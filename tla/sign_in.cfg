SPECIFICATION MCSpec
CONSTANTS
  u1 = u1
  a1 = a1
  a2 = a2
  User = {u1}
  Account = {a1, a2}
  Profiles <- MCProfiles
  Session = {s1, s2, s3}
  Caller = {c1}
  Attempt = {x1, x2}
  Required = FALSE
  Transport = {"body", "cookie"}
  Grace = 0
  Ttl = 3
  MaxTime = 2
  MaxEnds = 1
  MaxCodes = 1
SYMMETRY Symmetry
INVARIANTS SessionsEnd IdentityProved
PROPERTY SessionsAreFamilies
CHECK_DEADLOCK FALSE
