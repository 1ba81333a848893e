CONSTANTS
  d1 = d1
  d2 = d2
  s1 = s1
  s2 = s2
  s3 = s3
  Null = Null
  Devices = {d1, d2}
  Sessions = {s1, s2}
  Owner <- TwoOwners
  Credit <- MCCredit
  Viewers = {}
  Patient = TRUE
  MaxRetries = 25
  MaxDisconnects = 0
  MaxKills = 0
  MaxReruns = 1
CHECK_DEADLOCK FALSE
SPECIFICATION Spec
INVARIANT CountedIsKept
