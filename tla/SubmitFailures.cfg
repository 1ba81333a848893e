CONSTANTS
  d1 = d1
  d2 = d2
  s1 = s1
  s2 = s2
  s3 = s3
  Null = Null
  Devices = {d1, d2}
  Sessions = {s1, s2}
  Owner <- TwoOwners
  Credit <- MCCredit
  Viewers = {d2}
  Patient = TRUE
  MaxRetries = 2
  MaxDisconnects = 1
  MaxKills = 1
  MaxReruns = 1
SPECIFICATION FairSpec
CHECK_DEADLOCK FALSE
INVARIANTS CountersAddUp KeysBounded SameHistory
PROPERTIES SubmissionSettles LedgerSpec
