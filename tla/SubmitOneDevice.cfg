CONSTANTS
  d1 = d1
  d2 = d2
  s1 = s1
  s2 = s2
  s3 = s3
  Null = Null
  Devices = {d1}
  Sessions = {s1, s2, s3}
  Owner <- OneOwner
  Credit <- MCCredit
  Viewers = {}
  Patient = TRUE
  MaxRetries = 25
  MaxDisconnects = 2
  MaxKills = 0
  MaxReruns = 1
SPECIFICATION FairSpec
INVARIANTS TypeOK CountedIsStored StoredIsSubmitted
PROPERTY SubmissionSettles
CHECK_DEADLOCK FALSE
