CONSTANTS
  d1 = d1
  d2 = d2
  s1 = s1
  s2 = s2
  s3 = s3
  Null = Null
  Devices = {d1, d2}
  Sessions = {s1, s2, s3}
  Owner <- TwoOwners
  Credit <- AlikeCredit
  Viewers = {d1}
  Patient = FALSE
  MaxRetries = 25
  MaxDisconnects = 0
  MaxKills = 0
  MaxReruns = 1
SPECIFICATION Spec
CHECK_DEADLOCK FALSE
INVARIANTS SubmittedIsCounted CountedIsStored KeysBounded NoneCountedTwice
PROPERTY LedgerUntilRerun
SYMMETRY Alike
