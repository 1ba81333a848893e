CONSTANTS
  a1 = a1
  i1 = i1
  Null = Null
  Phones = {a1, i1}
  Android = {a1}
  MaxCounted = 2
  MaxFailures = 2
SPECIFICATION Spec
CHECK_DEADLOCK FALSE
INVARIANTS TypeOK SistersPageOpens HalfMadeOnTheWay
PROPERTIES  EventuallyComplete
