CONSTANTS
  Null = Null
  Long = 2
  MaxTime = 3
  MaxPages = 3
SPECIFICATION Spec
INVARIANT StateCanBeSaved
CHECK_DEADLOCK FALSE
