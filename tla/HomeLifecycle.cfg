CONSTANTS
  Null = Null
  Long = 2
  MaxTime = 4
  MaxPages = 3
SPECIFICATION Spec
INVARIANTS ClockShowsSession KeptInBackground NeverMoreThanStudied
PROPERTY OnlyBackRestarts
CHECK_DEADLOCK FALSE
