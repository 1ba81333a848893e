CONSTANTS
  d1 = d1
  d2 = d2
  Null = Null
  Devices = {d1, d2}
  Viewers = {d2}
  Users = "waiting"
  Limit = 0
  Hours <- MCHours
  MaxTime = 3
  MaxTaps = 4
  MaxDisconnects = 1
  MaxKills = 0
SPECIFICATION LiveSpec
CHECK_DEADLOCK FALSE
INVARIANTS HistoryComplete
PROPERTIES RecordSpec CatchesUp
