CONSTANTS
  d1 = d1
  d2 = d2
  Null = Null
  Devices = {d1, d2}
  Viewers = {}
  Users = "waiting"
  Limit = 0
  Hours <- MCHours
  MaxTime = 2
  MaxTaps = 3
  MaxDisconnects = 0
  MaxKills = 0
SPECIFICATION Spec
CHECK_DEADLOCK FALSE
INVARIANT StopFindsSession
