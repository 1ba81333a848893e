CONSTANTS
  d1 = d1
  d2 = d2
  Null = Null
  Devices = {d1, d2}
  Viewers = {}
  Users = "hasty"
  Limit = 0
  Hours <- MCHours
  MaxTime = 3
  MaxTaps = 3
  MaxDisconnects = 0
  MaxKills = 1
SPECIFICATION Spec
CHECK_DEADLOCK FALSE
INVARIANTS TypeOK ShowsSession ConfirmedHours
SYMMETRY Alike
