SPECIFICATION SessionsSpec
CONSTANTS
  Calls = {}
  None = None
  Requests = {r1, r2}
  MaxSignIns = 1
  MaxPairs = 3
  MaxTroubles = 1
INVARIANT SilentRefresh
CHECK_DEADLOCK FALSE
