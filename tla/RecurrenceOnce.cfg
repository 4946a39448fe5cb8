SPECIFICATION FairRecurrence
CONSTANTS
  ends = ends
  early = early
  once = once
  Calls = {}
  None = None
  Templates <- OnceTemplates
  First <- OnceFirst
  Ends <- OnceEnds
  Recurring = {}
  Ticks = {k1}
  Horizon = 3
  MaxTickDeaths = 0
PROPERTIES ScheduledFires
CHECK_DEADLOCK FALSE
