SPECIFICATION FairSpec
CONSTANTS
  Idle = Idle
  Workers = {k1, k2}
  Transfers = {x1}
  MaxDeaths = 1
  MaxErrors = 0
  MaxStalls = 0
PROPERTIES AlwaysSettles
CHECK_DEADLOCK FALSE
