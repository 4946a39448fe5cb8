SPECIFICATION JobsSpec
CONSTANTS
  Calls = {}
  None = None
  Idle = Idle
  Workers = {k1, k2}
  Transfers = {x1, x2}
  MaxDeaths = 1
  MaxErrors = 3
  MaxStalls = 2
  ends = ends
  early = early
  once = once
  Templates <- Overlapping
  First <- OverlappingFirst
  Ends <- OverlappingEnds
  Recurring <- Overlapping
  Ticks = {k1, k2}
  Horizon = 3
  MaxTickDeaths = 1
  Rounds = {k1, k2}
  MaxAlerts = 2
  MaxShifts = 2
  USD = "USD"
  Currencies = {"USD", "NGN", "EUR"}
  Priced = {"NGN"}
  Rails = {"swift"}
  Amount = 100
  MinFees = {0, 125}
  MaxFees = {0, 115}
  RateRows = {3, 6}
  RateUnit = 1
  Powers = {1, 10, 100, 1000}
  Least = 10
INVARIANTS SettlementSound OccurrencesTrue AlertsSound PricingTrue
PROPERTIES SettledForGood Settles CancelledStaysOut RulesFire
CHECK_DEADLOCK FALSE
