SPECIFICATION PricingSpec
CONSTANTS
  Calls = {}
  None = None
  USD = "USD"
  Currencies = {"USD", "NGN"}
  Priced = {"NGN"}
  Rails = {"swift"}
  Amount = 100
  MinFees = {0, 125}
  MaxFees = {0, 115}
  RateRows = {3, 6}
  RateUnit = 1
  Powers = {1, 10, 100, 1000}
  Least = 10
INVARIANT ZeroFeeWithoutRule
CHECK_DEADLOCK FALSE
