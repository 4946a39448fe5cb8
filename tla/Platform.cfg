SPECIFICATION Spec
CONSTANTS
  None = None
  r1 = r1
  r2 = r2
  Calls = {r1, r2}
  Requests = {r1, r2}
  Tabs = {r1, r2}
  MaxClicks = 2
  MaxMoves = 1
  MaxSignIns = 1
  MaxPairs = 3
  MaxTroubles = 1
  MaxAttempts = 1
  MaxCodes = 2
  MaxDecisions = 1
  MaxSecrets = 2
  MaxPins = 2
  MaxLinks = 2
  MaxSubmissions = 2
  MaxWithdrawals = 1
INVARIANTS
  TypeOK OwnChangesShown OneClickOneEffect OneSessionPerSignIn SignedOutEverywhere 
  CodesSound StatusDecided CredentialsSound TiersEarned
PROPERTIES DecisionStands
SYMMETRY Alike
CHECK_DEADLOCK FALSE
