SPECIFICATION ExchangeSpec
CONSTANTS
  t1 = t1
  t2 = t2
  t3 = t3
  alice = alice
  bob = bob
  aliceBtc = aliceBtc
  bobBtc = bobBtc
  None = None
  NoRef = None
  Txs <- MCTxs
  Wallets <- MarketWallets
  Refs <- MarketRefs
  Opening <- MarketOpening
  Menu <- MarketMenu
  NoOrder = NoOrder
  limit = limit
  stop = stop
  market = market
  Orders <- MCOrders
  Book <- MCBook
  Prices = {1, 2}
  Sweeps = {k1, k2}
  MaxDeaths = 1
INVARIANTS Auditable OrdersSound FilledOnTrigger
PROPERTIES AtomicSpec ClosedForGood NeverStuck
CHECK_DEADLOCK FALSE
