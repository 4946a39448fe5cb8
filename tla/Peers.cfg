SPECIFICATION PeersSpec
CONSTANTS
  t1 = t1
  t2 = t2
  t3 = t3
  alice = alice
  bob = bob
  aliceBtc = aliceBtc
  bobBtc = bobBtc
  None = None
  NoRef = None
  Txs <- MCTxs
  Wallets <- MCWallets
  Refs <- TransferRefs
  Opening <- MCOpening
  Menu <- TransferMenu
  gift = gift
  coin = coin
  Idle = Idle
  Workers = {k1}
  Orders = {o1, o2}
  Offers <- MCOffers
  Kind <- MCKind
  Stock <- MCStock
  MaxQty = 2
INVARIANTS TypeOK NeverNegative EntriesSound AllOrNothing FrozenExact NotOversold
PROPERTIES EveryTxEnds KeepsPromise SilenceEnds
CHECK_DEADLOCK FALSE
