SPECIFICATION Spec
CONSTANTS
  t1 = t1
  t2 = t2
  t3 = t3
  alice = alice
  bob = bob
  aliceBtc = aliceBtc
  bobBtc = bobBtc
  None = None
  NoRef = None
  Txs <- MCTxs
  Wallets <- MCWallets
  Refs <- TransferRefs
  Opening <- MCOpening
  Menu <- TransferMenu
INVARIANTS Auditable
CHECK_DEADLOCK FALSE
