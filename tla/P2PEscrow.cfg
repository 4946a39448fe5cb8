SPECIFICATION EscrowSpec
CONSTANTS
  gift = gift
  coin = coin
  Idle = Idle
  Workers = {k1, k2}
  Orders = {o1, o2}
  Offers <- MCOffers
  Kind <- MCKind
  Stock <- MCStock
  MaxQty = 2
SYMMETRY Interchangeable
INVARIANTS AccountsTrue PayoutsJustified
CHECK_DEADLOCK FALSE
