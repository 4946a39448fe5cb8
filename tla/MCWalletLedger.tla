--------------------------- MODULE MCWalletLedger ---------------------------
(***************************************************************************)
(* Instances of WalletLedger for TLC: three requests, two wallets.         *)
(***************************************************************************)
EXTENDS WalletLedger, WalletPrograms, FiniteSets

CONSTANTS t1, t2, t3, alice, bob, aliceBtc, bobBtc

MCTxs == {t1, t2, t3}
MCWallets == {alice, bob}
MarketWallets == {alice, bob, aliceBtc, bobBtc}

(* Bob has sold a gift card: one unit of his is held for "order".          *)
MCOpening ==
  [w \in MCWallets |-> IF w = alice THEN [balance |-> 3, frozen |-> 0]
                                    ELSE [balance |-> 1, frozen |-> 1]]

(* One request in each direction, and the two ways an escrow can end: the  *)
(* buyer (alice) confirms, or the hourly job refunds her.                  *)
TransferMenu ==
  [t \in MCTxs |->
    CASE t = t1 -> {MoveBetween(alice, 2, bob, 1, t1), HoldGiftCardOrder(alice, bob, 2, t1)}
      [] t = t2 -> {MoveBetween(bob, 1, alice, 1, t2), ReleaseToSeller(bob, 1, "order"),
                    PayOut(alice, 2, t2), PayCheckoutSession(alice, alice, 2, t2)}
      [] t = t3 -> {RefundBuyer(bob, alice, 1, "order", "AUTOREFUND"),
                    ReleaseToSeller(bob, 1, "order")}]

(* Bob buys bitcoin of alice peer to peer, alice converts and is refunded  *)
(* a bank transfer, and pays out or buys a gift card.                      *)
MarketMenu ==
  [t \in MCTxs |->
    CASE t = t1 -> {SettleCryptoOrder(bob, aliceBtc, bobBtc, alice, 1, 1, t1)}
      [] t = t2 -> {MoveBetween(alice, 2, aliceBtc, 1, t2), MoveBetween(bobBtc, 1, bob, 1, t2),
                    RefundBankTransfer(alice, 1, "order"),
                    PayCheckoutSession(alice, alice, 2, t2)}
      [] t = t3 -> {HoldGiftCardOrder(alice, bob, 2, t3), RefundBankTransfer(alice, 1, "order"),
                    PayOut(alice, 2, t3)}]

MarketOpening ==
  [w \in MarketWallets |->
    [balance |-> IF w = alice THEN 2 ELSE IF w = bobBtc THEN 0 ELSE 1, frozen |-> 0]]

RefsOf(menu) ==
  UNION {UNION {{p[i].ref : i \in DOMAIN p} : p \in menu[t]} : t \in MCTxs} \ {None}

TransferRefs == RefsOf(TransferMenu)
MarketRefs == RefsOf(MarketMenu)

=============================================================================
