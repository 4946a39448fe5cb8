--------------------------- MODULE WalletPrograms ---------------------------
(***************************************************************************)
(* The database transactions of the money services, as the sequences of    *)
(* wallet movements they make, in the order they make them.  A ledger      *)
(* reference is a pair: the reference of the transfer, order or session    *)
(* and the suffix the service gives the leg.  A service that generates a   *)
(* reference per request takes a fresh r; one that reuses the reference of *)
(* a stored record takes that record's r, so a retry meets its own entry.  *)
(***************************************************************************)
EXTENDS Integers, Sequences

CONSTANT NoRef  \* HOLD and RELEASE write no ledger entry

ApplyLedgerMovement(type, w, a, r, leg) ==
  <<[op |-> type, wallet |-> w, amount |-> a, ref |-> <<r, leg>>]>>

HoldInFrozen(w, a) ==
  <<[op |-> "HOLD", wallet |-> w, amount |-> a, ref |-> NoRef]>>

ReleaseFrozenOnly(w, a) ==
  <<[op |-> "RELEASE", wallet |-> w, amount |-> a, ref |-> NoRef]>>

ReleaseFrozenToBalance(w, a, r, leg) ==
  ReleaseFrozenOnly(w, a) \o ApplyLedgerMovement("CREDIT", w, a, r, leg)

(* createWalletToWallet, createCurrencyConversion and the fill of a crypto *)
(* order: one wallet pays `out', fee included, the other receives `in'.    *)
MoveBetween(src, out, dst, in, r) ==
  ApplyLedgerMovement("DEBIT", src, out, r, "DEBIT")
    \o ApplyLedgerMovement("CREDIT", dst, in, r, "CREDIT")

(* createBankTransfer not scheduled, executeRecurrenceInstance, and the    *)
(* purchase of simulatePurchase.                                           *)
PayOut(src, out, r) == ApplyLedgerMovement("DEBIT", src, out, r, "DEBIT")

(* settleExternalTransfer when the provider fails.                         *)
RefundBankTransfer(src, out, r) == ApplyLedgerMovement("CREDIT", src, out, r, "REFUND")

(* payCheckoutSession.                                                     *)
PayCheckoutSession(payer, merchant, a, r) ==
  ApplyLedgerMovement("DEBIT", payer, a, r, "PAY")
    \o ApplyLedgerMovement("CREDIT", merchant, a, r, "SETTLE")

(* settleCryptoOrderInstantly: four legs over four wallets.                *)
SettleCryptoOrder(buyerQuote, sellerCrypto, buyerCrypto, sellerQuote, total, qty, r) ==
  ApplyLedgerMovement("DEBIT", buyerQuote, total, r, "BUYERPAY")
    \o ApplyLedgerMovement("DEBIT", sellerCrypto, qty, r, "SELLERSEND")
    \o ApplyLedgerMovement("CREDIT", buyerCrypto, qty, r, "BUYERRECV")
    \o ApplyLedgerMovement("CREDIT", sellerQuote, total, r, "SELLERRECV")

(* holdGiftCardOrderInEscrow.                                              *)
HoldGiftCardOrder(buyer, seller, a, r) ==
  ApplyLedgerMovement("DEBIT", buyer, a, r, "ESCROW") \o HoldInFrozen(seller, a)

(* confirmDelivery.                                                        *)
ReleaseToSeller(seller, a, r) == ReleaseFrozenToBalance(seller, a, r, "RELEASE")

(* resolveDispute in favour of the buyer, and expireOverdueDeliveries.     *)
RefundBuyer(seller, buyer, a, r, leg) ==
  ReleaseFrozenOnly(seller, a) \o ApplyLedgerMovement("CREDIT", buyer, a, r, leg)

=============================================================================
