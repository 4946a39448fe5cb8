----------------------------- MODULE MCExchange -----------------------------
(***************************************************************************)
(* The crypto orders and their sweeps, and the ledger beneath them when no *)
(* two transactions have a wallet in common.  The orders see of the ledger *)
(* no more than its unique references: a behaviour is one of one part, and *)
(* the other stays as it began.                                            *)
(***************************************************************************)
EXTENDS MCWalletLedger, MCCryptoOrders

VARIABLE part

exchangeVars == <<part, vars, orderVars>>

(* The rate is nothing to the ledger: where that is at work, it is fixed.  *)
ExchangeInit ==
  /\ part \in {"ledger", "orders"} /\ Init /\ OrdersInit
  /\ part = "ledger" => price = CHOOSE p \in Prices : TRUE

Ledger(action) == part = "ledger" /\ action /\ UNCHANGED <<part, orderVars>>
Trade(action) == part = "orders" /\ action /\ UNCHANGED <<part, vars>>

(* ExclusiveNext and OrdersNext, disjunct by disjunct.                     *)
ExchangeNext ==
  \/ \E t \in Txs :
       \/ \E p \in Menu[t] : Ledger(Exclusive(p) /\ Begin(t, p))
       \/ Ledger(Advance(t)) \/ Ledger(Expire(t))
  \/ Trade(PriceTick)
  \/ \E o \in Orders :
       \/ Trade(PlaceOrder(o)) \/ Trade(PassExpiry(o))
       \/ Trade(ReadOwned(o)) \/ Trade(CancelOrder(o))
  \/ \E k \in Sweeps :
       \/ Trade(FindOpenOrders(k)) \/ Trade(FillOrder(k)) \/ Trade(RejectFill(k))
       \/ Trade(CancelRejected(k)) \/ Trade(SweepDies(k))
       \/ \E o \in Orders :
            Trade(ExpireOrder(k, o)) \/ Trade(SkipOrder(k, o)) \/ Trade(TriggerOrder(k, o))

(* The fairness of FairOrders; no property of the ledger needs one here.   *)
ExchangeSpec ==
  /\ ExchangeInit /\ [][ExchangeNext]_exchangeVars
  /\ \A k \in Sweeps : WF_orderVars(RunSweep(k))
=============================================================================
