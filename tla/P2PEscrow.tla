------------------------------ MODULE P2PEscrow ------------------------------
(***************************************************************************)
(* The P2P marketplace: P2pService, called by request handlers that run    *)
(* concurrently, and by the hourly job that expires overdue deliveries.    *)
(*                                                                         *)
(* A handler reads the offer or order and checks its status, and later, in *)
(* a transaction or a single UPDATE by id, writes without looking at the   *)
(* status again.  Here the read is one action and the write another; the   *)
(* job a worker holds in between is what its check has allowed.  A wallet  *)
(* movement inside the transaction is represented by its ledger reference, *)
(* which the unique index accepts once (WalletLedger models what happens   *)
(* inside).  The price of one unit is one.                                 *)
(***************************************************************************)
EXTENDS Integers, FiniteSets, Functions

CONSTANTS
  Workers,  \* concurrent request handlers
  Orders,   \* order ids, each created at most once
  Offers,   \* offers, each of its own seller
  Kind,     \* Kind[f]: the assetType of offer f
  Stock,    \* Stock[f]: availableQuantity when f is created
  MaxQty,   \* maxOrderQuantity; minOrderQuantity is 1
  Idle      \* no request in hand

ASSUME EscrowAssumption ==
  /\ Offers # {}
  /\ Kind \in [Offers -> {"CRYPTO", "GIFT_CARD"}]
  /\ Stock \in [Offers -> Nat \ {0}]
  /\ MaxQty \in Nat \ {0}

VARIABLES
  offer,    \* offer[f]: status and availableQuantity
  order,    \* order[o]: the P2POrder row; overdue: it is older than 24 hours
  refs,     \* the ledger references <<order, leg>>
  frozen,   \* frozen[f]: frozenBalance of the wallet of the seller of f
  job,      \* job[k]: the request worker k has checked and not yet written
  sweep     \* the overdue orders the cron job has found and not yet handled

escrowVars == <<offer, order, refs, frozen, job, sweep>>

Statuses == {"none", "PENDING_DELIVERY", "DELIVERED", "DISPUTED", "COMPLETED", "CANCELLED"}
Payouts == {"RELEASE", "DISPUTE-SELLER", "DISPUTE-BUYER", "AUTOREFUND"}

(* The status a handler demands of the order it reads.                     *)
Demands ==
  [deliver |-> {"PENDING_DELIVERY"},
   confirm |-> {"DELIVERED"},
   dispute |-> {"PENDING_DELIVERY", "DELIVERED"},
   resolveSeller |-> {"DISPUTED"},
   resolveBuyer |-> {"DISPUTED"}]

Jobs == [op : {"create"}, order : Orders, offer : Offers, qty : 1..MaxQty]
          \cup [op : DOMAIN Demands, order : Orders]

(* Every variable has its type, and an offer never grows beyond its stock  *)
(* (p2p.service.ts, class P2pService).                                     *)
EscrowTypeOK ==
  /\ offer \in [Offers -> [status : {"ACTIVE", "PAUSED"}, available : Int]]
  /\ \A f \in Offers : offer[f].available <= Stock[f]
  /\ order \in [Orders -> [status : Statuses, offer : Offers, qty : Nat,
                           code : BOOLEAN, raised : BOOLEAN, overdue : BOOLEAN]]
  /\ refs \subseteq Orders \X (Payouts \cup {"ESCROW", "SELLERRECV"})
  /\ frozen \in [Offers -> Int]
  /\ job \in [Workers -> Jobs \cup {Idle}]
  /\ sweep \subseteq Orders

EscrowInit ==
  /\ offer = [f \in Offers |-> [status |-> "ACTIVE", available |-> Stock[f]]]
  /\ order = [o \in Orders |->
                [status |-> "none", offer |-> CHOOSE f \in Offers : TRUE, qty |-> 0,
                 code |-> FALSE, raised |-> FALSE, overdue |-> FALSE]]
  /\ refs = {}
  /\ frozen = [f \in Offers |-> 0]
  /\ job = [k \in Workers |-> Idle]
  /\ sweep = {}

-----------------------------------------------------------------------------
(* Offers.                                                                 *)

(* setOfferStatus; PAUSED stands for CLOSED too, which the code treats the *)
(* same way.                                                               *)
SetOfferStatus(f, s) ==
  /\ offer[f].status # s
  /\ offer' = [offer EXCEPT ![f].status = s]
  /\ UNCHANGED <<order, refs, frozen, job, sweep>>

(* The check of line 108 left out.                                         *)
ReadOfferUnlimited(k, o, f, q) ==
  /\ job[k] = Idle
  /\ order[o].status = "none"
  /\ \A j \in Workers : job[j] # Idle => job[j].order # o
  /\ offer[f].status = "ACTIVE"
  /\ job' = [job EXCEPT ![k] = [op |-> "create", order |-> o, offer |-> f, qty |-> q]]
  /\ UNCHANGED <<offer, order, refs, frozen, sweep>>

(* createOrder up to its transaction: the checks of lines 96-110.          *)
ReadOffer(k, o, f, q) ==
  /\ job[k] = Idle
  /\ order[o].status = "none"
  /\ \A j \in Workers : job[j] # Idle => job[j].order # o
  /\ offer[f].status = "ACTIVE"
  /\ q <= offer[f].available
  /\ job' = [job EXCEPT ![k] = [op |-> "create", order |-> o, offer |-> f, qty |-> q]]
  /\ UNCHANGED <<offer, order, refs, frozen, sweep>>

Finish(k) == job' = [job EXCEPT ![k] = Idle]

(* The order is accepted without taking its quantity from the offer.       *)
PlaceOrderOnly(j, s) ==
  /\ order' = [order EXCEPT ![j.order].status = s, ![j.order].offer = j.offer,
                            ![j.order].qty = j.qty]
  /\ UNCHANGED offer

(* The order row and the decrement of the offer, in both transactions.     *)
PlaceOrder(j, s) ==
  /\ order' = [order EXCEPT ![j.order].status = s, ![j.order].offer = j.offer,
                            ![j.order].qty = j.qty]
  /\ offer' = [offer EXCEPT ![j.offer].available = @ - j.qty]

SettleCryptoOrderInstantly(k) ==
  /\ job[k] # Idle /\ job[k].op = "create" /\ Kind[job[k].offer] = "CRYPTO"
  /\ PlaceOrder(job[k], "COMPLETED")
  /\ refs' = refs \cup {<<job[k].order, "SELLERRECV">>}
  /\ Finish(k)
  /\ UNCHANGED <<frozen, sweep>>

HoldGiftCardOrderInEscrow(k) ==
  /\ job[k] # Idle /\ job[k].op = "create" /\ Kind[job[k].offer] = "GIFT_CARD"
  /\ PlaceOrder(job[k], "PENDING_DELIVERY")
  /\ refs' = refs \cup {<<job[k].order, "ESCROW">>}
  /\ frozen' = [frozen EXCEPT ![job[k].offer] = @ + job[k].qty]
  /\ Finish(k)
  /\ UNCHANGED sweep

-----------------------------------------------------------------------------
(* Orders.                                                                 *)

(* A read that forgets the status check.                                   *)
ReadOrderUnchecked(k, o, op) ==
  /\ job[k] = Idle
  /\ order[o].status # "none"
  /\ job' = [job EXCEPT ![k] = [op |-> op, order |-> o]]
  /\ UNCHANGED <<offer, order, refs, frozen, sweep>>

(* The read and the status check every handler starts with.                *)
ReadOrder(k, o, op) ==
  /\ job[k] = Idle
  /\ order[o].status \in Demands[op]
  /\ job' = [job EXCEPT ![k] = [op |-> op, order |-> o]]
  /\ UNCHANGED <<offer, order, refs, frozen, sweep>>

Serves(k, op) == job[k] # Idle /\ job[k].op = op

(* The seller's hold is released and the amount credited, to the seller or *)
(* to the buyer; the leg's ledger reference must be new.                   *)
MovePayout(o, leg) ==
  /\ <<o, leg>> \notin refs
  /\ refs' = refs \cup {<<o, leg>>}
  /\ frozen' = [frozen EXCEPT ![order[o].offer] = @ - order[o].qty]

DeliverGiftCardCode(k) ==
  /\ Serves(k, "deliver")
  /\ order' = [order EXCEPT ![job[k].order].status = "DELIVERED",
                            ![job[k].order].code = TRUE]
  /\ Finish(k)
  /\ UNCHANGED <<offer, refs, frozen, sweep>>

ConfirmDelivery(k) ==
  /\ Serves(k, "confirm")
  /\ MovePayout(job[k].order, "RELEASE")
  /\ order' = [order EXCEPT ![job[k].order].status = "COMPLETED"]
  /\ Finish(k)
  /\ UNCHANGED <<offer, sweep>>

RaiseDispute(k) ==
  /\ Serves(k, "dispute")
  /\ order' = [order EXCEPT ![job[k].order].status = "DISPUTED",
                            ![job[k].order].raised = TRUE]
  /\ Finish(k)
  /\ UNCHANGED <<offer, refs, frozen, sweep>>

(* A resolution that leaves the order as it found it.                      *)
ResolveDisputeKeepsStatus(k) ==
  /\ \/ Serves(k, "resolveSeller") /\ MovePayout(job[k].order, "DISPUTE-SELLER")
     \/ Serves(k, "resolveBuyer") /\ MovePayout(job[k].order, "DISPUTE-BUYER")
  /\ Finish(k)
  /\ UNCHANGED <<offer, order, sweep>>

(* Both resolutions end in CANCELLED; the offer does not get its quantity  *)
(* back.                                                                   *)
ResolveDispute(k) ==
  /\ \/ Serves(k, "resolveSeller") /\ MovePayout(job[k].order, "DISPUTE-SELLER")
     \/ Serves(k, "resolveBuyer") /\ MovePayout(job[k].order, "DISPUTE-BUYER")
  /\ order' = [order EXCEPT ![job[k].order].status = "CANCELLED"]
  /\ Finish(k)
  /\ UNCHANGED <<offer, sweep>>

(* A request that ends without effect: insufficient balance, a reference   *)
(* that is taken, a lost connection, a crash of the process.               *)
RequestFails(k) ==
  /\ job[k] # Idle
  /\ Finish(k)
  /\ UNCHANGED <<offer, order, refs, frozen, sweep>>

-----------------------------------------------------------------------------
(* The hourly job.                                                         *)

(* Twenty-four hours have passed since the order was placed.               *)
PassDeadline(o) ==
  /\ order[o].status # "none" /\ ~order[o].overdue
  /\ order' = [order EXCEPT ![o].overdue = TRUE]
  /\ UNCHANGED <<offer, refs, frozen, job, sweep>>

Overdue == {o \in Orders : order[o].overdue /\ order[o].status = "PENDING_DELIVERY"}

(* findMany: the rows the whole sweep will work on.                        *)
FindOverdue ==
  /\ sweep = {} /\ Overdue # {}
  /\ sweep' = Overdue
  /\ UNCHANGED <<offer, order, refs, frozen, job>>

(* An expiry that never refunds.                                           *)
ExpireOrderNever(o) ==
  /\ o \in sweep
  /\ sweep' = sweep \ {o}
  /\ UNCHANGED <<offer, order, refs, frozen, job>>

(* The refund transaction of one order of the sweep.                       *)
ExpireOrder(o) ==
  /\ o \in sweep
  /\ MovePayout(o, "AUTOREFUND")
  /\ order' = [order EXCEPT ![o].status = "CANCELLED"]
  /\ offer' = [offer EXCEPT ![order[o].offer].available = @ + order[o].qty]
  /\ sweep' = sweep \ {o}
  /\ UNCHANGED job

(* An exception leaves the loop, which has no try around an order.         *)
SweepFails ==
  /\ sweep # {}
  /\ sweep' = {}
  /\ UNCHANGED <<offer, order, refs, frozen, job>>

-----------------------------------------------------------------------------
Start(k) ==
  \E o \in Orders :
    \/ \E f \in Offers, q \in 1..MaxQty : ReadOffer(k, o, f, q)
    \/ \E op \in DOMAIN Demands : ReadOrder(k, o, op)

Write(k) ==
  \/ SettleCryptoOrderInstantly(k) \/ HoldGiftCardOrderInEscrow(k)
  \/ DeliverGiftCardCode(k) \/ ConfirmDelivery(k)
  \/ RaiseDispute(k) \/ ResolveDispute(k)
  \/ RequestFails(k)

Environment ==
  \/ \E f \in Offers, s \in {"ACTIVE", "PAUSED"} : SetOfferStatus(f, s)
  \/ \E o \in Orders : PassDeadline(o)

EscrowNext ==
  \/ \E k \in Workers : Start(k) \/ Write(k)
  \/ FindOverdue
  \/ \E o \in Orders : ExpireOrder(o)
  \/ SweepFails
  \/ Environment

EscrowSpec == EscrowInit /\ [][EscrowNext]_escrowVars

(* One request or sweep at a time: it starts only when no other is open.   *)
Quiet == sweep = {} /\ \A k \in Workers : job[k] = Idle

SerialNext ==
  \/ Quiet /\ (FindOverdue \/ \E k \in Workers : Start(k))
  \/ \E k \in Workers : Write(k)
  \/ \E o \in Orders : ExpireOrder(o)
  \/ SweepFails
  \/ Environment

(* Requests end, time passes, the cron job fires every hour, and its       *)
(* refund of an order does not fail for ever.  (Strong fairness because    *)
(* the cron job does not wait: that it meets no request is the assumption  *)
(* of SerialNext.)                                                         *)
SerialSpec ==
  /\ EscrowInit /\ [][SerialNext]_escrowVars
  /\ \A k \in Workers : WF_escrowVars(Write(k))
  /\ SF_escrowVars(Quiet /\ FindOverdue)
  /\ \A o \in Orders : WF_escrowVars(PassDeadline(o)) /\ SF_escrowVars(ExpireOrder(o))

-----------------------------------------------------------------------------
Of(f, S) == {o \in S : order[o].offer = f}
Qty(S) == SumFunctionOnSet([o \in Orders |-> order[o].qty], S)
With(leg) == {o \in Orders : <<o, leg>> \in refs}
Placed == {o \in Orders : order[o].status # "none"}
PaidTo(o) == {leg \in Payouts : <<o, leg>> \in refs}

(* The hold of a seller is what orders put in less what payouts took out   *)
(* (holdInFrozenInTx, releaseFrozenOnlyInTx), in every interleaving: no    *)
(* path credits without releasing or releases without crediting.  A second *)
(* payout then makes it negative, which nothing prevents.                  *)
FrozenAccounted ==
  \A f \in Offers :
    frozen[f] =
      Qty(Of(f, With("ESCROW")))
        - Qty(Of(f, With("RELEASE"))) - Qty(Of(f, With("DISPUTE-SELLER")))
        - Qty(Of(f, With("DISPUTE-BUYER"))) - Qty(Of(f, With("AUTOREFUND")))

(* The quantity an offer has left is what it started with less its orders, *)
(* plus what the hourly job gave back (p2p.service.ts:167, 212, 418).      *)
StockAccounted ==
  \A f \in Offers :
    offer[f].available =
      Stock[f] - Qty(Of(f, Placed)) + Qty(Of(f, With("AUTOREFUND")))

(* Rows keep their shapes, and the hold and the stock of every offer are   *)
(* what its orders say.                                                    *)
AccountsTrue == EscrowTypeOK /\ FrozenAccounted /\ StockAccounted

(* However requests interleave, money leaves the hold only for its reason  *)
(* (confirmDelivery, resolveDispute, expireOverdueDeliveries): the seller  *)
(* is paid by the buyer's confirmation only if a code was delivered, a     *)
(* resolution follows a dispute, the automatic refund the deadline.        *)
PayoutsJustified ==
  \A o \in Orders :
    /\ PaidTo(o) # {} => <<o, "ESCROW">> \in refs
    /\ "RELEASE" \in PaidTo(o) => order[o].code
    /\ PaidTo(o) \cap {"DISPUTE-SELLER", "DISPUTE-BUYER"} # {} => order[o].raised
    /\ "AUTOREFUND" \in PaidTo(o) => order[o].overdue

(* A seller who stays silent does not keep the buyer's money for ever: the *)
(* hourly job refunds it (expireOverdueDeliveries, README.md:65-66).       *)
SilenceEnds ==
  \A o \in Orders :
    order[o].status = "PENDING_DELIVERY" ~> order[o].status # "PENDING_DELIVERY"

Held == {o \in Orders : order[o].status \in {"PENDING_DELIVERY", "DELIVERED", "DISPUTED"}}

Place(o) ==
  IF o \in Held THEN "held"
  ELSE IF order[o].status = "none" THEN "none"
  ELSE IF order[o].status = "COMPLETED" \/ "DISPUTE-SELLER" \in PaidTo(o) THEN "seller"
  ELSE "buyer"

(* The escrow promise: the money of an order is in one place, and leaves   *)
(* the hold once.                                                          *)
Promise == INSTANCE EscrowPromise WITH
  place <- [o \in Orders |-> Place(o)],
  payouts <- [o \in Orders |-> Cardinality(PaidTo(o))],
  held <- frozen

(* As long as requests and sweeps do not overlap, P2pService implements    *)
(* the promise (p2p.service.ts:288-424).                                   *)
KeepsPromise == Promise!Spec

(* One request at a time, an offer is never sold beyond its quantity: the  *)
(* check at p2p.service.ts:108 is what stands against it, and the UPDATE   *)
(* does not repeat it.                                                     *)
NotOversold == \A f \in Offers : offer[f].available >= 0

=============================================================================
