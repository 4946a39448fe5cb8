---------------------------- MODULE CryptoOrders ----------------------------
(***************************************************************************)
(* Crypto orders: OrdersService, called by request handlers that place and *)
(* cancel, and by OrdersSchedulerService, which every 30 seconds sweeps    *)
(* over the open limit and stop orders.                                    *)
(*                                                                         *)
(* A sweep reads all open orders and then, one by one, expires them, skips *)
(* them, or fills them in a transaction at a price it reads again.  A fill *)
(* that throws, for whatever reason, cancels the order.  Every update is   *)
(* by id, without another look at the status; two sweeps, or a sweep and a *)
(* cancellation, can hold one order.  The fill's ledger references carry   *)
(* the order's own reference, so the money moves at most once.             *)
(***************************************************************************)
EXTENDS Integers, FiniteSets

CONSTANTS
  Orders,     \* order ids
  Sweeps,     \* runs of processOpenOrders that can be in progress at a time
  Prices,     \* the rates of the one pair that is traded
  Book,       \* Book[o]: side, type and triggerPrice of order o
  MaxDeaths,  \* bound: sweeps that end half way
  NoOrder     \* a sweep has no order in hand

ASSUME OrdersAssumption ==
  /\ Prices \subseteq Nat
  /\ MaxDeaths \in Nat
  /\ NoOrder \notin Orders
  /\ Book \in [Orders -> [side : {"BUY", "SELL"}, type : {"MARKET", "LIMIT", "STOP"},
                          trigger : Prices]]

VARIABLES
  price,   \* the current rate
  status,  \* status[o] of the Order row
  late,    \* late[o]: expiresAt is in the past
  paid,    \* the orders whose ledger references are taken
  met,     \* the waiting orders whose trigger was reached since they were placed
  sweep,   \* sweep[k]: the orders still to look at, the one in hand, how far it is
  cancel,  \* the orders a cancellation has found OPEN and not yet written
  raced,   \* the orders that two actors have held at once
  deaths   \* sweeps that ended half way

orderVars == <<price, status, late, paid, met, sweep, cancel, raced, deaths>>

Closed == {"FILLED", "CANCELLED", "EXPIRED"}
Stages == {"find", "idle", "triggered", "rejected"}
NoSweep == [todo |-> {}, inHand |-> NoOrder, stage |-> "find"]

(* Every variable has its type, and only an order that was placed is ever  *)
(* in the hands of a sweep or of a cancellation (class OrdersService).     *)
OrdersTypeOK ==
  /\ price \in Prices
  /\ status \in [Orders -> {"none", "OPEN"} \cup Closed]
  /\ late \in [Orders -> BOOLEAN]
  /\ sweep \in [Sweeps -> [todo : SUBSET Orders, inHand : Orders \cup {NoOrder}, stage : Stages]]
  /\ \A o \in paid \cup met \cup cancel \cup raced \cup UNION {sweep[k].todo : k \in Sweeps} :
       o \in Orders /\ status[o] # "none"
  /\ deaths \in 0..MaxDeaths

OrdersInit ==
  /\ price \in Prices
  /\ status = [o \in Orders |-> "none"]
  /\ late = [o \in Orders |-> FALSE]
  /\ paid = {}
  /\ met = {}
  /\ sweep = [k \in Sweeps |-> NoSweep]
  /\ cancel = {}
  /\ raced = {}
  /\ deaths = 0

-----------------------------------------------------------------------------
(* Requests.                                                               *)

(* The trigger of a waiting order is reached at rate p (model Order):      *)
(* "LIMIT: fill at/better; STOP: fill once reached".                       *)
Reached(o, p) ==
  LET kind == <<Book[o].type, Book[o].side>>
  IN  \/ kind \in {<<"LIMIT", "BUY">>, <<"STOP", "SELL">>} /\ p <= Book[o].trigger
      \/ kind \in {<<"LIMIT", "SELL">>, <<"STOP", "BUY">>} /\ p >= Book[o].trigger

(* placeOrder: a market order is filled or refused, the others wait.       *)
PlaceOrder(o) ==
  /\ status[o] = "none"
  /\ \/ /\ Book[o].type = "MARKET"
        /\ status' = [status EXCEPT ![o] = "FILLED"]
        /\ paid' = paid \cup {o}
        /\ UNCHANGED met
     \/ /\ Book[o].type # "MARKET"
        /\ status' = [status EXCEPT ![o] = "OPEN"]
        /\ met' = IF Reached(o, price) THEN met \cup {o} ELSE met
        /\ UNCHANGED paid
  /\ UNCHANGED <<price, late, sweep, cancel, raced, deaths>>

(* The clock passes expiresAt.                                             *)
PassExpiry(o) ==
  /\ status[o] = "OPEN" /\ ~late[o]
  /\ late' = [late EXCEPT ![o] = TRUE]
  /\ UNCHANGED <<price, status, paid, met, sweep, cancel, raced, deaths>>

Holders(o) == {k \in Sweeps : o \in sweep[k].todo \cup {sweep[k].inHand}}

(* cancelOrder without the check of the status.                            *)
ReadOwnedUnchecked(o) ==
  /\ o \notin cancel
  /\ cancel' = cancel \cup {o}
  /\ raced' = IF Holders(o) # {} THEN raced \cup {o} ELSE raced
  /\ UNCHANGED <<price, status, late, paid, met, sweep, deaths>>

(* cancelOrder: the read and the check, then the update by id.             *)
ReadOwned(o) ==
  /\ status[o] = "OPEN" /\ o \notin cancel
  /\ cancel' = cancel \cup {o}
  /\ raced' = IF Holders(o) # {} THEN raced \cup {o} ELSE raced
  /\ UNCHANGED <<price, status, late, paid, met, sweep, deaths>>

CancelOrder(o) ==
  /\ o \in cancel
  /\ status' = [status EXCEPT ![o] = "CANCELLED"]
  /\ cancel' = cancel \ {o}
  /\ UNCHANGED <<price, late, paid, met, sweep, raced, deaths>>

-----------------------------------------------------------------------------
(* The sweep: processOpenOrders.                                           *)

OpenOrders == {o \in Orders : status[o] = "OPEN"}

FindOpenOrders(k) ==
  /\ sweep[k] = NoSweep /\ OpenOrders # {}
  /\ sweep' = [sweep EXCEPT ![k] = [todo |-> OpenOrders, inHand |-> NoOrder, stage |-> "idle"]]
  /\ raced' = raced \cup {o \in OpenOrders : Holders(o) # {} \/ o \in cancel}
  /\ UNCHANGED <<price, status, late, paid, met, cancel, deaths>>

(* The sweep is done with order o, the last of its list or not.            *)
DoneWith(k, o) ==
  LET rest == sweep[k].todo \ {o}
  IN  sweep' = [sweep EXCEPT ![k] =
                  IF rest = {} THEN NoSweep ELSE [todo |-> rest, inHand |-> NoOrder, stage |-> "idle"]]

LooksAt(k, o) == sweep[k].stage = "idle" /\ o \in sweep[k].todo

(* STOP taken for LIMIT: both sides compared the same way.                 *)
ShouldFillReversed(o) ==
  IF Book[o].side = "BUY" THEN price <= Book[o].trigger ELSE price >= Book[o].trigger

ShouldFill(o) ==
  IF (Book[o].type = "LIMIT") = (Book[o].side = "BUY")
  THEN price <= Book[o].trigger
  ELSE price >= Book[o].trigger

ExpireOrder(k, o) ==
  /\ LooksAt(k, o) /\ late[o]
  /\ status' = [status EXCEPT ![o] = "EXPIRED"]
  /\ DoneWith(k, o)
  /\ UNCHANGED <<price, late, paid, met, cancel, raced, deaths>>

SkipOrder(k, o) ==
  /\ LooksAt(k, o) /\ ~late[o] /\ ~ShouldFill(o)
  /\ DoneWith(k, o)
  /\ UNCHANGED <<price, status, late, paid, met, cancel, raced, deaths>>

TriggerOrder(k, o) ==
  /\ LooksAt(k, o) /\ ~late[o] /\ ShouldFill(o)
  /\ sweep' = [sweep EXCEPT ![k].inHand = o, ![k].stage = "triggered"]
  /\ UNCHANGED <<price, status, late, paid, met, cancel, raced, deaths>>

(* A fill that does not write the status.                                  *)
FillOrderUnmarked(k) ==
  /\ sweep[k].stage = "triggered"
  /\ sweep[k].inHand \notin paid
  /\ paid' = paid \cup {sweep[k].inHand}
  /\ DoneWith(k, sweep[k].inHand)
  /\ UNCHANGED <<price, status, late, met, cancel, raced, deaths>>

(* executeMarketOrder: both legs and the status, in one transaction.  The  *)
(* price it fills at is read again and need not satisfy the trigger.       *)
FillOrder(k) ==
  /\ sweep[k].stage = "triggered"
  /\ LET o == sweep[k].inHand
     IN  /\ o \notin paid
         /\ paid' = paid \cup {o}
         /\ status' = [status EXCEPT ![o] = "FILLED"]
         /\ DoneWith(k, o)
  /\ UNCHANGED <<price, late, met, cancel, raced, deaths>>

(* executeMarketOrder throws: the balance does not cover it, its reference *)
(* is in the ledger already, the transaction times out.                    *)
RejectFill(k) ==
  /\ sweep[k].stage = "triggered"
  /\ sweep' = [sweep EXCEPT ![k].stage = "rejected"]
  /\ UNCHANGED <<price, status, late, paid, met, cancel, raced, deaths>>

(* A catch that leaves the order as it is.                                 *)
CancelRejectedNever(k) ==
  /\ sweep[k].stage = "rejected"
  /\ DoneWith(k, sweep[k].inHand)
  /\ UNCHANGED <<price, status, late, paid, met, cancel, raced, deaths>>

(* The catch of line 254: CANCELLED, whatever the order is by now.         *)
CancelRejected(k) ==
  /\ sweep[k].stage = "rejected"
  /\ status' = [status EXCEPT ![sweep[k].inHand] = "CANCELLED"]
  /\ DoneWith(k, sweep[k].inHand)
  /\ UNCHANGED <<price, late, paid, met, cancel, raced, deaths>>

(* An update throws out of the loop, or the process dies.                  *)
SweepDies(k) ==
  /\ sweep[k] # NoSweep
  /\ deaths < MaxDeaths
  /\ deaths' = deaths + 1
  /\ sweep' = [sweep EXCEPT ![k] = NoSweep]
  /\ UNCHANGED <<price, status, late, paid, met, cancel, raced>>

RunSweep(k) ==
  \/ FindOpenOrders(k)
  \/ \E o \in Orders : ExpireOrder(k, o) \/ SkipOrder(k, o) \/ TriggerOrder(k, o)
  \/ FillOrder(k) \/ RejectFill(k) \/ CancelRejected(k)

(* CryptoPricesService.tick: a small step of a random walk.                *)
PriceTick ==
  /\ price' \in {price - 1, price + 1} \cap Prices
  /\ met' = met \cup
       {o \in Orders : status[o] # "none" /\ Book[o].type # "MARKET" /\ Reached(o, price')}
  /\ UNCHANGED <<status, late, paid, sweep, cancel, raced, deaths>>

OrdersNext ==
  \/ PriceTick
  \/ \E o \in Orders : PlaceOrder(o) \/ PassExpiry(o) \/ ReadOwned(o) \/ CancelOrder(o)
  \/ \E k \in Sweeps : RunSweep(k) \/ SweepDies(k)

OrdersSpec == OrdersInit /\ [][OrdersNext]_orderVars

(* The scheduler sweeps every 30 seconds.                                  *)
FairOrders == OrdersSpec /\ \A k \in Sweeps : WF_orderVars(RunSweep(k))

-----------------------------------------------------------------------------
(* An order says FILLED only if its money moved, however requests and      *)
(* sweeps interleave, and an order whose money moved is never open again:  *)
(* no later sweep finds it (orders.service.ts:94-153, 218).                *)
FilledIsPaid ==
  \A o \in Orders :
    /\ status[o] = "FILLED" => o \in paid
    /\ o \in paid => status[o] \in Closed

(* Unless two actors held the order at once, it also says nothing else     *)
(* once its money moved: a paid order that ends CANCELLED or EXPIRED       *)
(* takes a race (orders.service.ts:163, 222, 254-262).                     *)
PaidIsFilled == \A o \in paid \ raced : status[o] = "FILLED"

(* Rows keep their shapes, and FILLED and paid say the same.               *)
OrdersSound == OrdersTypeOK /\ FilledIsPaid /\ PaidIsFilled

(* "the scheduler fills this against the live price once the trigger       *)
(* condition is met" (orders.service.ts:57-58): no waiting order is filled *)
(* whose trigger no price reached since it was placed, whatever the price  *)
(* does between the sweep's look and the fill.                             *)
FilledOnTrigger == \A o \in paid : Book[o].type = "MARKET" \/ o \in met

(* Unless two actors held the order at once, a closed order stays as it    *)
(* is: in particular one the user has cancelled is never filled.           *)
ClosedForGood ==
  [][\A o \in Orders \ raced' : status[o] \in Closed => status'[o] = status[o]]_orderVars

(* "Cancel rather than leave it silently stuck OPEN forever"               *)
(* (orders.service.ts:257): an order that expired, or whose trigger is     *)
(* met and stays met, does not stay open.                                  *)
NeverStuck ==
  \A o \in Orders :
    ~<>[](status[o] = "OPEN" /\ (late[o] \/ ShouldFill(o)))

=============================================================================
