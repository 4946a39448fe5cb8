------------------------- MODULE CryptoOrdersProofs -------------------------
(***************************************************************************)
(* Proofs about CryptoOrders, for any number of orders, sweeps and prices: *)
(* FILLED means the money moved, a waiting order is filled only once its   *)
(* trigger was reached, and an order nobody else held stays closed.        *)
(***************************************************************************)
EXTENDS CryptoOrders, TLAPS

-----------------------------------------------------------------------------
(* The inductive invariant.                                                *)

(* An order in hand is one of the list, and a sweep that is over has none. *)
Hands ==
  \A k \in Sweeps :
    /\ sweep[k].stage = "find" => sweep[k] = NoSweep
    /\ sweep[k].inHand # NoOrder <=> sweep[k].stage \in {"triggered", "rejected"}
    /\ sweep[k].inHand # NoOrder => sweep[k].inHand \in sweep[k].todo

(* met knows every waiting order whose trigger the rate satisfies now, and *)
(* every waiting order that a sweep is about to fill.                      *)
MetTrue ==
  /\ \A o \in Orders :
       status[o] # "none" /\ Book[o].type # "MARKET" /\ Reached(o, price) => o \in met
  /\ \A k \in Sweeps, o \in Orders :
       sweep[k].inHand = o => Book[o].type = "MARKET" \/ o \in met

(* An order that two actors never held at once has at most one holder, and *)
(* is open as long as it has one.                                          *)
HeldOnce ==
  \A o \in Orders \ raced :
    /\ o \in cancel => status[o] = "OPEN"
    /\ \A k \in Sweeps :
         o \in sweep[k].todo =>
           status[o] = "OPEN" /\ o \notin cancel /\ \A j \in Sweeps : o \in sweep[j].todo => j = k

Inv == OrdersTypeOK /\ Hands /\ FilledIsPaid /\ PaidIsFilled /\ MetTrue /\ FilledOnTrigger /\ HeldOnce

-----------------------------------------------------------------------------
(* What the actions have in common.                                        *)

(* The trigger the sweep looks for is the one the order was placed with.   *)
LEMMA FillsWhenReached ==
  ASSUME NEW o \in Orders, ShouldFill(o)
  PROVE  Book[o].type = "MARKET" \/ Reached(o, price)
<1>1. Book[o].side \in {"BUY", "SELL"} /\ Book[o].type \in {"MARKET", "LIMIT", "STOP"}
  BY OrdersAssumption
<1>2. CASE Book[o].type = "MARKET"
  BY <1>2
<1>3. CASE Book[o].type = "LIMIT"
  <2>1. CASE Book[o].side = "BUY"
    BY <1>3, <2>1 DEF ShouldFill, Reached
  <2>2. CASE Book[o].side = "SELL"
    BY <1>3, <2>2 DEF ShouldFill, Reached
  <2> QED
    BY <1>1, <2>1, <2>2
<1>4. CASE Book[o].type = "STOP"
  <2>1. CASE Book[o].side = "BUY"
    BY <1>4, <2>1 DEF ShouldFill, Reached
  <2>2. CASE Book[o].side = "SELL"
    BY <1>4, <2>2 DEF ShouldFill, Reached
  <2> QED
    BY <1>1, <2>1, <2>2
<1> QED
  BY <1>1, <1>2, <1>3, <1>4

(* Whoever holds an order has it on its list.                              *)
LEMMA HoldersList ==
  ASSUME Hands, NEW o \in Orders
  PROVE  Holders(o) = {k \in Sweeps : o \in sweep[k].todo}
BY OrdersAssumption DEF Hands, Holders

(* A sweep that is done with an order has an empty hand and a shorter list, *)
(* and the other sweeps are as they were.                                  *)
LEMMA DoneShape ==
  ASSUME OrdersTypeOK, NEW k \in Sweeps, NEW o \in Orders, DoneWith(k, o)
  PROVE  /\ sweep' \in [Sweeps -> [todo : SUBSET Orders, inHand : Orders \cup {NoOrder}, stage : Stages]]
         /\ \A j \in Sweeps \ {k} : sweep'[j] = sweep[j]
         /\ sweep'[k].todo = sweep[k].todo \ {o}
         /\ sweep'[k].inHand = NoOrder
         /\ sweep'[k].stage \in {"find", "idle"}
         /\ sweep'[k].stage = "find" => sweep'[k] = NoSweep
<1> DEFINE rest == sweep[k].todo \ {o}
<1> DEFINE next == IF rest = {} THEN NoSweep
                   ELSE [todo |-> rest, inHand |-> NoOrder, stage |-> "idle"]
<1>1. rest \in SUBSET Orders
  BY DEF OrdersTypeOK
<1>2. /\ next \in [todo : SUBSET Orders, inHand : Orders \cup {NoOrder}, stage : Stages]
      /\ next.todo = rest /\ next.inHand = NoOrder /\ next.stage \in {"find", "idle"}
      /\ next.stage = "find" => next = NoSweep
  BY <1>1 DEF NoSweep, Stages
<1>3. sweep' = [sweep EXCEPT ![k] = next]
  BY DEF DoneWith
<1> HIDE DEF next
<1> QED
  BY <1>2, <1>3 DEF OrdersTypeOK

(* The sweeps go on as they were or give orders up.                        *)
Shrinks ==
  /\ \A j \in Sweeps : sweep'[j].todo \subseteq sweep[j].todo
  /\ \A j \in Sweeps, o \in Orders : sweep'[j].inHand = o => sweep[j].inHand = o

(* A step that changes no order and gives orders up at most keeps it all.  *)
LEMMA RowsKept ==
  ASSUME Inv, OrdersTypeOK', Hands', Shrinks,
         UNCHANGED <<price, status, late, paid, met, cancel, raced>>
  PROVE  Inv'
<1>1. FilledIsPaid' /\ PaidIsFilled' /\ FilledOnTrigger'
  BY DEF Inv, FilledIsPaid, PaidIsFilled, FilledOnTrigger
<1>2. MetTrue'
  BY DEF Inv, MetTrue, Shrinks, Reached
<1>3. HeldOnce'
  BY DEF Inv, HeldOnce, Shrinks
<1> QED
  BY <1>1, <1>2, <1>3 DEF Inv

(* Whoever writes the status of an order lets go of it.                    *)
LEMMA RowWritten ==
  ASSUME Inv, OrdersTypeOK', Hands', Shrinks, NEW x \in Orders, NEW s \in Closed,
         status' = [status EXCEPT ![x] = s],
         UNCHANGED <<price, late, met, raced>>, cancel' \subseteq cancel,
         \/ s # "FILLED" /\ paid' = paid /\ (x \in raced \/ x \notin paid)
         \/ /\ s = "FILLED" /\ paid' = paid \cup {x}
            /\ Book[x].type = "MARKET" \/ x \in met,
         status[x] # "none" ,
         x \in raced \/ (x \notin cancel' /\ \A j \in Sweeps : x \notin sweep'[j].todo)
  PROVE  Inv'
<1>1. /\ status \in [Orders -> {"none", "OPEN"} \cup Closed]
      /\ status'[x] = s /\ \A o \in Orders \ {x} : status'[o] = status[o]
  BY DEF Inv, OrdersTypeOK
<1>2. FilledIsPaid' /\ PaidIsFilled'
  BY <1>1 DEF Inv, FilledIsPaid, PaidIsFilled, Closed
<1>3. FilledOnTrigger'
  BY DEF Inv, FilledOnTrigger
<1>4. MetTrue'
  BY <1>1 DEF Inv, MetTrue, Shrinks, Reached
<1>5. HeldOnce'
  BY <1>1 DEF Inv, HeldOnce, Shrinks
<1> QED
  BY <1>2, <1>3, <1>4, <1>5 DEF Inv

-----------------------------------------------------------------------------
(* Every step keeps the shapes and the hands.                              *)
SweepRow == [todo : SUBSET Orders, inHand : Orders \cup {NoOrder}, stage : Stages]

LEMMA InitInv == OrdersInit => Inv
<1> SUFFICES ASSUME OrdersInit PROVE Inv
  OBVIOUS
<1>1. NoSweep \in SweepRow /\ NoSweep.stage = "find" /\ NoSweep.inHand = NoOrder /\ NoSweep.todo = {}
  BY DEF NoSweep, SweepRow, Stages
<1>2. OrdersTypeOK
  <2>1. UNION {sweep[k].todo : k \in Sweeps} = {}
    BY <1>1 DEF OrdersInit
  <2>2. \A o \in paid \cup met \cup cancel \cup raced \cup UNION {sweep[k].todo : k \in Sweeps} :
          o \in Orders /\ status[o] # "none"
    BY <2>1 DEF OrdersInit
  <2>3. sweep \in [Sweeps -> SweepRow]
    BY <1>1 DEF OrdersInit
  <2> QED
    BY <2>2, <2>3, OrdersAssumption DEF OrdersInit, OrdersTypeOK, SweepRow
<1>3. Hands
  BY <1>1, OrdersAssumption DEF OrdersInit, Hands
<1>4. FilledIsPaid /\ PaidIsFilled /\ FilledOnTrigger
  BY DEF OrdersInit, FilledIsPaid, PaidIsFilled, FilledOnTrigger
<1>5. MetTrue
  BY <1>1, OrdersAssumption DEF OrdersInit, MetTrue
<1>6. HeldOnce
  BY <1>1 DEF OrdersInit, HeldOnce
<1> QED
  BY <1>2, <1>3, <1>4, <1>5, <1>6 DEF Inv

(* What a sweep that gives an order up leaves of the shapes, when statuses *)
(* only become closed.                                                     *)
LEMMA DoneKeepsShape ==
  ASSUME Inv, NEW k \in Sweeps, NEW o \in Orders, DoneWith(k, o),
         sweep[k].inHand \in {o, NoOrder},
         status' \in [Orders -> {"none", "OPEN"} \cup Closed],
         \A x \in Orders : status[x] # "none" => status'[x] # "none",
         status[o] # "none", paid' \subseteq paid \cup {o},
         UNCHANGED <<price, late, met, cancel, raced, deaths>>
  PROVE  OrdersTypeOK' /\ Hands' /\ Shrinks
<1>1. /\ sweep' \in [Sweeps -> SweepRow]
      /\ \A j \in Sweeps \ {k} : sweep'[j] = sweep[j]
      /\ sweep'[k].todo = sweep[k].todo \ {o}
      /\ sweep'[k].inHand = NoOrder
      /\ sweep'[k].stage \in {"find", "idle"}
      /\ sweep'[k].stage = "find" => sweep'[k] = NoSweep
  BY DoneShape DEF Inv, SweepRow
<1>2. Shrinks
  BY <1>1, OrdersAssumption DEF Shrinks
<1>3. Hands'
  BY <1>1 DEF Inv, Hands
<1>4. OrdersTypeOK'
  <2>1. \A x \in paid' \cup met' \cup cancel' \cup raced'
             \cup UNION {sweep'[j].todo : j \in Sweeps} :
          x \in paid \cup met \cup cancel \cup raced \cup {o}
               \cup UNION {sweep[j].todo : j \in Sweeps}
    BY <1>2 DEF Shrinks
  <2>2. \A x \in paid' \cup met' \cup cancel' \cup raced'
             \cup UNION {sweep'[j].todo : j \in Sweeps} :
          x \in Orders /\ status'[x] # "none"
    BY <2>1 DEF Inv, OrdersTypeOK
  <2> QED
    BY <1>1, <2>2 DEF Inv, OrdersTypeOK, SweepRow
<1> QED
  BY <1>2, <1>3, <1>4

-----------------------------------------------------------------------------
(* Requests, and the clock.                                                *)

(* The sweeps are not touched.                                             *)
LEMMA HandsKept ==
  ASSUME Inv, sweep' = sweep
  PROVE  Hands' /\ Shrinks
BY DEF Inv, Hands, Shrinks

LEMMA PlaceStep ==
  ASSUME Inv, NEW x \in Orders, PlaceOrder(x)
  PROVE  Inv'
<1>1. /\ status \in [Orders -> {"none", "OPEN"} \cup Closed] /\ status[x] = "none"
      /\ \A o \in Orders \ {x} : status'[o] = status[o]
      /\ status'[x] \in {"OPEN", "FILLED"} /\ status' \in [Orders -> {"none", "OPEN"} \cup Closed]
      /\ UNCHANGED <<price, late, sweep, cancel, raced, deaths>>
      /\ paid \subseteq paid' /\ met \subseteq met'
  BY DEF Inv, OrdersTypeOK, PlaceOrder, Closed
<1>2. x \notin cancel /\ x \notin raced /\ x \notin paid /\ \A k \in Sweeps : x \notin sweep[k].todo
  BY <1>1 DEF Inv, OrdersTypeOK
<1>3. OrdersTypeOK'
  <2>1. \A o \in paid' \cup met' \cup cancel' \cup raced' \cup UNION {sweep'[k].todo : k \in Sweeps} :
          o = x \/ o \in paid \cup met \cup cancel \cup raced \cup UNION {sweep[k].todo : k \in Sweeps}
    BY <1>1 DEF PlaceOrder
  <2>2. \A o \in paid' \cup met' \cup cancel' \cup raced' \cup UNION {sweep'[k].todo : k \in Sweeps} :
          o \in Orders /\ status'[o] # "none"
    BY <1>1, <2>1 DEF Inv, OrdersTypeOK
  <2> QED
    BY <1>1, <2>2 DEF Inv, OrdersTypeOK
<1>4. Hands'
  BY <1>1, HandsKept
<1>5. FilledIsPaid' /\ PaidIsFilled'
  <2>1. \/ status'[x] = "FILLED" /\ paid' = paid \cup {x}
        \/ status'[x] = "OPEN" /\ paid' = paid
    BY <1>1 DEF PlaceOrder, Inv, OrdersTypeOK
  <2>2. raced' = raced /\ \A o \in Orders \ {x} : o \in paid' <=> o \in paid
    BY <1>1, <2>1
  <2>3. x \in paid' <=> status'[x] = "FILLED"
    BY <1>2, <2>1
  <2>4. FilledIsPaid'
    BY <1>1, <2>2, <2>3 DEF Inv, FilledIsPaid, Closed
  <2>5. \A o \in paid' : o \in Orders
    BY <2>1 DEF Inv, OrdersTypeOK
  <2>6. PaidIsFilled'
    BY <1>1, <2>2, <2>3, <2>5 DEF Inv, PaidIsFilled
  <2> QED
    BY <2>4, <2>6
<1>6. FilledOnTrigger'
  BY <1>1 DEF Inv, FilledOnTrigger, PlaceOrder
<1>7. MetTrue'
  <2>1. \A o \in Orders : Reached(o, price)' <=> Reached(o, price)
    BY <1>1 DEF Reached
  <2>2. Book[x].type # "MARKET" /\ Reached(x, price) => x \in met'
    BY DEF PlaceOrder
  <2> QED
    BY <1>1, <2>1, <2>2 DEF Inv, MetTrue
<1>8. HeldOnce'
  BY <1>1, <1>2 DEF Inv, HeldOnce
<1> QED
  BY <1>3, <1>4, <1>5, <1>6, <1>7, <1>8 DEF Inv

LEMMA ReadOwnedStep ==
  ASSUME Inv, NEW x \in Orders, ReadOwned(x)
  PROVE  Inv'
<1>1. /\ status[x] = "OPEN" /\ cancel' = cancel \cup {x} /\ raced \subseteq raced'
      /\ raced' \subseteq raced \cup {x} /\ (x \in raced' \/ Holders(x) = {})
      /\ UNCHANGED <<price, status, late, paid, met, sweep, deaths>>
  BY DEF ReadOwned
<1>2. OrdersTypeOK'
  BY <1>1 DEF Inv, OrdersTypeOK
<1>3. Hands'
  BY <1>1, HandsKept
<1>4. FilledIsPaid' /\ PaidIsFilled' /\ FilledOnTrigger'
  BY <1>1 DEF Inv, FilledIsPaid, PaidIsFilled, FilledOnTrigger
<1>5. MetTrue'
  BY <1>1 DEF Inv, MetTrue, Reached
<1>6. HeldOnce'
  <2>1. x \in raced' \/ \A k \in Sweeps : x \notin sweep[k].todo
    BY <1>1, HoldersList DEF Inv
  <2> QED
    BY <1>1, <2>1 DEF Inv, HeldOnce
<1> QED
  BY <1>2, <1>3, <1>4, <1>5, <1>6 DEF Inv

LEMMA CancelStep ==
  ASSUME Inv, NEW x \in Orders, CancelOrder(x)
  PROVE  Inv' /\ (x \in raced \/ status[x] = "OPEN")
<1>1. /\ x \in cancel /\ status' = [status EXCEPT ![x] = "CANCELLED"] /\ cancel' = cancel \ {x}
      /\ UNCHANGED <<price, late, paid, met, sweep, raced, deaths>>
  BY DEF CancelOrder
<1>2. status[x] # "none" /\ status \in [Orders -> {"none", "OPEN"} \cup Closed]
  BY <1>1 DEF Inv, OrdersTypeOK
<1>3. x \in raced \/ (status[x] = "OPEN" /\ \A j \in Sweeps : x \notin sweep[j].todo)
  BY <1>1 DEF Inv, HeldOnce
<1>4. x \in raced \/ x \notin paid
  BY <1>3 DEF Inv, FilledIsPaid, Closed
<1>5. OrdersTypeOK'
  <2>1. /\ status' \in [Orders -> {"none", "OPEN"} \cup Closed]
        /\ \A o \in Orders : status[o] # "none" => status'[o] # "none"
    BY <1>1, <1>2 DEF Closed
  <2> QED
    BY <1>1, <2>1 DEF Inv, OrdersTypeOK
<1>6. Hands' /\ Shrinks
  BY <1>1, HandsKept
<1>7. "CANCELLED" \in Closed
  BY DEF Closed
<1>8. x \in raced \/ (x \notin cancel' /\ \A j \in Sweeps : x \notin sweep'[j].todo)
  BY <1>1, <1>3
<1> QED
  BY <1>1, <1>2, <1>3, <1>4, <1>5, <1>6, <1>7, <1>8, RowWritten

LEMMA TimePasses ==
  ASSUME Inv, NEW x \in Orders, PassExpiry(x)
  PROVE  Inv'
<1>1. OrdersTypeOK'
  BY DEF Inv, OrdersTypeOK, PassExpiry
<1>2. Hands'
  BY HandsKept DEF PassExpiry
<1> QED
  BY <1>1, <1>2
  DEF Inv, PassExpiry, FilledIsPaid, PaidIsFilled, MetTrue, Reached, FilledOnTrigger, HeldOnce

LEMMA TickStep ==
  ASSUME Inv, PriceTick
  PROVE  Inv'
<1>1. /\ price' \in Prices /\ met \subseteq met'
      /\ met' = met \cup {o \in Orders : status[o] # "none" /\ Book[o].type # "MARKET" /\ Reached(o, price')}
      /\ UNCHANGED <<status, late, paid, sweep, cancel, raced, deaths>>
  BY DEF PriceTick
<1>2. OrdersTypeOK'
  <2>1. \A o \in met' : o \in met \/ (o \in Orders /\ status[o] # "none")
    BY <1>1
  <2> QED
    BY <1>1, <2>1 DEF Inv, OrdersTypeOK
<1>3. Hands'
  BY <1>1, HandsKept
<1>4. FilledIsPaid' /\ PaidIsFilled' /\ FilledOnTrigger' /\ HeldOnce'
  BY <1>1 DEF Inv, FilledIsPaid, PaidIsFilled, FilledOnTrigger, HeldOnce
<1>5. MetTrue'
  BY <1>1 DEF Inv, MetTrue, Reached
<1> QED
  BY <1>2, <1>3, <1>4, <1>5 DEF Inv

-----------------------------------------------------------------------------
(* The sweep.                                                              *)

LEMMA FindStep ==
  ASSUME Inv, NEW k \in Sweeps, FindOpenOrders(k)
  PROVE  Inv'
<1> DEFINE found == [todo |-> OpenOrders, inHand |-> NoOrder, stage |-> "idle"]
<1>1. OpenOrders \subseteq Orders /\ \A o \in OpenOrders : status[o] = "OPEN"
  BY DEF OpenOrders
<1>2. found \in SweepRow /\ found.todo = OpenOrders /\ found.inHand = NoOrder /\ found.stage = "idle"
  BY <1>1 DEF SweepRow, Stages
<1>3. /\ sweep' = [sweep EXCEPT ![k] = found]
      /\ raced' = raced \cup {o \in OpenOrders : Holders(o) # {} \/ o \in cancel}
      /\ UNCHANGED <<price, status, late, paid, met, cancel, deaths>>
  BY DEF FindOpenOrders
<1> HIDE DEF found
<1>4. /\ sweep' \in [Sweeps -> SweepRow] /\ \A j \in Sweeps \ {k} : sweep'[j] = sweep[j]
      /\ sweep'[k] = found
  BY <1>2, <1>3 DEF Inv, OrdersTypeOK, SweepRow
<1>5. OrdersTypeOK'
  <2>1. \A o \in raced' : o \in raced \cup OpenOrders
    BY <1>3
  <2>2. \A o \in UNION {sweep'[j].todo : j \in Sweeps} :
          o \in OpenOrders \/ o \in UNION {sweep[j].todo : j \in Sweeps}
    BY <1>2, <1>4
  <2>3. \A o \in paid' \cup met' \cup cancel' \cup raced' \cup UNION {sweep'[j].todo : j \in Sweeps} :
          o \in Orders /\ status[o] # "none"
    BY <1>1, <1>3, <2>1, <2>2 DEF Inv, OrdersTypeOK
  <2> QED
    BY <1>3, <1>4, <2>3 DEF Inv, OrdersTypeOK, SweepRow
<1>6. Hands'
  BY <1>2, <1>4 DEF Inv, Hands
<1>7. FilledIsPaid' /\ PaidIsFilled' /\ FilledOnTrigger'
  BY <1>3 DEF Inv, FilledIsPaid, PaidIsFilled, FilledOnTrigger
<1>8. MetTrue'
  BY <1>2, <1>3, <1>4, OrdersAssumption DEF Inv, MetTrue, Reached
<1>9. HeldOnce'
  <2>1. \A o \in OpenOrders \ raced' : o \notin cancel /\ \A j \in Sweeps : o \notin sweep[j].todo
    BY <1>1, <1>3, HoldersList DEF Inv
  <2>2. sweep[k].todo = {}
    BY DEF FindOpenOrders, NoSweep
  <2> QED
    BY <1>1, <1>2, <1>3, <1>4, <2>1, <2>2 DEF Inv, HeldOnce
<1> QED
  BY <1>5, <1>6, <1>7, <1>8, <1>9 DEF Inv

(* An order of a sweep's list was placed.                                  *)
LEMMA Listed ==
  ASSUME Inv, NEW k \in Sweeps, NEW o \in sweep[k].todo
  PROVE  o \in Orders /\ status[o] # "none" /\ (o \in raced \/ status[o] = "OPEN")
<1>1. o \in UNION {sweep[j].todo : j \in Sweeps}
  OBVIOUS
<1> QED
  BY <1>1 DEF Inv, OrdersTypeOK, HeldOnce

(* The order in hand is on the list.                                       *)
LEMMA InHandListed ==
  ASSUME Inv, NEW k \in Sweeps, sweep[k].stage \in {"triggered", "rejected"}
  PROVE  sweep[k].inHand \in sweep[k].todo /\ sweep[k].inHand \in Orders
BY Listed DEF Inv, Hands

(* A sweep writes the status of an order of its list and is done with it.  *)
LEMMA SweepWrites ==
  ASSUME Inv, NEW k \in Sweeps, NEW o \in sweep[k].todo, NEW s \in Closed,
         sweep[k].inHand \in {o, NoOrder}, DoneWith(k, o),
         status' = [status EXCEPT ![o] = s],
         UNCHANGED <<price, late, met, cancel, raced, deaths>>,
         \/ s # "FILLED" /\ paid' = paid
         \/ s = "FILLED" /\ paid' = paid \cup {o} /\ sweep[k].inHand = o
  PROVE  Inv' /\ (o \in raced \/ status[o] = "OPEN")
<1>1. o \in Orders /\ status[o] # "none" /\ (o \in raced \/ status[o] = "OPEN")
  BY Listed
<1>2. o \in raced \/ o \notin paid
  BY <1>1 DEF Inv, FilledIsPaid, Closed
<1>3. /\ status' \in [Orders -> {"none", "OPEN"} \cup Closed]
      /\ \A x \in Orders : status[x] # "none" => status'[x] # "none"
  BY DEF Inv, OrdersTypeOK, Closed
<1>4. paid' \subseteq paid \cup {o}
  OBVIOUS
<1>5. OrdersTypeOK' /\ Hands' /\ Shrinks
  BY <1>1, <1>3, <1>4, DoneKeepsShape
<1>6. sweep'[k].todo = sweep[k].todo \ {o} /\ \A j \in Sweeps \ {k} : sweep'[j] = sweep[j]
  BY <1>1, DoneShape DEF Inv
<1>7. o \in raced \/ (o \notin cancel' /\ \A j \in Sweeps : o \notin sweep'[j].todo)
  BY <1>1, <1>6 DEF Inv, HeldOnce
<1>8. sweep[k].inHand = o => Book[o].type = "MARKET" \/ o \in met
  BY <1>1 DEF Inv, MetTrue
<1>9. \/ s # "FILLED" /\ paid' = paid /\ (o \in raced \/ o \notin paid)
      \/ s = "FILLED" /\ paid' = paid \cup {o} /\ (Book[o].type = "MARKET" \/ o \in met)
  BY <1>2, <1>8
<1>10. UNCHANGED <<price, late, met, raced>> /\ cancel' \subseteq cancel
  OBVIOUS
<1>11. Inv'
  BY <1>1, <1>5, <1>7, <1>9, <1>10, RowWritten
<1> QED
  BY <1>1, <1>11

LEMMA ExpireStep ==
  ASSUME Inv, NEW k \in Sweeps, NEW o \in Orders, ExpireOrder(k, o)
  PROVE  Inv' /\ (o \in raced \/ status[o] = "OPEN")
<1>1. sweep[k].inHand = NoOrder /\ o \in sweep[k].todo
  BY DEF Inv, Hands, ExpireOrder, LooksAt
<1>2. "EXPIRED" \in Closed /\ "EXPIRED" # "FILLED"
  BY DEF Closed
<1> QED
  BY <1>1, <1>2, SweepWrites DEF ExpireOrder

LEMMA SkipStep ==
  ASSUME Inv, NEW k \in Sweeps, NEW o \in Orders, SkipOrder(k, o)
  PROVE  Inv'
<1>1. sweep[k].inHand = NoOrder /\ o \in sweep[k].todo
  BY DEF Inv, Hands, SkipOrder, LooksAt
<1>2. status[o] # "none" /\ status' = status
  BY <1>1, Listed DEF SkipOrder
<1>3. OrdersTypeOK' /\ Hands' /\ Shrinks
  BY <1>1, <1>2, DoneKeepsShape DEF SkipOrder, Inv, OrdersTypeOK
<1> QED
  BY <1>3, RowsKept DEF SkipOrder

LEMMA TriggerStep ==
  ASSUME Inv, NEW k \in Sweeps, NEW o \in Orders, TriggerOrder(k, o)
  PROVE  Inv'
<1>1. /\ o \in sweep[k].todo /\ sweep[k].stage = "idle" /\ ShouldFill(o) /\ o # NoOrder
      /\ UNCHANGED <<price, status, late, paid, met, cancel, raced, deaths>>
  BY OrdersAssumption DEF TriggerOrder, LooksAt
<1> DEFINE held == [sweep[k] EXCEPT !.inHand = o, !.stage = "triggered"]
<1>2. sweep \in [Sweeps -> SweepRow]
  BY DEF Inv, OrdersTypeOK, SweepRow
<1>3. held \in SweepRow /\ held.todo = sweep[k].todo /\ held.inHand = o /\ held.stage = "triggered"
  BY <1>2 DEF SweepRow, Stages
<1>4. sweep' = [sweep EXCEPT ![k] = held]
  BY DEF TriggerOrder
<1> HIDE DEF held
<1>5. /\ sweep' \in [Sweeps -> SweepRow] /\ \A j \in Sweeps \ {k} : sweep'[j] = sweep[j]
      /\ sweep'[k] = held /\ \A j \in Sweeps : sweep'[j].todo = sweep[j].todo
  BY <1>2, <1>3, <1>4
<1>6. OrdersTypeOK'
  <2>1. UNION {sweep'[j].todo : j \in Sweeps} = UNION {sweep[j].todo : j \in Sweeps}
    BY <1>5
  <2> QED
    BY <1>1, <1>5, <2>1 DEF Inv, OrdersTypeOK, SweepRow
<1>7. Hands'
  BY <1>1, <1>3, <1>5 DEF Inv, Hands
<1>8. FilledIsPaid' /\ PaidIsFilled' /\ FilledOnTrigger'
  BY <1>1 DEF Inv, FilledIsPaid, PaidIsFilled, FilledOnTrigger
<1>9. MetTrue'
  <2>1. Book[o].type = "MARKET" \/ Reached(o, price)
    BY <1>1, FillsWhenReached
  <2>2. Book[o].type = "MARKET" \/ o \in met
    BY <1>1, <2>1, Listed DEF Inv, MetTrue
  <2> QED
    BY <1>1, <1>3, <1>5, <2>2 DEF Inv, MetTrue, Reached
<1>10. HeldOnce'
  BY <1>1, <1>5 DEF Inv, HeldOnce
<1> QED
  BY <1>6, <1>7, <1>8, <1>9, <1>10 DEF Inv

LEMMA FillStep ==
  ASSUME Inv, NEW k \in Sweeps, FillOrder(k)
  PROVE  Inv' /\ (sweep[k].inHand \in raced \/ status[sweep[k].inHand] = "OPEN")
<1>1. PICK o \in Orders : o = sweep[k].inHand /\ o \in sweep[k].todo
  BY InHandListed DEF FillOrder
<1>2. "FILLED" \in Closed
  BY DEF Closed
<1>3. /\ DoneWith(k, o) /\ status' = [status EXCEPT ![o] = "FILLED"] /\ paid' = paid \cup {o}
      /\ UNCHANGED <<price, late, met, cancel, raced, deaths>>
  BY <1>1 DEF FillOrder
<1> QED
  BY <1>1, <1>2, <1>3, SweepWrites

LEMMA CancelRejectedStep ==
  ASSUME Inv, NEW k \in Sweeps, CancelRejected(k)
  PROVE  Inv' /\ (sweep[k].inHand \in raced \/ status[sweep[k].inHand] = "OPEN")
<1>1. PICK o \in Orders : o = sweep[k].inHand /\ o \in sweep[k].todo
  BY InHandListed DEF CancelRejected
<1>2. "CANCELLED" \in Closed /\ "CANCELLED" # "FILLED"
  BY DEF Closed
<1>3. /\ DoneWith(k, o) /\ status' = [status EXCEPT ![o] = "CANCELLED"]
      /\ UNCHANGED <<price, late, paid, met, cancel, raced, deaths>>
  BY <1>1 DEF CancelRejected
<1> QED
  BY <1>1, <1>2, <1>3, SweepWrites

(* A sweep whose fill was refused, and one that ends half way, change no   *)
(* order.                                                                  *)
LEMMA NothingWritten ==
  ASSUME Inv, NEW k \in Sweeps, RejectFill(k) \/ SweepDies(k)
  PROVE  Inv'
<1>1. sweep \in [Sweeps -> SweepRow]
  BY DEF Inv, OrdersTypeOK, SweepRow
<1>2. PICK r \in SweepRow :
        /\ sweep' = [sweep EXCEPT ![k] = r]
        /\ \/ r = NoSweep
           \/ r.todo = sweep[k].todo /\ r.inHand = sweep[k].inHand /\ r.stage = "rejected"
              /\ sweep[k].stage = "triggered"
  <2>1. CASE RejectFill(k)
    <3> DEFINE refused == [sweep[k] EXCEPT !.stage = "rejected"]
    <3>1. /\ refused \in SweepRow /\ refused.todo = sweep[k].todo
          /\ refused.inHand = sweep[k].inHand /\ refused.stage = "rejected"
      BY <1>1 DEF SweepRow, Stages
    <3>2. sweep' = [sweep EXCEPT ![k] = refused] /\ sweep[k].stage = "triggered"
      BY <2>1 DEF RejectFill
    <3> HIDE DEF refused
    <3> QED
      BY <3>1, <3>2
  <2>2. CASE SweepDies(k)
    <3>1. NoSweep \in SweepRow
      BY DEF NoSweep, SweepRow, Stages
    <3> QED
      BY <3>1, <2>2 DEF SweepDies
  <2> QED
    BY <2>1, <2>2
<1>3. NoSweep.todo = {} /\ NoSweep.inHand = NoOrder /\ NoSweep.stage = "find"
  BY DEF NoSweep
<1>4. /\ sweep' \in [Sweeps -> SweepRow] /\ \A j \in Sweeps \ {k} : sweep'[j] = sweep[j]
      /\ sweep'[k] = r
  BY <1>1, <1>2
<1>5. Shrinks
  BY <1>2, <1>3, <1>4, OrdersAssumption DEF Shrinks
<1>6. Hands'
  BY <1>2, <1>3, <1>4 DEF Inv, Hands
<1>7. UNCHANGED <<price, status, late, paid, met, cancel, raced>> /\ deaths' \in 0..MaxDeaths
  BY OrdersAssumption DEF Inv, OrdersTypeOK, RejectFill, SweepDies
<1>8. OrdersTypeOK'
  <2>1. \A o \in UNION {sweep'[j].todo : j \in Sweeps} : o \in UNION {sweep[j].todo : j \in Sweeps}
    BY <1>5 DEF Shrinks
  <2> QED
    BY <1>4, <1>7, <2>1 DEF Inv, OrdersTypeOK, SweepRow
<1> QED
  BY <1>5, <1>6, <1>7, <1>8, RowsKept

-----------------------------------------------------------------------------
LEMMA Step ==
  ASSUME Inv, [OrdersNext]_orderVars
  PROVE  Inv'
<1>1. CASE OrdersNext
  <2>1. CASE PriceTick
    BY <2>1, TickStep
  <2>2. CASE \E o \in Orders : PlaceOrder(o) \/ PassExpiry(o) \/ ReadOwned(o) \/ CancelOrder(o)
    BY <2>2, PlaceStep, TimePasses, ReadOwnedStep, CancelStep
  <2>3. ASSUME NEW k \in Sweeps, RunSweep(k) \/ SweepDies(k)
        PROVE  Inv'
    BY <2>3, FindStep, ExpireStep, SkipStep, TriggerStep, FillStep, CancelRejectedStep,
       NothingWritten
    DEF RunSweep
  <2> QED
    BY <1>1, <2>1, <2>2, <2>3 DEF OrdersNext
<1>2. CASE UNCHANGED orderVars
  BY <1>2
  DEF orderVars, Inv, OrdersTypeOK, Hands, FilledIsPaid, PaidIsFilled, MetTrue, Reached, FilledOnTrigger, HeldOnce
<1> QED
  BY <1>1, <1>2

LEMMA InvHolds == OrdersSpec => []Inv
<1>1. OrdersInit => Inv
  BY InitInv
<1>2. Inv /\ [OrdersNext]_orderVars => Inv'
  BY Step
<1> QED
  BY <1>1, <1>2, PTL DEF OrdersSpec

(* FILLED and paid say the same: an order is FILLED only if its money      *)
(* moved, is not open again after that, and ends otherwise only when two   *)
(* actors held it at once (orders.service.ts, class OrdersService).        *)
THEOREM FilledMeansPaid == OrdersSpec => []OrdersSound
<1>1. Inv => OrdersSound
  BY DEF Inv, OrdersSound
<1> QED
  BY <1>1, InvHolds, PTL

(* A waiting order is filled only once a price reached its trigger         *)
(* (orders.service.ts:57-58, 226-250).                                     *)
THEOREM FillsWaitForTrigger == OrdersSpec => []FilledOnTrigger
<1>1. Inv => FilledOnTrigger
  BY DEF Inv
<1> QED
  BY <1>1, InvHolds, PTL

(* A closed order that no two actors held at once stays as it is           *)
(* (orders.service.ts:157-168, 214-265).                                   *)
THEOREM ClosedStaysClosed == OrdersSpec => ClosedForGood
<1> DEFINE Kept == \A o \in Orders \ raced' : status[o] \in Closed => status'[o] = status[o]
<1>1. Inv /\ [OrdersNext]_orderVars => [Kept]_orderVars
  <2> SUFFICES ASSUME Inv, OrdersNext PROVE Kept
    OBVIOUS
  <2>1. status \in [Orders -> {"none", "OPEN"} \cup Closed] /\ "OPEN" \notin Closed /\ "none" \notin Closed
    BY DEF Inv, OrdersTypeOK, Closed
  <2>2. ASSUME NEW x, x \in raced \/ status[x] \notin Closed, raced' = raced, NEW s,
               status' = [status EXCEPT ![x] = s]
        PROVE  Kept
    BY <2>1, <2>2
  <2>3. CASE PriceTick
    BY <2>3 DEF PriceTick
  <2>4. ASSUME NEW o \in Orders, PlaceOrder(o)
        PROVE  Kept
    BY <2>1, <2>4 DEF PlaceOrder
  <2>5. ASSUME NEW o \in Orders, PassExpiry(o) \/ ReadOwned(o)
        PROVE  Kept
    BY <2>5 DEF PassExpiry, ReadOwned
  <2>6. ASSUME NEW o \in Orders, CancelOrder(o)
        PROVE  Kept
    <3>1. o \in raced \/ status[o] \notin Closed
      BY <2>1, <2>6, CancelStep
    <3> QED
      BY <2>2, <2>6, <3>1 DEF CancelOrder
  <2>7. ASSUME NEW k \in Sweeps, NEW o \in Orders, ExpireOrder(k, o)
        PROVE  Kept
    <3>1. o \in raced \/ status[o] \notin Closed
      BY <2>1, <2>7, ExpireStep
    <3> QED
      BY <2>2, <2>7, <3>1 DEF ExpireOrder
  <2>8. ASSUME NEW k \in Sweeps, FillOrder(k) \/ CancelRejected(k)
        PROVE  Kept
    <3>1. sweep[k].inHand \in raced \/ status[sweep[k].inHand] \notin Closed
      BY <2>1, <2>8, FillStep, CancelRejectedStep
    <3>2. raced' = raced /\ \E s : status' = [status EXCEPT ![sweep[k].inHand] = s]
      BY <2>8 DEF FillOrder, CancelRejected
    <3> QED
      BY <2>1, <3>1, <3>2
  <2>9. ASSUME NEW k \in Sweeps,
               \/ FindOpenOrders(k) \/ RejectFill(k) \/ SweepDies(k)
               \/ \E o \in Orders : SkipOrder(k, o) \/ TriggerOrder(k, o)
        PROVE  Kept
    BY <2>9 DEF FindOpenOrders, RejectFill, SweepDies, SkipOrder, TriggerOrder
  <2> QED
    BY <2>3, <2>4, <2>5, <2>6, <2>7, <2>8, <2>9 DEF OrdersNext, RunSweep
<1> QED
  BY <1>1, InvHolds, PTL DEF OrdersSpec, ClosedForGood

=============================================================================
