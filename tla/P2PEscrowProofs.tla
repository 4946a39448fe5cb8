--------------------------- MODULE P2PEscrowProofs ---------------------------
(***************************************************************************)
(* Theorems about P2PEscrow, for any number of handlers, orders and        *)
(* offers, whatever is in stock.                                           *)
(***************************************************************************)
EXTENDS P2PEscrow, SumTheorems

Legs == Payouts \cup {"ESCROW", "SELLERRECV"}

(* EscrowTypeOK, but for the bound on the offers, which follows from the books.  *)
Shapes ==
  /\ offer \in [Offers -> [status : {"ACTIVE", "PAUSED"}, available : Int]]
  /\ order \in [Orders -> [status : Statuses, offer : Offers, qty : Nat,
                           code : BOOLEAN, raised : BOOLEAN, overdue : BOOLEAN]]
  /\ refs \subseteq Orders \X Legs
  /\ frozen \in [Offers -> Int]
  /\ job \in [Workers -> Jobs \cup {Idle}]
  /\ sweep \subseteq Orders

LEMMA DemandedOps ==
  DOMAIN Demands = {"deliver", "confirm", "dispute", "resolveSeller", "resolveBuyer"}
BY DEF Demands

LEMMA JobShape ==
  ASSUME Shapes, NEW k \in Workers, job[k] # Idle
  PROVE  /\ job[k].order \in Orders
         /\ job[k].op = "create" =>
              job[k].offer \in Offers /\ job[k].qty \in 1..MaxQty
         /\ job[k].op \in DOMAIN Demands \cup {"create"}
<1>1. job[k] \in Jobs
  BY DEF Shapes
<1>2. "create" \notin DOMAIN Demands
  BY DemandedOps
<1> QED
  BY <1>1, <1>2 DEF Jobs

-----------------------------------------------------------------------------
(* The sums of quantities.                                                 *)

(* The orders of offer f in S, and what they add up to, when rows are the  *)
(* rows of the orders.                                                     *)
SumOf(rows, f, S) ==
  SumFunctionOnSet([o \in Orders |-> rows[o].qty], {o \in S : rows[o].offer = f})

LEMMA SumOfSame ==
  ASSUME NEW a, NEW b, NEW S \in SUBSET Orders, IsFiniteSet(S), NEW f,
         \A o \in S : a[o].qty \in Int /\ b[o].qty = a[o].qty /\ b[o].offer = a[o].offer
  PROVE  SumOf(b, f, S) = SumOf(a, f, S) /\ SumOf(a, f, S) \in Int
<1> DEFINE p == [o \in Orders |-> a[o].qty]
           q == [o \in Orders |-> b[o].qty]
           T == {o \in S : a[o].offer = f}
<1>1. T = {o \in S : b[o].offer = f} /\ IsFiniteSet(T)
  BY FS_Subset
<1>2. \A o \in T : p[o] \in Int /\ q[o] = p[o]
  OBVIOUS
<1> HIDE DEF p, q, T
<1>3. SumFunctionOnSet(q, T) = SumFunctionOnSet(p, T) /\ SumFunctionOnSet(p, T) \in Int
  BY <1>1, <1>2, SumSame, SumInt
<1>4. SumOf(a, f, S) = SumFunctionOnSet(p, T)
  BY DEF p, T, SumOf
<1>5. SumOf(b, f, S) = SumFunctionOnSet(q, T)
  BY <1>1 DEF q, SumOf
<1> QED
  BY <1>3, <1>4, <1>5

LEMMA SumOfAdd ==
  ASSUME NEW a, NEW b, NEW S \in SUBSET Orders, IsFiniteSet(S), NEW f,
         \A o \in S : a[o].qty \in Int /\ b[o].qty = a[o].qty /\ b[o].offer = a[o].offer,
         NEW x \in Orders, x \notin S, b[x].qty \in Int
  PROVE  SumOf(b, f, S \cup {x}) =
           SumOf(a, f, S) + IF b[x].offer = f THEN b[x].qty ELSE 0
<1> DEFINE q == [o \in Orders |-> b[o].qty]
           T == {o \in S : b[o].offer = f}
           U == {o \in S \cup {x} : b[o].offer = f}
<1>1. SumOf(b, f, S) = SumOf(a, f, S) /\ SumOf(a, f, S) \in Int
  BY SumOfSame
<1>2. /\ IsFiniteSet(T) /\ x \notin T
      /\ \A o \in T : q[o] \in Int
      /\ q[x] \in Int /\ q[x] = b[x].qty
      /\ U = IF b[x].offer = f THEN T \cup {x} ELSE T
  BY FS_Subset
<1>3. SumOf(b, f, S) = SumFunctionOnSet(q, T) /\ SumOf(b, f, S \cup {x}) = SumFunctionOnSet(q, U)
  BY DEF SumOf
<1> HIDE DEF q, T, U
<1>4. SumFunctionOnSet(q, T \cup {x}) = q[x] + SumFunctionOnSet(q, T)
  BY <1>2, SumAdd
<1> QED
  BY <1>1, <1>2, <1>3, <1>4

LEMMA SumOfPart ==
  ASSUME NEW a, NEW S \in SUBSET Orders, IsFiniteSet(S), NEW f,
         \A o \in S : a[o].qty \in Nat, NEW T \in SUBSET S
  PROVE  SumOf(a, f, T) <= SumOf(a, f, S)
<1> DEFINE p == [o \in Orders |-> a[o].qty]
           V == {o \in T : a[o].offer = f}
           W == {o \in S : a[o].offer = f}
<1>1. IsFiniteSet(W) /\ V \in SUBSET W /\ \A o \in W : p[o] \in Nat
  BY FS_Subset
<1>2. SumOf(a, f, T) = SumFunctionOnSet(p, V) /\ SumOf(a, f, S) = SumFunctionOnSet(p, W)
  BY DEF SumOf
<1> HIDE DEF p, V, W
<1> QED
  BY <1>1, <1>2, SumPart

(* What the books say of f, with the sums as values of SumOf.              *)
LEMMA BooksAreSums ==
  ASSUME NEW f
  PROVE  /\ \A leg : Qty(Of(f, With(leg))) = SumOf(order, f, With(leg))
         /\ Qty(Of(f, Placed)) = SumOf(order, f, Placed)
BY DEF Qty, Of, SumOf

-----------------------------------------------------------------------------
(* Which orders exist.                                                     *)

JobOK(k) ==
  job[k] # Idle =>
    IF job[k].op = "create"
    THEN /\ job[k].order \notin Placed
         /\ \A j \in Workers \ {k} : job[j] # Idle => job[j].order # job[k].order
    ELSE job[k].order \in Placed

(* Handlers and sweep work on orders that exist, but for the one handler   *)
(* that creates an order, and no one else has that one; a ledger reference *)
(* is of an order that exists; and there are finitely many, whatever the   *)
(* set of ids.                                                             *)
OrdersExist ==
  /\ IsFiniteSet(Placed)
  /\ \A o \in Orders, leg \in Legs : <<o, leg>> \in refs => o \in Placed
  /\ \A k \in Workers : JobOK(k)
  /\ sweep \subseteq Placed

Accounts == Shapes /\ OrdersExist /\ FrozenAccounted /\ StockAccounted

LEMMA InitAccounts == EscrowInit => Accounts
<1> SUFFICES ASSUME EscrowInit PROVE Shapes /\ OrdersExist /\ FrozenAccounted /\ StockAccounted
  BY DEF Accounts
<1> USE DEF EscrowInit
<1>1. Shapes
  BY EscrowAssumption DEF Shapes, Statuses
<1>2. Placed = {} /\ \A leg : With(leg) = {}
  BY DEF Placed, With
<1>3. OrdersExist
  BY <1>2, FS_EmptySet DEF OrdersExist, JobOK
<1>4. \A f : Qty(Of(f, Placed)) = 0 /\ \A leg : Qty(Of(f, With(leg))) = 0
  <2>1. \A f : Of(f, {}) = {}
    BY DEF Of
  <2> QED
    BY <1>2, <2>1, SumEmpty DEF Qty
<1>5. \A f \in Offers : frozen[f] = 0 /\ offer[f].available = Stock[f] /\ Stock[f] \in Nat
  BY EscrowAssumption
<1> QED
  BY <1>1, <1>3, <1>4, <1>5 DEF FrozenAccounted, StockAccounted

-----------------------------------------------------------------------------
(* The books: what each kind of step does to the sums.                     *)

LEMMA BooksAreSumsNext ==
  ASSUME NEW f
  PROVE  /\ \A leg : Qty(Of(f, With(leg)))' = SumOf(order', f, With(leg)')
         /\ Qty(Of(f, Placed))' = SumOf(order', f, Placed')
BY DEF Qty, Of, SumOf

LEMMA FiniteParts ==
  ASSUME Shapes, OrdersExist
  PROVE  /\ Placed \in SUBSET Orders /\ IsFiniteSet(Placed)
         /\ \A leg \in Legs : /\ With(leg) \in SUBSET Placed
                             /\ With(leg) \in SUBSET Orders
                             /\ IsFiniteSet(With(leg))
         /\ \A o \in Orders : order[o].qty \in Nat /\ order[o].offer \in Offers
<1>1. Placed \in SUBSET Orders /\ IsFiniteSet(Placed)
  BY DEF OrdersExist, Placed
<1>2. \A leg \in Legs : With(leg) \in SUBSET Placed
  BY DEF OrdersExist, With
<1>3. \A o \in Orders : order[o].qty \in Nat /\ order[o].offer \in Offers
  BY DEF Shapes
<1> QED
  BY <1>1, <1>2, <1>3, FS_Subset

(* A step that leaves the rows where they are, and no reference.           *)
LEMMA BooksKept ==
  ASSUME Shapes, OrdersExist, FrozenAccounted, StockAccounted,
         refs' = refs, frozen' = frozen, Placed' = Placed,
         \A o \in Orders : order'[o].qty = order[o].qty /\ order'[o].offer = order[o].offer,
         \A f \in Offers : offer'[f].available = offer[f].available
  PROVE  FrozenAccounted' /\ StockAccounted'
<1>1. \A leg : With(leg)' = With(leg)
  BY DEF With
<1>2. ASSUME NEW f \in Offers, NEW leg \in Legs
      PROVE  Qty(Of(f, With(leg)))' = Qty(Of(f, With(leg)))
  <2> DEFINE S == With(leg)
  <2>1. /\ S \in SUBSET Orders /\ IsFiniteSet(S)
        /\ \A o \in S : /\ order[o].qty \in Int
                        /\ order'[o].qty = order[o].qty /\ order'[o].offer = order[o].offer
    BY FiniteParts
  <2> HIDE DEF S
  <2>2. SumOf(order', f, S) = SumOf(order, f, S)
    BY <2>1, SumOfSame
  <2>3. /\ Qty(Of(f, With(leg)))' = SumOf(order', f, S)
        /\ Qty(Of(f, With(leg))) = SumOf(order, f, S)
    BY <1>1, BooksAreSums, BooksAreSumsNext DEF S
  <2> QED
    BY <2>2, <2>3
<1>3. ASSUME NEW f \in Offers PROVE Qty(Of(f, Placed))' = Qty(Of(f, Placed))
  <2>1. /\ Placed \in SUBSET Orders /\ IsFiniteSet(Placed)
        /\ \A o \in Placed : /\ order[o].qty \in Int
                             /\ order'[o].qty = order[o].qty /\ order'[o].offer = order[o].offer
    BY FiniteParts
  <2>2. SumOf(order', f, Placed) = SumOf(order, f, Placed)
    BY <2>1, SumOfSame
  <2>3. /\ Qty(Of(f, Placed))' = SumOf(order', f, Placed)
        /\ Qty(Of(f, Placed)) = SumOf(order, f, Placed)
    BY BooksAreSums, BooksAreSumsNext
  <2> QED
    BY <2>2, <2>3
<1>4. /\ "ESCROW" \in Legs /\ "RELEASE" \in Legs /\ "DISPUTE-SELLER" \in Legs
      /\ "DISPUTE-BUYER" \in Legs /\ "AUTOREFUND" \in Legs
  BY DEF Legs, Payouts
<1>5. FrozenAccounted'
  BY <1>2, <1>4 DEF FrozenAccounted
<1> QED
  BY <1>2, <1>3, <1>4, <1>5 DEF StockAccounted

(* A step that enters reference <<x, new>>, of an order that keeps its     *)
(* offer and quantity or that gets them now.                               *)
LEMMA LegBooked ==
  ASSUME Shapes, OrdersExist, NEW x \in Orders, NEW new \in Legs, <<x, new>> \notin refs,
         refs' = refs \cup {<<x, new>>},
         \A o \in Orders \ {x} :
           order'[o].qty = order[o].qty /\ order'[o].offer = order[o].offer,
         \/ x \notin Placed
         \/ order'[x].qty = order[x].qty /\ order'[x].offer = order[x].offer,
         order'[x].qty \in Nat,
         NEW f \in Offers, NEW leg \in Legs
  PROVE  /\ Qty(Of(f, With(leg))) \in Int
         /\ Qty(Of(f, With(leg)))' =
              Qty(Of(f, With(leg)))
                + IF leg = new /\ order'[x].offer = f THEN order'[x].qty ELSE 0
<1> DEFINE S == With(leg)
<1>1. /\ S \in SUBSET Orders /\ IsFiniteSet(S) /\ S \in SUBSET Placed
      /\ \A o \in S : /\ order[o].qty \in Int
                      /\ order'[o].qty = order[o].qty /\ order'[o].offer = order[o].offer
  BY FiniteParts
<1>2. With(leg)' = IF leg = new THEN S \cup {x} ELSE S
  BY DEF With
<1>3. leg = new => x \notin S
  BY DEF With
<1>4. /\ Qty(Of(f, With(leg)))' = SumOf(order', f, With(leg)')
      /\ Qty(Of(f, With(leg))) = SumOf(order, f, S)
  BY BooksAreSums, BooksAreSumsNext
<1> HIDE DEF S
<1>5. /\ SumOf(order', f, S) = SumOf(order, f, S) /\ SumOf(order, f, S) \in Int
  BY <1>1, SumOfSame
<1>6. CASE leg = new
  <2>1. x \notin S /\ order'[x].qty \in Int
    BY <1>3, <1>6
  <2>2. SumOf(order', f, S \cup {x}) =
          SumOf(order, f, S) + IF order'[x].offer = f THEN order'[x].qty ELSE 0
    BY <1>1, <2>1, SumOfAdd
  <2> QED
    BY <1>2, <1>4, <1>5, <1>6, <2>2
<1>7. CASE leg # new
  BY <1>2, <1>4, <1>5, <1>7
<1> QED
  BY <1>6, <1>7

(* A new order x of q units of offer g.                                    *)
LEMMA BooksCreate ==
  ASSUME Shapes, OrdersExist, FrozenAccounted, StockAccounted,
         NEW x \in Orders, x \notin Placed, NEW g \in Offers, NEW q \in Nat,
         NEW new \in {"ESCROW", "SELLERRECV"},
         refs' = refs \cup {<<x, new>>}, Placed' = Placed \cup {x},
         \A o \in Orders \ {x} :
           order'[o].qty = order[o].qty /\ order'[o].offer = order[o].offer,
         order'[x].offer = g, order'[x].qty = q,
         \A f \in Offers :
           /\ frozen'[f] = frozen[f] + IF new = "ESCROW" /\ f = g THEN q ELSE 0
           /\ offer'[f].available = offer[f].available - IF f = g THEN q ELSE 0
  PROVE  FrozenAccounted' /\ StockAccounted'
<1>1. new \in Legs /\ <<x, new>> \notin refs
  BY DEF Legs, OrdersExist
<1>2. \A f \in Offers, leg \in Legs :
        /\ Qty(Of(f, With(leg))) \in Int
        /\ Qty(Of(f, With(leg)))' =
             Qty(Of(f, With(leg))) + IF leg = new /\ g = f THEN q ELSE 0
  BY <1>1, LegBooked
<1>3. ASSUME NEW f \in Offers
      PROVE  /\ Qty(Of(f, Placed)) \in Int
             /\ Qty(Of(f, Placed))' = Qty(Of(f, Placed)) + IF g = f THEN q ELSE 0
  <2>1. /\ Placed \in SUBSET Orders /\ IsFiniteSet(Placed)
        /\ \A o \in Placed : /\ order[o].qty \in Int
                             /\ order'[o].qty = order[o].qty /\ order'[o].offer = order[o].offer
    BY FiniteParts
  <2>2. SumOf(order, f, Placed) \in Int
    <3>1. \A o \in Placed :
            order[o].qty \in Int /\ order[o].qty = order[o].qty /\ order[o].offer = order[o].offer
      BY <2>1
    <3> QED
      BY <2>1, <3>1, SumOfSame
  <2>3. SumOf(order', f, Placed \cup {x}) =
          SumOf(order, f, Placed) + IF order'[x].offer = f THEN order'[x].qty ELSE 0
    BY <2>1, SumOfAdd
  <2>4. /\ Qty(Of(f, Placed))' = SumOf(order', f, Placed \cup {x})
        /\ Qty(Of(f, Placed)) = SumOf(order, f, Placed)
    BY BooksAreSums, BooksAreSumsNext
  <2> QED
    BY <2>2, <2>3, <2>4
<1>4. /\ "ESCROW" \in Legs /\ "RELEASE" \in Legs /\ "DISPUTE-SELLER" \in Legs
      /\ "DISPUTE-BUYER" \in Legs /\ "AUTOREFUND" \in Legs
  BY DEF Legs, Payouts
<1>5. \A f \in Offers : frozen[f] \in Int /\ offer[f].available \in Int /\ Stock[f] \in Int
  BY EscrowAssumption DEF Shapes
<1>6. FrozenAccounted'
  <2> SUFFICES ASSUME NEW f \in Offers
               PROVE  frozen'[f] = (Qty(Of(f, With("ESCROW")))
                        - Qty(Of(f, With("RELEASE"))) - Qty(Of(f, With("DISPUTE-SELLER")))
                        - Qty(Of(f, With("DISPUTE-BUYER"))) - Qty(Of(f, With("AUTOREFUND"))))'
    BY DEF FrozenAccounted
  <2>1. \A leg \in {"RELEASE", "DISPUTE-SELLER", "DISPUTE-BUYER", "AUTOREFUND"} :
          Qty(Of(f, With(leg)))' = Qty(Of(f, With(leg)))
    BY <1>2, <1>4
  <2>2. Qty(Of(f, With("ESCROW")))' =
          Qty(Of(f, With("ESCROW"))) + IF new = "ESCROW" /\ g = f THEN q ELSE 0
    BY <1>2, <1>4
  <2>3. frozen[f] = Qty(Of(f, With("ESCROW")))
          - Qty(Of(f, With("RELEASE"))) - Qty(Of(f, With("DISPUTE-SELLER")))
          - Qty(Of(f, With("DISPUTE-BUYER"))) - Qty(Of(f, With("AUTOREFUND")))
    BY DEF FrozenAccounted
  <2>4. \A leg \in Legs : Qty(Of(f, With(leg))) \in Int
    BY <1>2
  <2> QED
    BY <1>4, <1>5, <2>1, <2>2, <2>3, <2>4
<1>7. StockAccounted'
  <2> SUFFICES ASSUME NEW f \in Offers
               PROVE  offer'[f].available =
                        (Stock[f] - Qty(Of(f, Placed)) + Qty(Of(f, With("AUTOREFUND"))))'
    BY DEF StockAccounted
  <2>1. Qty(Of(f, With("AUTOREFUND")))' = Qty(Of(f, With("AUTOREFUND")))
    BY <1>2, <1>4
  <2>2. offer[f].available =
          Stock[f] - Qty(Of(f, Placed)) + Qty(Of(f, With("AUTOREFUND")))
    BY DEF StockAccounted
  <2>3. Qty(Of(f, With("AUTOREFUND"))) \in Int
    BY <1>2, <1>4
  <2> DEFINE d == IF g = f THEN q ELSE 0
  <2>4. d \in Int
    OBVIOUS
  <2>5. offer'[f].available = offer[f].available - d
    OBVIOUS
  <2>6. Qty(Of(f, Placed))' = Qty(Of(f, Placed)) + d /\ Qty(Of(f, Placed)) \in Int
    BY <1>3
  <2> HIDE DEF d
  <2> QED
    BY <1>5, <2>1, <2>2, <2>3, <2>4, <2>5, <2>6
<1> QED
  BY <1>6, <1>7

(* A payout of order x by the given leg; only the refund of the hourly job *)
(* gives the quantity back to the offer.                                   *)
LEMMA BooksPayout ==
  ASSUME Shapes, OrdersExist, FrozenAccounted, StockAccounted,
         NEW x \in Orders, NEW new \in Payouts, <<x, new>> \notin refs,
         refs' = refs \cup {<<x, new>>}, Placed' = Placed,
         \A o \in Orders : order'[o].qty = order[o].qty /\ order'[o].offer = order[o].offer,
         \A f \in Offers :
           /\ frozen'[f] = frozen[f] - IF order[x].offer = f THEN order[x].qty ELSE 0
           /\ offer'[f].available = offer[f].available
                + IF new = "AUTOREFUND" /\ order[x].offer = f THEN order[x].qty ELSE 0
  PROVE  FrozenAccounted' /\ StockAccounted'
<1>1. new \in Legs /\ order[x].qty \in Nat /\ order'[x].qty \in Nat
  BY FiniteParts DEF Legs
<1>2. \A f \in Offers, leg \in Legs :
        /\ Qty(Of(f, With(leg))) \in Int
        /\ Qty(Of(f, With(leg)))' =
             Qty(Of(f, With(leg))) + IF leg = new /\ order[x].offer = f THEN order[x].qty ELSE 0
  BY <1>1, LegBooked
<1>3. ASSUME NEW f \in Offers
      PROVE  Qty(Of(f, Placed)) \in Int /\ Qty(Of(f, Placed))' = Qty(Of(f, Placed))
  <2>1. /\ Placed \in SUBSET Orders /\ IsFiniteSet(Placed)
        /\ \A o \in Placed : /\ order[o].qty \in Int
                             /\ order'[o].qty = order[o].qty /\ order'[o].offer = order[o].offer
    BY FiniteParts
  <2>2. SumOf(order', f, Placed) = SumOf(order, f, Placed) /\ SumOf(order, f, Placed) \in Int
    BY <2>1, SumOfSame
  <2>3. /\ Qty(Of(f, Placed))' = SumOf(order', f, Placed)
        /\ Qty(Of(f, Placed)) = SumOf(order, f, Placed)
    BY BooksAreSums, BooksAreSumsNext
  <2> QED
    BY <2>2, <2>3
<1>4. /\ "ESCROW" \in Legs /\ "RELEASE" \in Legs /\ "DISPUTE-SELLER" \in Legs
      /\ "DISPUTE-BUYER" \in Legs /\ "AUTOREFUND" \in Legs
      /\ new \in {"RELEASE", "DISPUTE-SELLER", "DISPUTE-BUYER", "AUTOREFUND"}
  BY DEF Legs, Payouts
<1>5. \A f \in Offers : frozen[f] \in Int /\ offer[f].available \in Int /\ Stock[f] \in Int
  BY EscrowAssumption DEF Shapes
<1>6. FrozenAccounted'
  <2> SUFFICES ASSUME NEW f \in Offers
               PROVE  frozen'[f] = (Qty(Of(f, With("ESCROW")))
                        - Qty(Of(f, With("RELEASE"))) - Qty(Of(f, With("DISPUTE-SELLER")))
                        - Qty(Of(f, With("DISPUTE-BUYER"))) - Qty(Of(f, With("AUTOREFUND"))))'
    BY DEF FrozenAccounted
  <2> DEFINE n(leg) == IF leg = new /\ order[x].offer = f THEN order[x].qty ELSE 0
  <2>1. /\ Qty(Of(f, With("ESCROW")))' = Qty(Of(f, With("ESCROW"))) + n("ESCROW")
        /\ Qty(Of(f, With("RELEASE")))' = Qty(Of(f, With("RELEASE"))) + n("RELEASE")
        /\ Qty(Of(f, With("DISPUTE-SELLER")))' =
             Qty(Of(f, With("DISPUTE-SELLER"))) + n("DISPUTE-SELLER")
        /\ Qty(Of(f, With("DISPUTE-BUYER")))' =
             Qty(Of(f, With("DISPUTE-BUYER"))) + n("DISPUTE-BUYER")
        /\ Qty(Of(f, With("AUTOREFUND")))' =
             Qty(Of(f, With("AUTOREFUND"))) + n("AUTOREFUND")
    BY <1>2, <1>4
  <2>2. /\ n("ESCROW") = 0
        /\ n("RELEASE") + n("DISPUTE-SELLER") + n("DISPUTE-BUYER") + n("AUTOREFUND")
              = IF order[x].offer = f THEN order[x].qty ELSE 0
        /\ \A leg : n(leg) \in Int
    BY <1>1, <1>4
  <2>3. frozen[f] = Qty(Of(f, With("ESCROW")))
          - Qty(Of(f, With("RELEASE"))) - Qty(Of(f, With("DISPUTE-SELLER")))
          - Qty(Of(f, With("DISPUTE-BUYER"))) - Qty(Of(f, With("AUTOREFUND")))
    BY DEF FrozenAccounted
  <2>4. \A leg \in Legs : Qty(Of(f, With(leg))) \in Int
    BY <1>2
  <2>5. frozen'[f] = frozen[f]
          - (n("RELEASE") + n("DISPUTE-SELLER") + n("DISPUTE-BUYER") + n("AUTOREFUND"))
    BY <2>2
  <2> HIDE DEF n
  <2> QED
    BY <1>4, <1>5, <2>1, <2>2, <2>3, <2>4, <2>5
<1>7. StockAccounted'
  <2> SUFFICES ASSUME NEW f \in Offers
               PROVE  offer'[f].available =
                        (Stock[f] - Qty(Of(f, Placed)) + Qty(Of(f, With("AUTOREFUND"))))'
    BY DEF StockAccounted
  <2>1. Qty(Of(f, With("AUTOREFUND")))' =
          Qty(Of(f, With("AUTOREFUND")))
            + IF new = "AUTOREFUND" /\ order[x].offer = f THEN order[x].qty ELSE 0
    BY <1>2, <1>4
  <2>2. offer[f].available =
          Stock[f] - Qty(Of(f, Placed)) + Qty(Of(f, With("AUTOREFUND")))
    BY DEF StockAccounted
  <2>3. Qty(Of(f, With("AUTOREFUND"))) \in Int
    BY <1>2, <1>4
  <2> QED
    BY <1>1, <1>3, <1>5, <2>1, <2>2, <2>3
<1> QED
  BY <1>6, <1>7

(* No offer grows beyond its stock: what the hourly job gives back was     *)
(* taken before.                                                           *)
LEMMA StockBounds ==
  ASSUME Shapes, OrdersExist, StockAccounted, NEW f \in Offers
  PROVE  offer[f].available <= Stock[f]
<1>1. /\ Placed \in SUBSET Orders /\ IsFiniteSet(Placed)
      /\ With("AUTOREFUND") \in SUBSET Placed
      /\ \A o \in Placed : order[o].qty \in Nat
  BY FiniteParts DEF Legs, Payouts
<1>2. SumOf(order, f, With("AUTOREFUND")) <= SumOf(order, f, Placed)
  BY <1>1, SumOfPart
<1>3. SumOf(order, f, With("AUTOREFUND")) \in Int /\ SumOf(order, f, Placed) \in Int
  <2>1. \A o \in Placed :
          order[o].qty \in Int /\ order[o].qty = order[o].qty /\ order[o].offer = order[o].offer
    BY <1>1
  <2>2. With("AUTOREFUND") \in SUBSET Orders /\ IsFiniteSet(With("AUTOREFUND"))
    BY <1>1, FS_Subset
  <2> QED
    BY <1>1, <2>1, <2>2, SumOfSame
<1>4. offer[f].available =
        Stock[f] - SumOf(order, f, Placed) + SumOf(order, f, With("AUTOREFUND"))
  BY BooksAreSums DEF StockAccounted
<1> QED
  BY <1>2, <1>3, <1>4, EscrowAssumption

LEMMA AccountsAreTrue == Accounts => AccountsTrue
<1> SUFFICES ASSUME Accounts PROVE AccountsTrue
  OBVIOUS
<1>1. \A f \in Offers : offer[f].available <= Stock[f]
  BY StockBounds DEF Accounts
<1> QED
  BY <1>1 DEF Accounts, Shapes, AccountsTrue, EscrowTypeOK, Legs

-----------------------------------------------------------------------------
(* The steps.                                                              *)

(* Handler k ends, after it created its order or not.                      *)
LEMMA JobsEnd ==
  ASSUME Shapes, OrdersExist, NEW k \in Workers, job' = [job EXCEPT ![k] = Idle],
         \/ Placed' = Placed
         \/ /\ job[k] # Idle /\ job[k].op = "create"
            /\ Placed' = Placed \cup {job[k].order}
  PROVE  \A j \in Workers : JobOK(j)'
<1> SUFFICES ASSUME NEW j \in Workers, job'[j] # Idle PROVE JobOK(j)'
  BY DEF JobOK
<1>1. j # k /\ job'[j] = job[j] /\ job'[k] = Idle
      /\ \A i \in Workers \ {k} : job'[i] = job[i]
  BY DEF Shapes
<1>2. JobOK(j) /\ JobOK(k)
  BY DEF OrdersExist
<1> QED
  BY <1>1, <1>2 DEF JobOK

LEMMA JobsKept ==
  ASSUME Shapes, OrdersExist, job' = job, Placed' = Placed
  PROVE  \A j \in Workers : JobOK(j)'
BY DEF OrdersExist, JobOK

LEMMA JobsStart ==
  ASSUME Shapes, OrdersExist, NEW k \in Workers, NEW x \in Jobs, job[k] = Idle,
         job' = [job EXCEPT ![k] = x], Placed' = Placed,
         IF x.op = "create"
         THEN x.order \notin Placed /\ \A j \in Workers : job[j] # Idle => job[j].order # x.order
         ELSE x.order \in Placed
  PROVE  \A j \in Workers : JobOK(j)'
<1> SUFFICES ASSUME NEW j \in Workers, job'[j] # Idle PROVE JobOK(j)'
  BY DEF JobOK
<1>1. job'[k] = x /\ \A i \in Workers \ {k} : job'[i] = job[i]
  BY DEF Shapes
<1>2. JobOK(j)
  BY DEF OrdersExist
<1>3. CASE j = k
  BY <1>1, <1>3 DEF JobOK
<1>4. CASE j # k
  BY <1>1, <1>2, <1>4 DEF JobOK
<1> QED
  BY <1>3, <1>4

(* A step that moves no money.                                             *)
LEMMA QuietAccounts ==
  ASSUME Accounts, Shapes', refs' = refs, frozen' = frozen, Placed' = Placed,
         \A o \in Orders : order'[o].qty = order[o].qty /\ order'[o].offer = order[o].offer,
         \A f \in Offers : offer'[f].available = offer[f].available,
         \A k \in Workers : JobOK(k)', sweep' \subseteq Placed
  PROVE  Accounts'
<1>1. FrozenAccounted' /\ StockAccounted'
  BY BooksKept DEF Accounts
<1>2. OrdersExist'
  BY DEF Accounts, OrdersExist
<1> QED
  BY <1>1, <1>2 DEF Accounts

(* A payout, by a handler or by the hourly job.                            *)
LEMMA PayoutAccounts ==
  ASSUME Accounts, Shapes', NEW x \in Placed, NEW leg \in Payouts, MovePayout(x, leg),
         Placed' = Placed,
         \A o \in Orders : order'[o].qty = order[o].qty /\ order'[o].offer = order[o].offer,
         \A f \in Offers :
           offer'[f].available = offer[f].available
             + IF leg = "AUTOREFUND" /\ order[x].offer = f THEN order[x].qty ELSE 0,
         \A k \in Workers : JobOK(k)', sweep' \subseteq Placed
  PROVE  Accounts'
<1>1. /\ x \in Orders /\ <<x, leg>> \notin refs /\ refs' = refs \cup {<<x, leg>>}
      /\ frozen' = [frozen EXCEPT ![order[x].offer] = frozen[order[x].offer] - order[x].qty]
  BY DEF MovePayout, Placed
<1>2. \A f \in Offers :
        frozen'[f] = frozen[f] - IF order[x].offer = f THEN order[x].qty ELSE 0
  BY <1>1 DEF Accounts, Shapes
<1>3. FrozenAccounted' /\ StockAccounted'
  BY <1>1, <1>2, BooksPayout DEF Accounts
<1>4. OrdersExist'
  BY <1>1 DEF Accounts, OrdersExist
<1> QED
  BY <1>3, <1>4 DEF Accounts

(* Both transactions of createOrder.                                       *)
LEMMA CreateAccounts ==
  ASSUME Accounts, NEW k \in Workers, NEW s \in Statuses \ {"none"},
         NEW leg \in {"ESCROW", "SELLERRECV"},
         job[k] # Idle, job[k].op = "create", PlaceOrder(job[k], s),
         refs' = refs \cup {<<job[k].order, leg>>},
         frozen' = IF leg = "ESCROW"
                   THEN [frozen EXCEPT ![job[k].offer] = @ + job[k].qty] ELSE frozen,
         Finish(k), sweep' = sweep
  PROVE  Accounts'
<1> DEFINE x == job[k].order
           g == job[k].offer
           q == job[k].qty
<1>1. x \in Orders /\ g \in Offers /\ q \in Nat /\ q \in 1..MaxQty
  BY JobShape, EscrowAssumption DEF Accounts
<1>2. x \notin Placed
  BY DEF Accounts, OrdersExist, JobOK
<1>3. /\ order' = [order EXCEPT ![x].status = s, ![x].offer = g, ![x].qty = q]
      /\ offer' = [offer EXCEPT ![g].available = offer[g].available - q]
      /\ job' = [job EXCEPT ![k] = Idle]
      /\ refs' = refs \cup {<<x, leg>>}
      /\ frozen' = IF leg = "ESCROW"
                   THEN [frozen EXCEPT ![g] = frozen[g] + q] ELSE frozen
  BY DEF PlaceOrder, Finish
<1>4. JobOK(k)
  BY DEF Accounts, OrdersExist
<1> HIDE DEF x, g, q
<1>5. /\ order'[x].status = s /\ order'[x].offer = g /\ order'[x].qty = q
      /\ \A o \in Orders \ {x} : order'[o] = order[o]
  BY <1>1, <1>3 DEF Accounts, Shapes
<1>6. Placed' = Placed \cup {x}
  BY <1>1, <1>5 DEF Placed
<1>7. \A f \in Offers :
        /\ frozen'[f] = frozen[f] + IF leg = "ESCROW" /\ f = g THEN q ELSE 0
        /\ offer'[f].available = offer[f].available - IF f = g THEN q ELSE 0
  BY <1>1, <1>3 DEF Accounts, Shapes
<1>8. FrozenAccounted' /\ StockAccounted'
  <2>1. /\ Shapes /\ OrdersExist /\ FrozenAccounted /\ StockAccounted
        /\ \A o \in Orders \ {x} :
             order'[o].qty = order[o].qty /\ order'[o].offer = order[o].offer
    BY <1>5 DEF Accounts
  <2>2. refs' = refs \cup {<<x, leg>>}
    BY <1>3
  <2>3. \A f \in Offers : frozen'[f] = frozen[f] + IF leg = "ESCROW" /\ f = g THEN q ELSE 0
    BY <1>7
  <2>4. \A f \in Offers : offer'[f].available = offer[f].available - IF f = g THEN q ELSE 0
    BY <1>7
  <2> QED
    BY <1>1, <1>2, <1>5, <1>6, <2>1, <2>2, <2>3, <2>4, BooksCreate
<1>9. Shapes'
  <2>1. order' \in [Orders -> [status : Statuses, offer : Offers, qty : Nat,
                              code : BOOLEAN, raised : BOOLEAN, overdue : BOOLEAN]]
    <3> DEFINE Row == [status : Statuses, offer : Offers, qty : Nat,
                       code : BOOLEAN, raised : BOOLEAN, overdue : BOOLEAN]
               new == [order[x] EXCEPT !.status = s, !.offer = g, !.qty = q]
    <3>1. order \in [Orders -> Row] /\ order[x] \in Row
      BY <1>1 DEF Accounts, Shapes
    <3>2. new \in Row
      BY <1>1, <3>1
    <3>3. order' = [order EXCEPT ![x] = new]
      BY <1>1, <1>3, <3>1
    <3> HIDE DEF new, Row
    <3>4. order' \in [Orders -> Row]
      BY <3>1, <3>2, <3>3
    <3> QED
      BY <3>4 DEF Row
  <2>2. /\ offer' \in [Offers -> [status : {"ACTIVE", "PAUSED"}, available : Int]]
        /\ frozen' \in [Offers -> Int]
    BY <1>1, <1>3 DEF Accounts, Shapes
  <2>3. refs' \subseteq Orders \X Legs
    BY <1>1, <1>3 DEF Accounts, Shapes, Legs
  <2>4. job' \in [Workers -> Jobs \cup {Idle}]
    BY <1>3 DEF Accounts, Shapes
  <2> QED
    BY <2>1, <2>2, <2>3, <2>4 DEF Accounts, Shapes
<1>10. \A j \in Workers : JobOK(j)'
  BY <1>3, <1>6, JobsEnd DEF Accounts, x
<1>11. OrdersExist'
  <2>1. IsFiniteSet(Placed')
    BY <1>6, FS_AddElement DEF Accounts, OrdersExist
  <2>2. \A o \in Orders, l \in Legs : <<o, l>> \in refs' => o \in Placed'
    BY <1>3, <1>6 DEF Accounts, OrdersExist
  <2> QED
    BY <1>6, <1>10, <2>1, <2>2 DEF Accounts, OrdersExist
<1> QED
  BY <1>8, <1>9, <1>11 DEF Accounts

(* A row that changes its status or one of its flags.                      *)
LEMMA RowUpdated ==
  ASSUME Shapes, NEW x \in Placed, NEW s \in Statuses \ {"none"},
         \/ order' = [order EXCEPT ![x].status = s]
         \/ order' = [order EXCEPT ![x].status = s, ![x].code = TRUE]
         \/ order' = [order EXCEPT ![x].status = s, ![x].raised = TRUE]
         \/ order' = [order EXCEPT ![x].overdue = TRUE]
  PROVE  /\ order' \in [Orders -> [status : Statuses, offer : Offers, qty : Nat,
                                  code : BOOLEAN, raised : BOOLEAN, overdue : BOOLEAN]]
         /\ \A o \in Orders : order'[o].qty = order[o].qty /\ order'[o].offer = order[o].offer
         /\ Placed' = Placed
<1> DEFINE Row == [status : Statuses, offer : Offers, qty : Nat,
                   code : BOOLEAN, raised : BOOLEAN, overdue : BOOLEAN]
<1>1. x \in Orders /\ order[x] \in Row /\ order \in [Orders -> Row] /\ order[x].status # "none"
  BY DEF Placed, Shapes
<1>2. PICK new \in Row : /\ order' = [order EXCEPT ![x] = new]
                         /\ new.qty = order[x].qty /\ new.offer = order[x].offer
                         /\ new.status # "none"
  <2>1. CASE order' = [order EXCEPT ![x].status = s]
    <3> DEFINE n == [order[x] EXCEPT !.status = s]
    <3>1. /\ n \in Row /\ order' = [order EXCEPT ![x] = n]
          /\ n.qty = order[x].qty /\ n.offer = order[x].offer /\ n.status # "none"
      BY <1>1, <2>1
    <3> HIDE DEF n
    <3> QED
      BY <3>1
  <2>2. CASE order' = [order EXCEPT ![x].status = s, ![x].code = TRUE]
    <3> DEFINE n == [order[x] EXCEPT !.status = s, !.code = TRUE]
    <3>1. /\ n \in Row /\ order' = [order EXCEPT ![x] = n]
          /\ n.qty = order[x].qty /\ n.offer = order[x].offer /\ n.status # "none"
      BY <1>1, <2>2
    <3> HIDE DEF n
    <3> QED
      BY <3>1
  <2>3. CASE order' = [order EXCEPT ![x].status = s, ![x].raised = TRUE]
    <3> DEFINE n == [order[x] EXCEPT !.status = s, !.raised = TRUE]
    <3>1. /\ n \in Row /\ order' = [order EXCEPT ![x] = n]
          /\ n.qty = order[x].qty /\ n.offer = order[x].offer /\ n.status # "none"
      BY <1>1, <2>3
    <3> HIDE DEF n
    <3> QED
      BY <3>1
  <2>4. CASE order' = [order EXCEPT ![x].overdue = TRUE]
    <3> DEFINE n == [order[x] EXCEPT !.overdue = TRUE]
    <3>1. /\ n \in Row /\ order' = [order EXCEPT ![x] = n]
          /\ n.qty = order[x].qty /\ n.offer = order[x].offer /\ n.status # "none"
      BY <1>1, <2>4
    <3> HIDE DEF n
    <3> QED
      BY <3>1
  <2> QED
    BY <2>1, <2>2, <2>3, <2>4
<1> HIDE DEF Row
<1>3. order' \in [Orders -> Row] /\ order'[x] = new /\ \A o \in Orders \ {x} : order'[o] = order[o]
  BY <1>1, <1>2
<1>4. Placed' = Placed
  BY <1>1, <1>2, <1>3 DEF Placed
<1> QED
  BY <1>2, <1>3, <1>4 DEF Row

LEMMA SameRows ==
  ASSUME order' = order
  PROVE  /\ Placed' = Placed
         /\ \A o \in Orders : order'[o].qty = order[o].qty /\ order'[o].offer = order[o].offer
BY DEF Placed

(* A handler at a payout: its order exists, and so has its wallet a hold.  *)
LEMMA HandlerAccounts ==
  ASSUME Accounts, NEW k \in Workers, NEW op \in DOMAIN Demands, Serves(k, op),
         NEW leg \in Payouts \ {"AUTOREFUND"}, MovePayout(job[k].order, leg),
         NEW s \in Statuses \ {"none"},
         order' = [order EXCEPT ![job[k].order].status = s], Finish(k),
         offer' = offer, sweep' = sweep
  PROVE  Accounts'
<1> DEFINE x == job[k].order
<1>1. x \in Orders /\ x \in Placed /\ job' = [job EXCEPT ![k] = Idle]
  BY JobShape, DemandedOps DEF Accounts, OrdersExist, JobOK, Serves, Finish
<1>2. order' = [order EXCEPT ![x].status = s] /\ MovePayout(x, leg)
  OBVIOUS
<1> HIDE DEF x
<1>3. /\ order' \in [Orders -> [status : Statuses, offer : Offers, qty : Nat,
                              code : BOOLEAN, raised : BOOLEAN, overdue : BOOLEAN]]
      /\ \A o \in Orders : order'[o].qty = order[o].qty /\ order'[o].offer = order[o].offer
      /\ Placed' = Placed
  BY <1>1, <1>2, RowUpdated DEF Accounts
<1>4. \A j \in Workers : JobOK(j)'
  BY <1>1, <1>3, JobsEnd DEF Accounts
<1>5. frozen' \in [Offers -> Int] /\ refs' \subseteq Orders \X Legs
  <2>1. order[x].qty \in Int /\ order[x].offer \in Offers
    BY <1>1 DEF Accounts, Shapes
  <2> QED
    BY <1>1, <1>2, <2>1 DEF MovePayout, Accounts, Shapes, Legs
<1>6. Shapes'
  BY <1>1, <1>3, <1>5 DEF Accounts, Shapes
<1>7. \A f \in Offers :
        offer'[f].available = offer[f].available
          + IF leg = "AUTOREFUND" /\ order[x].offer = f THEN order[x].qty ELSE 0
  BY DEF Accounts, Shapes
<1>8. sweep' \subseteq Placed
  BY DEF Accounts, OrdersExist
<1> QED
  BY <1>1, <1>2, <1>3, <1>4, <1>6, <1>7, <1>8, PayoutAccounts

LEMMA ExpireAccounts ==
  ASSUME Accounts, NEW x \in Orders, ExpireOrder(x)
  PROVE  Accounts'
<1>1. /\ x \in Placed /\ MovePayout(x, "AUTOREFUND")
      /\ order' = [order EXCEPT ![x].status = "CANCELLED"]
      /\ offer' = [offer EXCEPT ![order[x].offer].available = @ + order[x].qty]
      /\ sweep' = sweep \ {x} /\ job' = job
  BY DEF ExpireOrder, Accounts, OrdersExist
<1>2. order[x].qty \in Nat /\ order[x].offer \in Offers
  BY DEF Accounts, Shapes
<1>3. /\ order' \in [Orders -> [status : Statuses, offer : Offers, qty : Nat,
                              code : BOOLEAN, raised : BOOLEAN, overdue : BOOLEAN]]
      /\ \A o \in Orders : order'[o].qty = order[o].qty /\ order'[o].offer = order[o].offer
      /\ Placed' = Placed
  <2>1. Shapes /\ "CANCELLED" \in Statuses \ {"none"}
    BY DEF Accounts, Statuses
  <2> QED
    BY <1>1, <2>1, RowUpdated
<1>4. \A j \in Workers : JobOK(j)'
  BY <1>1, <1>3, JobsKept DEF Accounts
<1>5. frozen' \in [Offers -> Int] /\ refs' \subseteq Orders \X Legs
  BY <1>1, <1>2 DEF MovePayout, Accounts, Shapes, Legs, Payouts
<1>6. offer' \in [Offers -> [status : {"ACTIVE", "PAUSED"}, available : Int]]
  BY <1>1, <1>2 DEF Accounts, Shapes
<1>7. Shapes'
  BY <1>1, <1>3, <1>5, <1>6 DEF Accounts, Shapes
<1>8. \A f \in Offers :
        offer'[f].available = offer[f].available
          + IF "AUTOREFUND" = "AUTOREFUND" /\ order[x].offer = f THEN order[x].qty ELSE 0
  BY <1>1, <1>2 DEF Accounts, Shapes
<1>9. sweep' \subseteq Placed
  BY <1>1 DEF Accounts, OrdersExist
<1>10. "AUTOREFUND" \in Payouts
  BY DEF Payouts
<1> QED
  BY <1>1, <1>3, <1>4, <1>7, <1>8, <1>9, <1>10, PayoutAccounts

LEMMA StepAccounts == Accounts /\ [EscrowNext]_escrowVars => Accounts'
<1> SUFFICES ASSUME Accounts, [EscrowNext]_escrowVars PROVE Accounts'
  OBVIOUS
<1>0. Shapes /\ OrdersExist /\ sweep \subseteq Placed
  BY DEF Accounts, OrdersExist
<1>1. CASE UNCHANGED escrowVars
  <2>1. Shapes' /\ \A k \in Workers : JobOK(k)'
    BY <1>0, <1>1, SameRows, JobsKept DEF escrowVars, Shapes
  <2> QED
    BY <1>0, <1>1, <2>1, SameRows, QuietAccounts DEF escrowVars
<1>2. ASSUME NEW k \in Workers, NEW o \in Orders, NEW f \in Offers, NEW q \in 1..MaxQty,
             ReadOffer(k, o, f, q)
      PROVE  Accounts'
  <2> DEFINE x == [op |-> "create", order |-> o, offer |-> f, qty |-> q]
  <2>1. /\ x \in Jobs /\ x.op = "create" /\ x.order = o
        /\ job[k] = Idle /\ job' = [job EXCEPT ![k] = x]
        /\ o \notin Placed /\ \A j \in Workers : job[j] # Idle => job[j].order # o
        /\ UNCHANGED <<offer, order, refs, frozen, sweep>>
    BY <1>2 DEF ReadOffer, Jobs, Placed
  <2> HIDE DEF x
  <2>2. \A j \in Workers : JobOK(j)'
    BY <1>0, <2>1, SameRows, JobsStart
  <2>3. Shapes'
    BY <1>0, <2>1 DEF Shapes
  <2> QED
    BY <1>0, <2>1, <2>2, <2>3, SameRows, QuietAccounts
<1>3. ASSUME NEW k \in Workers, NEW o \in Orders, NEW op \in DOMAIN Demands, ReadOrder(k, o, op)
      PROVE  Accounts'
  <2> DEFINE x == [op |-> op, order |-> o]
  <2>1. /\ x \in Jobs /\ x.op # "create" /\ x.order = o
        /\ job[k] = Idle /\ job' = [job EXCEPT ![k] = x]
        /\ UNCHANGED <<offer, order, refs, frozen, sweep>>
    BY <1>3, DemandedOps DEF ReadOrder, Jobs
  <2>2. o \in Placed
    <3>1. order[o].status \in Demands[op]
      BY <1>3 DEF ReadOrder
    <3>2. order[o].status # "none"
      BY <3>1, DemandedOps DEF Demands
    <3> QED
      BY <3>2 DEF Placed
  <2> HIDE DEF x
  <2>3. \A j \in Workers : JobOK(j)'
    BY <1>0, <2>1, <2>2, SameRows, JobsStart
  <2>4. Shapes'
    BY <1>0, <2>1 DEF Shapes
  <2> QED
    BY <1>0, <2>1, <2>3, <2>4, SameRows, QuietAccounts
<1>4. ASSUME NEW k \in Workers, SettleCryptoOrderInstantly(k) PROVE Accounts'
  <2>1. "COMPLETED" \in Statuses \ {"none"} /\ "SELLERRECV" \in {"ESCROW", "SELLERRECV"}
    BY DEF Statuses
  <2> QED
    BY <1>4, <2>1, CreateAccounts DEF SettleCryptoOrderInstantly
<1>5. ASSUME NEW k \in Workers, HoldGiftCardOrderInEscrow(k) PROVE Accounts'
  <2>1. "PENDING_DELIVERY" \in Statuses \ {"none"} /\ "ESCROW" \in {"ESCROW", "SELLERRECV"}
    BY DEF Statuses
  <2> QED
    BY <1>5, <2>1, CreateAccounts DEF HoldGiftCardOrderInEscrow
<1>6. ASSUME NEW k \in Workers, DeliverGiftCardCode(k) \/ RaiseDispute(k) PROVE Accounts'
  <2> DEFINE x == job[k].order
  <2>1. /\ x \in Placed /\ job' = [job EXCEPT ![k] = Idle]
        /\ \/ order' = [order EXCEPT ![x].status = "DELIVERED", ![x].code = TRUE]
           \/ order' = [order EXCEPT ![x].status = "DISPUTED", ![x].raised = TRUE]
        /\ UNCHANGED <<offer, refs, frozen, sweep>>
    BY <1>0, <1>6 DEF DeliverGiftCardCode, RaiseDispute, Serves, OrdersExist, JobOK, Finish
  <2> HIDE DEF x
  <2>2. /\ order' \in [Orders -> [status : Statuses, offer : Offers, qty : Nat,
                                code : BOOLEAN, raised : BOOLEAN, overdue : BOOLEAN]]
        /\ \A o \in Orders : order'[o].qty = order[o].qty /\ order'[o].offer = order[o].offer
        /\ Placed' = Placed
    <3>1. "DELIVERED" \in Statuses \ {"none"} /\ "DISPUTED" \in Statuses \ {"none"}
      BY DEF Statuses
    <3> QED
      BY <1>0, <2>1, <3>1, RowUpdated
  <2>3. \A j \in Workers : JobOK(j)'
    BY <1>0, <2>1, <2>2, JobsEnd
  <2>4. Shapes'
    BY <1>0, <2>1, <2>2 DEF Shapes
  <2> QED
    BY <1>0, <2>1, <2>2, <2>3, <2>4, QuietAccounts
<1>7. ASSUME NEW k \in Workers, ConfirmDelivery(k) \/ ResolveDispute(k) PROVE Accounts'
  <2>1. /\ {"confirm", "resolveSeller", "resolveBuyer"} \subseteq DOMAIN Demands
        /\ {"RELEASE", "DISPUTE-SELLER", "DISPUTE-BUYER"} \subseteq Payouts \ {"AUTOREFUND"}
        /\ {"COMPLETED", "CANCELLED"} \subseteq Statuses \ {"none"}
    BY DemandedOps DEF Payouts, Statuses
  <2>2. CASE ConfirmDelivery(k)
    BY <2>1, <2>2, HandlerAccounts DEF ConfirmDelivery
  <2>3. CASE ResolveDispute(k)
    BY <2>1, <2>3, HandlerAccounts DEF ResolveDispute
  <2> QED
    BY <1>7, <2>2, <2>3
<1>8. ASSUME NEW k \in Workers, RequestFails(k) PROVE Accounts'
  <2>1. job' = [job EXCEPT ![k] = Idle] /\ UNCHANGED <<offer, order, refs, frozen, sweep>>
    BY <1>8 DEF RequestFails, Finish
  <2>2. \A j \in Workers : JobOK(j)'
    BY <1>0, <2>1, SameRows, JobsEnd
  <2>3. Shapes'
    BY <1>0, <2>1 DEF Shapes
  <2> QED
    BY <1>0, <2>1, <2>2, <2>3, SameRows, QuietAccounts
<1>9. CASE FindOverdue \/ SweepFails
  <2>1. sweep' \subseteq Placed /\ UNCHANGED <<offer, order, refs, frozen, job>>
    BY <1>9 DEF FindOverdue, SweepFails, Overdue, Placed
  <2>2. \A j \in Workers : JobOK(j)'
    BY <1>0, <2>1, SameRows, JobsKept
  <2>3. Shapes'
    BY <1>0, <2>1 DEF Shapes, Placed
  <2> QED
    BY <2>1, <2>2, <2>3, SameRows, QuietAccounts
<1>10. ASSUME NEW o \in Orders, ExpireOrder(o) PROVE Accounts'
  BY <1>10, ExpireAccounts
<1>11. ASSUME NEW f \in Offers, NEW s \in {"ACTIVE", "PAUSED"}, SetOfferStatus(f, s)
       PROVE  Accounts'
  <2>1. /\ offer' = [offer EXCEPT ![f].status = s]
        /\ UNCHANGED <<order, refs, frozen, job, sweep>>
    BY <1>11 DEF SetOfferStatus
  <2>2. \A j \in Workers : JobOK(j)'
    BY <1>0, <2>1, SameRows, JobsKept
  <2>3. Shapes' /\ \A g \in Offers : offer'[g].available = offer[g].available
    BY <1>0, <2>1 DEF Shapes
  <2> QED
    BY <1>0, <2>1, <2>2, <2>3, SameRows, QuietAccounts
<1>12. ASSUME NEW o \in Orders, PassDeadline(o) PROVE Accounts'
  <2>1. /\ o \in Placed /\ order' = [order EXCEPT ![o].overdue = TRUE]
        /\ UNCHANGED <<offer, refs, frozen, job, sweep>>
    BY <1>12 DEF PassDeadline, Placed
  <2>2. /\ order' \in [Orders -> [status : Statuses, offer : Offers, qty : Nat,
                                code : BOOLEAN, raised : BOOLEAN, overdue : BOOLEAN]]
        /\ \A p \in Orders : order'[p].qty = order[p].qty /\ order'[p].offer = order[p].offer
        /\ Placed' = Placed
    <3>1. "CANCELLED" \in Statuses \ {"none"}
      BY DEF Statuses
    <3> QED
      BY <1>0, <2>1, <3>1, RowUpdated
  <2>3. \A j \in Workers : JobOK(j)'
    BY <1>0, <2>1, <2>2, JobsKept
  <2>4. Shapes'
    BY <1>0, <2>1, <2>2 DEF Shapes
  <2> QED
    BY <1>0, <2>1, <2>2, <2>3, <2>4, QuietAccounts
<1> QED
  BY <1>1, <1>2, <1>3, <1>4, <1>5, <1>6, <1>7, <1>8, <1>9, <1>10, <1>11, <1>12
  DEF EscrowNext, Start, Write, Environment

(* For any handlers, orders and offers: however reads and blind writes     *)
(* interleave, the hold of every seller and what every offer has left are  *)
(* what the orders say.                                                    *)
THEOREM BooksTrue == EscrowSpec => []AccountsTrue
<1> QED
  BY InitAccounts, StepAccounts, AccountsAreTrue, PTL DEF EscrowSpec

-----------------------------------------------------------------------------
(* Why money left the hold.                                                *)

Escrowed(o) == <<o, "ESCROW">> \in refs

LegReason(o, leg) ==
  /\ Escrowed(o)
  /\ leg = "RELEASE" => order[o].code
  /\ leg \in {"DISPUTE-SELLER", "DISPUTE-BUYER"} => order[o].raised
  /\ leg = "AUTOREFUND" => order[o].overdue

(* Every status but COMPLETED, which an order for crypto has from the      *)
(* start, is of an order in escrow.                                        *)
StatusReason(o) ==
  /\ order[o].status \in Statuses \ {"none", "COMPLETED"} => Escrowed(o)
  /\ order[o].status = "DELIVERED" => order[o].code
  /\ order[o].status = "DISPUTED" => order[o].raised

LegOf(op) ==
  IF op = "confirm" THEN "RELEASE"
  ELSE IF op = "resolveSeller" THEN "DISPUTE-SELLER"
  ELSE IF op = "resolveBuyer" THEN "DISPUTE-BUYER" ELSE "none"

(* What a handler or the sweep has found stays a reason, however late it   *)
(* writes and whatever the others do meanwhile.                            *)
Reasons ==
  /\ \A o \in Orders : StatusReason(o)
  /\ \A k \in Workers : job[k] # Idle /\ job[k].op # "create" =>
       LegReason(job[k].order, LegOf(job[k].op))
  /\ \A o \in sweep : LegReason(o, "AUTOREFUND")
  /\ \A o \in Orders, leg \in Payouts : <<o, leg>> \in refs => LegReason(o, leg)

LEMMA InitReasons == EscrowInit => Reasons
BY DEF EscrowInit, Reasons, StatusReason

LEMMA ReasonsKept ==
  ASSUME Accounts, Reasons, refs \subseteq refs',
         \A o \in Orders :
           /\ order[o].code => order'[o].code
           /\ order[o].raised => order'[o].raised
           /\ order[o].overdue => order'[o].overdue
           /\ order'[o].status = order[o].status \/ StatusReason(o)',
         \A k \in Workers : \/ job'[k] \in {job[k], Idle}
                            \/ job'[k].op = "create"
                            \/ LegReason(job'[k].order, LegOf(job'[k].op)),
         \A k \in Workers : job'[k] # Idle /\ job'[k].op # "create" => job'[k].order \in Orders,
         \A o \in sweep' : o \in sweep \/ LegReason(o, "AUTOREFUND"),
         sweep' \subseteq Orders,
         \A o \in Orders, leg \in Payouts :
           <<o, leg>> \in refs' => <<o, leg>> \in refs \/ LegReason(o, leg)
  PROVE  Reasons'
<1>1. \A o \in Orders : \A leg : LegReason(o, leg) => LegReason(o, leg)'
  BY DEF LegReason, Escrowed
<1>2. ASSUME NEW o \in Orders PROVE StatusReason(o)'
  <2>1. StatusReason(o)
    BY DEF Reasons
  <2>2. CASE order'[o].status = order[o].status
    BY <2>1, <2>2 DEF StatusReason, Escrowed
  <2> QED
    BY <2>2
<1>3. ASSUME NEW k \in Workers, job'[k] # Idle, job'[k].op # "create"
      PROVE  LegReason(job[k].order, LegOf(job[k].op))'
  <2>1. PICK x \in Orders : x = job'[k].order
    BY <1>3
  <2>2. PICK leg : leg = LegOf(job'[k].op)
    OBVIOUS
  <2>3. LegReason(job'[k].order, LegOf(job'[k].op))
    BY <1>3 DEF Reasons
  <2>4. LegReason(x, leg)
    BY <2>1, <2>2, <2>3 DEF LegReason, Escrowed
  <2>5. LegReason(x, leg)'
    BY <1>1, <2>4
  <2> QED
    BY <2>1, <2>2, <2>5 DEF LegReason, Escrowed, LegOf
<1>4. ASSUME NEW o \in sweep' PROVE LegReason(o, "AUTOREFUND")'
  <2>1. o \in Orders /\ LegReason(o, "AUTOREFUND")
    BY <1>4 DEF Reasons
  <2> QED
    BY <1>1, <2>1
<1>5. ASSUME NEW o \in Orders, NEW leg \in Payouts, <<o, leg>> \in refs'
      PROVE  LegReason(o, leg)'
  BY <1>1, <1>5 DEF Reasons
<1> QED
  BY <1>2, <1>3, <1>4, <1>5 DEF Reasons

(* One handler, with or without its order.                                 *)
LEMMA JobReasons ==
  ASSUME Accounts, Reasons, NEW k \in Workers, job' = [job EXCEPT ![k] = Idle] \/ job' = job
  PROVE  /\ \A j \in Workers : \/ job'[j] \in {job[j], Idle}
                             \/ job'[j].op = "create"
                             \/ LegReason(job'[j].order, LegOf(job'[j].op))
         /\ \A j \in Workers : job'[j] # Idle /\ job'[j].op # "create" => job'[j].order \in Orders
<1>1. \A j \in Workers : job'[j] \in {job[j], Idle}
  BY DEF Accounts, Shapes
<1> QED
  BY <1>1, JobShape DEF Accounts

(* A row that gets status s, and a reason for it.                          *)
LEMMA RowReasons ==
  ASSUME Accounts, Reasons, refs \subseteq refs', NEW x \in Orders, NEW s \in Statuses,
         \/ order' = [order EXCEPT ![x].status = s]
         \/ order' = [order EXCEPT ![x].status = s, ![x].code = TRUE]
         \/ order' = [order EXCEPT ![x].status = s, ![x].raised = TRUE]
         \/ order' = [order EXCEPT ![x].overdue = TRUE],
         s \in Statuses \ {"none", "COMPLETED"} => <<x, "ESCROW">> \in refs',
         s = "DELIVERED" => order'[x].code,
         s = "DISPUTED" => order'[x].raised
  PROVE  \A o \in Orders :
           /\ order[o].code => order'[o].code
           /\ order[o].raised => order'[o].raised
           /\ order[o].overdue => order'[o].overdue
           /\ order'[o].status = order[o].status \/ StatusReason(o)'
<1>1. \A o \in Orders \ {x} : order'[o] = order[o]
  BY DEF Accounts, Shapes
<1>2. /\ order[x].code => order'[x].code
      /\ order[x].raised => order'[x].raised
      /\ order[x].overdue => order'[x].overdue
      /\ order'[x].status = order[x].status \/ order'[x].status = s
  BY DEF Accounts, Shapes
<1>3. order'[x].status = s => StatusReason(x)'
  BY DEF StatusReason, Escrowed
<1> QED
  BY <1>1, <1>2, <1>3

LEMMA ServesReason ==
  ASSUME Accounts, Reasons, NEW k \in Workers, NEW op \in DOMAIN Demands, Serves(k, op)
  PROVE  /\ job[k].order \in Orders /\ job[k].order \in Placed
         /\ LegReason(job[k].order, LegOf(op)) /\ Escrowed(job[k].order)
<1>1. job[k] # Idle /\ job[k].op = op /\ op # "create"
  BY DemandedOps DEF Serves
<1>2. LegReason(job[k].order, LegOf(op))
  BY <1>1 DEF Reasons
<1> QED
  BY <1>1, <1>2, JobShape DEF LegReason, Accounts, OrdersExist, JobOK

LEMMA StepReasons == Accounts /\ Reasons /\ [EscrowNext]_escrowVars => Reasons'
<1> SUFFICES ASSUME Accounts, Reasons, [EscrowNext]_escrowVars PROVE Reasons'
  OBVIOUS
<1>0. sweep \subseteq Orders
  BY DEF Accounts, Shapes
<1>1. CASE UNCHANGED escrowVars
  BY <1>1 DEF escrowVars, Reasons, StatusReason, LegReason, Escrowed, LegOf
<1>2. ASSUME UNCHANGED <<order, refs>>,
             \A k \in Workers : \/ job'[k] \in {job[k], Idle}
                                \/ job'[k].op = "create"
                                \/ LegReason(job'[k].order, LegOf(job'[k].op)),
             \A k \in Workers : job'[k] # Idle /\ job'[k].op # "create" => job'[k].order \in Orders,
             \A o \in sweep' : o \in sweep \/ LegReason(o, "AUTOREFUND"),
             sweep' \subseteq Orders
      PROVE  Reasons'
  BY <1>2, ReasonsKept
<1>3. ASSUME NEW k \in Workers, NEW o \in Orders, NEW f \in Offers, NEW q \in 1..MaxQty,
             ReadOffer(k, o, f, q)
      PROVE  Reasons'
  <2> DEFINE x == [op |-> "create", order |-> o, offer |-> f, qty |-> q]
  <2>1. /\ x.op = "create" /\ job' = [job EXCEPT ![k] = x]
        /\ UNCHANGED <<offer, order, refs, frozen, sweep>>
    BY <1>3 DEF ReadOffer
  <2> HIDE DEF x
  <2>2. \A j \in Workers : job'[j] = job[j] \/ job'[j] = x
    BY <2>1 DEF Accounts, Shapes
  <2>3. \A j \in Workers : \/ job'[j] \in {job[j], Idle}
                            \/ job'[j].op = "create"
                            \/ LegReason(job'[j].order, LegOf(job'[j].op))
    BY <2>1, <2>2
  <2>4. \A j \in Workers : job'[j] # Idle /\ job'[j].op # "create" => job'[j].order \in Orders
    BY <2>1, <2>2, JobShape DEF Accounts
  <2> QED
    BY <1>0, <1>2, <2>1, <2>3, <2>4
<1>4. ASSUME NEW k \in Workers, NEW o \in Orders, NEW op \in DOMAIN Demands, ReadOrder(k, o, op)
      PROVE  Reasons'
  <2> DEFINE x == [op |-> op, order |-> o]
  <2>1. /\ x.op = op /\ x.order = o /\ job' = [job EXCEPT ![k] = x]
        /\ order[o].status \in Demands[op]
        /\ UNCHANGED <<offer, order, refs, frozen, sweep>>
    BY <1>4 DEF ReadOrder
  <2> HIDE DEF x
  <2>2. \A j \in Workers : job'[j] = job[j] \/ job'[j] = x
    BY <2>1 DEF Accounts, Shapes
  <2>3. /\ order[o].status \in {"PENDING_DELIVERY", "DELIVERED", "DISPUTED"}
        /\ op = "confirm" => order[o].status = "DELIVERED"
        /\ op \in {"resolveSeller", "resolveBuyer"} => order[o].status = "DISPUTED"
    BY <2>1, DemandedOps DEF Demands
  <2>4. LegReason(o, LegOf(op))
    BY <2>3 DEF Reasons, StatusReason, LegReason, LegOf, Statuses
  <2>5. LegReason(x.order, LegOf(x.op))
    BY <2>1, <2>4
  <2>6. \A j \in Workers : \/ job'[j] \in {job[j], Idle}
                            \/ job'[j].op = "create"
                            \/ LegReason(job'[j].order, LegOf(job'[j].op))
    <3> SUFFICES ASSUME NEW j \in Workers, job'[j] = x
                 PROVE  LegReason(job'[j].order, LegOf(job'[j].op))
      BY <2>2
    <3> QED
      BY <2>5 DEF LegReason, Escrowed
  <2>7. \A j \in Workers : job'[j] # Idle /\ job'[j].op # "create" => job'[j].order \in Orders
    BY <2>1, <2>2, JobShape DEF Accounts
  <2> QED
    BY <1>0, <1>2, <2>1, <2>6, <2>7
<1>5. ASSUME NEW k \in Workers, RequestFails(k) PROVE Reasons'
  <2>1. job' = [job EXCEPT ![k] = Idle] /\ UNCHANGED <<order, refs, sweep>>
    BY <1>5 DEF RequestFails, Finish
  <2> QED
    BY <1>0, <1>2, <2>1, JobReasons
<1>6. ASSUME NEW f \in Offers, NEW s \in {"ACTIVE", "PAUSED"}, SetOfferStatus(f, s)
      PROVE  Reasons'
  BY <1>6 DEF SetOfferStatus, Reasons, StatusReason, LegReason, Escrowed, LegOf
<1>7. CASE FindOverdue \/ SweepFails
  <2>1. UNCHANGED <<order, refs, job>> /\ sweep' \subseteq Orders
    BY <1>7 DEF FindOverdue, SweepFails, Overdue
  <2>2. \A o \in sweep' : o \in sweep \/ LegReason(o, "AUTOREFUND")
    BY <1>7 DEF FindOverdue, SweepFails, Overdue, Reasons, StatusReason, LegReason, Statuses
  <2>3. \A k \in Workers : job'[k] # Idle /\ job'[k].op # "create" => job'[k].order \in Orders
    BY <2>1, JobShape DEF Accounts
  <2> QED
    BY <1>2, <2>1, <2>2, <2>3
<1>8. ASSUME NEW k \in Workers, SettleCryptoOrderInstantly(k) \/ HoldGiftCardOrderInEscrow(k)
      PROVE  Reasons'
  <2> DEFINE g == job[k].offer
             q == job[k].qty
  <2>0. PICK x \in Orders : x = job[k].order
    BY <1>8, JobShape DEF SettleCryptoOrderInstantly, HoldGiftCardOrderInEscrow, Accounts
  <2>1. PICK s \in {"COMPLETED", "PENDING_DELIVERY"} :
          /\ order' = [order EXCEPT ![x].status = s, ![x].offer = g, ![x].qty = q]
          /\ refs' = refs \cup {<<x, IF s = "COMPLETED" THEN "SELLERRECV" ELSE "ESCROW">>}
    BY <1>8, <2>0 DEF SettleCryptoOrderInstantly, HoldGiftCardOrderInEscrow, PlaceOrder
  <2>2. job' = [job EXCEPT ![k] = Idle] /\ sweep' = sweep
    BY <1>8 DEF SettleCryptoOrderInstantly, HoldGiftCardOrderInEscrow, Finish
  <2> HIDE DEF g, q
  <2>3. /\ \A o \in Orders \ {x} : order'[o] = order[o]
        /\ order'[x].status = s
        /\ order'[x].code = order[x].code /\ order'[x].raised = order[x].raised
        /\ order'[x].overdue = order[x].overdue
    BY <2>1, <2>2 DEF Accounts, Shapes
  <2>4. StatusReason(x)'
    BY <2>1, <2>3 DEF StatusReason, Escrowed
  <2>5. \A o \in Orders :
           /\ order[o].code => order'[o].code
           /\ order[o].raised => order'[o].raised
           /\ order[o].overdue => order'[o].overdue
           /\ order'[o].status = order[o].status \/ StatusReason(o)'
    BY <2>3, <2>4
  <2>6. \A o \in Orders, leg \in Payouts : <<o, leg>> \in refs' => <<o, leg>> \in refs
    BY <2>1 DEF Payouts
  <2> QED
    BY <1>0, <2>1, <2>2, <2>5, <2>6, JobReasons, ReasonsKept
<1>9. ASSUME NEW k \in Workers, DeliverGiftCardCode(k) \/ RaiseDispute(k) PROVE Reasons'
  <2>1. PICK op \in {"deliver", "dispute"} : Serves(k, op)
    BY <1>9 DEF DeliverGiftCardCode, RaiseDispute
  <2>2. PICK x \in Orders : x = job[k].order /\ Escrowed(x)
    BY <2>1, ServesReason, DemandedOps DEF Escrowed
  <2>3. /\ job' = [job EXCEPT ![k] = Idle] /\ UNCHANGED <<refs, sweep>>
        /\ \/ order' = [order EXCEPT ![x].status = "DELIVERED", ![x].code = TRUE]
           \/ order' = [order EXCEPT ![x].status = "DISPUTED", ![x].raised = TRUE]
    BY <1>9, <2>2 DEF DeliverGiftCardCode, RaiseDispute, Finish
  <2>4. \A o \in Orders :
           /\ order[o].code => order'[o].code
           /\ order[o].raised => order'[o].raised
           /\ order[o].overdue => order'[o].overdue
           /\ order'[o].status = order[o].status \/ StatusReason(o)'
    <3>1. \A o \in Orders \ {x} : order'[o] = order[o]
      BY <2>2, <2>3 DEF Accounts, Shapes
    <3>2. /\ order'[x].status \in {"DELIVERED", "DISPUTED"}
          /\ order'[x].status = "DELIVERED" => order'[x].code
          /\ order'[x].status = "DISPUTED" => order'[x].raised
          /\ order[x].code => order'[x].code
          /\ order[x].raised => order'[x].raised
          /\ order[x].overdue => order'[x].overdue
      BY <2>2, <2>3 DEF Accounts, Shapes
    <3>3. StatusReason(x)'
      BY <2>2, <2>3, <3>2 DEF StatusReason, Escrowed
    <3> QED
      BY <3>1, <3>2, <3>3
  <2> QED
    BY <1>0, <2>3, <2>4, JobReasons, ReasonsKept
<1>10. ASSUME NEW x \in Orders, NEW leg \in Payouts, MovePayout(x, leg), LegReason(x, leg),
              NEW s \in {"COMPLETED", "CANCELLED"},
              order' = [order EXCEPT ![x].status = s], sweep' \subseteq sweep,
              NEW k \in Workers, job' = [job EXCEPT ![k] = Idle] \/ job' = job
       PROVE  Reasons'
  <2>1. refs' = refs \cup {<<x, leg>>} /\ Escrowed(x)
    BY <1>10 DEF MovePayout, LegReason
  <2>2. \A o \in Orders :
           /\ order[o].code => order'[o].code
           /\ order[o].raised => order'[o].raised
           /\ order[o].overdue => order'[o].overdue
           /\ order'[o].status = order[o].status \/ StatusReason(o)'
    BY <1>10, <2>1, RowReasons DEF Escrowed, Statuses
  <2>3. \A o \in Orders, l \in Payouts :
          <<o, l>> \in refs' => <<o, l>> \in refs \/ LegReason(o, l)
    BY <1>10, <2>1
  <2> QED
    BY <1>0, <1>10, <2>1, <2>2, <2>3, JobReasons, ReasonsKept
<1>11. ASSUME NEW k \in Workers, ConfirmDelivery(k) \/ ResolveDispute(k) PROVE Reasons'
  <2> DEFINE x == job[k].order
  <2>1. PICK op \in {"confirm", "resolveSeller", "resolveBuyer"} :
          /\ Serves(k, op) /\ MovePayout(x, LegOf(op))
          /\ \E s \in {"COMPLETED", "CANCELLED"} : order' = [order EXCEPT ![x].status = s]
    BY <1>11 DEF ConfirmDelivery, ResolveDispute, LegOf
  <2>2. x \in Orders /\ LegReason(x, LegOf(op)) /\ LegOf(op) \in Payouts
    BY <2>1, ServesReason, DemandedOps DEF LegOf, Payouts
  <2>3. job' = [job EXCEPT ![k] = Idle] /\ sweep' = sweep
    BY <1>11 DEF ConfirmDelivery, ResolveDispute, Finish
  <2> HIDE DEF x
  <2> QED
    BY <1>10, <2>1, <2>2, <2>3
<1>12. ASSUME NEW o \in Orders, ExpireOrder(o) PROVE Reasons'
  <2>1. /\ MovePayout(o, "AUTOREFUND") /\ "AUTOREFUND" \in Payouts
        /\ order' = [order EXCEPT ![o].status = "CANCELLED"]
        /\ sweep' \subseteq sweep /\ job' = job /\ o \in sweep
        /\ refs' = refs \cup {<<o, "AUTOREFUND">>}
    BY <1>12 DEF ExpireOrder, MovePayout, Payouts
  <2>2. LegReason(o, "AUTOREFUND") /\ Escrowed(o)
    BY <2>1 DEF Reasons, LegReason
  <2>3. \A p \in Orders :
           /\ order[p].code => order'[p].code
           /\ order[p].raised => order'[p].raised
           /\ order[p].overdue => order'[p].overdue
           /\ order'[p].status = order[p].status \/ StatusReason(p)'
    BY <2>1, <2>2, RowReasons DEF Escrowed, Statuses
  <2>4. \A p \in Orders, l \in Payouts :
          <<p, l>> \in refs' => <<p, l>> \in refs \/ LegReason(p, l)
    BY <2>1, <2>2
  <2>5. \A k \in Workers : job'[k] # Idle /\ job'[k].op # "create" => job'[k].order \in Orders
    BY <2>1, JobShape DEF Accounts
  <2> QED
    BY <1>0, <2>1, <2>3, <2>4, <2>5, ReasonsKept
<1>13. ASSUME NEW o \in Orders, PassDeadline(o) PROVE Reasons'
  <2>1. order' = [order EXCEPT ![o].overdue = TRUE] /\ UNCHANGED <<refs, job, sweep>>
    BY <1>13 DEF PassDeadline
  <2>2. \A p \in Orders :
          /\ order'[p].status = order[p].status
          /\ order'[p].code = order[p].code /\ order'[p].raised = order[p].raised
          /\ order[p].overdue => order'[p].overdue
    BY <2>1 DEF Accounts, Shapes
  <2>3. \A k \in Workers : job'[k] # Idle /\ job'[k].op # "create" => job'[k].order \in Orders
    BY <2>1, JobShape DEF Accounts
  <2> QED
    BY <1>0, <2>1, <2>2, <2>3, ReasonsKept
<1> QED
  BY <1>1, <1>3, <1>4, <1>5, <1>6, <1>7, <1>8, <1>9, <1>11, <1>12, <1>13
  DEF EscrowNext, Start, Write, Environment

(* For any handlers, orders and offers, and however stale the status is    *)
(* that a handler or the sweep has read: money leaves the hold only for    *)
(* its reason.                                                             *)
THEOREM PayoutsHaveReasons == EscrowSpec => []PayoutsJustified
<1>1. Reasons => PayoutsJustified
  BY DEF Reasons, LegReason, Escrowed, PayoutsJustified, PaidTo, Payouts
<1> QED
  BY <1>1, InitAccounts, StepAccounts, InitReasons, StepReasons, PTL DEF EscrowSpec

-----------------------------------------------------------------------------
(* One request or sweep at a time.                                         *)

JobFits(k) ==
  job[k] # Idle =>
    IF job[k].op = "create" THEN job[k].qty <= offer[job[k].offer].available
    ELSE order[job[k].order].status \in Demands[job[k].op]

HeldAccounted == \A f \in Offers : frozen[f] = SumOf(order, f, Held)

(* What a request or a sweep has checked still holds when it writes; the   *)
(* hold of a seller is that of the orders whose money is held, and none of *)
(* these has been paid out.                                                *)
Serial ==
  /\ \A j, k \in Workers : j # k => job[j] = Idle \/ job[k] = Idle
  /\ sweep # {} => \A k \in Workers : job[k] = Idle
  /\ \A k \in Workers : JobFits(k)
  /\ \A o \in sweep : order[o].status = "PENDING_DELIVERY"
  /\ \A o \in Held : PaidTo(o) = {}
  /\ \A o \in Placed : order[o].qty > 0
  /\ HeldAccounted
  /\ NotOversold

LEMMA InitSerial == EscrowInit => Serial
<1> SUFFICES ASSUME EscrowInit PROVE Serial
  OBVIOUS
<1>1. Held = {} /\ Placed = {} /\ sweep = {} /\ \A k \in Workers : job[k] = Idle
  BY DEF EscrowInit, Held, Placed
<1>2. \A f : SumOf(order, f, Held) = 0
  <2>1. \A f : {o \in Held : order[o].offer = f} = {}
    BY <1>1
  <2> QED
    BY <2>1, SumEmpty DEF SumOf
<1>3. \A f \in Offers : frozen[f] = 0 /\ offer[f].available >= 0
  BY EscrowAssumption DEF EscrowInit
<1> QED
  BY <1>1, <1>2, <1>3 DEF Serial, JobFits, HeldAccounted, NotOversold

LEMMA HeldFinite ==
  ASSUME Accounts
  PROVE  /\ Held \in SUBSET Orders /\ Held \subseteq Placed /\ IsFiniteSet(Held)
         /\ \A o \in Orders : order[o].qty \in Nat /\ order[o].offer \in Offers
<1>1. Held \in SUBSET Orders /\ Held \subseteq Placed
  BY DEF Held, Placed
<1> QED
  BY <1>1, FS_Subset DEF Accounts, OrdersExist, Shapes

LEMMA HeldKept ==
  ASSUME Accounts, HeldAccounted, frozen' = frozen, Held' = Held,
         \A o \in Held : order'[o].qty = order[o].qty /\ order'[o].offer = order[o].offer
  PROVE  HeldAccounted'
<1> SUFFICES ASSUME NEW f \in Offers PROVE frozen'[f] = SumOf(order', f, Held')
  BY DEF HeldAccounted, SumOf
<1>1. \A o \in Held : /\ order[o].qty \in Int
                      /\ order'[o].qty = order[o].qty /\ order'[o].offer = order[o].offer
  BY HeldFinite
<1>2. SumOf(order', f, Held) = SumOf(order, f, Held)
  BY <1>1, HeldFinite, SumOfSame
<1> QED
  BY <1>2 DEF HeldAccounted

LEMMA HeldAdded ==
  ASSUME Accounts, HeldAccounted, NEW x \in Orders, x \notin Held, Held' = Held \cup {x},
         \A o \in Orders \ {x} :
           order'[o].qty = order[o].qty /\ order'[o].offer = order[o].offer,
         order'[x].qty \in Nat,
         \A f \in Offers :
           frozen'[f] = frozen[f] + IF order'[x].offer = f THEN order'[x].qty ELSE 0
  PROVE  HeldAccounted'
<1> SUFFICES ASSUME NEW f \in Offers PROVE frozen'[f] = SumOf(order', f, Held')
  BY DEF HeldAccounted, SumOf
<1>1. \A o \in Held : /\ order[o].qty \in Int
                      /\ order'[o].qty = order[o].qty /\ order'[o].offer = order[o].offer
  BY HeldFinite
<1>2. SumOf(order', f, Held \cup {x}) =
        SumOf(order, f, Held) + IF order'[x].offer = f THEN order'[x].qty ELSE 0
  BY <1>1, HeldFinite, SumOfAdd
<1> QED
  BY <1>2 DEF HeldAccounted

(* A held order has its quantity in the hold of its offer, and takes it    *)
(* out when it leaves.                                                     *)
LEMMA HeldRemoved ==
  ASSUME Accounts, HeldAccounted, NEW x \in Held
  PROVE  /\ frozen[order[x].offer] >= order[x].qty
         /\ /\ Held' = Held \ {x}
            /\ \A o \in Orders :
                 order'[o].qty = order[o].qty /\ order'[o].offer = order[o].offer
            /\ \A f \in Offers :
                 frozen'[f] = frozen[f] - IF order[x].offer = f THEN order[x].qty ELSE 0
            => HeldAccounted'
<1> DEFINE S == Held \ {x}
<1>1. /\ S \in SUBSET Orders /\ IsFiniteSet(S) /\ x \notin S /\ S \cup {x} = Held
      /\ x \in Orders /\ order[x].qty \in Nat /\ order[x].qty \in Int
      /\ order[x].offer \in Offers
      /\ \A o \in S : order[o].qty \in Int /\ order[o].qty \in Nat
  BY HeldFinite, FS_Subset
<1> HIDE DEF S
<1>2. \A f : /\ SumOf(order, f, S) \in Int
             /\ SumOf(order, f, Held) =
                  SumOf(order, f, S) + IF order[x].offer = f THEN order[x].qty ELSE 0
  <2> SUFFICES ASSUME NEW f
               PROVE  /\ SumOf(order, f, S) \in Int
                      /\ SumOf(order, f, S \cup {x}) =
                           SumOf(order, f, S) + IF order[x].offer = f THEN order[x].qty ELSE 0
    BY <1>1
  <2>1. \A o \in S : /\ order[o].qty \in Int
                    /\ order[o].qty = order[o].qty /\ order[o].offer = order[o].offer
    BY <1>1
  <2>2. SumOf(order, f, S) \in Int
    BY <1>1, <2>1, SumOfSame
  <2>3. SumOf(order, f, S \cup {x}) =
          SumOf(order, f, S) + IF order[x].offer = f THEN order[x].qty ELSE 0
    BY <1>1, <2>1, SumOfAdd
  <2> QED
    BY <2>2, <2>3
<1>3. frozen[order[x].offer] >= order[x].qty
  <2>1. PICK g \in Offers : g = order[x].offer
    BY <1>1
  <2>2. SumOf(order, g, S) >= 0
    <3> DEFINE p == [o \in Orders |-> order[o].qty]
               T == {o \in S : order[o].offer = g}
    <3>1. IsFiniteSet(T) /\ \A o \in T : p[o] \in Nat
      BY <1>1, FS_Subset
    <3>2. SumOf(order, g, S) = SumFunctionOnSet(p, T)
      BY DEF SumOf
    <3> HIDE DEF p, T
    <3>3. SumFunctionOnSet(p, T) \in Nat
      BY <3>1, SumNat
    <3> QED
      BY <3>2, <3>3
  <2>3. frozen[g] = SumOf(order, g, Held)
    BY DEF HeldAccounted
  <2>4. SumOf(order, g, Held) = SumOf(order, g, S) + order[x].qty /\ SumOf(order, g, S) \in Int
    BY <1>2, <2>1
  <2> QED
    BY <1>1, <2>1, <2>2, <2>3, <2>4
<1>4. ASSUME Held' = Held \ {x},
             \A o \in Orders :
               order'[o].qty = order[o].qty /\ order'[o].offer = order[o].offer,
             \A f \in Offers :
               frozen'[f] = frozen[f] - IF order[x].offer = f THEN order[x].qty ELSE 0
      PROVE  HeldAccounted'
  <2> SUFFICES ASSUME NEW f \in Offers PROVE frozen'[f] = SumOf(order', f, Held')
    BY DEF HeldAccounted, SumOf
  <2>1. \A o \in S : /\ order[o].qty \in Int
                    /\ order'[o].qty = order[o].qty /\ order'[o].offer = order[o].offer
    BY <1>1, <1>4
  <2>2. SumOf(order', f, S) = SumOf(order, f, S)
    BY <1>1, <2>1, SumOfSame
  <2>3. Held' = S
    BY <1>4 DEF S
  <2>4. frozen[f] = SumOf(order, f, Held)
    BY DEF HeldAccounted
  <2> DEFINE d == IF order[x].offer = f THEN order[x].qty ELSE 0
  <2>5. d \in Int /\ frozen'[f] = frozen[f] - d
    BY <1>1, <1>4
  <2>6. SumOf(order, f, Held) = SumOf(order, f, S) + d /\ SumOf(order, f, S) \in Int
    BY <1>2
  <2> HIDE DEF d
  <2> QED
    BY <2>2, <2>3, <2>4, <2>5, <2>6
<1> QED
  BY <1>3, <1>4

(* The part of Serial that is about the money.                             *)
MoneyOK ==
  /\ \A o \in Held : PaidTo(o) = {}
  /\ \A o \in Placed : order[o].qty > 0
  /\ HeldAccounted

(* A step that leaves every order in its place.                            *)
LEMMA MoneyKept ==
  ASSUME Accounts, Serial, refs' = refs, frozen' = frozen,
         \A o \in Orders :
           /\ order'[o].qty = order[o].qty /\ order'[o].offer = order[o].offer
           /\ \/ order'[o].status = order[o].status
              \/ /\ o \in Held
                 /\ order'[o].status \in {"PENDING_DELIVERY", "DELIVERED", "DISPUTED"}
  PROVE  MoneyOK' /\ UNCHANGED Promise!vars
<1>1. Held' = Held /\ Placed' = Placed
  BY DEF Held, Placed
<1>2. HeldAccounted'
  <2>1. \A o \in Held : order'[o].qty = order[o].qty /\ order'[o].offer = order[o].offer
    BY HeldFinite
  <2> QED
    BY <1>1, <2>1, HeldKept DEF Serial
<1>3. \A o : PaidTo(o)' = PaidTo(o)
  BY DEF PaidTo
<1>4. MoneyOK'
  BY <1>1, <1>2, <1>3 DEF MoneyOK, Serial, Placed
<1>5. \A o \in Orders : Place(o)' = Place(o)
  BY <1>1, <1>3 DEF Place, Held
<1> QED
  BY <1>3, <1>4, <1>5 DEF Promise!vars

(* A payout of an order whose money is held.                               *)
LEMMA MoneyOut ==
  ASSUME Accounts, Serial, NEW x \in Held, NEW leg \in Payouts, MovePayout(x, leg),
         NEW s \in {"COMPLETED", "CANCELLED"}, order' = [order EXCEPT ![x].status = s]
  PROVE  MoneyOK' /\ Promise!Next
<1>1. /\ x \in Orders /\ order[x].qty \in Nat /\ order[x].qty > 0 /\ PaidTo(x) = {}
      /\ order[x].offer \in Offers
  BY HeldFinite DEF Serial
<1>2. /\ order'[x].status = s
      /\ \A o \in Orders \ {x} : order'[o] = order[o]
      /\ \A o \in Orders : order'[o].qty = order[o].qty /\ order'[o].offer = order[o].offer
  BY <1>1 DEF Accounts, Shapes
<1>3. Held' = Held \ {x} /\ Placed' = Placed
  BY <1>1, <1>2 DEF Held, Placed
<1>4. PICK g \in Offers : g = order[x].offer
  BY <1>1
<1>5. PICK q \in Nat : q = order[x].qty /\ q > 0
  BY <1>1
<1>6. /\ refs' = refs \cup {<<x, leg>>} /\ <<x, leg>> \notin refs
      /\ frozen' = [frozen EXCEPT ![g] = frozen[g] - q]
  BY <1>4, <1>5 DEF MovePayout
<1>7. /\ \A f \in Offers :
           frozen'[f] = frozen[f] - IF order[x].offer = f THEN order[x].qty ELSE 0
      /\ frozen[g] \in Int /\ frozen'[g] = frozen[g] - q
  BY <1>4, <1>5, <1>6 DEF Accounts, Shapes
<1>8. frozen[g] >= q /\ HeldAccounted'
  BY <1>2, <1>3, <1>4, <1>5, <1>7, HeldRemoved DEF Serial
<1>9. /\ PaidTo(x)' = {leg}
      /\ \A o \in Orders \ {x} : PaidTo(o)' = PaidTo(o)
  BY <1>1, <1>6 DEF PaidTo
<1>10. MoneyOK'
  BY <1>1, <1>2, <1>3, <1>8, <1>9 DEF MoneyOK, Serial, Held, Placed
<1>11. /\ Place(x) = "held" /\ Place(x)' \in {"seller", "buyer"}
       /\ \A o \in Orders \ {x} : Place(o)' = Place(o)
  BY <1>2, <1>3, <1>9 DEF Place
<1>12. PICK to \in {"seller", "buyer"} : to = Place(x)'
  BY <1>11
<1>13. Cardinality(PaidTo(x)) = 0 /\ Cardinality(PaidTo(x)') = 1
  BY <1>1, <1>9, FS_EmptySet, FS_Singleton
<1>14. Promise!PayOut(x, g, q, to)
  <2>1. [o \in Orders |-> Place(o)]' = [[o \in Orders |-> Place(o)] EXCEPT ![x] = to]
    BY <1>1, <1>11, <1>12
  <2>2. [o \in Orders |-> Cardinality(PaidTo(o))]' =
          [[o \in Orders |-> Cardinality(PaidTo(o))] EXCEPT
             ![x] = [o \in Orders |-> Cardinality(PaidTo(o))][x] + 1]
    <3>1. \A o \in Orders :
            Cardinality(PaidTo(o)') =
              IF o = x THEN Cardinality(PaidTo(x)) + 1 ELSE Cardinality(PaidTo(o))
      BY <1>9, <1>13
    <3> QED
      BY <1>1, <3>1
  <2> QED
    BY <1>1, <1>6, <1>8, <1>11, <2>1, <2>2 DEF Promise!PayOut
<1>15. q = frozen[g] - frozen'[g]
  BY <1>7
<1> QED
  BY <1>1, <1>5, <1>10, <1>12, <1>14, <1>15 DEF Promise!Next

(* A new order, whose money is held from now on or has gone at once.       *)
LEMMA MoneyIn ==
  ASSUME Accounts, Serial, NEW x \in Orders, x \notin Placed,
         NEW g \in Offers, NEW q \in Nat, q > 0,
         NEW s \in {"PENDING_DELIVERY", "COMPLETED"},
         order' = [order EXCEPT ![x].status = s, ![x].offer = g, ![x].qty = q],
         refs' = refs \cup {<<x, IF s = "COMPLETED" THEN "SELLERRECV" ELSE "ESCROW">>},
         frozen' = IF s = "COMPLETED" THEN frozen ELSE [frozen EXCEPT ![g] = @ + q]
  PROVE  MoneyOK' /\ Promise!Next
<1>1. /\ order'[x].status = s /\ order'[x].qty = q /\ order'[x].offer = g
      /\ \A o \in Orders \ {x} : order'[o] = order[o]
  BY DEF Accounts, Shapes
<1>2. order[x].status = "none" /\ x \notin Held /\ Placed' = Placed \cup {x}
  BY <1>1 DEF Placed, Held
<1>3. Held' = IF s = "COMPLETED" THEN Held ELSE Held \cup {x}
  BY <1>1, <1>2 DEF Held
<1>4. \A o \in Orders : PaidTo(o)' = PaidTo(o)
  BY DEF PaidTo, Payouts
<1>5. PaidTo(x) = {}
  BY <1>2 DEF PaidTo, Accounts, OrdersExist, Legs
<1>6. \A f \in Offers :
        /\ frozen[f] \in Int
        /\ frozen'[f] = frozen[f] + IF s # "COMPLETED" /\ g = f THEN q ELSE 0
  BY DEF Accounts, Shapes
<1>7. /\ Place(x) = "none" /\ Place(x)' = IF s = "COMPLETED" THEN "seller" ELSE "held"
      /\ \A o \in Orders \ {x} : Place(o)' = Place(o)
  BY <1>1, <1>2, <1>3, <1>4 DEF Place
<1>8. [o \in Orders |-> Cardinality(PaidTo(o))]' = [o \in Orders |-> Cardinality(PaidTo(o))]
  BY <1>4
<1>9. CASE s = "COMPLETED"
  <2>1. HeldAccounted'
    <3>1. frozen' = frozen /\ Held' = Held
      BY <1>3, <1>9
    <3>2. \A o \in Held : order'[o].qty = order[o].qty /\ order'[o].offer = order[o].offer
      BY <1>1, <1>2, HeldFinite
    <3> QED
      BY <3>1, <3>2, HeldKept DEF Serial
  <2>2. MoneyOK'
    BY <1>1, <1>2, <1>3, <1>4, <1>9, <2>1 DEF MoneyOK, Serial, Held, Placed
  <2>3. [o \in Orders |-> Place(o)]' = [[o \in Orders |-> Place(o)] EXCEPT ![x] = "seller"]
    BY <1>7, <1>9
  <2>4. Promise!Instant(x)
    BY <1>7, <1>8, <1>9, <2>3 DEF Promise!Instant
  <2> QED
    BY <2>2, <2>4 DEF Promise!Next
<1>10. CASE s # "COMPLETED"
  <2>1. HeldAccounted'
    <3>1. /\ Held' = Held \cup {x} /\ x \notin Held /\ order'[x].qty \in Nat
          /\ \A o \in Orders \ {x} :
               order'[o].qty = order[o].qty /\ order'[o].offer = order[o].offer
          /\ \A f \in Offers :
               frozen'[f] = frozen[f] + IF order'[x].offer = f THEN order'[x].qty ELSE 0
      BY <1>1, <1>2, <1>3, <1>6, <1>10
    <3> QED
      BY <3>1, HeldAdded DEF Serial
  <2>2. MoneyOK'
    BY <1>1, <1>2, <1>3, <1>4, <1>5, <1>10, <2>1 DEF MoneyOK, Serial, Held, Placed
  <2>3. [o \in Orders |-> Place(o)]' = [[o \in Orders |-> Place(o)] EXCEPT ![x] = "held"]
    BY <1>7, <1>10
  <2>4. Promise!Hold(x, g, q)
    BY <1>7, <1>8, <1>10, <2>3 DEF Promise!Hold
  <2>5. q = frozen'[g] - frozen[g]
    BY <1>6, <1>10
  <2> QED
    BY <2>2, <2>4, <2>5 DEF Promise!Next
<1> QED
  BY <1>9, <1>10

(* The handler that ends was the only one, and there was no sweep.         *)
LEMMA HandlerAlone ==
  ASSUME Accounts, Serial, NEW k \in Workers, job[k] # Idle, Finish(k), sweep' = sweep
  PROVE  sweep' = {} /\ \A j \in Workers : job'[j] = Idle
<1>1. job' = [job EXCEPT ![k] = Idle]
  BY DEF Finish
<1> QED
  BY <1>1 DEF Accounts, Shapes, Serial

LEMMA SerialFromMoney ==
  ASSUME MoneyOK', NotOversold', sweep' = {} \/ \A k \in Workers : job'[k] = Idle,
         \A j, k \in Workers : j # k => job'[j] = Idle \/ job'[k] = Idle,
         \A k \in Workers : JobFits(k)',
         \A o \in sweep' : order'[o].status = "PENDING_DELIVERY"
  PROVE  Serial'
BY DEF Serial, MoneyOK

LEMMA SerialWhenIdle ==
  ASSUME MoneyOK', NotOversold', \A k \in Workers : job'[k] = Idle,
         \A o \in sweep' : order'[o].status = "PENDING_DELIVERY"
  PROVE  Serial'
BY DEF Serial, MoneyOK, JobFits

LEMMA StepSerial ==
  Accounts /\ Serial /\ [SerialNext]_escrowVars => Serial' /\ [Promise!Next]_(Promise!vars)
<1> SUFFICES ASSUME Accounts, Serial, [SerialNext]_escrowVars
             PROVE  Serial' /\ [Promise!Next]_(Promise!vars)
  OBVIOUS
<1>1. CASE UNCHANGED escrowVars
  <2>1. MoneyOK' /\ UNCHANGED Promise!vars
    BY <1>1, MoneyKept DEF escrowVars
  <2>2. Serial'
    BY <1>1, <2>1 DEF escrowVars, Serial, MoneyOK, JobFits, NotOversold
  <2> QED
    BY <2>1, <2>2
<1>2. CASE Quiet /\ FindOverdue
  <2>1. /\ UNCHANGED <<offer, order, refs, frozen, job>>
        /\ \A k \in Workers : job[k] = Idle
        /\ \A o \in sweep' : order[o].status = "PENDING_DELIVERY"
    BY <1>2 DEF Quiet, FindOverdue, Overdue
  <2>2. MoneyOK' /\ UNCHANGED Promise!vars
    BY <2>1, MoneyKept
  <2>3. NotOversold'
    BY <2>1 DEF Serial, NotOversold
  <2> QED
    BY <2>1, <2>2, <2>3, SerialWhenIdle
<1>3. ASSUME Quiet, NEW k \in Workers, NEW x \in Jobs, job' = [job EXCEPT ![k] = x],
             UNCHANGED <<offer, order, refs, frozen, sweep>>,
             IF x.op = "create" THEN x.qty <= offer[x.offer].available
             ELSE order[x.order].status \in Demands[x.op]
      PROVE  Serial' /\ UNCHANGED Promise!vars
  <2>1. /\ sweep' = {} /\ job'[k] = x
        /\ \A j \in Workers \ {k} : job'[j] = Idle
    BY <1>3 DEF Quiet, Accounts, Shapes
  <2>2. MoneyOK' /\ UNCHANGED Promise!vars
    BY <1>3, MoneyKept
  <2>3. NotOversold'
    BY <1>3 DEF Serial, NotOversold
  <2>4. \A j \in Workers : JobFits(j)'
    BY <1>3, <2>1 DEF JobFits
  <2>5. \A i, j \in Workers : i # j => job'[i] = Idle \/ job'[j] = Idle
    BY <2>1
  <2> QED
    BY <2>1, <2>2, <2>3, <2>4, <2>5, SerialFromMoney
<1>4. ASSUME Quiet, NEW k \in Workers, NEW o \in Orders, NEW f \in Offers,
             NEW q \in 1..MaxQty, ReadOffer(k, o, f, q)
      PROVE  Serial' /\ UNCHANGED Promise!vars
  <2> DEFINE x == [op |-> "create", order |-> o, offer |-> f, qty |-> q]
  <2>1. /\ x \in Jobs /\ x.op = "create" /\ x.offer = f /\ x.qty = q
        /\ job' = [job EXCEPT ![k] = x] /\ q <= offer[f].available
        /\ UNCHANGED <<offer, order, refs, frozen, sweep>>
    BY <1>4 DEF ReadOffer, Jobs
  <2> HIDE DEF x
  <2> QED
    BY <1>3, <1>4, <2>1
<1>5. ASSUME Quiet, NEW k \in Workers, NEW o \in Orders, NEW op \in DOMAIN Demands,
             ReadOrder(k, o, op)
      PROVE  Serial' /\ UNCHANGED Promise!vars
  <2> DEFINE x == [op |-> op, order |-> o]
  <2>1. /\ x \in Jobs /\ x.op = op /\ x.op # "create" /\ x.order = o
        /\ job' = [job EXCEPT ![k] = x] /\ order[o].status \in Demands[op]
        /\ UNCHANGED <<offer, order, refs, frozen, sweep>>
    BY <1>5, DemandedOps DEF ReadOrder, Jobs
  <2> HIDE DEF x
  <2> QED
    BY <1>3, <1>5, <2>1
<1>6. ASSUME NEW k \in Workers, SettleCryptoOrderInstantly(k) \/ HoldGiftCardOrderInEscrow(k)
      PROVE  Serial' /\ Promise!Next
  <2>1. /\ job[k] # Idle /\ job[k].op = "create" /\ Finish(k) /\ sweep' = sweep
        /\ job[k].order \in Orders /\ job[k].order \notin Placed
        /\ job[k].offer \in Offers /\ job[k].qty \in 1..MaxQty
        /\ job[k].qty <= offer[job[k].offer].available
    BY <1>6, JobShape
    DEF SettleCryptoOrderInstantly, HoldGiftCardOrderInEscrow, Accounts, OrdersExist, JobOK,
        Serial, JobFits
  <2>2. PICK x \in Orders : x = job[k].order
    BY <2>1
  <2>3. PICK g \in Offers : g = job[k].offer
    BY <2>1
  <2>4. PICK q \in Nat : q = job[k].qty /\ q > 0
    BY <2>1, EscrowAssumption
  <2>5. PICK s \in {"COMPLETED", "PENDING_DELIVERY"} :
          /\ order' = [order EXCEPT ![x].status = s, ![x].offer = g, ![x].qty = q]
          /\ offer' = [offer EXCEPT ![g].available = offer[g].available - q]
          /\ refs' = refs \cup {<<x, IF s = "COMPLETED" THEN "SELLERRECV" ELSE "ESCROW">>}
          /\ frozen' = IF s = "COMPLETED" THEN frozen ELSE [frozen EXCEPT ![g] = @ + q]
    BY <1>6, <2>2, <2>3, <2>4
    DEF SettleCryptoOrderInstantly, HoldGiftCardOrderInEscrow, PlaceOrder
  <2>6. MoneyOK' /\ Promise!Next
    BY <2>1, <2>2, <2>4, <2>5, MoneyIn
  <2>7. NotOversold'
    <3>1. offer[g].available \in Int /\ offer'[g].available = offer[g].available - q
          /\ \A f \in Offers \ {g} : offer'[f] = offer[f]
      BY <2>5 DEF Accounts, Shapes
    <3>2. q <= offer[g].available
      BY <2>1, <2>3, <2>4
    <3>3. \A f \in Offers : offer[f].available >= 0
      BY DEF Serial, NotOversold
    <3> QED
      BY <3>1, <3>2, <3>3 DEF NotOversold
  <2>8. sweep' = {} /\ \A j \in Workers : job'[j] = Idle
    BY <2>1, HandlerAlone
  <2> QED
    BY <2>6, <2>7, <2>8, SerialWhenIdle
<1>7. ASSUME NEW k \in Workers, DeliverGiftCardCode(k) \/ RaiseDispute(k)
      PROVE  Serial' /\ UNCHANGED Promise!vars
  <2>1. PICK op \in {"deliver", "dispute"} : Serves(k, op)
    BY <1>7 DEF DeliverGiftCardCode, RaiseDispute
  <2>2. /\ job[k] # Idle /\ job[k].op = op /\ job[k].order \in Orders
        /\ order[job[k].order].status \in Demands[op]
    BY <2>1, JobShape DEF Serves, Serial, JobFits, Accounts
  <2>3. PICK x \in Orders : x = job[k].order
    BY <2>2
  <2>4. x \in Held
    BY <2>2, <2>3 DEF Demands, Held
  <2>5. /\ Finish(k) /\ UNCHANGED <<offer, refs, frozen, sweep>>
        /\ \/ order' = [order EXCEPT ![x].status = "DELIVERED", ![x].code = TRUE]
           \/ order' = [order EXCEPT ![x].status = "DISPUTED", ![x].raised = TRUE]
    BY <1>7, <2>3 DEF DeliverGiftCardCode, RaiseDispute
  <2>6. \A o \in Orders :
          /\ order'[o].qty = order[o].qty /\ order'[o].offer = order[o].offer
          /\ \/ order'[o].status = order[o].status
             \/ /\ o \in Held
                /\ order'[o].status \in {"PENDING_DELIVERY", "DELIVERED", "DISPUTED"}
    <3>1. order \in [Orders -> [status : Statuses, offer : Offers, qty : Nat,
                                code : BOOLEAN, raised : BOOLEAN, overdue : BOOLEAN]]
      BY DEF Accounts, Shapes
    <3>2. \A o \in Orders \ {x} : order'[o] = order[o]
      BY <2>5, <3>1
    <3>3. /\ order'[x].qty = order[x].qty /\ order'[x].offer = order[x].offer
          /\ order'[x].status \in {"PENDING_DELIVERY", "DELIVERED", "DISPUTED"}
      BY <2>5, <3>1
    <3> QED
      BY <2>4, <3>2, <3>3
  <2>7. MoneyOK' /\ UNCHANGED Promise!vars
    BY <2>5, <2>6, MoneyKept
  <2>8. sweep' = {} /\ \A j \in Workers : job'[j] = Idle
    BY <2>2, <2>5, HandlerAlone
  <2>9. NotOversold'
    BY <2>5 DEF Serial, NotOversold
  <2> QED
    BY <2>7, <2>8, <2>9, SerialWhenIdle
<1>8. ASSUME NEW k \in Workers, ConfirmDelivery(k) \/ ResolveDispute(k)
      PROVE  Serial' /\ Promise!Next
  <2>1. PICK op \in {"confirm", "resolveSeller", "resolveBuyer"} : Serves(k, op)
    BY <1>8 DEF ConfirmDelivery, ResolveDispute
  <2>2. /\ job[k] # Idle /\ job[k].op = op /\ job[k].order \in Orders
        /\ order[job[k].order].status \in Demands[op]
    BY <2>1, JobShape DEF Serves, Serial, JobFits, Accounts
  <2>3. PICK x \in Orders : x = job[k].order
    BY <2>2
  <2>4. x \in Held
    BY <2>2, <2>3 DEF Demands, Held
  <2>5. /\ Finish(k) /\ UNCHANGED <<offer, sweep>>
        /\ \E leg \in Payouts, s \in {"COMPLETED", "CANCELLED"} :
             MovePayout(job[k].order, leg) /\ order' = [order EXCEPT ![x].status = s]
    BY <1>8, <2>3 DEF ConfirmDelivery, ResolveDispute, Payouts
  <2>6. PICK leg \in Payouts, s \in {"COMPLETED", "CANCELLED"} :
          MovePayout(x, leg) /\ order' = [order EXCEPT ![x].status = s]
    BY <2>3, <2>5 DEF MovePayout
  <2>7. MoneyOK' /\ Promise!Next
    BY <2>4, <2>6, MoneyOut
  <2>8. sweep' = {} /\ \A j \in Workers : job'[j] = Idle
    BY <2>2, <2>5, HandlerAlone
  <2>9. NotOversold'
    BY <2>5 DEF Serial, NotOversold
  <2> QED
    BY <2>7, <2>8, <2>9, SerialWhenIdle
<1>9. ASSUME NEW k \in Workers, RequestFails(k)
      PROVE  Serial' /\ UNCHANGED Promise!vars
  <2>1. job[k] # Idle /\ Finish(k) /\ UNCHANGED <<offer, order, refs, frozen, sweep>>
    BY <1>9 DEF RequestFails
  <2>2. MoneyOK' /\ UNCHANGED Promise!vars
    BY <2>1, MoneyKept
  <2>3. sweep' = {} /\ \A j \in Workers : job'[j] = Idle
    BY <2>1, HandlerAlone
  <2>4. NotOversold'
    BY <2>1 DEF Serial, NotOversold
  <2> QED
    BY <2>2, <2>3, <2>4, SerialWhenIdle
<1>10. ASSUME NEW o \in Orders, ExpireOrder(o) PROVE Serial' /\ Promise!Next
  <2>1. /\ o \in sweep /\ MovePayout(o, "AUTOREFUND") /\ "AUTOREFUND" \in Payouts
        /\ order' = [order EXCEPT ![o].status = "CANCELLED"]
        /\ offer' = [offer EXCEPT ![order[o].offer].available = @ + order[o].qty]
        /\ sweep' = sweep \ {o} /\ job' = job
    BY <1>10 DEF ExpireOrder, Payouts
  <2>2. o \in Held /\ \A k \in Workers : job[k] = Idle
    BY <2>1 DEF Serial, Held
  <2>3. MoneyOK' /\ Promise!Next
    BY <2>1, <2>2, MoneyOut
  <2>4. \A p \in sweep' : order'[p].status = "PENDING_DELIVERY"
    BY <2>1 DEF Serial, Accounts, Shapes
  <2>5. NotOversold'
    <3>1. /\ order[o].offer \in Offers /\ order[o].qty \in Nat
          /\ \A f \in Offers : offer[f].available \in Int /\ offer[f].available >= 0
      BY HeldFinite DEF Serial, NotOversold, Accounts, Shapes
    <3>2. \A f \in Offers :
            offer'[f].available = offer[f].available
              + IF f = order[o].offer THEN order[o].qty ELSE 0
      BY <2>1, <3>1 DEF Accounts, Shapes
    <3> QED
      BY <3>1, <3>2 DEF NotOversold
  <2> QED
    BY <2>1, <2>2, <2>3, <2>4, <2>5, SerialWhenIdle
<1>11. CASE SweepFails
  <2>1. /\ sweep # {} /\ sweep' = {} /\ UNCHANGED <<offer, order, refs, frozen, job>>
    BY <1>11 DEF SweepFails
  <2>2. MoneyOK' /\ UNCHANGED Promise!vars
    BY <2>1, MoneyKept
  <2>3. NotOversold' /\ \A k \in Workers : job'[k] = Idle
    BY <2>1 DEF Serial, NotOversold
  <2> QED
    BY <2>1, <2>2, <2>3, SerialWhenIdle
<1>12. ASSUME UNCHANGED <<refs, frozen, job, sweep>>,
              \A f \in Offers : offer'[f].available = offer[f].available,
              \A o \in Orders : /\ order'[o].status = order[o].status
                                /\ order'[o].qty = order[o].qty
                                /\ order'[o].offer = order[o].offer
       PROVE  Serial' /\ UNCHANGED Promise!vars
  <2>1. MoneyOK' /\ UNCHANGED Promise!vars
    BY <1>12, MoneyKept
  <2>2. NotOversold'
    BY <1>12 DEF Serial, NotOversold
  <2>3. \A k \in Workers : JobFits(k)'
    <3> SUFFICES ASSUME NEW k \in Workers, job[k] # Idle PROVE JobFits(k)'
      BY <1>12 DEF JobFits
    <3>1. JobFits(k)
      BY DEF Serial
    <3> QED
      BY <1>12, <3>1, JobShape, DemandedOps DEF JobFits, Accounts
  <2>4. \A o \in sweep' : order'[o].status = "PENDING_DELIVERY"
    BY <1>12 DEF Serial, Accounts, Shapes
  <2>5. /\ sweep' = {} \/ \A k \in Workers : job'[k] = Idle
        /\ \A j, k \in Workers : j # k => job'[j] = Idle \/ job'[k] = Idle
    BY <1>12 DEF Serial
  <2> QED
    BY <2>1, <2>2, <2>3, <2>4, <2>5, SerialFromMoney
<1>13. CASE Environment
  <2>1. CASE \E f \in Offers, s \in {"ACTIVE", "PAUSED"} : SetOfferStatus(f, s)
    BY <1>12, <2>1 DEF SetOfferStatus, Accounts, Shapes
  <2>2. CASE \E o \in Orders : PassDeadline(o)
    BY <1>12, <2>2 DEF PassDeadline, Accounts, Shapes
  <2> QED
    BY <1>13, <2>1, <2>2 DEF Environment
<1> QED
  BY <1>1, <1>2, <1>4, <1>5, <1>6, <1>7, <1>8, <1>9, <1>10, <1>11, <1>13
  DEF SerialNext, Start, Write

LEMMA SerialIsNext == [SerialNext]_escrowVars => [EscrowNext]_escrowVars
BY DEF SerialNext, EscrowNext

(* What the theorems below use of SerialSpec: not its fairness.            *)
LEMMA SerialInvariant == SerialSpec => [](Accounts /\ Serial)
BY InitAccounts, InitSerial, StepAccounts, StepSerial, SerialIsNext, PTL DEF SerialSpec

(* For any orders and offers, as long as no two requests and no sweep      *)
(* overlap: an offer is never sold beyond its quantity.                    *)
THEOREM NeverOversold == SerialSpec => []NotOversold
<1>1. Serial => NotOversold
  BY DEF Serial
<1> QED
  BY <1>1, SerialInvariant, PTL

(* As long as no two requests and no sweep overlap, P2PEscrow implements   *)
(* EscrowPromise: the money of each order is held from the order on and    *)
(* leaves the hold once, to the seller or to the buyer.                    *)
THEOREM PromiseKept == SerialSpec => KeepsPromise
<1>1. EscrowInit => Promise!Init
  <2> SUFFICES ASSUME EscrowInit PROVE Promise!Init
    OBVIOUS
  <2>1. \A o \in Orders : Place(o) = "none" /\ PaidTo(o) = {}
    BY DEF EscrowInit, Place, Held, PaidTo
  <2>2. \A o \in Orders : Cardinality(PaidTo(o)) = 0
    BY <2>1, FS_EmptySet
  <2> QED
    BY <2>1, <2>2 DEF EscrowInit, Promise!Init
<1>2. SerialSpec => [][Promise!Next]_(Promise!vars)
  BY SerialInvariant, StepSerial, PTL DEF SerialSpec
<1> QED
  BY <1>1, <1>2, PTL DEF SerialSpec, KeepsPromise, Promise!Spec

=============================================================================
