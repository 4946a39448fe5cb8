------------------------- MODULE PaymentsDeskProofs -------------------------
(***************************************************************************)
(* Proofs about PaymentsDesk, for any number of cards, purchases, invoices, *)
(* sessions and payments in progress: the wallet loses no more than its    *)
(* purchases and payments say, and as much unless two debits overlapped; a *)
(* session is paid once and its invoice says so; and a purchase that nothing *)
(* disturbed stays within the limit of its card.                           *)
(***************************************************************************)
EXTENDS PaymentsDesk, SumTheorems

USE PayerAssumption, CardsAssumption, CheckoutAssumption, DeskAssumption

-----------------------------------------------------------------------------
(* The cards.                                                              *)

Made == {p \in Purchases : purchase[p].stage # "none"}
Taken == {p \in Purchases : purchase[p].stage \in {"APPROVED", "past"}}

PurchaseRow == [card : Cards \cup {None}, amount : Amounts \cup {0},
                limit : Limits \cup {None}, stage : Running \cup Recorded \cup {"none"}]

(* A purchase that was made has a card and an amount, and there are        *)
(* finitely many; none is disturbed before it is made.                     *)
CardRows ==
  /\ CardsTypeOK
  /\ IsFiniteSet(Made)
  /\ \A p \in Made : purchase[p].card \in Cards /\ purchase[p].amount \in Amounts

(* What an undisturbed purchase has read still holds when it writes: it is *)
(* alone on its card, which is active and has the limit it knows, and once *)
(* it is checked there is room for it.                                     *)
Undisturbed ==
  \A p \in Purchases \ disturbed :
    LET q == purchase[p]
    IN  q.stage \in Running =>
          /\ card[q.card].status = "ACTIVE" /\ card[q.card].limit = q.limit
          /\ \A r \in RunningOn(q.card) : r = p
          /\ q.stage = "checked" => q.limit = None \/ Spent(q.card) + q.amount <= q.limit

CardInv == CardRows /\ Undisturbed

LEMMA AmountNat ==
  ASSUME CardRows
  PROVE  \A p \in Made : p \in Purchases /\ purchase[p].amount \in Nat
BY DEF CardRows, Made

(* A sum over purchases that were made is a natural number, and it is the  *)
(* same after a step that keeps their amounts.                             *)
LEMMA CostNat ==
  ASSUME CardRows, NEW S \in SUBSET Made
  PROVE  IsFiniteSet(S) /\ Cost(S) \in Nat
<1>1. IsFiniteSet(S)
  BY FS_Subset DEF CardRows
<1> DEFINE f == [p \in Purchases |-> purchase[p].amount]
<1>2. \A p \in S : f[p] \in Nat
  BY DEF CardRows, Made
<1> HIDE DEF f
<1>3. SumFunctionOnSet(f, S) \in Nat
  BY <1>1, <1>2, SumNat
<1> QED
  BY <1>1, <1>3 DEF f, Cost

LEMMA CostKept ==
  ASSUME CardRows, NEW S \in SUBSET Made, \A p \in S : purchase'[p].amount = purchase[p].amount
  PROVE  SumFunctionOnSet([p \in Purchases |-> purchase'[p].amount], S) = Cost(S)
<1> DEFINE f == [p \in Purchases |-> purchase[p].amount]
           g == [p \in Purchases |-> purchase'[p].amount]
<1>1. IsFiniteSet(S)
  BY CostNat
<1>2. \A p \in S : p \in Purchases /\ purchase[p].amount \in Nat
  BY AmountNat
<1>3. \A p \in S : f[p] \in Int /\ g[p] = f[p]
  BY <1>2
<1> HIDE DEF f, g
<1>4. SumFunctionOnSet(g, S) = SumFunctionOnSet(f, S)
  BY <1>1, <1>3, SumSame
<1> QED
  BY <1>4 DEF f, g, Cost

(* One purchase more costs its amount more.                                *)
LEMMA CostMore ==
  ASSUME CardRows, NEW S \in SUBSET Made, NEW x \in Made, x \notin S
  PROVE  Cost(S \cup {x}) = Cost(S) + purchase[x].amount
<1> DEFINE f == [p \in Purchases |-> purchase[p].amount]
<1>1. IsFiniteSet(S)
  BY CostNat
<1>2. \A p \in S \cup {x} : p \in Purchases /\ purchase[p].amount \in Nat
  BY AmountNat
<1>3. (\A p \in S : f[p] \in Int) /\ f[x] \in Int /\ f[x] = purchase[x].amount
  BY <1>2
<1> HIDE DEF f
<1>4. SumFunctionOnSet(f, S \cup {x}) = f[x] + SumFunctionOnSet(f, S)
  BY <1>1, <1>3, SumAdd
<1>5. SumFunctionOnSet(f, S) \in Int
  BY <1>1, <1>3, SumInt
<1> QED
  BY <1>3, <1>4, <1>5 DEF f, Cost

-----------------------------------------------------------------------------
(* What a purchase costs and the limit it has read are numbers.            *)
LEMMA PurchaseNumbers ==
  ASSUME CardInv, NEW q \in Purchases
  PROVE  purchase[q].amount \in Nat /\ purchase[q].limit \in Nat \cup {None}
<1>1. purchase[q] \in PurchaseRow
  BY DEF CardInv, CardRows, CardsTypeOK, PurchaseRow
<1>2. purchase[q].amount \in Amounts \cup {0} /\ purchase[q].limit \in Limits \cup {None}
  BY <1>1 DEF PurchaseRow
<1>3. \A n \in Amounts \cup {0} : n \in Nat
  OBVIOUS
<1>4. \A n \in Limits \cup {None} : n \in Nat \cup {None}
  OBVIOUS
<1> QED
  BY <1>2, <1>3, <1>4

(* A step after which the purchases are those from before, with the same   *)
(* cards, amounts and limits, and no more of them APPROVED.                *)
LEMMA SpendsNoMore ==
  ASSUME CardRows, NEW c, \A p \in Made : purchase'[p].amount = purchase[p].amount,
         \A p \in Purchases : purchase'[p].stage = "APPROVED" /\ purchase'[p].card = c =>
                                purchase[p].stage = "APPROVED" /\ purchase[p].card = c
  PROVE  Spent(c)' <= Spent(c) /\ Spent(c) \in Nat /\ Spent(c)' \in Nat
<1> DEFINE f == [p \in Purchases |-> purchase[p].amount]
<1>1. PICK S \in SUBSET Made :
        S = {p \in Purchases : purchase[p].card = c /\ purchase[p].stage = "APPROVED"}
  BY DEF Made
<1>2. PICK T \in SUBSET S :
        T = {p \in Purchases : purchase'[p].card = c /\ purchase'[p].stage = "APPROVED"}
  BY <1>1
<1>3. Spent(c) = Cost(S) /\ T \in SUBSET Made
  BY <1>1 DEF Spent
<1>4. Spent(c)' = SumFunctionOnSet([p \in Purchases |-> purchase'[p].amount], T)
  BY <1>2 DEF Spent, Cost
<1>5. Spent(c)' = Cost(T)
  BY <1>3, <1>4, CostKept
<1>6. IsFiniteSet(S) /\ Cost(S) \in Nat /\ Cost(T) \in Nat
  BY <1>3, CostNat
<1>7. Cost(T) <= Cost(S)
  <2>1. \A p \in S : p \in Purchases /\ purchase[p].amount \in Nat
    BY AmountNat
  <2>2. \A p \in S : f[p] \in Nat
    BY <2>1
  <2> HIDE DEF f
  <2>3. SumFunctionOnSet(f, T) <= SumFunctionOnSet(f, S)
    BY <1>6, <2>2, SumPart
  <2> QED
    BY <2>3 DEF f, Cost
<1> QED
  BY <1>3, <1>5, <1>6, <1>7

-----------------------------------------------------------------------------
(* The steps of the cards.                                                 *)

CardRow == [status : {"none", "ACTIVE", "FROZEN", "TERMINATED"}, limit : Limits \cup {None}]

(* A step that changes no purchase and lets no undisturbed one lose its    *)
(* card.                                                                   *)
LEMMA CardChanged ==
  ASSUME CardInv, NEW c \in Cards, NEW new \in CardRow, new.status # "none",
         card' = [card EXCEPT ![c] = new], purchase' = purchase,
         disturbed' = disturbed \cup RunningOn(c) \/ (disturbed' = disturbed /\ card[c].status = "none"),
         thawing' \cup gone' \subseteq thawing \cup gone \cup {c}
  PROVE  CardInv'
<1>1. /\ card \in [Cards -> CardRow] /\ card' \in [Cards -> CardRow]
      /\ card'[c] = new /\ \A d \in Cards \ {c} : card'[d] = card[d]
  BY DEF CardInv, CardRows, CardsTypeOK, CardRow
<1>2. disturbed' \subseteq disturbed \cup RunningOn(c)
  OBVIOUS
<1>3. \A p \in RunningOn(c) : p \in Purchases /\ purchase[p].card # None
  BY DEF RunningOn
<1>4. CardRows'
  <2>1. \A d \in thawing' \cup gone' : d \in Cards /\ card'[d].status # "none"
    BY <1>1 DEF CardInv, CardRows, CardsTypeOK
  <2>2. \A p \in disturbed' : p \in Purchases /\ purchase'[p].card # None
    BY <1>2, <1>3 DEF CardInv, CardRows, CardsTypeOK
  <2>3. CardsTypeOK'
    BY <1>1, <2>1, <2>2 DEF CardInv, CardRows, CardsTypeOK, CardRow
  <2>4. Made' = Made
    BY DEF Made
  <2> QED
    BY <2>3, <2>4 DEF CardInv, CardRows
<1>5. Undisturbed'
  <2> SUFFICES ASSUME NEW p \in Purchases, p \notin disturbed', purchase[p].stage \in Running
               PROVE  /\ card'[purchase[p].card].status = "ACTIVE"
                      /\ card'[purchase[p].card].limit = purchase[p].limit
                      /\ \A r \in RunningOn(purchase[p].card) : r = p
                      /\ purchase[p].stage = "checked" =>
                           \/ purchase[p].limit = None
                           \/ Spent(purchase[p].card) + purchase[p].amount <= purchase[p].limit
    BY DEF Undisturbed, RunningOn, Spent, Cost
  <2>1. p \in Made
    BY DEF Made, Running
  <2>2. purchase[p].card \in Cards
    BY <2>1 DEF CardInv, CardRows
  <2>3. /\ card[purchase[p].card].status = "ACTIVE"
        /\ card[purchase[p].card].limit = purchase[p].limit
        /\ \A r \in RunningOn(purchase[p].card) : r = p
        /\ purchase[p].stage = "checked" =>
             \/ purchase[p].limit = None
             \/ Spent(purchase[p].card) + purchase[p].amount <= purchase[p].limit
    BY DEF CardInv, Undisturbed
  <2>4. purchase[p].card # c
    BY <2>3 DEF RunningOn
  <2> QED
    BY <1>1, <2>2, <2>3, <2>4
<1> QED
  BY <1>4, <1>5 DEF CardInv

(* A purchase in progress goes a step further.                             *)
LEMMA PurchaseMoves ==
  ASSUME CardInv, NEW p \in Purchases, purchase[p].stage \in Running,
         NEW s \in {"checked"} \cup Recorded,
         purchase' = [purchase EXCEPT ![p].stage = s],
         s = "checked" => \/ purchase[p].limit = None
                          \/ Spent(purchase[p].card) + purchase[p].amount <= purchase[p].limit,
         UNCHANGED <<card, thawing, disturbed, gone>>
  PROVE  CardInv' /\ Made' = Made /\ \A q \in Purchases : purchase'[q].amount = purchase[q].amount
<1> DEFINE new == [purchase[p] EXCEPT !.stage = s]
<1>1. purchase \in [Purchases -> PurchaseRow] /\ purchase[p] \in PurchaseRow
  BY DEF CardInv, CardRows, CardsTypeOK, PurchaseRow
<1>2. /\ new \in PurchaseRow /\ new.stage = s /\ new.card = purchase[p].card
      /\ new.amount = purchase[p].amount /\ new.limit = purchase[p].limit
  BY <1>1 DEF PurchaseRow, Running
<1>3. purchase' = [purchase EXCEPT ![p] = new]
  OBVIOUS
<1> HIDE DEF new
<1>4. /\ purchase' \in [Purchases -> PurchaseRow]
      /\ \A q \in Purchases \ {p} : purchase'[q] = purchase[q]
      /\ purchase'[p].stage = s /\ purchase'[p].card = purchase[p].card
      /\ purchase'[p].amount = purchase[p].amount /\ purchase'[p].limit = purchase[p].limit
  BY <1>1, <1>2, <1>3
<1>5. \A q \in Purchases : /\ purchase'[q].card = purchase[q].card
                           /\ purchase'[q].amount = purchase[q].amount
                           /\ purchase'[q].limit = purchase[q].limit
  BY <1>4
<1>6. Made' = Made
  BY <1>4 DEF Made, Running, Recorded
<1>7. CardRows'
  <2>1. CardsTypeOK'
    BY <1>4, <1>5 DEF CardInv, CardRows, CardsTypeOK, PurchaseRow
  <2>2. \A q \in Made : q \in Purchases
    BY DEF Made
  <2> QED
    BY <1>5, <1>6, <2>1, <2>2 DEF CardInv, CardRows
<1>8. ASSUME NEW q \in Purchases, q \notin disturbed, purchase'[q].stage \in Running
      PROVE  /\ card[purchase[q].card].status = "ACTIVE"
             /\ card[purchase[q].card].limit = purchase[q].limit
             /\ \A r \in RunningOn(purchase[q].card)' : r = q
             /\ purchase'[q].stage = "checked" =>
                  \/ purchase[q].limit = None
                  \/ Spent(purchase[q].card)' + purchase[q].amount <= purchase[q].limit
  <2>1. purchase[q].stage \in Running
    BY <1>4, <1>8
  <2>2. /\ card[purchase[q].card].status = "ACTIVE"
        /\ card[purchase[q].card].limit = purchase[q].limit
        /\ \A r \in RunningOn(purchase[q].card) : r = q
        /\ purchase[q].stage = "checked" =>
             \/ purchase[q].limit = None
             \/ Spent(purchase[q].card) + purchase[q].amount <= purchase[q].limit
    BY <1>8, <2>1 DEF CardInv, Undisturbed
  <2>3. PICK c \in Cards : c = purchase[q].card
    BY <2>1 DEF CardInv, CardRows, Made, Running
  <2>4. \A r \in RunningOn(c)' : r \in RunningOn(c)
    BY <1>4 DEF RunningOn
  <2>5. s = "APPROVED" => purchase[p].card # c
    BY <1>4, <1>8, <2>2, <2>3 DEF RunningOn, Running
  <2>6. Spent(c)' <= Spent(c) /\ Spent(c) \in Nat /\ Spent(c)' \in Nat
    <3>1. \A r \in Purchases : purchase'[r].stage = "APPROVED" /\ purchase'[r].card = c =>
                                 purchase[r].stage = "APPROVED" /\ purchase[r].card = c
      BY <1>4, <2>5
    <3>2. \A r \in Made : purchase'[r].amount = purchase[r].amount
      BY <1>5 DEF Made
    <3> QED
      BY <3>1, <3>2, SpendsNoMore DEF CardInv
  <2>7. purchase'[q].stage = "checked" =>
          purchase[q].limit = None \/ Spent(c) + purchase[q].amount <= purchase[q].limit
    BY <1>4, <2>2, <2>3
  <2>8. purchase[q].amount \in Nat /\ purchase[q].limit \in Nat \cup {None}
    BY <1>8, PurchaseNumbers
  <2>9. purchase'[q].stage = "checked" =>
          purchase[q].limit = None \/ Spent(c)' + purchase[q].amount <= purchase[q].limit
    BY <2>6, <2>7, <2>8
  <2>10. RunningOn(purchase[q].card)' = RunningOn(c)' /\ Spent(purchase[q].card)' = Spent(c)'
    BY <1>5, <2>3
  <2> QED
    BY <1>5, <2>2, <2>3, <2>4, <2>9, <2>10
<1>9. Undisturbed'
  BY <1>5, <1>8 DEF Undisturbed
<1> QED
  BY <1>5, <1>6, <1>7, <1>9 DEF CardInv

(* A purchase is made: whoever else was at work on an active card is       *)
(* disturbed, and so is it.                                                *)
LEMMA ReadCardStep ==
  ASSUME CardInv, NEW p \in Purchases, NEW c \in Cards, NEW amount \in Amounts,
         ReadCard(p, c, amount)
  PROVE  CardInv' /\ UNCHANGED <<Taken, Cost(Taken)>>
<1> DEFINE new == [card |-> c, amount |-> amount, limit |-> card[c].limit,
                   stage |-> IF card[c].status = "ACTIVE" THEN "read" ELSE "DECLINED"]
<1>1. /\ card \in [Cards -> CardRow] /\ purchase \in [Purchases -> PurchaseRow]
      /\ disturbed \subseteq {q \in Purchases : purchase[q].card # None}
      /\ IsFiniteSet(Made)
  BY DEF CardInv, CardRows, CardsTypeOK, CardRow, PurchaseRow
<1>2. /\ new \in PurchaseRow /\ new.card = c /\ new.amount = amount
      /\ new.limit = card[c].limit
      /\ new.stage = IF card[c].status = "ACTIVE" THEN "read" ELSE "DECLINED"
  BY <1>1 DEF PurchaseRow, CardRow, Running, Recorded
<1>3. /\ purchase[p].stage = "none" /\ purchase' = [purchase EXCEPT ![p] = new]
      /\ UNCHANGED <<card, thawing, gone>>
  BY DEF ReadCard
<1> HIDE DEF new
<1>4. /\ purchase' \in [Purchases -> PurchaseRow] /\ purchase'[p] = new
      /\ \A q \in Purchases \ {p} : purchase'[q] = purchase[q]
  BY <1>1, <1>2, <1>3
<1>5. /\ disturbed \subseteq disturbed' /\ disturbed' \subseteq disturbed \cup RunningOn(c) \cup {p}
      /\ card[c].status = "ACTIVE" => RunningOn(c) = {} \/ RunningOn(c) \cup {p} \subseteq disturbed'
  BY DEF ReadCard
<1>6. Made' = Made \cup {p} /\ p \notin Made
  BY <1>2, <1>3, <1>4 DEF Made
<1>7. CardRows'
  <2>1. IsFiniteSet(Made')
    BY <1>1, <1>6, FS_AddElement
  <2>2. \A q \in disturbed' : q \in Purchases /\ purchase'[q].card # None
    <3>1. \A q \in RunningOn(c) : q \in Purchases /\ purchase[q].card = c
      BY DEF RunningOn
    <3> QED
      BY <1>1, <1>2, <1>4, <1>5, <3>1
  <2>3. CardsTypeOK'
    BY <1>3, <1>4, <2>2 DEF CardInv, CardRows, CardsTypeOK, PurchaseRow
  <2>4. \A q \in Made' : purchase'[q].card \in Cards /\ purchase'[q].amount \in Amounts
    BY <1>2, <1>4, <1>6 DEF CardInv, CardRows, Made
  <2> QED
    BY <2>1, <2>3, <2>4 DEF CardRows
<1>8. \A d, q : q \in Purchases /\ purchase'[q].card = d /\ purchase'[q].stage = "APPROVED" <=>
                q \in Purchases /\ purchase[q].card = d /\ purchase[q].stage = "APPROVED"
  BY <1>2, <1>3, <1>4
<1>9. \A q \in Made : purchase'[q].amount = purchase[q].amount
  BY <1>4, <1>6 DEF Made
<1>10. Undisturbed'
  <2> SUFFICES ASSUME NEW q \in Purchases, q \notin disturbed', purchase'[q].stage \in Running,
                      NEW d, d = purchase'[q].card
               PROVE  /\ card[d].status = "ACTIVE" /\ card[d].limit = purchase'[q].limit
                      /\ \A r \in RunningOn(d)' : r = q
                      /\ purchase'[q].stage = "checked" =>
                           \/ purchase'[q].limit = None
                           \/ Spent(d)' + purchase'[q].amount <= purchase'[q].limit
    BY <1>3 DEF Undisturbed
  <2>1. CASE q = p
    <3>1. card[c].status = "ACTIVE" /\ purchase'[q].stage = "read"
          /\ d = c /\ purchase'[q].limit = card[c].limit
      BY <1>2, <1>4, <2>1 DEF Running
    <3>2. RunningOn(c) = {}
      BY <1>5, <2>1, <3>1
    <3>3. \A r \in RunningOn(c)' : r = q
      BY <1>4, <2>1, <3>2 DEF RunningOn
    <3> QED
      BY <3>1, <3>3
  <2>2. CASE q # p
    <3>1. purchase'[q] = purchase[q] /\ q \notin disturbed /\ purchase[q].stage \in Running
      BY <1>4, <1>5, <2>2
    <3>2. d \in Cards /\ d = purchase[q].card
      BY <3>1 DEF CardInv, CardRows, Made, Running
    <3>3. /\ card[d].status = "ACTIVE" /\ card[d].limit = purchase[q].limit
          /\ \A r \in RunningOn(d) : r = q
          /\ purchase[q].stage = "checked" =>
               \/ purchase[q].limit = None
               \/ Spent(d) + purchase[q].amount <= purchase[q].limit
      BY <3>1, <3>2 DEF CardInv, Undisturbed
    <3>4. p \notin RunningOn(d)'
      <4>1. CASE d = c /\ card[c].status = "ACTIVE"
        BY <1>5, <3>1, <3>2, <4>1 DEF RunningOn
      <4>2. CASE d # c
        BY <1>2, <1>4, <4>2 DEF RunningOn
      <4> QED
        BY <3>3, <4>1, <4>2
    <3>5. \A r \in RunningOn(d)' : r = q
      BY <1>4, <3>3, <3>4 DEF RunningOn
    <3>6. Spent(d)' <= Spent(d) /\ Spent(d) \in Nat /\ Spent(d)' \in Nat
      BY <1>8, <1>9, SpendsNoMore DEF CardInv
    <3>7. purchase[q].amount \in Nat /\ purchase[q].limit \in Nat \cup {None}
      BY PurchaseNumbers
    <3>8. purchase[q].stage = "checked" =>
            purchase[q].limit = None \/ Spent(d)' + purchase[q].amount <= purchase[q].limit
      BY <3>3, <3>6, <3>7
    <3> QED
      BY <3>1, <3>2, <3>3, <3>5, <3>8
  <2> QED
    BY <2>1, <2>2
<1>11. Taken' = Taken /\ Cost(Taken)' = Cost(Taken)
  <2>1. PICK S \in SUBSET Made : S = Taken
    BY DEF Made, Taken
  <2>2. Taken' = S
    BY <1>2, <1>3, <1>4, <2>1 DEF Taken
  <2>3. \A q \in S : purchase'[q].amount = purchase[q].amount
    BY <1>9
  <2>4. SumFunctionOnSet([q \in Purchases |-> purchase'[q].amount], S) = Cost(S)
    BY <2>3, CostKept DEF CardInv
  <2> QED
    BY <2>1, <2>2, <2>4 DEF Cost
<1> QED
  BY <1>3, <1>7, <1>10, <1>11 DEF CardInv

(* The period ends: nothing approved counts any more.                      *)
LEMMA NewPeriodStep ==
  ASSUME CardInv, NewPeriod
  PROVE  CardInv' /\ UNCHANGED <<Taken, Cost(Taken)>>
<1>1. purchase \in [Purchases -> PurchaseRow]
  BY DEF CardInv, CardRows, CardsTypeOK, PurchaseRow
<1>2. /\ purchase' = [p \in Purchases |-> IF purchase[p].stage = "APPROVED"
                                          THEN [purchase[p] EXCEPT !.stage = "past"] ELSE purchase[p]]
      /\ UNCHANGED <<card, thawing, disturbed, gone>>
  BY DEF NewPeriod
<1>3. \A p \in Purchases :
        /\ purchase'[p] \in PurchaseRow
        /\ purchase'[p].card = purchase[p].card /\ purchase'[p].amount = purchase[p].amount
        /\ purchase'[p].limit = purchase[p].limit
        /\ purchase'[p].stage = IF purchase[p].stage = "APPROVED" THEN "past" ELSE purchase[p].stage
  BY <1>1, <1>2 DEF PurchaseRow, Recorded
<1>4. purchase' \in [Purchases -> PurchaseRow]
  <2>1. DOMAIN purchase' = Purchases /\ purchase' = [p \in Purchases |-> purchase'[p]]
    BY <1>2
  <2> QED
    BY <1>3, <2>1
<1>5. Made' = Made /\ Taken' = Taken
  BY <1>3 DEF Made, Taken
<1>6. CardRows'
  <2>1. CardsTypeOK'
    BY <1>2, <1>3, <1>4 DEF CardInv, CardRows, CardsTypeOK, PurchaseRow
  <2>2. \A q \in Made : q \in Purchases
    BY DEF Made
  <2> QED
    BY <1>3, <1>5, <2>1, <2>2 DEF CardInv, CardRows
<1>7. ASSUME NEW c PROVE Spent(c)' <= Spent(c) /\ Spent(c) \in Nat /\ Spent(c)' \in Nat
  <2>1. \A q \in Made : purchase'[q].amount = purchase[q].amount
    BY <1>3 DEF Made
  <2>2. \A q \in Purchases : purchase'[q].stage = "APPROVED" /\ purchase'[q].card = c =>
                               purchase[q].stage = "APPROVED" /\ purchase[q].card = c
    BY <1>3
  <2> QED
    BY <2>1, <2>2, SpendsNoMore DEF CardInv
<1>8. Undisturbed'
  <2> SUFFICES ASSUME NEW q \in Purchases, q \notin disturbed, purchase'[q].stage \in Running,
                      NEW d, d = purchase'[q].card
               PROVE  /\ card[d].status = "ACTIVE" /\ card[d].limit = purchase'[q].limit
                      /\ \A r \in RunningOn(d)' : r = q
                      /\ purchase'[q].stage = "checked" =>
                           \/ purchase'[q].limit = None
                           \/ Spent(d)' + purchase'[q].amount <= purchase'[q].limit
    BY <1>2 DEF Undisturbed
  <2>1. purchase'[q].stage = purchase[q].stage
    BY <1>3 DEF Running
  <2>2. d \in Cards /\ d = purchase[q].card
    BY <1>3, <2>1 DEF CardInv, CardRows, Made, Running
  <2>3. /\ card[d].status = "ACTIVE" /\ card[d].limit = purchase[q].limit
        /\ \A r \in RunningOn(d) : r = q
        /\ purchase[q].stage = "checked" =>
             \/ purchase[q].limit = None
             \/ Spent(d) + purchase[q].amount <= purchase[q].limit
    BY <2>1, <2>2 DEF CardInv, Undisturbed
  <2>4. \A r \in RunningOn(d)' : r \in RunningOn(d)
    BY <1>3 DEF RunningOn, Running
  <2>5. purchase[q].amount \in Nat /\ purchase[q].limit \in Nat \cup {None}
    BY PurchaseNumbers
  <2>6. purchase[q].stage = "checked" =>
          purchase[q].limit = None \/ Spent(d)' + purchase[q].amount <= purchase[q].limit
    BY <1>7, <2>3, <2>5
  <2> QED
    BY <1>3, <2>1, <2>2, <2>3, <2>4, <2>6
<1>9. Cost(Taken)' = Cost(Taken)
  <2>1. PICK S \in SUBSET Made : S = Taken
    BY DEF Made, Taken
  <2>2. \A q \in S : purchase'[q].amount = purchase[q].amount
    BY <1>3, <2>1 DEF Made
  <2>3. SumFunctionOnSet([q \in Purchases |-> purchase'[q].amount], S) = Cost(S)
    BY <2>2, CostKept DEF CardInv
  <2> QED
    BY <1>5, <2>1, <2>3 DEF Cost
<1> QED
  BY <1>2, <1>5, <1>6, <1>8, <1>9 DEF CardInv

LEMMA TakenNat == ASSUME CardRows PROVE Cost(Taken) \in Nat
<1>1. PICK S \in SUBSET Made : S = Taken
  BY DEF Made, Taken
<1>2. Cost(S) \in Nat
  BY CostNat
<1> QED
  BY <1>1, <1>2

(* The rows of the cards: issuing, freezing, thawing, ending, limits.      *)
LEMMA CardRequest ==
  ASSUME CardInv, NEW c \in Cards,
         \/ IssueCard(c) \/ Freeze(c) \/ ReadUnfreeze(c) \/ Unfreeze(c) \/ Terminate(c)
         \/ \E limit \in Limits \cup {None} : SetLimit(c, limit)
  PROVE  CardInv' /\ purchase' = purchase /\ UNCHANGED walletVars
<1>1. card \in [Cards -> CardRow]
  BY DEF CardInv, CardRows, CardsTypeOK, CardRow
<1>2. \A s \in {"ACTIVE", "FROZEN", "TERMINATED"} :
        [card[c] EXCEPT !.status = s] \in CardRow /\ [card[c] EXCEPT !.status = s].status # "none"
  BY <1>1 DEF CardRow
<1>3. \A limit \in Limits \cup {None} :
        /\ [card[c] EXCEPT !.limit = limit] \in CardRow
        /\ [card[c] EXCEPT !.limit = limit].status = card[c].status
  BY <1>1 DEF CardRow
<1>4. CASE ReadUnfreeze(c)
  <2>1. card[c].status # "none" /\ thawing' = thawing \cup {c}
        /\ UNCHANGED <<walletVars, card, purchase, disturbed, gone>>
    BY <1>4 DEF ReadUnfreeze
  <2>2. CardRows'
    BY <2>1 DEF CardInv, CardRows, CardsTypeOK, Made
  <2>3. Undisturbed'
    BY <2>1 DEF CardInv, Undisturbed, RunningOn, Spent, Cost
  <2> QED
    BY <2>1, <2>2, <2>3 DEF CardInv
<1>5. CASE IssueCard(c)
  <2> DEFINE new == [card[c] EXCEPT !.status = "ACTIVE"]
  <2>1. new \in CardRow /\ new.status # "none" /\ card' = [card EXCEPT ![c] = new]
        /\ card[c].status = "none" /\ UNCHANGED <<walletVars, purchase, thawing, disturbed, gone>>
    BY <1>2, <1>5 DEF IssueCard, payerVars
  <2> HIDE DEF new
  <2> QED
    BY <2>1, CardChanged
<1>6. ASSUME NEW new \in CardRow, new.status # "none", UpdateCard(c, new),
             thawing' \cup gone' \subseteq thawing \cup gone \cup {c}
      PROVE  CardInv' /\ purchase' = purchase /\ UNCHANGED walletVars
  BY <1>6, CardChanged DEF UpdateCard
<1>7. CASE Freeze(c) \/ Unfreeze(c) \/ Terminate(c)
  <2>1. PICK s \in {"ACTIVE", "FROZEN", "TERMINATED"} :
          /\ UpdateCard(c, [card[c] EXCEPT !.status = s])
          /\ thawing' \cup gone' \subseteq thawing \cup gone \cup {c}
    BY <1>7 DEF Freeze, Unfreeze, Terminate
  <2> QED
    BY <1>2, <1>6, <2>1
<1>8. ASSUME NEW limit \in Limits \cup {None}, SetLimit(c, limit)
      PROVE  CardInv' /\ purchase' = purchase /\ UNCHANGED walletVars
  <2>1. UpdateCard(c, [card[c] EXCEPT !.limit = limit]) /\ card[c].status # "none"
        /\ thawing' \cup gone' \subseteq thawing \cup gone \cup {c}
    BY <1>8 DEF SetLimit, UpdateCard
  <2> QED
    BY <1>3, <1>6, <2>1
<1> QED
  BY <1>4, <1>5, <1>7, <1>8

LEMMA CheckLimitStep ==
  ASSUME CardInv, NEW p \in Purchases, CheckLimit(p)
  PROVE  CardInv' /\ UNCHANGED <<Taken, Cost(Taken)>>
<1>1. /\ purchase[p].stage = "read"
      /\ UNCHANGED <<card, thawing, disturbed, gone>>
  BY DEF CheckLimit
<1>2. PICK s \in {"DECLINED", "checked"} :
        /\ purchase' = [purchase EXCEPT ![p].stage = s]
        /\ s = "checked" =>
             ~(purchase[p].limit # None
                 /\ Spent(purchase[p].card) + purchase[p].amount > purchase[p].limit)
  BY DEF CheckLimit
<1>3. Spent(purchase[p].card) \in Nat
  <2>1. PICK S \in SUBSET Made : S = {q \in Purchases : purchase[q].card = purchase[p].card
                                                          /\ purchase[q].stage = "APPROVED"}
    BY DEF Made
  <2> QED
    BY <2>1, CostNat DEF CardInv, Spent
<1>4. s = "checked" => \/ purchase[p].limit = None
                       \/ Spent(purchase[p].card) + purchase[p].amount <= purchase[p].limit
  BY <1>2, <1>3, PurchaseNumbers
<1>5. CardInv' /\ Made' = Made /\ \A q \in Purchases : purchase'[q].amount = purchase[q].amount
  <2>1. purchase[p].stage \in Running /\ s \in {"checked"} \cup Recorded
    BY <1>1 DEF Running, Recorded
  <2> QED
    BY <1>1, <1>2, <1>4, <2>1, PurchaseMoves
<1>6. Taken' = Taken /\ [q \in Purchases |-> purchase'[q].amount] = [q \in Purchases |-> purchase[q].amount]
  BY <1>1, <1>2, <1>5 DEF Taken, CardInv, CardRows, CardsTypeOK
<1> QED
  BY <1>1, <1>5, <1>6 DEF Cost

LEMMA DeclineStep ==
  ASSUME CardInv, NEW p \in Purchases, Decline(p)
  PROVE  CardInv' /\ UNCHANGED <<Taken, Cost(Taken)>>
<1>1. /\ purchase[p].stage = "checked" /\ purchase' = [purchase EXCEPT ![p].stage = "DECLINED"]
      /\ UNCHANGED <<card, thawing, disturbed, gone>>
  BY DEF Decline
<1>2. CardInv' /\ Made' = Made /\ \A q \in Purchases : purchase'[q].amount = purchase[q].amount
  <2>1. purchase[p].stage \in Running /\ "DECLINED" \in {"checked"} \cup Recorded
    BY <1>1 DEF Running, Recorded
  <2> QED
    BY <1>1, <2>1, PurchaseMoves
<1>3. Taken' = Taken /\ [q \in Purchases |-> purchase'[q].amount] = [q \in Purchases |-> purchase[q].amount]
  BY <1>1, <1>2 DEF Taken, CardInv, CardRows, CardsTypeOK
<1> QED
  BY <1>1, <1>2, <1>3 DEF Cost

(* The transaction of a purchase: the debit, and the record that counts    *)
(* towards the limit from now on.                                          *)
LEMMA ApproveStep ==
  ASSUME CardInv, NEW p \in Purchases, Approve(p)
  PROVE  /\ CardInv' /\ Cost(Taken)' = Cost(Taken) + purchase[p].amount
         /\ purchase[p].stage = "checked" /\ purchase[p].amount \in Nat
         /\ \A q \in Purchases \ {p} : purchase'[q] = purchase[q]
         /\ p \notin disturbed =>
              /\ card[purchase[p].card].status = "ACTIVE"
              /\ \/ card[purchase[p].card].limit = None
                 \/ Spent(purchase[p].card)' <= card[purchase[p].card].limit
<1>1. /\ purchase[p].stage = "checked" /\ purchase' = [purchase EXCEPT ![p].stage = "APPROVED"]
      /\ UNCHANGED <<requests, card, thawing, disturbed, gone>>
  BY DEF Approve
<1>2. purchase[p].stage \in Running /\ "APPROVED" \in {"checked"} \cup Recorded
  BY <1>1 DEF Running, Recorded
<1>3. CardInv' /\ Made' = Made /\ \A q \in Purchases : purchase'[q].amount = purchase[q].amount
  BY <1>1, <1>2, PurchaseMoves
<1>4. /\ \A q \in Purchases \ {p} : purchase'[q] = purchase[q]
      /\ purchase'[p].stage = "APPROVED" /\ purchase'[p].card = purchase[p].card
      /\ [q \in Purchases |-> purchase'[q].amount] = [q \in Purchases |-> purchase[q].amount]
  BY <1>1, <1>3 DEF CardInv, CardRows, CardsTypeOK
<1>5. p \in Made /\ purchase[p].amount \in Nat
  BY <1>1, PurchaseNumbers DEF Made
<1>6. Cost(Taken)' = Cost(Taken) + purchase[p].amount
  <2>1. PICK S \in SUBSET Made : S = Taken
    BY DEF Made, Taken
  <2>2. Taken' = S \cup {p} /\ p \notin S
    BY <1>1, <1>4, <2>1 DEF Taken
  <2>3. Cost(S \cup {p}) = Cost(S) + purchase[p].amount
    BY <1>5, <2>2, CostMore DEF CardInv
  <2>4. Cost(Taken)' = Cost(S \cup {p})
    BY <1>4, <2>2 DEF Cost
  <2> QED
    BY <2>1, <2>3, <2>4
<1>7. ASSUME p \notin disturbed
      PROVE  /\ card[purchase[p].card].status = "ACTIVE"
             /\ \/ card[purchase[p].card].limit = None
                \/ Spent(purchase[p].card)' <= card[purchase[p].card].limit
  <2>1. PICK c : c = purchase[p].card
    OBVIOUS
  <2>2. /\ card[c].status = "ACTIVE" /\ card[c].limit = purchase[p].limit
        /\ purchase[p].limit = None \/ Spent(c) + purchase[p].amount <= purchase[p].limit
    BY <1>1, <1>2, <1>7, <2>1 DEF CardInv, Undisturbed
  <2>3. PICK S \in SUBSET Made :
          S = {q \in Purchases : purchase[q].card = c /\ purchase[q].stage = "APPROVED"}
    BY DEF Made
  <2>4. p \notin S /\ S \cup {p} = {q \in Purchases : purchase'[q].card = c /\ purchase'[q].stage = "APPROVED"}
    BY <1>1, <1>4, <2>1, <2>3
  <2>5. Spent(c) = Cost(S) /\ Spent(c)' = Cost(S \cup {p})
    BY <1>4, <2>3, <2>4 DEF Spent, Cost
  <2>6. Cost(S \cup {p}) = Cost(S) + purchase[p].amount
    BY <1>5, <2>4, CostMore DEF CardInv
  <2>7. Spent(c)' = Spent(c) + purchase[p].amount
    BY <2>5, <2>6
  <2>8. Spent(purchase[p].card)' = Spent(c)'
    BY <1>4, <2>1
  <2> QED
    BY <2>1, <2>2, <2>7, <2>8
<1> QED
  BY <1>1, <1>3, <1>4, <1>5, <1>6, <1>7

-----------------------------------------------------------------------------
(* The checkout.                                                           *)

SessionRow == [of : Invoices \cup Links \cup {None},
               status : {"none", "opening", "PENDING", "COMPLETED"}]
PaymentRow == [session : Sessions \cup {None}, stage : {"idle", "read", "paid"}]

(* A session that was opened is for something, one that a payment works on *)
(* was opened, and finitely many are paid.                                 *)
SessionRows ==
  /\ CheckoutTypeOK
  /\ IsFiniteSet(Completed)
  /\ \A s \in Sessions : session[s].status = "none" <=> session[s].of = None
  /\ \A k \in Payments : payment[k].stage # "idle" =>
       /\ payment[k].session \in Sessions
       /\ session[payment[k].session].status \in {"PENDING", "COMPLETED"}

(* An invoice that nobody contested has at most one session, is not paid   *)
(* while a void has it in hand, and says PAID when its session is paid.    *)
Uncontested ==
  \A i \in Invoices \ contested :
    /\ \A s, t \in Sessions : session[s].of = i /\ session[t].of = i => s = t
    /\ i \in voiding => invoice[i] # "PAID" /\ Paying(i) = {}
    /\ invoice[i] = "PAID" <=> \E s \in Sessions : session[s].of = i /\ session[s].status = "COMPLETED"

CheckoutInv == SessionRows /\ PaidOncePerSession /\ Uncontested

LEMMA SaleNat ==
  ASSUME SessionRows, NEW s \in Sessions, session[s].status # "none"
  PROVE  session[s].of \in Invoices \cup Links /\ Due[session[s].of] \in Nat
<1>1. session[s] \in SessionRow
  BY DEF SessionRows, CheckoutTypeOK, SessionRow
<1>2. session[s].of \in Invoices \cup Links
  BY <1>1 DEF SessionRows, SessionRow
<1>3. \A x \in Invoices \cup Links : Due[x] \in Nat
  OBVIOUS
<1> QED
  BY <1>2, <1>3

LEMMA SalesNat == ASSUME SessionRows PROVE Sales \in Nat
<1> DEFINE f == [s \in Completed |-> Due[session[s].of]]
<1>1. DOMAIN f = Completed /\ IsFiniteSet(Completed)
  BY DEF SessionRows
<1>2. \A s \in Completed : f[s] \in Nat
  <2>1. \A s \in Completed : s \in Sessions /\ session[s].status # "none"
    BY DEF Completed
  <2>2. \A s \in Completed : Due[session[s].of] \in Nat
    BY <2>1, SaleNat
  <2> QED
    BY <2>2
<1> HIDE DEF f
<1>3. SumFunctionOnSet(f, DOMAIN f) \in Nat
  BY <1>1, <1>2, SumNat
<1> QED
  BY <1>3 DEF f, Sales, SumFunction

(* A step that completes no session leaves what the sessions are worth.    *)
LEMMA SalesKept ==
  ASSUME Completed' = Completed, \A s \in Completed : session'[s].of = session[s].of
  PROVE  Sales' = Sales
<1>1. [s \in Completed |-> Due[session'[s].of]] = [s \in Completed |-> Due[session[s].of]]
  OBVIOUS
<1> QED
  BY <1>1 DEF Sales

(* One that completes session x adds what x is due.                        *)
LEMMA SalesMore ==
  ASSUME SessionRows, NEW x \in Sessions, session[x].status \in {"opening", "PENDING"},
         Completed' = Completed \cup {x}, \A s \in Sessions : session'[s].of = session[s].of
  PROVE  Sales' = Sales + Due[session[x].of]
<1> DEFINE f == [s \in Completed |-> Due[session[s].of]]
           g == [s \in Completed \cup {x} |-> Due[session[s].of]]
<1>1. x \notin Completed /\ IsFiniteSet(Completed) /\ \A s \in Completed : s \in Sessions
  BY DEF Completed, SessionRows
<1>2. \A s \in Completed \cup {x} : Due[session[s].of] \in Nat
  <2>1. \A s \in Completed \cup {x} : s \in Sessions /\ session[s].status # "none"
    BY DEF Completed
  <2> QED
    BY <2>1, SaleNat
<1>3. /\ \A s \in Completed : f[s] \in Int /\ g[s] = f[s] /\ g[s] \in Int
      /\ g[x] \in Int /\ g[x] = Due[session[x].of]
      /\ DOMAIN f = Completed /\ DOMAIN g = Completed \cup {x}
  BY <1>2
<1>4. Sales' = SumFunction(g)
  <2>1. [s \in Completed \cup {x} |-> Due[session'[s].of]] = g
    BY <1>1
  <2> QED
    BY <2>1 DEF Sales
<1> HIDE DEF f, g
<1>5. SumFunctionOnSet(g, Completed \cup {x}) = g[x] + SumFunctionOnSet(g, Completed)
  BY <1>1, <1>3, SumAdd
<1>6. SumFunctionOnSet(g, Completed) = SumFunctionOnSet(f, Completed)
  BY <1>1, <1>3, SumSame
<1>7. SumFunctionOnSet(f, Completed) \in Int
  BY <1>1, <1>3, SumInt
<1>8. Sales = SumFunctionOnSet(f, Completed) /\ Sales' = SumFunctionOnSet(g, Completed \cup {x})
  BY <1>3, <1>4 DEF Sales, SumFunction, f
<1> QED
  BY <1>3, <1>5, <1>6, <1>7, <1>8

(* A step that touches neither sessions nor payments nor the books.        *)
LEMMA SessionsKept ==
  ASSUME CheckoutInv, CheckoutTypeOK', UNCHANGED <<session, payment, proceeds, posted>>
  PROVE  SessionRows' /\ PaidOncePerSession' /\ Sales' = Sales
<1>1. Completed' = Completed
  BY DEF Completed
<1>2. Sales' = Sales
  BY <1>1, SalesKept
<1> QED
  BY <1>1, <1>2 DEF CheckoutInv, SessionRows, PaidOncePerSession

(* The merchant's requests.                                                *)
LEMMA MerchantStep ==
  ASSUME CheckoutInv,
         \/ \E i \in Invoices : CreateInvoice(i) \/ ReadInvoice(i) \/ VoidInvoice(i)
         \/ \E l \in Links : CreatePaymentLink(l) \/ DeactivatePaymentLink(l)
  PROVE  CheckoutInv' /\ Sales' = Sales /\ UNCHANGED walletVars
<1>1. UNCHANGED <<walletVars, session, payment, proceeds, posted, notified, unsent>>
  BY DEF CreateInvoice, ReadInvoice, VoidInvoice, CreatePaymentLink, DeactivatePaymentLink, payerVars
<1>2. invoice \in [Invoices -> {"none", "SENT", "PAID", "VOID"}]
  BY DEF CheckoutInv, SessionRows, CheckoutTypeOK
<1>3. CheckoutTypeOK'
  <2>1. CASE \E i \in Invoices : CreateInvoice(i)
    <3>1. UNCHANGED <<active, retired, voiding, contested>>
          /\ invoice' \in [Invoices -> {"none", "SENT", "PAID", "VOID"}]
          /\ \A j \in Invoices : invoice[j] # "none" => invoice'[j] # "none"
      BY <1>2, <2>1 DEF CreateInvoice
    <3> QED
      BY <1>1, <3>1 DEF CheckoutInv, SessionRows, CheckoutTypeOK
  <2>2. CASE \E i \in Invoices : ReadInvoice(i)
    BY <1>1, <2>2 DEF ReadInvoice, CheckoutInv, SessionRows, CheckoutTypeOK
  <2>3. CASE \E i \in Invoices : VoidInvoice(i)
    <3>1. UNCHANGED <<active, retired, contested>> /\ voiding' \subseteq voiding
          /\ invoice' \in [Invoices -> {"none", "SENT", "PAID", "VOID"}]
          /\ \A j \in Invoices : invoice[j] # "none" => invoice'[j] # "none"
      BY <1>2, <2>3 DEF VoidInvoice
    <3> QED
      BY <1>1, <3>1 DEF CheckoutInv, SessionRows, CheckoutTypeOK
  <2>4. CASE \E l \in Links : CreatePaymentLink(l) \/ DeactivatePaymentLink(l)
    BY <1>1, <2>4
    DEF CreatePaymentLink, DeactivatePaymentLink, CheckoutInv, SessionRows, CheckoutTypeOK
  <2> QED
    BY <2>1, <2>2, <2>3, <2>4
<1>4. SessionRows' /\ PaidOncePerSession' /\ Sales' = Sales
  BY <1>1, <1>3, SessionsKept
<1>5. \A i \in Invoices : Paying(i)' = Paying(i)
  BY <1>1 DEF Paying
<1>6. Uncontested'
  <2>1. CASE \E i \in Invoices : CreateInvoice(i)
    <3>1. PICK i \in Invoices : CreateInvoice(i)
      BY <2>1
    <3>2. /\ invoice[i] = "none" /\ invoice'[i] = "SENT"
          /\ \A j \in Invoices \ {i} : invoice'[j] = invoice[j]
          /\ UNCHANGED <<voiding, contested>>
      BY <1>2, <3>1 DEF CreateInvoice
    <3> QED
      BY <1>1, <1>5, <3>2 DEF CheckoutInv, Uncontested
  <2>2. CASE \E i \in Invoices : ReadInvoice(i)
    <3>1. PICK i \in Invoices : ReadInvoice(i)
      BY <2>2
    <3>2. /\ invoice[i] # "PAID" /\ invoice' = invoice /\ voiding' = voiding \cup {i}
          /\ contested \subseteq contested' /\ (i \in contested' \/ Paying(i) = {})
      BY <3>1 DEF ReadInvoice
    <3> QED
      BY <1>1, <1>5, <3>2 DEF CheckoutInv, Uncontested
  <2>3. CASE \E i \in Invoices : VoidInvoice(i)
    <3>1. PICK i \in Invoices : VoidInvoice(i)
      BY <2>3
    <3>2. /\ i \in voiding /\ invoice'[i] = "VOID" /\ voiding' \subseteq voiding
          /\ \A j \in Invoices \ {i} : invoice'[j] = invoice[j]
          /\ contested' = contested
      BY <1>2, <3>1 DEF VoidInvoice
    <3> QED
      BY <1>1, <1>5, <3>2 DEF CheckoutInv, Uncontested
  <2>4. CASE \E l \in Links : CreatePaymentLink(l) \/ DeactivatePaymentLink(l)
    <3>1. UNCHANGED <<invoice, voiding, contested>>
      BY <2>4 DEF CreatePaymentLink, DeactivatePaymentLink
    <3> QED
      BY <1>1, <1>5, <3>1 DEF CheckoutInv, Uncontested
  <2> QED
    BY <2>1, <2>2, <2>3, <2>4
<1> QED
  BY <1>1, <1>4, <1>6 DEF CheckoutInv

(* A session is opened.                                                    *)
LEMMA OpenStep ==
  ASSUME CheckoutInv, NEW s \in Sessions, NEW x \in Invoices \cup Links, ReadPayable(s, x)
  PROVE  CheckoutInv' /\ Sales' = Sales /\ UNCHANGED walletVars
<1>1. /\ session[s].of = None /\ session[s].status = "none"
      /\ x \in Invoices => invoice[x] # "PAID" /\ invoice[x] # "none"
      /\ UNCHANGED <<walletVars, invoice, active, retired, payment, voiding, proceeds,
                     posted, notified, unsent>>
  <2>1. x \in active => x \notin Invoices
    BY DEF CheckoutInv, SessionRows, CheckoutTypeOK
  <2> QED
    BY <2>1 DEF ReadPayable, NoSession
<1> DEFINE new == [of |-> x, status |-> "opening"]
<1>2. new \in SessionRow /\ new.of = x /\ new.status = "opening"
  BY DEF SessionRow
<1>3. session' = [session EXCEPT ![s] = new] /\ session \in [Sessions -> SessionRow]
  BY DEF ReadPayable, CheckoutInv, SessionRows, CheckoutTypeOK, SessionRow
<1> HIDE DEF new
<1>4. /\ session' \in [Sessions -> SessionRow] /\ session'[s] = new
      /\ \A t \in Sessions \ {s} : session'[t] = session[t]
  BY <1>2, <1>3
<1>5. x # None
  OBVIOUS
<1>6. /\ contested \subseteq contested' /\ contested' \subseteq contested \cup ({x} \cap Invoices)
      /\ x \in Invoices => x \in contested' \/ Payable(x) = {}
  BY DEF ReadPayable
<1>7. Completed' = Completed /\ \A t \in Completed : session'[t].of = session[t].of
  BY <1>1, <1>2, <1>4 DEF Completed
<1>8. CheckoutTypeOK'
  <2>1. \A i \in contested' \ contested : i \in Invoices /\ invoice[i] # "none"
    BY <1>1, <1>6
  <2>2. \A t \in Sessions : session[t].of # None => session'[t].of # None
    BY <1>1, <1>4
  <2> QED
    BY <1>1, <1>4, <2>1, <2>2 DEF CheckoutInv, SessionRows, CheckoutTypeOK, SessionRow
<1>9. SessionRows'
  <2>1. \A t \in Sessions : session'[t].status = "none" <=> session'[t].of = None
    BY <1>2, <1>4, <1>5 DEF CheckoutInv, SessionRows
  <2>2. \A k \in Payments : payment[k].stage # "idle" =>
          /\ payment[k].session \in Sessions
          /\ session'[payment[k].session].status \in {"PENDING", "COMPLETED"}
    <3>1. \A k \in Payments : payment[k].stage # "idle" => payment[k].session # s
      BY <1>1 DEF CheckoutInv, SessionRows
    <3> QED
      BY <1>4, <3>1 DEF CheckoutInv, SessionRows
  <2> QED
    BY <1>1, <1>7, <1>8, <2>1, <2>2 DEF CheckoutInv, SessionRows
<1>10. Sales' = Sales
  BY <1>7, SalesKept
<1>11. PaidOncePerSession'
  BY <1>1, <1>7, <1>10 DEF CheckoutInv, PaidOncePerSession
<1>12. Uncontested'
  <2> SUFFICES ASSUME NEW i \in Invoices, i \notin contested'
               PROVE  /\ \A t, u \in Sessions : session'[t].of = i /\ session'[u].of = i => t = u
                      /\ i \in voiding => invoice[i] # "PAID" /\ Paying(i)' = {}
                      /\ invoice[i] = "PAID" <=> \E t \in Sessions :
                           session'[t].of = i /\ session'[t].status = "COMPLETED"
    BY <1>1 DEF Uncontested
  <2>1. /\ \A t, u \in Sessions : session[t].of = i /\ session[u].of = i => t = u
        /\ i \in voiding => invoice[i] # "PAID" /\ Paying(i) = {}
        /\ invoice[i] = "PAID" <=> \E t \in Sessions :
             session[t].of = i /\ session[t].status = "COMPLETED"
    BY <1>6 DEF CheckoutInv, Uncontested
  <2>2. x = i => \A t \in Sessions : session[t].of # i
    <3>1. x = i => Payable(i) = {} /\ invoice[i] # "PAID"
      BY <1>1, <1>6
    <3>2. \A t \in Sessions : session[t].of = i => session[t].status \in {"opening", "PENDING", "COMPLETED"}
      <4>1. \A t \in Sessions : session[t].status \in {"none", "opening", "PENDING", "COMPLETED"}
        BY <1>3 DEF SessionRow
      <4> QED
        BY <4>1 DEF CheckoutInv, SessionRows
    <3> QED
      BY <2>1, <3>1, <3>2 DEF Payable
  <2>3. \A t, u \in Sessions : session'[t].of = i /\ session'[u].of = i => t = u
    BY <1>2, <1>4, <2>1, <2>2
  <2>4. Paying(i)' \subseteq Paying(i)
    <3>1. \A k \in Payments : payment[k].stage = "read" => payment[k].session \in Sessions \ {s}
      BY <1>1 DEF CheckoutInv, SessionRows
    <3> QED
      BY <1>1, <1>4, <3>1 DEF Paying
  <2>5. (\E t \in Sessions : session'[t].of = i /\ session'[t].status = "COMPLETED")
          <=> \E t \in Sessions : session[t].of = i /\ session[t].status = "COMPLETED"
    BY <1>1, <1>2, <1>4
  <2> QED
    BY <2>1, <2>3, <2>4, <2>5
<1> QED
  BY <1>1, <1>9, <1>10, <1>11, <1>12 DEF CheckoutInv

LEMMA CreateSessionStep ==
  ASSUME CheckoutInv, NEW s \in Sessions, CreateCheckoutSession(s)
  PROVE  CheckoutInv' /\ Sales' = Sales /\ UNCHANGED walletVars
<1>1. /\ session[s].status = "opening" /\ session' = [session EXCEPT ![s].status = "PENDING"]
      /\ UNCHANGED <<walletVars, invoice, active, retired, payment, voiding, proceeds,
                     posted, notified, unsent, contested>>
  BY DEF CreateCheckoutSession, payerVars
<1>2. session \in [Sessions -> SessionRow]
  BY DEF CheckoutInv, SessionRows, CheckoutTypeOK, SessionRow
<1>3. /\ session' \in [Sessions -> SessionRow]
      /\ \A t \in Sessions : session'[t].of = session[t].of
      /\ \A t \in Sessions \ {s} : session'[t] = session[t]
      /\ session'[s].status = "PENDING"
  BY <1>1, <1>2 DEF SessionRow
<1>4. Completed' = Completed /\ \A t \in Completed : t \in Sessions
  BY <1>1, <1>3 DEF Completed
<1>5. CheckoutTypeOK'
  BY <1>1, <1>3 DEF CheckoutInv, SessionRows, CheckoutTypeOK, SessionRow
<1>6. SessionRows'
  <2>1. \A t \in Sessions : session'[t].status = "none" <=> session'[t].of = None
    BY <1>1, <1>3 DEF CheckoutInv, SessionRows
  <2>2. \A k \in Payments : payment[k].stage # "idle" =>
          /\ payment[k].session \in Sessions
          /\ session'[payment[k].session].status \in {"PENDING", "COMPLETED"}
    BY <1>3 DEF CheckoutInv, SessionRows
  <2> QED
    BY <1>1, <1>4, <1>5, <2>1, <2>2 DEF CheckoutInv, SessionRows
<1>7. Sales' = Sales
  BY <1>3, <1>4, SalesKept
<1>8. PaidOncePerSession'
  BY <1>1, <1>4, <1>7 DEF CheckoutInv, PaidOncePerSession
<1>9. Uncontested'
  <2>1. \A i \in Invoices : Paying(i)' \subseteq Paying(i)
    BY <1>1, <1>3 DEF Paying, CheckoutInv, SessionRows
  <2>2. \A i : (\E t \in Sessions : session'[t].of = i /\ session'[t].status = "COMPLETED")
                 <=> \E t \in Sessions : session[t].of = i /\ session[t].status = "COMPLETED"
    BY <1>1, <1>3
  <2> QED
    BY <1>1, <1>3, <2>1, <2>2 DEF CheckoutInv, Uncontested
<1> QED
  BY <1>1, <1>6, <1>7, <1>8, <1>9 DEF CheckoutInv

(* A payment reads its session, is refused, or is over.                    *)
LEMMA PaymentStep ==
  ASSUME CheckoutInv, NEW k \in Payments,
         \/ \E s \in Sessions : ReadSession(k, s)
         \/ RejectPayment(k) \/ DispatchWebhook(k) \/ PayerHandlerDies(k)
  PROVE  CheckoutInv' /\ Sales' = Sales
<1>1. UNCHANGED <<invoice, active, retired, session, voiding, proceeds, posted>>
  BY DEF ReadSession, RejectPayment, DispatchWebhook, PayerHandlerDies, payerVars
<1>2. payment \in [Payments -> PaymentRow]
  BY DEF CheckoutInv, SessionRows, CheckoutTypeOK, PaymentRow
<1>3. PICK r \in PaymentRow :
        /\ payment' = [payment EXCEPT ![k] = r]
        /\ \/ r = NoPayment /\ contested' = contested
           \/ /\ r.stage = "read" /\ r.session \in Sessions /\ session[r.session].status = "PENDING"
              /\ contested' = contested \cup ({session[r.session].of} \cap voiding)
  <2>1. ASSUME NEW s \in Sessions, ReadSession(k, s)
        PROVE  \E r \in PaymentRow :
                 /\ payment' = [payment EXCEPT ![k] = r]
                 /\ r.stage = "read" /\ r.session \in Sessions /\ session[r.session].status = "PENDING"
                 /\ contested' = contested \cup ({session[r.session].of} \cap voiding)
    <3>1. [session |-> s, stage |-> "read"] \in PaymentRow
      BY DEF PaymentRow
    <3> QED
      BY <2>1, <3>1 DEF ReadSession
  <2>2. CASE RejectPayment(k) \/ DispatchWebhook(k) \/ PayerHandlerDies(k)
    <3>1. NoPayment \in PaymentRow
      BY DEF PaymentRow, NoPayment
    <3> QED
      BY <2>2, <3>1 DEF RejectPayment, DispatchWebhook, PayerHandlerDies
  <2> QED
    BY <2>1, <2>2
<1>4. /\ payment' \in [Payments -> PaymentRow] /\ payment'[k] = r
      /\ \A j \in Payments \ {k} : payment'[j] = payment[j]
  BY <1>2, <1>3
<1>5. NoPayment.stage = "idle"
  BY DEF NoPayment
<1>6. Completed' = Completed /\ Sales' = Sales
  <2>1. Completed' = Completed
    BY <1>1 DEF Completed
  <2> QED
    BY <1>1, <2>1, SalesKept
<1>7. CheckoutTypeOK'
  <2>1. voiding' \cup contested' \subseteq {i \in Invoices : invoice'[i] # "none"}
    BY <1>1, <1>3 DEF CheckoutInv, SessionRows, CheckoutTypeOK
  <2>2. payment[k].stage = "paid" =>
          payment[k].session \in Sessions /\ session[payment[k].session].of # None
    BY DEF CheckoutInv, SessionRows
  <2>3. \A s \in notified' \cup unsent' : s \in Sessions /\ session'[s].of # None
    BY <1>1, <2>2
    DEF CheckoutInv, SessionRows, CheckoutTypeOK, ReadSession, RejectPayment, DispatchWebhook,
        PayerHandlerDies
  <2> QED
    BY <1>1, <1>4, <2>1, <2>3 DEF CheckoutInv, SessionRows, CheckoutTypeOK, PaymentRow
<1>8. SessionRows'
  <2>1. \A j \in Payments : payment'[j].stage # "idle" =>
          /\ payment'[j].session \in Sessions
          /\ session[payment'[j].session].status \in {"PENDING", "COMPLETED"}
    BY <1>3, <1>4, <1>5 DEF CheckoutInv, SessionRows
  <2> QED
    BY <1>1, <1>6, <1>7, <2>1 DEF CheckoutInv, SessionRows
<1>9. PaidOncePerSession'
  BY <1>1, <1>6 DEF CheckoutInv, PaidOncePerSession
<1>10. Uncontested'
  <2>1. ASSUME NEW i \in Invoices, i \notin contested', i \in voiding PROVE Paying(i)' = {}
    <3>1. Paying(i) = {} /\ i \notin contested
      BY <1>3, <2>1 DEF CheckoutInv, Uncontested
    <3>2. r.stage = "read" => session[r.session].of # i
      BY <1>3, <1>5, <2>1
    <3> QED
      BY <1>1, <1>4, <3>1, <3>2 DEF Paying
  <2> QED
    BY <1>1, <1>3, <2>1 DEF CheckoutInv, Uncontested
<1> QED
  BY <1>1, <1>6, <1>8, <1>9, <1>10 DEF CheckoutInv

(* What payment k has to pay.                                              *)
Price(k) == Due[session[payment[k].session].of]

(* The transaction of a payment.                                           *)
LEMMA PayStep ==
  ASSUME CheckoutInv, NEW k \in Payments, PayCheckoutSession(k)
  PROVE  /\ CheckoutInv' /\ Price(k) \in Nat /\ Sales' = Sales + Price(k)
         /\ Debit(k, Price(k)) /\ payment[k].stage = "read"
         /\ session' = [session EXCEPT ![payment[k].session].status = "COMPLETED"]
         /\ payment' = [payment EXCEPT ![k].stage = "paid"]
<1>1. PICK s \in Sessions : s = payment[k].session
  BY DEF PayCheckoutSession, CheckoutInv, SessionRows
<1>2. session[s].status \in {"PENDING", "COMPLETED"} /\ payment[k].stage = "read"
  BY <1>1 DEF PayCheckoutSession, CheckoutInv, SessionRows
<1>3. PICK x \in Invoices \cup Links : x = session[s].of /\ Due[x] \in Nat
  BY <1>2, SaleNat DEF CheckoutInv
<1>4. /\ s \notin posted /\ Debit(k, Due[x])
      /\ proceeds' = proceeds + Due[x] /\ posted' = posted \cup {s}
      /\ session' = [session EXCEPT ![s].status = "COMPLETED"]
      /\ invoice' = IF x \in Invoices THEN [invoice EXCEPT ![x] = "PAID"] ELSE invoice
      /\ payment' = [payment EXCEPT ![k].stage = "paid"]
      /\ UNCHANGED <<requests, active, retired, voiding, notified, unsent, contested>>
  BY <1>1, <1>3 DEF PayCheckoutSession
<1>5. session \in [Sessions -> SessionRow] /\ payment \in [Payments -> PaymentRow]
      /\ invoice \in [Invoices -> {"none", "SENT", "PAID", "VOID"}]
  BY DEF CheckoutInv, SessionRows, CheckoutTypeOK, SessionRow, PaymentRow
<1>6. /\ session' \in [Sessions -> SessionRow]
      /\ \A t \in Sessions : session'[t].of = session[t].of
      /\ \A t \in Sessions \ {s} : session'[t] = session[t]
      /\ session'[s].status = "COMPLETED"
  BY <1>4, <1>5 DEF SessionRow
<1>7. /\ payment' \in [Payments -> PaymentRow]
      /\ \A j \in Payments : payment'[j].session = payment[j].session
      /\ \A j \in Payments \ {k} : payment'[j] = payment[j]
      /\ payment'[k].stage = "paid"
  BY <1>4, <1>5 DEF PaymentRow
<1>8. /\ invoice' \in [Invoices -> {"none", "SENT", "PAID", "VOID"}]
      /\ \A i \in Invoices : (i = x => invoice'[i] = "PAID") /\ (i # x => invoice'[i] = invoice[i])
  BY <1>4, <1>5
<1>9. posted = Completed /\ s \notin Completed /\ session[s].status = "PENDING"
  BY <1>2, <1>4 DEF CheckoutInv, PaidOncePerSession, Completed
<1>10. Completed' = Completed \cup {s}
  BY <1>6 DEF Completed
<1>11. Sales' = Sales + Due[x] /\ Sales \in Nat
  <2>1. session[s].status \in {"opening", "PENDING"}
    BY <1>9
  <2>2. Sales' = Sales + Due[session[s].of]
    BY <1>6, <1>10, <2>1, SalesMore DEF CheckoutInv
  <2> QED
    BY <1>3, <2>2, SalesNat DEF CheckoutInv
<1>12. PaidOncePerSession'
  BY <1>4, <1>9, <1>10, <1>11 DEF CheckoutInv, PaidOncePerSession
<1>13. CheckoutTypeOK'
  <2>1. \A i \in Invoices : invoice[i] # "none" => invoice'[i] # "none"
    BY <1>8
  <2>2. proceeds' \in Nat
    BY <1>3, <1>4 DEF CheckoutInv, SessionRows, CheckoutTypeOK
  <2>3. session'[s].of # None
    BY <1>3, <1>6
  <2> QED
    BY <1>4, <1>6, <1>7, <1>8, <2>1, <2>2, <2>3
    DEF CheckoutInv, SessionRows, CheckoutTypeOK, SessionRow, PaymentRow
<1>14. SessionRows'
  <2>1. \A t \in Sessions : session'[t].status = "none" <=> session'[t].of = None
    BY <1>2, <1>6 DEF CheckoutInv, SessionRows
  <2>2. \A j \in Payments : payment'[j].stage # "idle" =>
          /\ payment'[j].session \in Sessions
          /\ session'[payment'[j].session].status \in {"PENDING", "COMPLETED"}
    BY <1>1, <1>6, <1>7 DEF CheckoutInv, SessionRows
  <2>3. IsFiniteSet(Completed')
    BY <1>10, FS_AddElement DEF CheckoutInv, SessionRows
  <2> QED
    BY <1>13, <2>1, <2>2, <2>3 DEF SessionRows
<1>15. Uncontested'
  <2> SUFFICES ASSUME NEW i \in Invoices, i \notin contested
               PROVE  /\ \A t, u \in Sessions : session'[t].of = i /\ session'[u].of = i => t = u
                      /\ i \in voiding => invoice'[i] # "PAID" /\ Paying(i)' = {}
                      /\ invoice'[i] = "PAID" <=> \E t \in Sessions :
                           session'[t].of = i /\ session'[t].status = "COMPLETED"
    BY <1>4 DEF Uncontested
  <2>1. /\ \A t, u \in Sessions : session[t].of = i /\ session[u].of = i => t = u
        /\ i \in voiding => invoice[i] # "PAID" /\ Paying(i) = {}
        /\ invoice[i] = "PAID" <=> \E t \in Sessions :
             session[t].of = i /\ session[t].status = "COMPLETED"
    BY DEF CheckoutInv, Uncontested
  <2>2. i = x => i \notin voiding
    BY <1>1, <1>2, <1>3, <2>1 DEF Paying
  <2>3. Paying(i)' \subseteq Paying(i)
    <3>1. \A j \in Payments : payment[j].stage = "read" => payment[j].session \in Sessions
      BY DEF CheckoutInv, SessionRows
    <3> QED
      BY <1>6, <1>7, <3>1 DEF Paying
  <2>4. i # x => ((\E t \in Sessions : session'[t].of = i /\ session'[t].status = "COMPLETED")
                    <=> \E t \in Sessions : session[t].of = i /\ session[t].status = "COMPLETED")
    BY <1>3, <1>6
  <2>5. i = x => \E t \in Sessions : session'[t].of = i /\ session'[t].status = "COMPLETED"
    BY <1>3, <1>6
  <2> QED
    BY <1>6, <1>8, <2>1, <2>2, <2>3, <2>4, <2>5
<1>16. Price(k) = Due[x]
  BY <1>1, <1>3 DEF Price
<1> QED
  BY <1>1, <1>2, <1>3, <1>4, <1>11, <1>12, <1>14, <1>15, <1>16 DEF CheckoutInv

-----------------------------------------------------------------------------
(* The desk.                                                               *)

(* The wallet, when what is recorded comes to spent: neither its balance   *)
(* nor a balance that an open transaction has read is short of it, and as  *)
(* long as no two were open at once the one that is has read what stands.  *)
Wallet(spent) ==
  /\ PayerTypeOK
  /\ OpeningBalance - balance <= spent
  /\ ~overlapped => OpeningBalance - balance = spent
  /\ \A t \in Debits : seen[t] # None =>
       /\ OpeningBalance - seen[t] <= spent
       /\ ~overlapped => seen[t] = balance /\ \A u \in Debits : seen[u] # None => u = t

(* A transaction that is open is that of a purchase or a payment that is   *)
(* at it, and the balance that it has read suffices.                       *)
OpenPurchases ==
  \A p \in Purchases : seen[p] # None =>
    purchase[p].stage = "checked" /\ purchase[p].amount <= seen[p]
OpenPayments ==
  \A k \in Payments : seen[k] # None => payment[k].stage = "read" /\ Price(k) <= seen[k]

DeskInv == CardInv /\ CheckoutInv /\ OpenPurchases /\ OpenPayments /\ Wallet(RecordedCost)

LEMMA RecordedNat ==
  ASSUME CardInv, CheckoutInv
  PROVE  Cost(Taken) \in Nat /\ Sales \in Nat /\ RecordedCost = Cost(Taken) + Sales
BY TakenNat, SalesNat DEF CardInv, CheckoutInv, RecordedCost, Taken

(* The steps of the wallet.                                                *)
LEMMA WalletIdle ==
  ASSUME NEW s \in Nat, Wallet(s), UNCHANGED walletVars, requests' \in 0..MaxRequests
  PROVE  Wallet(s)'
BY DEF Wallet, PayerTypeOK, walletVars

LEMMA WalletRead ==
  ASSUME NEW s \in Nat, Wallet(s), NEW t \in Debits, NEW amount, ReadBalance(t, amount),
         UNCHANGED requests
  PROVE  Wallet(s)'
<1>1. /\ seen \in [Debits -> 0..OpeningBalance \cup {None}] /\ balance \in 0..OpeningBalance
      /\ seen[t] = None /\ seen' = [seen EXCEPT ![t] = balance] /\ UNCHANGED balance
      /\ overlapped' = (overlapped \/ \E u \in Debits : seen[u] # None)
  BY DEF Wallet, PayerTypeOK, ReadBalance
<1>2. /\ seen' \in [Debits -> 0..OpeningBalance \cup {None}] /\ seen'[t] = balance
      /\ \A u \in Debits \ {t} : seen'[u] = seen[u]
  BY <1>1
<1>3. overlapped' \in BOOLEAN
  BY <1>1, Zenon
<1>4. PayerTypeOK'
  BY <1>1, <1>2, <1>3 DEF Wallet, PayerTypeOK
<1>5. ~overlapped' => ~overlapped /\ \A u \in Debits : seen[u] = None
  BY <1>1
<1> QED
  BY <1>1, <1>2, <1>4, <1>5 DEF Wallet

LEMMA WalletRolledBack ==
  ASSUME NEW s \in Nat, Wallet(s), NEW t \in Debits, RollBack(t), UNCHANGED requests
  PROVE  Wallet(s)'
<1>1. /\ seen \in [Debits -> 0..OpeningBalance \cup {None}]
      /\ seen' = [seen EXCEPT ![t] = None] /\ UNCHANGED <<balance, overlapped>>
  BY DEF Wallet, PayerTypeOK, RollBack
<1>2. /\ seen' \in [Debits -> 0..OpeningBalance \cup {None}] /\ seen'[t] = None
      /\ \A u \in Debits \ {t} : seen'[u] = seen[u]
  BY <1>1
<1> QED
  BY <1>1, <1>2 DEF Wallet, PayerTypeOK

(* The debit is from what was read: it takes no more than it records.      *)
LEMMA WalletDebited ==
  ASSUME NEW s \in Nat, Wallet(s), NEW t \in Debits, NEW amount \in Nat, Debit(t, amount),
         amount <= seen[t], UNCHANGED requests
  PROVE  Wallet(s + amount)'
<1>1. /\ seen \in [Debits -> 0..OpeningBalance \cup {None}] /\ seen[t] # None
      /\ seen' = [seen EXCEPT ![t] = None] /\ balance' = seen[t] - amount
      /\ UNCHANGED overlapped /\ balance \in 0..OpeningBalance
  BY DEF Wallet, PayerTypeOK, Debit
<1>2. /\ seen' \in [Debits -> 0..OpeningBalance \cup {None}] /\ seen'[t] = None
      /\ \A u \in Debits \ {t} : seen'[u] = seen[u]
      /\ seen[t] \in 0..OpeningBalance
  BY <1>1
<1>3. balance' \in 0..OpeningBalance
  BY <1>1, <1>2
<1>4. PayerTypeOK'
  BY <1>1, <1>2, <1>3 DEF Wallet, PayerTypeOK
<1>5. /\ OpeningBalance - balance' <= s + amount
      /\ ~overlapped => OpeningBalance - balance' = s + amount
  BY <1>1, <1>2 DEF Wallet
<1>6. ASSUME NEW u \in Debits, seen'[u] # None
      PROVE  OpeningBalance - seen'[u] <= s + amount /\ overlapped
  <2>1. u # t /\ seen'[u] = seen[u] /\ seen[u] \in 0..OpeningBalance
    BY <1>1, <1>2, <1>6
  <2> QED
    BY <1>1, <1>6, <2>1 DEF Wallet
<1> QED
  BY <1>1, <1>4, <1>5, <1>6 DEF Wallet

-----------------------------------------------------------------------------
(* A step of one part leaves the other alone.                              *)
LEMMA CardsRest ==
  ASSUME CardInv, UNCHANGED cardVars
  PROVE  CardInv' /\ Cost(Taken)' = Cost(Taken)
BY DEF CardInv, CardRows, CardsTypeOK, Undisturbed, Made, RunningOn, Spent, Cost, Taken, cardVars

LEMMA CheckoutRests ==
  ASSUME CheckoutInv, UNCHANGED checkoutVars
  PROVE  CheckoutInv' /\ Sales' = Sales
<1>1. UNCHANGED <<invoice, active, retired, session, payment, voiding, proceeds, posted,
                  notified, unsent, contested>>
  BY DEF checkoutVars
<1>2. CheckoutTypeOK'
  BY <1>1 DEF CheckoutInv, SessionRows, CheckoutTypeOK
<1>3. SessionRows' /\ PaidOncePerSession' /\ Sales' = Sales
  BY <1>1, <1>2, SessionsKept
<1>4. Uncontested'
  BY <1>1 DEF CheckoutInv, Uncontested, Paying
<1> QED
  BY <1>3, <1>4 DEF CheckoutInv

LEMMA OpenPaymentsRest ==
  ASSUME OpenPayments, UNCHANGED <<session, payment>>, \A k \in Payments : seen'[k] = seen[k]
  PROVE  OpenPayments'
BY DEF OpenPayments, Price

LEMMA OpenPurchasesRest ==
  ASSUME OpenPurchases, UNCHANGED purchase, \A p \in Purchases : seen'[p] = seen[p]
  PROVE  OpenPurchases'
BY DEF OpenPurchases

(* A transaction is at most one purchase or payment.                       *)
LEMMA OthersSeen ==
  ASSUME DeskInv, NEW t \in Debits,
         \/ \E amount : ReadBalance(t, amount) \/ Debit(t, amount)
         \/ RollBack(t)
  PROVE  /\ \A u \in Debits \ {t} : seen'[u] = seen[u]
         /\ t \in Purchases => \A k \in Payments : seen'[k] = seen[k]
         /\ t \in Payments => \A p \in Purchases : seen'[p] = seen[p]
<1>1. seen \in [Debits -> 0..OpeningBalance \cup {None}]
  BY DEF DeskInv, Wallet, PayerTypeOK
<1>2. \A u \in Debits \ {t} : seen'[u] = seen[u]
  BY <1>1 DEF ReadBalance, Debit, RollBack
<1> QED
  BY <1>2

LEMMA RequestsCounted ==
  ASSUME PayerTypeOK, Arrives \/ requests' = requests
  PROVE  requests' \in 0..MaxRequests
BY DEF PayerTypeOK, Arrives

(* A step that records nothing and leaves the wallet alone.                *)
LEMMA DeskIdle ==
  ASSUME DeskInv, CardInv', CheckoutInv', UNCHANGED <<walletVars, RecordedCost>>,
         Arrives \/ requests' = requests, OpenPurchases', OpenPayments'
  PROVE  DeskInv'
<1>1. PICK s \in Nat : s = RecordedCost
  BY RecordedNat DEF DeskInv
<1>2. Wallet(s)
  BY <1>1 DEF DeskInv
<1>3. requests' \in 0..MaxRequests
  BY <1>2, RequestsCounted DEF Wallet
<1>4. Wallet(s)'
  BY <1>2, <1>3, WalletIdle
<1>5. Wallet(RecordedCost)'
  BY <1>1, <1>4
<1> QED
  BY <1>5 DEF DeskInv

-----------------------------------------------------------------------------
(* The steps of the desk.                                                  *)

LEMMA InitDesk == Init => DeskInv
<1> SUFFICES ASSUME Init PROVE DeskInv
  OBVIOUS
<1>1. PayerTypeOK /\ (\A t \in Debits : seen[t] = None) /\ balance = OpeningBalance
  <2>1. overlapped \in BOOLEAN
    BY Zenon DEF Init, PayerInit
  <2> QED
    BY <2>1 DEF Init, PayerInit, PayerTypeOK
<1>2. /\ Made = {} /\ Taken = {} /\ Completed = {}
      /\ \A p \in Purchases : purchase[p] = NoPurchase
      /\ NoPurchase.stage = "none"
  BY DEF Init, CardsInit, CheckoutInit, Made, Taken, Completed, NoPurchase, NoSession
<1>3. CardInv
  <2>1. CardsTypeOK
    BY DEF Init, CardsInit, CardsTypeOK, NoPurchase
  <2>2. IsFiniteSet(Made)
    BY <1>2, FS_EmptySet
  <2>3. Undisturbed
    BY <1>2 DEF Undisturbed, Running
  <2> QED
    BY <1>2, <2>1, <2>2, <2>3 DEF CardInv, CardRows
<1>4. Cost(Taken) = 0 /\ Sales = 0
  <2>1. SumFunctionOnSet([p \in Purchases |-> purchase[p].amount], {}) = 0
    BY SumEmpty
  <2> DEFINE f == [s \in Completed |-> Due[session[s].of]]
  <2>2. DOMAIN f = {}
    BY <1>2
  <2> HIDE DEF f
  <2>3. SumFunctionOnSet(f, DOMAIN f) = 0
    BY <2>2, SumEmpty
  <2> QED
    BY <1>2, <2>1, <2>3 DEF Cost, Sales, SumFunction, f
<1>5. CheckoutInv
  <2>1. CheckoutTypeOK
    BY DEF Init, CheckoutInit, CheckoutTypeOK, NoSession, NoPayment
  <2>2. IsFiniteSet(Completed)
    BY <1>2, FS_EmptySet
  <2>3. SessionRows
    BY <2>1, <2>2 DEF Init, CheckoutInit, SessionRows, NoSession, NoPayment
  <2>4. PaidOncePerSession
    BY <1>2, <1>4 DEF Init, CheckoutInit, PaidOncePerSession
  <2>5. Uncontested
    BY DEF Init, CheckoutInit, Uncontested, NoSession
  <2> QED
    BY <2>3, <2>4, <2>5 DEF CheckoutInv
<1>6. Wallet(RecordedCost)
  BY <1>1, <1>3, <1>4, <1>5, RecordedNat DEF Wallet
<1>7. OpenPurchases /\ OpenPayments
  BY <1>1 DEF OpenPurchases, OpenPayments
<1> QED
  BY <1>3, <1>5, <1>6, <1>7 DEF DeskInv

LEMMA CardRequestKept ==
  ASSUME DeskInv, NEW c \in Cards,
         \/ CardStep(IssueCard(c)) \/ CardStep(Freeze(c)) \/ CardStep(ReadUnfreeze(c))
         \/ CardStep(Unfreeze(c)) \/ CardStep(Terminate(c))
         \/ \E limit \in Limits \cup {None} : CardStep(SetLimit(c, limit))
  PROVE  DeskInv'
<1>1. CardInv' /\ purchase' = purchase /\ UNCHANGED walletVars
  BY CardRequest DEF CardStep, DeskInv
<1>2. CheckoutInv' /\ Sales' = Sales /\ UNCHANGED <<session, payment>>
  BY CheckoutRests DEF CardStep, DeskInv, checkoutVars
<1>3. RecordedCost' = RecordedCost
  BY <1>1, <1>2 DEF RecordedCost, Cost
<1>4. Arrives \/ requests' = requests
  BY DEF CardStep, IssueCard, Freeze, ReadUnfreeze, Unfreeze, Terminate, SetLimit, payerVars
<1>5. OpenPurchases' /\ OpenPayments'
  BY <1>1, <1>2, OpenPurchasesRest, OpenPaymentsRest DEF DeskInv, walletVars
<1> QED
  BY <1>1, <1>2, <1>3, <1>4, <1>5, DeskIdle

(* A purchase is made or checked, or the period ends: an open one is left. *)
LEMMA PurchaseKept ==
  ASSUME DeskInv,
         \/ \E p \in Purchases, c \in Cards, amount \in Amounts : CardStep(ReadCard(p, c, amount))
         \/ \E p \in Purchases : CardStep(CheckLimit(p))
         \/ CardStep(NewPeriod)
  PROVE  DeskInv'
<1>1. CardInv' /\ UNCHANGED Cost(Taken)
  BY ReadCardStep, CheckLimitStep, NewPeriodStep DEF CardStep, DeskInv
<1>2. CheckoutInv' /\ Sales' = Sales /\ UNCHANGED <<session, payment>>
  BY CheckoutRests DEF CardStep, DeskInv, checkoutVars
<1>3. RecordedCost' = RecordedCost
  BY <1>1, <1>2, RecordedNat DEF RecordedCost, Taken
<1>4. (Arrives \/ requests' = requests) /\ UNCHANGED walletVars
  BY DEF CardStep, ReadCard, CheckLimit, NewPeriod, payerVars
<1>5. \A p \in Purchases : purchase[p].stage = "checked" => purchase'[p] = purchase[p]
  <2>1. DOMAIN purchase = Purchases
    BY DEF DeskInv, CardInv, CardRows, CardsTypeOK
  <2> QED
    BY <2>1 DEF CardStep, ReadCard, CheckLimit, NewPeriod
<1>6. OpenPurchases' /\ OpenPayments'
  BY <1>2, <1>4, <1>5, OpenPaymentsRest DEF DeskInv, OpenPurchases, walletVars
<1> QED
  BY <1>1, <1>2, <1>3, <1>4, <1>6, DeskIdle

(* The transaction of a purchase begins, commits or rolls back.            *)
LEMMA PurchaseBegun ==
  ASSUME DeskInv, NEW p \in Purchases, CardStep(BeginPurchase(p))
  PROVE  DeskInv'
<1>1. /\ ReadBalance(p, purchase[p].amount) /\ purchase[p].stage = "checked"
      /\ UNCHANGED <<requests, cardVars, checkoutVars>>
  BY DEF CardStep, BeginPurchase
<1>2. CardInv' /\ Cost(Taken)' = Cost(Taken) /\ CheckoutInv' /\ Sales' = Sales
  BY <1>1, CardsRest, CheckoutRests DEF DeskInv
<1>3. PICK s \in Nat : s = RecordedCost
  BY RecordedNat DEF DeskInv
<1>4. RecordedCost' = s
  BY <1>2, <1>3 DEF RecordedCost, Taken
<1>5. Wallet(s)'
  BY <1>1, <1>3, WalletRead DEF DeskInv
<1>6. /\ \A u \in Debits \ {p} : seen'[u] = seen[u]
      /\ \A k \in Payments : seen'[k] = seen[k]
  BY <1>1, OthersSeen
<1>7. seen'[p] = balance /\ purchase[p].amount <= balance
  BY <1>1 DEF ReadBalance, DeskInv, Wallet, PayerTypeOK
<1>8. OpenPurchases'
  BY <1>1, <1>6, <1>7 DEF OpenPurchases, DeskInv, cardVars
<1>9. OpenPayments'
  BY <1>1, <1>6, OpenPaymentsRest DEF DeskInv, checkoutVars
<1>10. Wallet(RecordedCost)'
  BY <1>4, <1>5
<1> QED
  BY <1>2, <1>8, <1>9, <1>10 DEF DeskInv

LEMMA PurchaseApproved ==
  ASSUME DeskInv, NEW p \in Purchases, CardStep(Approve(p))
  PROVE  DeskInv'
<1>1. Debit(p, purchase[p].amount) /\ UNCHANGED <<requests, checkoutVars>>
  BY DEF CardStep, Approve
<1>2. PICK a \in Nat : a = purchase[p].amount
  BY ApproveStep DEF CardStep, DeskInv
<1>3. /\ CardInv' /\ Cost(Taken)' = Cost(Taken) + a
      /\ \A q \in Purchases \ {p} : purchase'[q] = purchase[q]
  BY <1>2, ApproveStep DEF CardStep, DeskInv
<1>4. CheckoutInv' /\ Sales' = Sales
  BY <1>1, CheckoutRests DEF DeskInv
<1>5. PICK s \in Nat : s = RecordedCost
  BY RecordedNat DEF DeskInv
<1>6. RecordedCost' = s + a
  BY <1>3, <1>4, <1>5, RecordedNat DEF RecordedCost, Taken, DeskInv
<1>7. a <= seen[p]
  BY <1>1, <1>2 DEF DeskInv, OpenPurchases, Debit
<1>8. Wallet(s + a)'
  BY <1>1, <1>2, <1>5, <1>7, WalletDebited DEF DeskInv
<1>9. /\ \A u \in Debits \ {p} : seen'[u] = seen[u]
      /\ \A k \in Payments : seen'[k] = seen[k]
  BY <1>1, OthersSeen
<1>10. seen'[p] = None
  BY <1>1 DEF Debit, DeskInv, Wallet, PayerTypeOK
<1>11. OpenPurchases'
  BY <1>3, <1>9, <1>10 DEF OpenPurchases, DeskInv
<1>12. OpenPayments'
  BY <1>1, <1>9, OpenPaymentsRest DEF DeskInv, checkoutVars
<1>13. Wallet(RecordedCost)'
  BY <1>6, <1>8
<1> QED
  BY <1>3, <1>4, <1>11, <1>12, <1>13 DEF DeskInv

LEMMA PurchaseDeclined ==
  ASSUME DeskInv, NEW p \in Purchases, CardStep(Decline(p))
  PROVE  DeskInv'
<1>1. RollBack(p) /\ UNCHANGED <<requests, checkoutVars>>
      /\ purchase' = [purchase EXCEPT ![p].stage = "DECLINED"]
  BY DEF CardStep, Decline
<1>2. CardInv' /\ Cost(Taken)' = Cost(Taken)
  BY DeclineStep DEF CardStep, DeskInv
<1>3. CheckoutInv' /\ Sales' = Sales
  BY <1>1, CheckoutRests DEF DeskInv
<1>4. PICK s \in Nat : s = RecordedCost
  BY RecordedNat DEF DeskInv
<1>5. RecordedCost' = s
  BY <1>2, <1>3, <1>4 DEF RecordedCost, Taken
<1>6. Wallet(s)'
  BY <1>1, <1>4, WalletRolledBack DEF DeskInv
<1>7. /\ \A u \in Debits \ {p} : seen'[u] = seen[u]
      /\ \A k \in Payments : seen'[k] = seen[k]
  BY <1>1, OthersSeen
<1>8. /\ seen'[p] = None
      /\ \A q \in Purchases \ {p} : purchase'[q] = purchase[q]
  BY <1>1 DEF RollBack, DeskInv, Wallet, PayerTypeOK, CardInv, CardRows, CardsTypeOK
<1>9. OpenPurchases'
  BY <1>7, <1>8 DEF OpenPurchases, DeskInv
<1>10. OpenPayments'
  BY <1>1, <1>7, OpenPaymentsRest DEF DeskInv, checkoutVars
<1>11. Wallet(RecordedCost)'
  BY <1>5, <1>6
<1> QED
  BY <1>2, <1>3, <1>9, <1>10, <1>11 DEF DeskInv

(* The merchant's requests, and the opening of sessions and payments.      *)
LEMMA CheckoutKept ==
  ASSUME DeskInv, CheckoutStep(TRUE), CheckoutInv', Sales' = Sales, UNCHANGED walletVars,
         Arrives \/ requests' = requests, OpenPayments'
  PROVE  DeskInv'
<1>1. CardInv' /\ Cost(Taken)' = Cost(Taken) /\ purchase' = purchase
  BY CardsRest DEF CheckoutStep, DeskInv, cardVars
<1>2. RecordedCost' = RecordedCost
  BY <1>1 DEF RecordedCost, Taken
<1>3. OpenPurchases'
  BY <1>1, OpenPurchasesRest DEF DeskInv, walletVars
<1> QED
  BY <1>1, <1>2, <1>3, DeskIdle

LEMMA MerchantKept ==
  ASSUME DeskInv,
         \/ \E i \in Invoices : \/ CheckoutStep(CreateInvoice(i)) \/ CheckoutStep(ReadInvoice(i))
                                \/ CheckoutStep(VoidInvoice(i))
         \/ \E l \in Links : \/ CheckoutStep(CreatePaymentLink(l))
                             \/ CheckoutStep(DeactivatePaymentLink(l))
  PROVE  DeskInv'
<1>1. CheckoutInv' /\ Sales' = Sales /\ UNCHANGED walletVars
  BY MerchantStep DEF CheckoutStep, DeskInv
<1>2. (Arrives \/ requests' = requests) /\ UNCHANGED <<session, payment>>
  BY DEF CheckoutStep, CreateInvoice, ReadInvoice, VoidInvoice, CreatePaymentLink,
         DeactivatePaymentLink, payerVars
<1>3. OpenPayments'
  BY <1>1, <1>2, OpenPaymentsRest DEF DeskInv, walletVars
<1>4. CheckoutStep(TRUE)
  BY DEF CheckoutStep
<1> QED
  BY <1>1, <1>2, <1>3, <1>4, CheckoutKept

(* A payment that is open has a session that was opened, which stays for   *)
(* the same invoice or link.                                               *)
LEMMA OpeningKept ==
  ASSUME DeskInv, NEW s \in Sessions,
         \/ \E x \in Invoices \cup Links : CheckoutStep(ReadPayable(s, x))
         \/ CheckoutStep(CreateCheckoutSession(s))
  PROVE  DeskInv'
<1>1. CheckoutInv' /\ Sales' = Sales /\ UNCHANGED walletVars
  BY OpenStep, CreateSessionStep DEF CheckoutStep, DeskInv
<1>2. (Arrives \/ requests' = requests) /\ UNCHANGED payment
  BY DEF CheckoutStep, ReadPayable, CreateCheckoutSession, payerVars
<1>3. \A k \in Payments : payment[k].stage # "idle" => payment[k].session \in Sessions \ {s}
                                                      \/ session'[s].of = session[s].of
  <2>1. session \in [Sessions -> SessionRow]
    BY DEF DeskInv, CheckoutInv, SessionRows, CheckoutTypeOK, SessionRow
  <2>2. CASE CheckoutStep(CreateCheckoutSession(s))
    BY <2>1, <2>2 DEF CheckoutStep, CreateCheckoutSession, SessionRow
  <2>3. CASE \E x \in Invoices \cup Links : CheckoutStep(ReadPayable(s, x))
    BY <2>3 DEF CheckoutStep, ReadPayable, NoSession, DeskInv, CheckoutInv, SessionRows
  <2> QED
    BY <2>2, <2>3
<1>4. \A t \in Sessions \ {s} : session'[t] = session[t]
  <2>1. DOMAIN session = Sessions
    BY DEF DeskInv, CheckoutInv, SessionRows, CheckoutTypeOK
  <2> QED
    BY <2>1 DEF CheckoutStep, ReadPayable, CreateCheckoutSession
<1>5. OpenPayments'
  <2>1. \A k \in Payments : payment[k].stage = "read" => payment[k].session \in Sessions
    BY DEF DeskInv, CheckoutInv, SessionRows
  <2>2. \A k \in Payments : payment[k].stage = "read" => Price(k)' = Price(k)
    BY <1>2, <1>3, <1>4, <2>1 DEF Price
  <2> QED
    BY <1>1, <1>2, <2>2 DEF DeskInv, OpenPayments, walletVars
<1>6. CheckoutStep(TRUE)
  BY DEF CheckoutStep
<1> QED
  BY <1>1, <1>2, <1>5, <1>6, CheckoutKept

(* A payment reads its session, or is over: it is not open.                *)
LEMMA PaymentKept ==
  ASSUME DeskInv, NEW k \in Payments,
         \/ \E s \in Sessions : CheckoutStep(ReadSession(k, s))
         \/ CheckoutStep(DispatchWebhook(k)) \/ CheckoutStep(PayerHandlerDies(k))
  PROVE  DeskInv'
<1>1. CheckoutInv' /\ Sales' = Sales
  BY PaymentStep DEF CheckoutStep, DeskInv
<1>2. /\ Arrives \/ requests' = requests
      /\ UNCHANGED <<walletVars, session>>
      /\ payment[k].stage # "read"
  BY DEF CheckoutStep, ReadSession, DispatchWebhook, PayerHandlerDies, payerVars, NoPayment
<1>3. \A j \in Payments \ {k} : payment'[j] = payment[j]
  <2>1. DOMAIN payment = Payments
    BY DEF DeskInv, CheckoutInv, SessionRows, CheckoutTypeOK
  <2> QED
    BY <2>1 DEF CheckoutStep, ReadSession, DispatchWebhook, PayerHandlerDies
<1>4. OpenPayments'
  BY <1>2, <1>3 DEF DeskInv, OpenPayments, Price, walletVars
<1>5. CheckoutStep(TRUE)
  BY DEF CheckoutStep
<1> QED
  BY <1>1, <1>2, <1>4, <1>5, CheckoutKept

LEMMA PaymentBegun ==
  ASSUME DeskInv, NEW k \in Payments, CheckoutStep(BeginPayment(k))
  PROVE  DeskInv'
<1>1. /\ ReadBalance(k, Price(k)) /\ payment[k].stage = "read"
      /\ UNCHANGED <<requests, cardVars, checkoutVars>>
  BY DEF CheckoutStep, BeginPayment, Price
<1>2. CardInv' /\ Cost(Taken)' = Cost(Taken) /\ CheckoutInv' /\ Sales' = Sales
  BY <1>1, CardsRest, CheckoutRests DEF DeskInv
<1>3. PICK s \in Nat : s = RecordedCost
  BY RecordedNat DEF DeskInv
<1>4. RecordedCost' = s
  BY <1>2, <1>3 DEF RecordedCost, Taken
<1>5. Wallet(s)'
  BY <1>1, <1>3, WalletRead DEF DeskInv
<1>6. /\ \A u \in Debits \ {k} : seen'[u] = seen[u]
      /\ \A p \in Purchases : seen'[p] = seen[p]
  BY <1>1, OthersSeen
<1>7. seen'[k] = balance /\ Price(k) <= balance
  BY <1>1 DEF ReadBalance, DeskInv, Wallet, PayerTypeOK
<1>8. OpenPayments'
  BY <1>1, <1>6, <1>7 DEF OpenPayments, Price, DeskInv, checkoutVars
<1>9. OpenPurchases'
  BY <1>1, <1>6, OpenPurchasesRest DEF DeskInv, cardVars
<1>10. Wallet(RecordedCost)'
  BY <1>4, <1>5
<1> QED
  BY <1>2, <1>8, <1>9, <1>10 DEF DeskInv

LEMMA PaymentRejected ==
  ASSUME DeskInv, NEW k \in Payments, CheckoutStep(RejectPayment(k))
  PROVE  DeskInv'
<1>1. RollBack(k) /\ UNCHANGED <<requests, cardVars, session>>
      /\ payment' = [payment EXCEPT ![k] = NoPayment]
  BY DEF CheckoutStep, RejectPayment
<1>2. CardInv' /\ Cost(Taken)' = Cost(Taken) /\ CheckoutInv' /\ Sales' = Sales
  BY <1>1, CardsRest, PaymentStep DEF CheckoutStep, DeskInv
<1>3. PICK s \in Nat : s = RecordedCost
  BY RecordedNat DEF DeskInv
<1>4. RecordedCost' = s
  BY <1>2, <1>3 DEF RecordedCost, Taken
<1>5. Wallet(s)'
  BY <1>1, <1>3, WalletRolledBack DEF DeskInv
<1>6. /\ \A u \in Debits \ {k} : seen'[u] = seen[u]
      /\ \A p \in Purchases : seen'[p] = seen[p]
  BY <1>1, OthersSeen
<1>7. /\ seen'[k] = None
      /\ \A j \in Payments \ {k} : payment'[j] = payment[j]
  BY <1>1 DEF RollBack, DeskInv, Wallet, PayerTypeOK, CheckoutInv, SessionRows, CheckoutTypeOK
<1>8. OpenPayments'
  BY <1>1, <1>6, <1>7 DEF OpenPayments, Price, DeskInv
<1>9. OpenPurchases'
  BY <1>1, <1>6, OpenPurchasesRest DEF DeskInv, cardVars
<1>10. Wallet(RecordedCost)'
  BY <1>4, <1>5
<1> QED
  BY <1>2, <1>8, <1>9, <1>10 DEF DeskInv

LEMMA PaymentMade ==
  ASSUME DeskInv, NEW k \in Payments, CheckoutStep(PayCheckoutSession(k))
  PROVE  DeskInv'
<1>1. UNCHANGED <<requests, cardVars>>
  BY DEF CheckoutStep, PayCheckoutSession
<1>2. PICK a \in Nat : a = Price(k)
  BY PayStep DEF CheckoutStep, DeskInv
<1>3. /\ CheckoutInv' /\ Sales' = Sales + a /\ Debit(k, a)
      /\ session' = [session EXCEPT ![payment[k].session].status = "COMPLETED"]
      /\ payment' = [payment EXCEPT ![k].stage = "paid"]
  BY <1>2, PayStep DEF CheckoutStep, DeskInv
<1>4. CardInv' /\ Cost(Taken)' = Cost(Taken)
  BY <1>1, CardsRest DEF DeskInv
<1>5. PICK s \in Nat : s = RecordedCost
  BY RecordedNat DEF DeskInv
<1>6. RecordedCost' = s + a
  BY <1>3, <1>4, <1>5, RecordedNat DEF RecordedCost, Taken, DeskInv
<1>7. a <= seen[k]
  BY <1>2, <1>3 DEF DeskInv, OpenPayments, Debit
<1>8. Wallet(s + a)'
  BY <1>1, <1>3, <1>5, <1>7, WalletDebited DEF DeskInv
<1>9. /\ \A u \in Debits \ {k} : seen'[u] = seen[u]
      /\ \A p \in Purchases : seen'[p] = seen[p]
  BY <1>3, OthersSeen
<1>10. seen'[k] = None /\ \A j \in Payments \ {k} : payment'[j] = payment[j]
  BY <1>3 DEF Debit, DeskInv, Wallet, PayerTypeOK, CheckoutInv, SessionRows, CheckoutTypeOK
<1>11. \A t \in Sessions : session'[t].of = session[t].of
  <2>1. session \in [Sessions -> SessionRow]
    BY DEF DeskInv, CheckoutInv, SessionRows, CheckoutTypeOK, SessionRow
  <2> QED
    BY <1>3, <2>1 DEF SessionRow
<1>12. OpenPayments'
  <2>1. \A j \in Payments : payment[j].stage = "read" => payment[j].session \in Sessions
    BY DEF DeskInv, CheckoutInv, SessionRows
  <2> QED
    BY <1>9, <1>10, <1>11, <2>1 DEF OpenPayments, Price, DeskInv
<1>13. OpenPurchases'
  BY <1>1, <1>9, OpenPurchasesRest DEF DeskInv, cardVars
<1>14. Wallet(RecordedCost)'
  BY <1>6, <1>8
<1> QED
  BY <1>3, <1>4, <1>12, <1>13, <1>14 DEF DeskInv

LEMMA DeskStep ==
  ASSUME DeskInv, [Next]_vars
  PROVE  DeskInv'
<1>1. CASE UNCHANGED vars
  <2>1. UNCHANGED <<walletVars, requests, cardVars, checkoutVars>>
    BY <1>1 DEF vars, payerVars
  <2>2. CardInv' /\ Cost(Taken)' = Cost(Taken) /\ CheckoutInv' /\ Sales' = Sales
    BY <2>1, CardsRest, CheckoutRests DEF DeskInv
  <2>3. RecordedCost' = RecordedCost
    BY <2>2 DEF RecordedCost, Taken
  <2>4. OpenPurchases' /\ OpenPayments'
    BY <2>1, OpenPurchasesRest, OpenPaymentsRest DEF DeskInv, walletVars, cardVars, checkoutVars
  <2> QED
    BY <2>1, <2>2, <2>3, <2>4, DeskIdle
<1>2. CASE Next
  BY <1>2, CardRequestKept, PurchaseKept, PurchaseBegun, PurchaseApproved, PurchaseDeclined,
     MerchantKept, OpeningKept, PaymentKept, PaymentBegun, PaymentRejected, PaymentMade
  DEF Next
<1> QED
  BY <1>1, <1>2

LEMMA DeskHolds == Spec => []DeskInv
<1>1. Init => DeskInv
  BY InitDesk
<1>2. DeskInv /\ [Next]_vars => DeskInv'
  BY DeskStep
<1> QED
  BY <1>1, <1>2, PTL DEF Spec

(* Whatever purchases and payments interleave, the wallet never loses more *)
(* than they say, and loses exactly that as long as no two transactions    *)
(* that debit it were open at once (wallets.service.ts:164, 177,           *)
(* cards.service.ts:134-143, merchant.service.ts:220-246).                 *)
THEOREM BalanceAlwaysExplained == Spec => []BalanceExplained
<1>1. DeskInv => BalanceExplained
  BY DEF DeskInv, Wallet, BalanceExplained
<1> QED
  BY <1>1, DeskHolds, PTL

(* A session is paid once, however many payments of it were in progress,   *)
(* and an invoice whose sessions and voids did not overlap is paid at most *)
(* once and says so (payCheckoutSession, voidInvoice).                     *)
THEOREM CheckoutHolds == Spec => []CheckoutSound
<1>1. DeskInv => CheckoutSound
  <2> SUFFICES ASSUME DeskInv PROVE CheckoutSound
    OBVIOUS
  <2>1. TypeOK
    BY DEF TypeOK, DeskInv, Wallet, CardInv, CardRows, CheckoutInv, SessionRows
  <2>2. InvoiceTrue
    <3> SUFFICES ASSUME NEW i \in Invoices, i \notin contested
                 PROVE  /\ Cardinality(CompletedFor(i)) <= 1
                        /\ (invoice[i] = "PAID") = (CompletedFor(i) # {})
      BY DEF InvoiceTrue
    <3>1. /\ \A s, t \in CompletedFor(i) : s = t
          /\ invoice[i] = "PAID" <=> CompletedFor(i) # {}
      BY DEF DeskInv, CheckoutInv, Uncontested, CompletedFor, Completed
    <3>2. ASSUME NEW s \in CompletedFor(i) PROVE CompletedFor(i) = {s}
      BY <3>1
    <3>3. Cardinality(CompletedFor(i)) \in {0, 1}
      <4>1. CASE CompletedFor(i) = {}
        BY <4>1, FS_EmptySet
      <4>2. ASSUME NEW s \in CompletedFor(i) PROVE Cardinality(CompletedFor(i)) = 1
        BY <3>2, FS_Singleton
      <4> QED
        BY <4>1, <4>2
    <3> QED
      BY <3>1, <3>3
  <2> QED
    BY <2>1, <2>2 DEF CheckoutSound, DeskInv, CheckoutInv
<1> QED
  BY <1>1, DeskHolds, PTL

(* A purchase that no other request of its card disturbed is approved only *)
(* on an active card and within its limit (cards.service.ts:113-131).      *)
THEOREM PurchasesWithinLimit == Spec => WithinLimit
<1> DEFINE Kept ==
      \A p \in Purchases \ disturbed :
        LET c == purchase[p].card
        IN  purchase[p].stage = "checked" /\ purchase'[p].stage = "APPROVED" =>
              /\ card[c].status = "ACTIVE"
              /\ card[c].limit = None \/ Spent(c)' <= card[c].limit
<1>1. DeskInv /\ [Next]_vars => [Kept]_<<payerVars, cardVars>>
  <2> SUFFICES ASSUME DeskInv, [Next]_vars, NEW p \in Purchases, p \notin disturbed,
                      purchase[p].stage = "checked", purchase'[p].stage = "APPROVED"
               PROVE  /\ card[purchase[p].card].status = "ACTIVE"
                      /\ \/ card[purchase[p].card].limit = None
                         \/ Spent(purchase[p].card)' <= card[purchase[p].card].limit
    OBVIOUS
  <2>1. purchase \in [Purchases -> PurchaseRow]
    BY DEF DeskInv, CardInv, CardRows, CardsTypeOK, PurchaseRow
  <2>2. purchase'[p] # purchase[p]
    OBVIOUS
  <2>3. \A c \in Cards, q \in Purchases, amount \in Amounts : ~ReadCard(q, c, amount)
    <3> SUFFICES ASSUME NEW c \in Cards, NEW q \in Purchases, NEW amount \in Amounts,
                        ReadCard(q, c, amount)
                 PROVE  FALSE
      OBVIOUS
    <3>1. \A r \in Purchases \ {q} : purchase'[r] = purchase[r]
      BY <2>1 DEF ReadCard
    <3>2. purchase[q].stage = "none"
      BY DEF ReadCard
    <3> QED
      BY <2>2, <3>1, <3>2
  <2>4. \A q \in Purchases : ~CheckLimit(q)
    <3> SUFFICES ASSUME NEW q \in Purchases, CheckLimit(q) PROVE FALSE
      OBVIOUS
    <3>1. \A r \in Purchases \ {q} : purchase'[r] = purchase[r]
      BY <2>1 DEF CheckLimit
    <3>2. purchase[q].stage = "read"
      BY DEF CheckLimit
    <3> QED
      BY <2>2, <3>1, <3>2
  <2>5. \A q \in Purchases : ~Decline(q) /\ ~BeginPurchase(q)
    <3>0. \A q \in Purchases : ~BeginPurchase(q)
      BY <2>2 DEF BeginPurchase, cardVars
    <3> SUFFICES ASSUME NEW q \in Purchases, Decline(q) PROVE FALSE
      BY <3>0
    <3>1. \A r \in Purchases \ {q} : purchase'[r] = purchase[r]
      BY <2>1 DEF Decline
    <3>2. purchase'[q].stage = "DECLINED"
      BY <2>1 DEF Decline, PurchaseRow
    <3> QED
      BY <2>2, <3>1, <3>2
  <2>6. ~NewPeriod
    <3> SUFFICES ASSUME NewPeriod PROVE FALSE
      OBVIOUS
    <3>1. purchase'[p] = purchase[p]
      BY DEF NewPeriod
    <3> QED
      BY <2>2, <3>1
  <2>7. PICK q \in Purchases : Approve(q)
    <3>1. purchase' # purchase
      BY <2>2
    <3>2. ~CheckoutStep(TRUE)
      BY <3>1 DEF CheckoutStep, cardVars
    <3>3. ~UNCHANGED vars
      BY <3>1 DEF vars, cardVars
    <3>4. \A c \in Cards :
            /\ ~IssueCard(c) /\ ~Freeze(c) /\ ~ReadUnfreeze(c) /\ ~Unfreeze(c) /\ ~Terminate(c)
            /\ \A limit \in Limits \cup {None} : ~SetLimit(c, limit)
      BY <3>1 DEF IssueCard, Freeze, ReadUnfreeze, Unfreeze, Terminate, SetLimit, UpdateCard
    <3>5. \E q \in Purchases : CardStep(Approve(q))
      BY <2>3, <2>4, <2>5, <2>6, <3>2, <3>3, <3>4 DEF Next, CardStep, CheckoutStep
    <3> QED
      BY <3>5 DEF CardStep
  <2>8. p = q
    <3>1. \A r \in Purchases \ {q} : purchase'[r] = purchase[r]
      BY <2>1, <2>7 DEF Approve
    <3> QED
      BY <2>2, <3>1
  <2> QED
    BY <2>7, <2>8, ApproveStep DEF DeskInv
<1> QED
  BY <1>1, DeskHolds, PTL DEF Spec, WithinLimit

=============================================================================
