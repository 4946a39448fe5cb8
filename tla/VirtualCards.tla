---------------------------- MODULE VirtualCards ----------------------------
(***************************************************************************)
(* Virtual cards: CardsService.  A purchase reads the card, then sums what *)
(* the card spent in the period, then debits the wallet and records itself *)
(* in one transaction; nothing that it has read is looked at again.  An    *)
(* unfreeze reads the status and later writes it; the other operations     *)
(* write without a condition.                                              *)
(***************************************************************************)
EXTENDS PayerWallet, Functions

CONSTANTS
  Cards,      \* cards linked to the wallet
  Purchases,  \* calls of simulatePurchase
  Amounts,    \* what a purchase may cost
  Limits      \* spending limits a user may set

ASSUME CardsAssumption ==
  /\ Amounts \subseteq Nat /\ Limits \subseteq Nat /\ None \notin Cards \cup Limits
  /\ Purchases \subseteq Debits

VARIABLES
  card,      \* card[c]: status and spendingLimitAmount
  purchase,  \* purchase[p]: its card and amount, the limit it read, how far it is
  thawing,   \* the cards an unfreeze has read and not yet written
  disturbed, \* purchases whose card another request used or changed meanwhile
  gone       \* cards terminated while no unfreeze was in progress

cardVars == <<card, purchase, thawing, disturbed, gone>>

Running == {"read", "checked"}
Recorded == {"APPROVED", "DECLINED", "past"}
NoPurchase == [card |-> None, amount |-> 0, limit |-> None, stage |-> "none"]

CardsTypeOK ==
  /\ card \in [Cards -> [status : {"none", "ACTIVE", "FROZEN", "TERMINATED"},
                         limit : Limits \cup {None}]]
  /\ purchase \in [Purchases -> [card : Cards \cup {None}, amount : Amounts \cup {0},
                                 limit : Limits \cup {None},
                                 stage : Running \cup Recorded \cup {"none"}]]
  /\ thawing \cup gone \subseteq {c \in Cards : card[c].status # "none"}
  /\ disturbed \subseteq {p \in Purchases : purchase[p].card # None}

CardsInit ==
  /\ card = [c \in Cards |-> [status |-> "none", limit |-> None]]
  /\ purchase = [p \in Purchases |-> NoPurchase]
  /\ thawing = {}
  /\ disturbed = {}
  /\ gone = {}

RunningOn(c) == {p \in Purchases : purchase[p].card = c /\ purchase[p].stage \in Running}

(* What the purchases of S cost.                                           *)
Cost(S) == SumFunctionOnSet([p \in Purchases |-> purchase[p].amount], S)

(* What the card spent since the start of the period: the aggregate of     *)
(* lines 122-125, over the purchases recorded as APPROVED in it.           *)
Spent(c) ==
  Cost({p \in Purchases : purchase[p].card = c /\ purchase[p].stage = "APPROVED"})

-----------------------------------------------------------------------------
IssueCard(c) ==
  /\ card[c].status = "none"
  /\ card' = [card EXCEPT ![c].status = "ACTIVE"]
  /\ UNCHANGED <<payerVars, purchase, thawing, disturbed, gone>>

(* An update of the row of card c by id, whatever the row is by now.       *)
UpdateCard(c, new) ==
  /\ card[c].status # "none"
  /\ card' = [card EXCEPT ![c] = new]
  /\ disturbed' = disturbed \cup RunningOn(c)
  /\ UNCHANGED <<walletVars, purchase>>

Freeze(c) ==
  /\ Arrives
  /\ UpdateCard(c, [card[c] EXCEPT !.status = "FROZEN"])
  /\ UNCHANGED <<thawing, gone>>

(* unfreeze: the read with its check, then the update.                     *)
ReadUnfreeze(c) ==
  /\ Arrives
  /\ card[c].status \in {"ACTIVE", "FROZEN"}
  /\ c \notin thawing
  /\ thawing' = thawing \cup {c}
  /\ UNCHANGED <<walletVars, card, purchase, disturbed, gone>>

Unfreeze(c) ==
  /\ c \in thawing
  /\ UpdateCard(c, [card[c] EXCEPT !.status = "ACTIVE"])
  /\ thawing' = thawing \ {c}
  /\ UNCHANGED <<requests, gone>>

Terminate(c) ==
  /\ Arrives
  /\ UpdateCard(c, [card[c] EXCEPT !.status = "TERMINATED"])
  /\ gone' = gone \cup ({c} \ thawing)
  /\ UNCHANGED thawing

(* setLimit and clearLimit.                                                *)
SetLimit(c, limit) ==
  /\ Arrives
  /\ UpdateCard(c, [card[c] EXCEPT !.limit = limit])
  /\ UNCHANGED <<thawing, gone>>

-----------------------------------------------------------------------------
(* simulatePurchase, in its three awaits.                                  *)

(* getOwnedCard, and the check of the status.                              *)
ReadCard(p, c, amount) ==
  /\ Arrives
  /\ purchase[p].stage = "none" /\ card[c].status # "none"
  /\ purchase' = [purchase EXCEPT ![p] =
       [card |-> c, amount |-> amount, limit |-> card[c].limit,
        stage |-> IF card[c].status = "ACTIVE" THEN "read" ELSE "DECLINED"]]
  /\ disturbed' = IF RunningOn(c) = {} \/ card[c].status # "ACTIVE" THEN disturbed
                  ELSE disturbed \cup RunningOn(c) \cup {p}
  /\ UNCHANGED <<walletVars, card, thawing, gone>>

(* The purchase itself left out of the comparison.                         *)
CheckLimitSpentOnly(p) ==
  /\ purchase[p].stage = "read"
  /\ LET q == purchase[p]
         over == q.limit # None /\ Spent(q.card) > q.limit
     IN  purchase' = [purchase EXCEPT ![p].stage = IF over THEN "DECLINED" ELSE "checked"]
  /\ UNCHANGED <<payerVars, card, thawing, disturbed, gone>>

(* The aggregate and the comparison with the limit that was read.          *)
CheckLimit(p) ==
  /\ purchase[p].stage = "read"
  /\ LET q == purchase[p]
         over == q.limit # None /\ Spent(q.card) + q.amount > q.limit
     IN  purchase' = [purchase EXCEPT ![p].stage = IF over THEN "DECLINED" ELSE "checked"]
  /\ UNCHANGED <<payerVars, card, thawing, disturbed, gone>>

(* The transaction begins: it reads the balance, which must suffice.       *)
BeginPurchase(p) ==
  /\ purchase[p].stage = "checked"
  /\ ReadBalance(p, purchase[p].amount)
  /\ UNCHANGED <<requests, cardVars>>

(* The transaction recorded outside of the one that debits.                *)
ApproveWithoutDebit(p) ==
  /\ purchase[p].stage = "checked"
  /\ RollBack(p)
  /\ purchase' = [purchase EXCEPT ![p].stage = "APPROVED"]
  /\ UNCHANGED <<requests, card, thawing, disturbed, gone>>

(* Debit and record in one transaction.                                    *)
Approve(p) ==
  /\ purchase[p].stage = "checked"
  /\ Debit(p, purchase[p].amount)
  /\ purchase' = [purchase EXCEPT ![p].stage = "APPROVED"]
  /\ UNCHANGED <<requests, card, thawing, disturbed, gone>>

(* The catch: whatever the transaction threw, the purchase is declined for *)
(* want of balance.                                                        *)
Decline(p) ==
  /\ purchase[p].stage = "checked"
  /\ RollBack(p)
  /\ purchase' = [purchase EXCEPT ![p].stage = "DECLINED"]
  /\ UNCHANGED <<requests, card, thawing, disturbed, gone>>

(* Midnight, or the first of the month: periodStart moves on.              *)
NewPeriod ==
  /\ \E p \in Purchases : purchase[p].stage = "APPROVED"
  /\ purchase' = [p \in Purchases |->
       IF purchase[p].stage = "APPROVED" THEN [purchase[p] EXCEPT !.stage = "past"] ELSE purchase[p]]
  /\ UNCHANGED <<payerVars, card, thawing, disturbed, gone>>

CardsNext ==
  \/ \E c \in Cards :
       \/ IssueCard(c) \/ Freeze(c) \/ ReadUnfreeze(c) \/ Unfreeze(c) \/ Terminate(c)
       \/ \E limit \in Limits \cup {None} : SetLimit(c, limit)
       \/ \E p \in Purchases, amount \in Amounts : ReadCard(p, c, amount)
  \/ \E p \in Purchases : CheckLimit(p) \/ BeginPurchase(p) \/ Approve(p) \/ Decline(p)
  \/ NewPeriod

CardsSpec == PayerInit /\ CardsInit /\ [][CardsNext]_<<payerVars, cardVars>>

-----------------------------------------------------------------------------
(* A purchase that no other request of its card disturbs is approved only  *)
(* on an active card and never takes what the card spent in the period     *)
(* beyond its limit (cards.service.ts:113-131).  Purchases that overlap    *)
(* can exceed it together: both sum before either is recorded.             *)
WithinLimit ==
  [][\A p \in Purchases \ disturbed :
       LET c == purchase[p].card
       IN  purchase[p].stage = "checked" /\ purchase'[p].stage = "APPROVED" =>
             /\ card[c].status = "ACTIVE"
             /\ card[c].limit = None \/ Spent(c)' <= card[c].limit]_<<payerVars, cardVars>>

(* "A terminated card cannot be reactivated" (cards.service.ts:58).        *)
TerminatedForGood == \A c \in gone : card[c].status # "ACTIVE"

=============================================================================
