---------------------------- MODULE PaymentsDesk ----------------------------
(***************************************************************************)
(* Cards and checkout of one user at work on one wallet.                   *)
(***************************************************************************)
EXTENDS VirtualCards, Checkout

ASSUME DeskAssumption == Purchases \cap Payments = {}

vars == <<payerVars, cardVars, checkoutVars>>

TypeOK == PayerTypeOK /\ CardsTypeOK /\ CheckoutTypeOK

Init == PayerInit /\ CardsInit /\ CheckoutInit

CardStep(step) == step /\ UNCHANGED checkoutVars
CheckoutStep(step) == step /\ UNCHANGED cardVars

(* CardsNext and CheckoutNext, disjunct by disjunct.                       *)
Next ==
  \/ \E c \in Cards :
       \/ CardStep(IssueCard(c))
       \/ CardStep(Freeze(c))
       \/ CardStep(ReadUnfreeze(c))
       \/ CardStep(Unfreeze(c))
       \/ CardStep(Terminate(c))
       \/ \E limit \in Limits \cup {None} : CardStep(SetLimit(c, limit))
       \/ \E p \in Purchases, amount \in Amounts : CardStep(ReadCard(p, c, amount))
  \/ \E p \in Purchases :
       \/ CardStep(CheckLimit(p))
       \/ CardStep(BeginPurchase(p))
       \/ CardStep(Approve(p))
       \/ CardStep(Decline(p))
  \/ CardStep(NewPeriod)
  \/ \E i \in Invoices :
       \/ CheckoutStep(CreateInvoice(i))
       \/ CheckoutStep(ReadInvoice(i))
       \/ CheckoutStep(VoidInvoice(i))
  \/ \E l \in Links :
       \/ CheckoutStep(CreatePaymentLink(l))
       \/ CheckoutStep(DeactivatePaymentLink(l))
  \/ \E s \in Sessions :
       \/ \E x \in Invoices \cup Links : CheckoutStep(ReadPayable(s, x))
       \/ CheckoutStep(CreateCheckoutSession(s))
       \/ \E k \in Payments : CheckoutStep(ReadSession(k, s))
  \/ \E k \in Payments :
       \/ CheckoutStep(BeginPayment(k))
       \/ CheckoutStep(PayCheckoutSession(k))
       \/ CheckoutStep(RejectPayment(k))
       \/ CheckoutStep(DispatchWebhook(k))
       \/ CheckoutStep(PayerHandlerDies(k))

Spec == Init /\ [][Next]_vars /\ HandlersFinish

(* What the approved purchases and the completed payments cost.            *)
RecordedCost ==
  Cost({p \in Purchases : purchase[p].stage \in {"APPROVED", "past"}}) + Sales

(* Whatever purchases and payments interleave, the wallet never loses more *)
(* than its approved purchases and completed payments say, and loses       *)
(* exactly that as long as no two transactions that debit it were open at  *)
(* once: then the one that writes last undoes the other's debit            *)
(* (wallets.service.ts:164, 177, cards.service.ts:134-143,                 *)
(* merchant.service.ts:220-246).                                           *)
BalanceExplained ==
  /\ OpeningBalance - balance <= RecordedCost
  /\ ~overlapped => OpeningBalance - balance = RecordedCost

(* Rows keep their shapes; a session is paid once and its invoice says so  *)
(* (payCheckoutSession, voidInvoice).                                      *)
CheckoutSound == TypeOK /\ PaidOncePerSession /\ InvoiceTrue
=============================================================================
