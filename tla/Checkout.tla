------------------------------ MODULE Checkout ------------------------------
(***************************************************************************)
(* Invoices, payment links and checkout: MerchantService.  Opening a       *)
(* session, paying it and voiding an invoice each read a status and write  *)
(* later.  A payment debits the payer, credits the merchant and updates    *)
(* session and invoice in one transaction, whose ledger references are the *)
(* session's: two payments of one session meet there, two sessions of one  *)
(* invoice do not.  The webhook is sent after the transaction, once.       *)
(***************************************************************************)
EXTENDS PayerWallet, FiniteSets, Functions

CONSTANTS
  Invoices, Links,  \* what can be paid
  Due,              \* Due[x]: the amount of invoice or link x
  Sessions,         \* checkout sessions
  Payments          \* calls of payCheckoutSession that can be in progress

ASSUME CheckoutAssumption ==
  /\ Invoices \cap Links = {}
  /\ Due \in [Invoices \cup Links -> Nat]
  /\ None \notin Invoices \cup Links \cup Sessions
  /\ Payments \subseteq Debits

VARIABLES
  invoice,    \* invoice[i]: its status
  active,     \* the links that are active
  retired,    \* the links that were deactivated
  session,    \* session[s]: its status, and the invoice or link it is for
  payment,    \* payment[k]: the session it has read as PENDING, how far it is
  voiding,    \* the invoices a void has read as not PAID and not yet written
  proceeds,   \* what the merchant's ledger entries add up to
  posted,     \* the sessions whose references are in the ledger
  notified,   \* the sessions whose webhook was dispatched
  unsent,     \* the sessions whose handler died before its webhook
  contested   \* the invoices for which two sessions or a void and a payment overlapped

checkoutVars ==
  <<invoice, active, retired, session, payment, voiding, proceeds, posted,
    notified, unsent, contested>>

NoSession == [of |-> None, status |-> "none"]
NoPayment == [session |-> None, stage |-> "idle"]

CheckoutTypeOK ==
  /\ invoice \in [Invoices -> {"none", "SENT", "PAID", "VOID"}]
  /\ active \cup retired \subseteq Links
  /\ session \in [Sessions -> [of : Invoices \cup Links \cup {None},
                               status : {"none", "opening", "PENDING", "COMPLETED"}]]
  /\ payment \in [Payments -> [session : Sessions \cup {None}, stage : {"idle", "read", "paid"}]]
  /\ voiding \cup contested \subseteq {i \in Invoices : invoice[i] # "none"}
  /\ proceeds \in Nat
  /\ posted \cup notified \cup unsent \subseteq {s \in Sessions : session[s].of # None}

CheckoutInit ==
  /\ invoice = [i \in Invoices |-> "none"]
  /\ active = {} /\ retired = {}
  /\ session = [s \in Sessions |-> NoSession]
  /\ payment = [k \in Payments |-> NoPayment]
  /\ voiding = {} /\ contested = {}
  /\ proceeds = 0
  /\ posted = {} /\ notified = {} /\ unsent = {}

Completed == {s \in Sessions : session[s].status = "COMPLETED"}
CompletedFor(x) == {s \in Completed : session[s].of = x}
Payable(x) == {s \in Sessions : session[s].of = x /\ session[s].status \in {"opening", "PENDING"}}
Paying(x) == {k \in Payments : payment[k].stage = "read" /\ session[payment[k].session].of = x}

-----------------------------------------------------------------------------
(* The merchant.                                                           *)

CreateInvoice(i) ==
  /\ invoice[i] = "none"
  /\ invoice' = [invoice EXCEPT ![i] = "SENT"]
  /\ UNCHANGED <<payerVars, active, retired, session, payment, voiding, proceeds,
                 posted, notified, unsent, contested>>

CreatePaymentLink(l) ==
  /\ l \notin active \cup retired
  /\ active' = active \cup {l}
  /\ UNCHANGED <<payerVars, invoice, retired, session, payment, voiding, proceeds,
                 posted, notified, unsent, contested>>

DeactivatePaymentLink(l) ==
  /\ Arrives
  /\ l \in active
  /\ active' = active \ {l}
  /\ retired' = retired \cup {l}
  /\ UNCHANGED <<walletVars, invoice, session, payment, voiding, proceeds,
                 posted, notified, unsent, contested>>

(* voidInvoice: the read and the check, then the update by id.             *)
ReadInvoice(i) ==
  /\ Arrives
  /\ invoice[i] \in {"SENT", "VOID"} /\ i \notin voiding
  /\ voiding' = voiding \cup {i}
  /\ contested' = IF Paying(i) = {} THEN contested ELSE contested \cup {i}
  /\ UNCHANGED <<walletVars, invoice, active, retired, session, payment, proceeds,
                 posted, notified, unsent>>

VoidInvoice(i) ==
  /\ i \in voiding
  /\ invoice' = [invoice EXCEPT ![i] = "VOID"]
  /\ voiding' = voiding \ {i}
  /\ UNCHANGED <<payerVars, active, retired, session, payment, proceeds,
                 posted, notified, unsent, contested>>

-----------------------------------------------------------------------------
(* createCheckoutSession, then create.                                     *)

(* getPublicPaymentLink or getPublicInvoice, and the check.  A void        *)
(* invoice passes it.                                                      *)
ReadPayable(s, x) ==
  /\ Arrives
  /\ session[s] = NoSession
  /\ x \in active \/ (x \in Invoices /\ invoice[x] \in {"SENT", "VOID"})
  /\ session' = [session EXCEPT ![s] = [of |-> x, status |-> "opening"]]
  /\ contested' = IF x \in Invoices /\ Payable(x) # {} THEN contested \cup {x} ELSE contested
  /\ UNCHANGED <<walletVars, invoice, active, retired, payment, voiding, proceeds,
                 posted, notified, unsent>>

CreateCheckoutSession(s) ==
  /\ session[s].status = "opening"
  /\ session' = [session EXCEPT ![s].status = "PENDING"]
  /\ UNCHANGED <<payerVars, invoice, active, retired, payment, voiding, proceeds,
                 posted, notified, unsent, contested>>

-----------------------------------------------------------------------------
(* payCheckoutSession.                                                     *)

ReadSession(k, s) ==
  /\ Arrives
  /\ payment[k] = NoPayment
  /\ session[s].status = "PENDING"
  /\ payment' = [payment EXCEPT ![k] = [session |-> s, stage |-> "read"]]
  /\ contested' = contested \cup ({session[s].of} \cap voiding)
  /\ UNCHANGED <<walletVars, invoice, active, retired, session, voiding, proceeds,
                 posted, notified, unsent>>

(* The transaction begins: it reads the payer's balance, which must suffice. *)
BeginPayment(k) ==
  /\ payment[k].stage = "read"
  /\ ReadBalance(k, Due[session[payment[k].session].of])
  /\ UNCHANGED <<requests, checkoutVars>>

(* A ledger reference per request instead of one per session.              *)
PayCheckoutSessionFreshReference(k) ==
  /\ payment[k].stage = "read"
  /\ LET s == payment[k].session
         x == session[s].of
     IN  /\ Debit(k, Due[x])
         /\ proceeds' = proceeds + Due[x]
         /\ posted' = posted \cup {s}
         /\ session' = [session EXCEPT ![s].status = "COMPLETED"]
         /\ invoice' = IF x \in Invoices THEN [invoice EXCEPT ![x] = "PAID"] ELSE invoice
  /\ payment' = [payment EXCEPT ![k].stage = "paid"]
  /\ UNCHANGED <<requests, active, retired, voiding, notified, unsent, contested>>

(* The transaction: both legs, the session and its invoice.                *)
PayCheckoutSession(k) ==
  /\ payment[k].stage = "read"
  /\ LET s == payment[k].session
         x == session[s].of
     IN  /\ s \notin posted
         /\ Debit(k, Due[x])
         /\ proceeds' = proceeds + Due[x]
         /\ posted' = posted \cup {s}
         /\ session' = [session EXCEPT ![s].status = "COMPLETED"]
         /\ invoice' = IF x \in Invoices THEN [invoice EXCEPT ![x] = "PAID"] ELSE invoice
  /\ payment' = [payment EXCEPT ![k].stage = "paid"]
  /\ UNCHANGED <<requests, active, retired, voiding, notified, unsent, contested>>

(* It throws: the balance, the reference, a timeout.                       *)
RejectPayment(k) ==
  /\ payment[k].stage = "read"
  /\ RollBack(k)
  /\ payment' = [payment EXCEPT ![k] = NoPayment]
  /\ UNCHANGED <<requests, invoice, active, retired, session, voiding, proceeds,
                 posted, notified, unsent, contested>>

(* A webhook that nobody dispatches.                                       *)
DispatchWebhookForgotten(k) ==
  /\ payment[k].stage = "paid"
  /\ payment' = [payment EXCEPT ![k] = NoPayment]
  /\ UNCHANGED <<payerVars, invoice, active, retired, session, voiding, proceeds,
                 posted, notified, unsent, contested>>

(* dispatchWebhook: one attempt, whose row says DELIVERED or FAILED.       *)
DispatchWebhook(k) ==
  /\ payment[k].stage = "paid"
  /\ notified' = notified \cup {payment[k].session}
  /\ payment' = [payment EXCEPT ![k] = NoPayment]
  /\ UNCHANGED <<payerVars, invoice, active, retired, session, voiding, proceeds,
                 posted, unsent, contested>>

(* The process dies before the webhook; nothing looks for it later.        *)
PayerHandlerDies(k) ==
  /\ payment[k].stage = "paid"
  /\ unsent' = unsent \cup {payment[k].session}
  /\ payment' = [payment EXCEPT ![k] = NoPayment]
  /\ UNCHANGED <<payerVars, invoice, active, retired, session, voiding, proceeds,
                 posted, notified, contested>>

FinishPayment(k) ==
  BeginPayment(k) \/ PayCheckoutSession(k) \/ RejectPayment(k) \/ DispatchWebhook(k)

CheckoutNext ==
  \/ \E i \in Invoices : CreateInvoice(i) \/ ReadInvoice(i) \/ VoidInvoice(i)
  \/ \E l \in Links : CreatePaymentLink(l) \/ DeactivatePaymentLink(l)
  \/ \E s \in Sessions :
       \/ \E x \in Invoices \cup Links : ReadPayable(s, x)
       \/ CreateCheckoutSession(s)
       \/ \E k \in Payments : ReadSession(k, s)
  \/ \E k \in Payments : FinishPayment(k) \/ PayerHandlerDies(k)

CheckoutSpec == PayerInit /\ CheckoutInit /\ [][CheckoutNext]_<<payerVars, checkoutVars>>

(* A live handler goes on to its end.                                      *)
HandlersFinish == \A k \in Payments : WF_<<payerVars, checkoutVars>>(FinishPayment(k))

-----------------------------------------------------------------------------
(* What the completed sessions are worth.                                  *)
Sales == SumFunction([s \in Completed |-> Due[session[s].of]])

(* The merchant has the money of the completed sessions, of each once,     *)
(* however many payments of one session were in progress                   *)
(* (merchant.service.ts:208, 220-246).                                     *)
PaidOncePerSession ==
  /\ proceeds = Sales
  /\ posted = Completed

(* "This invoice has already been paid" (merchant.service.ts:178) and      *)
(* "A paid invoice cannot be voided" (144): unless two of its sessions, or *)
(* a void and a payment, overlapped, an invoice is paid at most once, says *)
(* PAID exactly when it was paid, and never VOID.                          *)
InvoiceTrue ==
  \A i \in Invoices \ contested :
    /\ Cardinality(CompletedFor(i)) <= 1
    /\ (invoice[i] = "PAID") = (CompletedFor(i) # {})

(* Every completed session's webhook is tried, unless the process died:    *)
(* "best-effort webhook delivery" (README.md:76-77).                       *)
WebhookTried ==
  \A s \in Sessions : session[s].status = "COMPLETED" ~> s \in notified \cup unsent

=============================================================================
