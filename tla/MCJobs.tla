------------------------------- MODULE MCJobs -------------------------------
(***************************************************************************)
(* The work that goes on behind the requests, each part with tables of its *)
(* own: the settlement of bank transfers, the recurrence rules, the price  *)
(* alerts; and the rates and fee rules an administrator changes meanwhile. *)
(* A behaviour is one of one part; the others stay as they began.          *)
(***************************************************************************)
EXTENDS BankTransfers, MCRecurrence, PriceAlerts, Pricing

VARIABLE part

jobVars == <<part, vars, recurrenceVars, alertVars, pricingVars>>

JobsInit ==
  /\ part \in {"bank", "recurrence", "alerts", "fees", "rates"}
  /\ Init /\ RecurrenceInit /\ PricingInit
  /\ IF part = "alerts" THEN AlertsInit ELSE AlertsRest

Bank(step) ==
  /\ part = "bank" /\ step
  /\ UNCHANGED <<part, recurrenceVars, alertVars, pricingVars>>
Recur(step) ==
  part = "recurrence" /\ step /\ UNCHANGED <<part, vars, alertVars, pricingVars>>
Alert(step) ==
  part = "alerts" /\ step /\ UNCHANGED <<part, vars, recurrenceVars, pricingVars>>
Price(table, step) ==
  part = table /\ step /\ UNCHANGED <<part, vars, recurrenceVars, alertVars>>

(* The next-state relations of the parts, disjunct by disjunct.            *)
JobsNext ==
  \/ \E x \in Transfers :
       \/ Bank(Debit(x)) \/ Bank(Schedule(x)) \/ Bank(CancelScheduled(x))
       \/ Bank(Initiate(x)) \/ Bank(Enqueue(x)) \/ Bank(HandlerDies(x))
  \/ \E k \in Workers :
       \/ \E x \in Transfers : Bank(Take(k, x))
       \/ Bank(SkipSettled(k)) \/ Bank(AskProvider(k)) \/ Bank(CompleteTransfer(k))
       \/ Bank(RefundTransfer(k)) \/ Bank(RefundRejected(k))
       \/ Bank(AttemptFails(k)) \/ Bank(Stall(k))
  \/ Recur(TimePasses)
  \/ \E x \in Templates : Recur(CancelRecurring(x))
  \/ \E k \in Ticks :
       Recur(StartTick(k)) \/ Recur(SpawnInstance(k)) \/ Recur(AdvanceRule(k)) \/ Recur(TickDies(k))
  \/ Alert(CreateAlert) \/ Alert(DeleteAlert) \/ Alert(MovePrice) \/ Alert(Die)
  \/ \E k \in Rounds :
       \/ Alert(ReadPending(k)) \/ Alert(CheckPrice(k)) \/ Alert(MarkTriggered(k))
       \/ Alert(SendMail(k)) \/ Alert(FinishRound(k))
  \/ Price("fees", SetFeeRuleActive) \/ Price("fees", UpdateFeeRule)
  \/ Price("rates", UpsertExchangeRate)

(* The fairness of FairSpec and FairRecurrence.                            *)
JobsSpec ==
  /\ JobsInit /\ [][JobsNext]_jobVars
  /\ \A x \in Transfers : WF_jobVars(Bank(Handle(x)))
  /\ \A k \in Workers : WF_jobVars(Bank(Work(k)))
  /\ WF_jobVars(Recur(TimePasses))
  /\ \A k \in Ticks : WF_jobVars(Recur(RunTick(k)))

(* The rules, where they are at work, promise an end.                      *)
RulesFire == part = "recurrence" => RecurrenceFires
=============================================================================
