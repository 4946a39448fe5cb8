---------------------------- MODULE BankTransfers ----------------------------
(***************************************************************************)
(* External bank transfers: TransfersService from the debit to the         *)
(* settlement, the BullMQ queue in Redis that carries the settlement job,  *)
(* and the workers that run it.                                            *)
(*                                                                         *)
(* The request handler commits three times: the debit and the row in the   *)
(* database, the row's PROCESSING status, the job in Redis.  It can die,   *)
(* or Redis can refuse the job, in between.  The queue delivers a job at   *)
(* least once: an attempt that throws is repeated (attempts: 3), and a job *)
(* whose worker lost its lock is given to another worker, while the first  *)
(* may still be running.                                                   *)
(***************************************************************************)
EXTENDS Integers, FiniteSets

CONSTANTS
  Transfers,  \* transfer ids, each created by one request
  Workers,    \* BullMQ workers, one job at a time each
  Idle,
  MaxDeaths,  \* bound: request handlers that die half way
  MaxErrors,  \* bound: settlement attempts that throw for an outside reason
  MaxStalls   \* bound: jobs whose worker loses its lock or its process

Attempts == 3   \* attempts: 3 in scheduleSettlement
StallLimit == 1 \* BullMQ's default maxStalledCount

ASSUME BankAssumption ==
  Idle \notin Workers /\ {MaxDeaths, MaxErrors, MaxStalls} \subseteq Nat

VARIABLES
  row,      \* row[x]: status and whether providerReference is set
  refs,     \* the ledger references <<transfer, leg>>
  handler,  \* handler[x]: how far the request that creates x has come
  queue,    \* queue[x]: the settlement job: where it is, failures, stalls, owner
  worker,   \* worker[k]: the job k runs and how far it is
  faults    \* how many deaths, errors and stalls have happened

vars == <<row, refs, handler, queue, worker, faults>>

Statuses == {"none", "SCHEDULED", "PENDING", "PROCESSING", "COMPLETED", "FAILED", "CANCELLED"}
Settled == {"COMPLETED", "FAILED", "CANCELLED"}

(* Every variable has its type, and a job waits only while it has attempts *)
(* left (scheduleSettlement).                                              *)
TypeOK ==
  /\ row \in [Transfers -> [status : Statuses, provider : BOOLEAN]]
  /\ refs \subseteq Transfers \X {"DEBIT", "REFUND"}
  /\ handler \in [Transfers -> {"idle", "debited", "initiated", "done", "dead"}]
  /\ queue \in [Transfers ->
        [at : {"none", "waiting", "active", "failed", "removed"},
         failures : 0..Attempts, stalls : 0..StallLimit, owner : Workers \cup {Idle}]]
  /\ worker \in [Workers -> [transfer : Transfers, stage : {"taken", "success", "failure"}]
                              \cup {Idle}]
  /\ \A x \in Transfers : queue[x].at = "waiting" => queue[x].failures < Attempts
  /\ faults \in [deaths : 0..MaxDeaths, errors : 0..MaxErrors, stalls : 0..MaxStalls]

Init ==
  /\ row = [x \in Transfers |-> [status |-> "none", provider |-> FALSE]]
  /\ refs = {}
  /\ handler = [x \in Transfers |-> "idle"]
  /\ queue = [x \in Transfers |->
                [at |-> "none", failures |-> 0, stalls |-> 0, owner |-> Idle]]
  /\ worker = [k \in Workers |-> Idle]
  /\ faults = [deaths |-> 0, errors |-> 0, stalls |-> 0]

-----------------------------------------------------------------------------
(* The request handler: createBankTransfer, executeRecurrenceInstance.     *)

(* The transaction: the debit and a PENDING row.                           *)
Debit(x) ==
  /\ handler[x] = "idle"
  /\ handler' = [handler EXCEPT ![x] = "debited"]
  /\ row' = [row EXCEPT ![x].status = "PENDING"]
  /\ refs' = refs \cup {<<x, "DEBIT">>}
  /\ UNCHANGED <<queue, worker, faults>>

(* scheduledFor in the future: a template, without a debit.                *)
Schedule(x) ==
  /\ handler[x] = "idle"
  /\ handler' = [handler EXCEPT ![x] = "done"]
  /\ row' = [row EXCEPT ![x].status = "SCHEDULED"]
  /\ UNCHANGED <<refs, queue, worker, faults>>

(* provider.initiate and the update to PROCESSING.                         *)
Initiate(x) ==
  /\ handler[x] = "debited"
  /\ handler' = [handler EXCEPT ![x] = "initiated"]
  /\ row' = [row EXCEPT ![x] = [status |-> "PROCESSING", provider |-> TRUE]]
  /\ UNCHANGED <<refs, queue, worker, faults>>

(* queue.scheduleSettlement.                                               *)
Enqueue(x) ==
  /\ handler[x] = "initiated"
  /\ handler' = [handler EXCEPT ![x] = "done"]
  /\ queue' = [queue EXCEPT ![x].at = "waiting"]
  /\ UNCHANGED <<row, refs, worker, faults>>

(* The process dies, or the database or Redis answers with an error.       *)
HandlerDies(x) ==
  /\ handler[x] \in {"debited", "initiated"}
  /\ faults.deaths < MaxDeaths
  /\ faults' = [faults EXCEPT !.deaths = @ + 1]
  /\ handler' = [handler EXCEPT ![x] = "dead"]
  /\ UNCHANGED <<row, refs, queue, worker>>

(* cancelScheduled: nothing else moves a SCHEDULED row.                    *)
CancelScheduled(x) ==
  /\ row[x].status = "SCHEDULED"
  /\ row' = [row EXCEPT ![x].status = "CANCELLED"]
  /\ UNCHANGED <<refs, handler, queue, worker, faults>>

-----------------------------------------------------------------------------
(* The worker: TransfersProcessor.process and settleExternalTransfer.      *)

Take(k, x) ==
  /\ worker[k] = Idle
  /\ queue[x].at = "waiting"
  /\ worker' = [worker EXCEPT ![k] = [transfer |-> x, stage |-> "taken"]]
  /\ queue' = [queue EXCEPT ![x].at = "active", ![x].owner = k]
  /\ UNCHANGED <<row, refs, handler, faults>>

Runs(k, stage) == worker[k] # Idle /\ worker[k].stage = stage

(* The attempt is over: a worker that still owns the job moves it to `at'. *)
Release(k, at, failures) ==
  LET x == worker[k].transfer
  IN  /\ worker' = [worker EXCEPT ![k] = Idle]
      /\ queue' =
           IF queue[x].owner # k THEN queue
           ELSE [queue EXCEPT ![x].at = at, ![x].failures = failures, ![x].owner = Idle]

Done(k) == Release(k, "removed", queue[worker[k].transfer].failures)

(* attempts left out of the job's options.                                 *)
ThrowNoRetry(k) ==
  Release(k, "failed", queue[worker[k].transfer].failures + 1)

(* A throw: the next attempt after the backoff, or none.                   *)
Throw(k) ==
  LET n == queue[worker[k].transfer].failures + 1
  IN  Release(k, IF n < Attempts THEN "waiting" ELSE "failed", n)

(* A settlement that does not look at the status of the row.               *)
ReadyAlways(x) == TRUE

Ready(x) == row[x].status = "PROCESSING" /\ row[x].provider

(* The read of the row: not PROCESSING, nothing to do.                     *)
SkipSettled(k) ==
  /\ Runs(k, "taken") /\ ~Ready(worker[k].transfer)
  /\ Done(k)
  /\ UNCHANGED <<row, refs, handler, faults>>

(* The read of the row, and the provider's answer.                         *)
AskProvider(k) ==
  /\ Runs(k, "taken") /\ Ready(worker[k].transfer)
  /\ \E answer \in {"success", "failure"} :
       worker' = [worker EXCEPT ![k].stage = answer]
  /\ UNCHANGED <<row, refs, handler, queue, faults>>

CompleteTransfer(k) ==
  /\ Runs(k, "success")
  /\ row' = [row EXCEPT ![worker[k].transfer].status = "COMPLETED"]
  /\ Done(k)
  /\ UNCHANGED <<refs, handler, faults>>

(* The refund committed on its own, before the status.                     *)
RefundBeforeStatus(k) ==
  /\ Runs(k, "failure")
  /\ <<worker[k].transfer, "REFUND">> \notin refs
  /\ refs' = refs \cup {<<worker[k].transfer, "REFUND">>}
  /\ Throw(k)
  /\ UNCHANGED <<row, handler, faults>>

(* The refund and the status FAILED, in one transaction.                   *)
RefundTransfer(k) ==
  /\ Runs(k, "failure")
  /\ <<worker[k].transfer, "REFUND">> \notin refs
  /\ refs' = refs \cup {<<worker[k].transfer, "REFUND">>}
  /\ row' = [row EXCEPT ![worker[k].transfer].status = "FAILED"]
  /\ Done(k)
  /\ UNCHANGED <<handler, faults>>

(* The unique reference of the refund is taken: the transaction throws.    *)
RefundRejected(k) ==
  /\ Runs(k, "failure")
  /\ <<worker[k].transfer, "REFUND">> \in refs
  /\ Throw(k)
  /\ UNCHANGED <<row, refs, handler, faults>>

(* An error of the database or the network, before the write or after it:  *)
(* the write may have been committed all the same.                         *)
AttemptFails(k) ==
  /\ worker[k] # Idle
  /\ faults.errors < MaxErrors
  /\ faults' = [faults EXCEPT !.errors = @ + 1]
  /\ LET x == worker[k].transfer
     IN  \/ UNCHANGED <<row, refs>>
         \/ /\ worker[k].stage = "success"
            /\ row' = [row EXCEPT ![x].status = "COMPLETED"]
            /\ UNCHANGED refs
         \/ /\ worker[k].stage = "failure" /\ <<x, "REFUND">> \notin refs
            /\ row' = [row EXCEPT ![x].status = "FAILED"]
            /\ refs' = refs \cup {<<x, "REFUND">>}
  /\ Throw(k)
  /\ UNCHANGED handler

(* The queue takes an active job for stalled: its worker's process is gone *)
(* or has not renewed the lock, and in the latter case goes on.            *)
Stall(k) ==
  /\ worker[k] # Idle
  /\ faults.stalls < MaxStalls
  /\ faults' = [faults EXCEPT !.stalls = @ + 1]
  /\ LET x == worker[k].transfer
     IN  /\ queue[x].owner = k
         /\ queue' =
              IF queue[x].stalls < StallLimit
              THEN [queue EXCEPT ![x].at = "waiting", ![x].stalls = @ + 1, ![x].owner = Idle]
              ELSE [queue EXCEPT ![x].at = "failed", ![x].owner = Idle]
  /\ \/ worker' = [worker EXCEPT ![k] = Idle]
     \/ UNCHANGED worker
  /\ UNCHANGED <<row, refs, handler>>

-----------------------------------------------------------------------------
Handle(x) == Initiate(x) \/ Enqueue(x)

Work(k) ==
  \/ \E x \in Transfers : Take(k, x)
  \/ SkipSettled(k) \/ AskProvider(k)
  \/ CompleteTransfer(k) \/ RefundTransfer(k) \/ RefundRejected(k)

Next ==
  \/ \E x \in Transfers :
       Debit(x) \/ Schedule(x) \/ CancelScheduled(x) \/ Handle(x) \/ HandlerDies(x)
  \/ \E k \in Workers : Work(k) \/ AttemptFails(k) \/ Stall(k)

Spec == Init /\ [][Next]_vars

(* A request that lives goes on, and a worker takes and runs jobs.         *)
FairSpec ==
  /\ Spec
  /\ \A x \in Transfers : WF_vars(Handle(x))
  /\ \A k \in Workers : WF_vars(Work(k))

-----------------------------------------------------------------------------
InFlight(x) == row[x].status \in {"PENDING", "PROCESSING"}

(* Every bank transfer that is on its way was debited, and a refund exists *)
(* only with its debit and on a settled row, whatever dies or stalls: no   *)
(* retry finds a refunded row that still says PROCESSING                   *)
(* (createBankTransfer, settleExternalTransfer).                           *)
PaidFor ==
  \A x \in Transfers :
    /\ row[x].status \in {"PENDING", "PROCESSING", "COMPLETED", "FAILED"}
         => <<x, "DEBIT">> \in refs
    /\ <<x, "REFUND">> \in refs =>
         <<x, "DEBIT">> \in refs /\ row[x].status \in {"COMPLETED", "FAILED"}

Calm(x) == queue[x].stalls = 0

(* A transfer that failed was refunded, and one that completed was not,    *)
(* however often an attempt throws: settleExternalTransfer keeps this as   *)
(* long as no stalled job runs twice (README.md:33-36).                    *)
SettledExactly ==
  \A x \in Transfers :
    /\ row[x].status = "FAILED" => <<x, "REFUND">> \in refs
    /\ row[x].status = "COMPLETED" /\ Calm(x) => <<x, "REFUND">> \notin refs

(* Rows and jobs keep their shapes, and the money matches the status.      *)
SettlementSound == TypeOK /\ PaidFor /\ SettledExactly

(* A settled transfer stays as it is settled, however often its job runs   *)
(* again, one run after the other: the check at transfers.service.ts:323.  *)
SettledForGood ==
  [][\A x \in Transfers : row[x].status \in Settled /\ Calm(x) => row'[x] = row[x]]_vars

(* The ways a transfer can be left in flight: its request died, or its job *)
(* used up all its attempts or was found stalled too often.                *)
Abandoned(x) ==
  \/ handler[x] = "dead"
  \/ queue[x].at = "failed" /\ (queue[x].failures = Attempts \/ ~Calm(x))

(* Money in flight arrives or comes back, unless it is abandoned.          *)
Settles ==
  \A x \in Transfers : InFlight(x) ~> row[x].status \in Settled \/ Abandoned(x)

(* "external bank transfers are debited immediately, then queued ...       *)
(* success completes the transfer, failure automatically refunds the       *)
(* wallet" (README.md:33-36): money in flight arrives or comes back.       *)
AlwaysSettles == \A x \in Transfers : InFlight(x) ~> row[x].status \in Settled

=============================================================================
