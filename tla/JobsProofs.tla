----------------------------- MODULE JobsProofs -----------------------------
(***************************************************************************)
(* Theorems about the work behind the requests: the settlement of bank     *)
(* transfers (BankTransfers), the recurrence rules (Recurrence), the price *)
(* alerts (PriceAlerts), the fees and rates (Pricing).  Each holds for any *)
(* transfers, workers, ticks, rounds and tables and any number of deaths,  *)
(* errors and stalls.                                                      *)
(***************************************************************************)
EXTENDS BankTransfers, Recurrence, PriceAlerts, Pricing, TLAPS

-----------------------------------------------------------------------------
(* BankTransfers.                                                          *)

USE BankAssumption DEF Attempts, StallLimit

(* How far the request has come is what the row and the queue show.        *)
Stage(x) ==
  /\ handler[x] = "idle" =>
       row[x].status = "none" /\ <<x, "DEBIT">> \notin refs /\ <<x, "REFUND">> \notin refs
  /\ handler[x] = "debited" => row[x].status = "PENDING"
  /\ handler[x] = "initiated" => row[x].status = "PROCESSING"
  /\ row[x].status = "none" => handler[x] = "idle"
  /\ row[x].status = "PENDING" => handler[x] \in {"debited", "dead"}
  /\ queue[x].at # "none" =>
       handler[x] = "done" /\ row[x].status \in {"PROCESSING", "COMPLETED", "FAILED"}
Progress == \A x \in Transfers : Stage(x)

(* A worker has a job of the queue; and while no job of x has stalled, it  *)
(* is the only one on x, and owns the job, and a worker with an answer     *)
(* finds the row as it read it.                                            *)
Alone ==
  \A k \in Workers : worker[k] # Idle =>
    LET x == worker[k].transfer
    IN  /\ queue[x].at # "none"
        /\ Calm(x) =>
             /\ queue[x].at = "active" /\ queue[x].owner = k
             /\ worker[k].stage # "taken" => row[x].status = "PROCESSING"

(* A job with an owner is active, and an active one has attempts left.     *)
Queued ==
  \A x \in Transfers :
    /\ queue[x].owner \in Workers => queue[x].at = "active"
    /\ queue[x].at \in {"none", "waiting", "active"} => queue[x].failures < Attempts

BInv == TypeOK /\ PaidFor /\ SettledExactly /\ Progress /\ Alone /\ Queued

-----------------------------------------------------------------------------
LEMMA InitInv == Init => BInv
<1> SUFFICES ASSUME Init PROVE BInv
  OBVIOUS
<1>1. TypeOK
  BY DEF Init, TypeOK, Statuses
<1>2. PaidFor /\ SettledExactly
  BY DEF Init, PaidFor, SettledExactly
<1>3. Progress /\ Alone /\ Queued
  BY DEF Init, Progress, Stage, Alone, Queued
<1> QED
  BY <1>1, <1>2, <1>3 DEF BInv

-----------------------------------------------------------------------------
(* What a worker that is not idle works on.                                *)
LEMMA AtWork ==
  ASSUME TypeOK, NEW k \in Workers, worker[k] # Idle
  PROVE  worker[k] \in [transfer : Transfers, stage : {"taken", "success", "failure"}]
BY DEF TypeOK

(* The end of an attempt leaves the shapes, and lets go of worker k only.  *)
LEMMA Released ==
  ASSUME TypeOK, NEW k \in Workers, worker[k] # Idle, queue[worker[k].transfer].at # "none",
         NEW at \in {"waiting", "failed", "removed"}, NEW n \in Nat, Release(k, at, n),
         queue[worker[k].transfer].owner = k => n <= Attempts /\ (at = "waiting" => n < Attempts)
  PROVE  /\ queue' \in [Transfers ->
              [at : {"none", "waiting", "active", "failed", "removed"},
               failures : 0..Attempts, stalls : 0..StallLimit, owner : Workers \cup {Idle}]]
         /\ worker' \in [Workers -> [transfer : Transfers, stage : {"taken", "success", "failure"}]
                                     \cup {Idle}]
         /\ \A x \in Transfers : queue'[x].at = "waiting" => queue'[x].failures < Attempts
         /\ \A x \in Transfers :
              /\ queue'[x].stalls = queue[x].stalls
              /\ (queue'[x].at = "none") = (queue[x].at = "none")
              /\ queue[x].owner # k => queue'[x] = queue[x]
              /\ queue'[x].at \in {"none", "active"} \/ queue'[x].owner # Idle =>
                   queue'[x] = queue[x]
         /\ \A j \in Workers : j # k => worker'[j] = worker[j]
         /\ worker'[k] = Idle
<1>1. worker[k].transfer \in Transfers
  BY AtWork
<1>2. worker' = [worker EXCEPT ![k] = Idle]
  BY DEF Release
<1> DEFINE x == worker[k].transfer
<1>3. CASE queue[x].owner # k
  <2>1. queue' = queue
    BY <1>3 DEF Release
  <2> QED
    BY <1>1, <1>2, <2>1 DEF TypeOK
<1>4. CASE queue[x].owner = k
  <2>1. queue' = [queue EXCEPT ![x].at = at, ![x].failures = n, ![x].owner = Idle]
    BY <1>4 DEF Release
  <2>2. /\ queue[x] \in [at : {"none", "waiting", "active", "failed", "removed"},
              failures : 0..Attempts, stalls : 0..StallLimit, owner : Workers \cup {Idle}]
        /\ n \in 0..Attempts
    <3>1. n <= Attempts
      BY <1>4
    <3>2. n \in 0..Attempts
      BY <3>1, BankAssumption DEF BankAssumption
    <3> QED
      BY <1>1, <3>2 DEF TypeOK
  <2> DEFINE job == [queue[x] EXCEPT !.at = at, !.failures = n, !.owner = Idle]
  <2>3. /\ job \in [at : {"none", "waiting", "active", "failed", "removed"},
                     failures : 0..Attempts, stalls : 0..StallLimit, owner : Workers \cup {Idle}]
        /\ job.at = at /\ job.failures = n /\ job.owner = Idle /\ job.stalls = queue[x].stalls
    BY <2>2
  <2>4. queue' = [queue EXCEPT ![x] = job]
    BY <1>1, <2>1 DEF TypeOK
  <2>5. queue'[x] = job /\ \A y \in Transfers : y # x => queue'[y] = queue[y]
    BY <1>1, <2>4 DEF TypeOK
  <2>6. queue' \in [Transfers ->
              [at : {"none", "waiting", "active", "failed", "removed"},
               failures : 0..Attempts, stalls : 0..StallLimit, owner : Workers \cup {Idle}]]
    <3> HIDE DEF job
    <3> QED
      BY <1>1, <2>3, <2>4 DEF TypeOK
  <2>7. /\ worker' \in [Workers -> [transfer : Transfers, stage : {"taken", "success", "failure"}]
                                    \cup {Idle}]
        /\ worker'[k] = Idle /\ \A j \in Workers : j # k => worker'[j] = worker[j]
    BY <1>2 DEF TypeOK
  <2>8. \A y \in Transfers : queue'[y].at = "waiting" => queue'[y].failures < Attempts
    <3> HIDE DEF job
    <3> QED
      BY <1>4, <2>3, <2>5 DEF TypeOK
  <2>9. \A y \in Transfers :
          /\ queue'[y].stalls = queue[y].stalls
          /\ (queue'[y].at = "none") = (queue[y].at = "none")
          /\ queue[y].owner # k => queue'[y] = queue[y]
          /\ queue'[y].at \in {"none", "active"} \/ queue'[y].owner # Idle =>
               queue'[y] = queue[y]
    <3> HIDE DEF job
    <3> QED
      BY <1>4, <2>3, <2>5
  <2> QED
    BY <2>6, <2>7, <2>8, <2>9
<1> QED
  BY <1>3, <1>4

-----------------------------------------------------------------------------
(* What an attempt does to the row and the ledger before it ends.          *)
Outcome(k) ==
  LET x == worker[k].transfer
  IN  \/ UNCHANGED <<row, refs>>
      \/ /\ worker[k].stage = "success"
         /\ row' = [row EXCEPT ![x].status = "COMPLETED"]
         /\ UNCHANGED refs
      \/ /\ worker[k].stage = "failure" /\ <<x, "REFUND">> \notin refs
         /\ row' = [row EXCEPT ![x].status = "FAILED"]
         /\ refs' = refs \cup {<<x, "REFUND">>}

(* An attempt may end with any of them, and with a throw or without.       *)
LEMMA AttemptKeeps ==
  ASSUME BInv, NEW k \in Workers, worker[k] # Idle,
         NEW at \in {"waiting", "failed", "removed"}, NEW n \in Nat, Release(k, at, n),
         queue[worker[k].transfer].owner = k =>
           n <= Attempts /\ (at = "waiting" => n < Attempts),
         Outcome(k),
         UNCHANGED handler,
         faults' \in [deaths : 0..MaxDeaths, errors : 0..MaxErrors, stalls : 0..MaxStalls]
  PROVE  BInv'
<1> DEFINE x == worker[k].transfer
<1>0. /\ worker[k] \in [transfer : Transfers, stage : {"taken", "success", "failure"}]
      /\ x \in Transfers /\ queue[x].at # "none"
      /\ row[x].status \in {"PROCESSING", "COMPLETED", "FAILED"} /\ handler[x] = "done"
      /\ <<x, "DEBIT">> \in refs
      /\ row \in [Transfers -> [status : Statuses, provider : BOOLEAN]]
  BY AtWork, SMTT(30), ZenonT(30) DEF BInv, Alone, Progress, Stage, TypeOK, PaidFor
<1>1. /\ queue' \in [Transfers ->
              [at : {"none", "waiting", "active", "failed", "removed"},
               failures : 0..Attempts, stalls : 0..StallLimit, owner : Workers \cup {Idle}]]
      /\ worker' \in [Workers -> [transfer : Transfers, stage : {"taken", "success", "failure"}]
                                  \cup {Idle}]
      /\ \A y \in Transfers : queue'[y].at = "waiting" => queue'[y].failures < Attempts
  BY <1>0, Released DEF BInv
<1>2. \A y \in Transfers :
        /\ queue'[y].stalls = queue[y].stalls
        /\ (queue'[y].at = "none") = (queue[y].at = "none")
        /\ queue[y].owner # k => queue'[y] = queue[y]
        /\ queue'[y].at \in {"none", "active"} \/ queue'[y].owner # Idle => queue'[y] = queue[y]
  BY <1>0, Released DEF BInv
<1>3. worker'[k] = Idle /\ \A j \in Workers : j # k => worker'[j] = worker[j]
  BY <1>0, Released DEF BInv
<1>4. \A y \in Transfers : y # x => row'[y] = row[y]
  BY <1>0 DEF Outcome
<1>5. /\ \A y \in Transfers : row'[y].status = row[y].status \/
           /\ y = x
           /\ \/ row'[y].status = "COMPLETED" /\ worker[k].stage = "success" /\ refs' = refs
              \/ row'[y].status = "FAILED" /\ <<x, "REFUND">> \in refs'
      /\ row' \in [Transfers -> [status : Statuses, provider : BOOLEAN]]
  BY <1>0 DEF Outcome, Statuses
<1>6. /\ refs \subseteq refs' /\ refs' \subseteq refs \cup {<<x, "REFUND">>}
      /\ <<x, "REFUND">> \in refs' => <<x, "REFUND">> \in refs \/ row'[x].status = "FAILED"
  BY <1>0 DEF Outcome
<1>7. TypeOK'
  BY <1>0, <1>1, <1>5, <1>6 DEF BInv, TypeOK
<1>8. PaidFor'
  BY <1>0, <1>5, <1>6 DEF BInv, PaidFor
<1>9. SettledExactly'
  <2> SUFFICES ASSUME NEW y \in Transfers
               PROVE  /\ row'[y].status = "FAILED" => <<y, "REFUND">> \in refs'
                      /\ row'[y].status = "COMPLETED" /\ queue'[y].stalls = 0
                           => <<y, "REFUND">> \notin refs'
    BY DEF SettledExactly, Calm
  <2>1. CASE row'[y].status = row[y].status
    BY <1>2, <1>6, <2>1 DEF BInv, SettledExactly, Calm
  <2>2. CASE /\ y = x /\ row'[y].status = "COMPLETED"
             /\ worker[k].stage = "success" /\ refs' = refs
    <3>1. Calm(x) => row[x].status = "PROCESSING"
      BY <1>0, <2>2 DEF BInv, Alone
    <3>2. row[x].status = "PROCESSING" => <<x, "REFUND">> \notin refs
      BY <1>0 DEF BInv, PaidFor
    <3> QED
      BY <1>2, <2>2, <3>1, <3>2 DEF Calm
  <2>3. CASE y = x /\ row'[y].status = "FAILED" /\ <<x, "REFUND">> \in refs'
    BY <2>3
  <2> QED
    BY <1>5, <2>1, <2>2, <2>3
<1>10. Progress'
  <2> SUFFICES ASSUME NEW y \in Transfers
               PROVE  /\ handler[y] = "idle" =>
                           /\ row'[y].status = "none"
                           /\ <<y, "DEBIT">> \notin refs' /\ <<y, "REFUND">> \notin refs'
                      /\ handler[y] = "debited" => row'[y].status = "PENDING"
                      /\ handler[y] = "initiated" => row'[y].status = "PROCESSING"
                      /\ row'[y].status = "none" => handler[y] = "idle"
                      /\ row'[y].status = "PENDING" => handler[y] \in {"debited", "dead"}
                      /\ queue'[y].at # "none" =>
                           /\ handler[y] = "done"
                           /\ row'[y].status \in {"PROCESSING", "COMPLETED", "FAILED"}
    BY DEF Progress, Stage
  <2>1. CASE y = x
    BY <1>0, <1>5, <2>1
  <2>2. CASE y # x
    <3>1. /\ row'[y] = row[y]
          /\ <<y, "DEBIT">> \in refs' => <<y, "DEBIT">> \in refs
          /\ <<y, "REFUND">> \in refs' => <<y, "REFUND">> \in refs
      BY <1>4, <1>6, <2>2
    <3> QED
      BY <1>2, <3>1 DEF BInv, Progress, Stage
  <2> QED
    BY <2>1, <2>2
<1>11. Alone'
  <2> SUFFICES ASSUME NEW j \in Workers, worker'[j] # Idle
               PROVE  LET y == worker'[j].transfer
                      IN  /\ queue'[y].at # "none"
                          /\ queue'[y].stalls = 0 =>
                               /\ queue'[y].at = "active" /\ queue'[y].owner = j
                               /\ worker'[j].stage # "taken" => row'[y].status = "PROCESSING"
    BY DEF Alone, Calm
  <2> DEFINE y == worker[j].transfer
  <2>1. j # k /\ worker'[j] = worker[j] /\ worker[j] # Idle /\ y \in Transfers
    BY <1>3, AtWork DEF BInv
  <2>2. queue'[y].at # "none"
    BY <1>2, <2>1 DEF BInv, Alone
  <2>3. ASSUME queue'[y].stalls = 0
        PROVE  /\ queue'[y].at = "active" /\ queue'[y].owner = j
               /\ worker[j].stage # "taken" => row'[y].status = "PROCESSING"
    <3>1. Calm(y)
      BY <1>2, <2>1, <2>3 DEF Calm
    <3>2. /\ queue[y].at = "active" /\ queue[y].owner = j
          /\ worker[j].stage # "taken" => row[y].status = "PROCESSING"
      BY <2>1, <3>1 DEF BInv, Alone
    <3>3. y # x
      BY <1>0, <2>1, <3>1, <3>2 DEF BInv, Alone
    <3> QED
      BY <1>2, <1>4, <2>1, <3>2, <3>3
  <2> QED
    BY <2>1, <2>2, <2>3
<1>12. Queued'
  <2> SUFFICES ASSUME NEW y \in Transfers
               PROVE  /\ queue'[y].owner \in Workers => queue'[y].at = "active"
                      /\ queue'[y].at \in {"none", "waiting", "active"} =>
                           queue'[y].failures < Attempts
    BY DEF Queued
  <2>1. CASE queue'[y] = queue[y]
    BY <2>1 DEF BInv, Queued
  <2>2. CASE queue'[y] # queue[y]
    BY <1>1, <1>2, <2>2
  <2> QED
    BY <2>1, <2>2
<1> QED
  BY <1>7, <1>8, <1>9, <1>10, <1>11, <1>12 DEF BInv

-----------------------------------------------------------------------------
LEMMA RequestKeeps ==
  ASSUME BInv, NEW x \in Transfers,
         Debit(x) \/ Schedule(x) \/ CancelScheduled(x) \/ Handle(x) \/ HandlerDies(x)
  PROVE  BInv'
<1> USE DEF BInv
<1>1. CASE Debit(x)
  <2>1. /\ handler[x] = "idle" /\ handler'[x] = "debited" /\ row'[x].status = "PENDING"
        /\ refs' = refs \cup {<<x, "DEBIT">>} /\ queue' = queue
        /\ \A y \in Transfers : y # x =>
             row'[y] = row[y] /\ handler'[y] = handler[y] /\ queue'[y] = queue[y]
    BY <1>1 DEF TypeOK, Debit
  <2>2. worker' = worker
    BY <1>1 DEF Debit
  <2>3. TypeOK'
    BY <1>1 DEF TypeOK, Debit, Statuses
  <2>4. PaidFor'
    BY <2>1 DEF PaidFor, Progress, Stage
  <2>5. SettledExactly'
    BY <2>1 DEF SettledExactly, Calm, Progress, Stage
  <2>6. Progress'
    <3>1. ASSUME NEW y \in Transfers PROVE Stage(y)'
      <4>1. Stage(x) /\ Stage(y)
        BY DEF Progress
      <4>2. CASE y = x
        BY <2>1, <4>1, <4>2 DEF Stage, PaidFor
      <4>3. CASE y # x
        BY <2>1, <4>1, <4>3 DEF Stage
      <4> QED
        BY <4>2, <4>3
    <3> QED
      BY <3>1 DEF Progress
  <2>7. Queued'
    BY <2>1 DEF Queued, Progress, Stage, TypeOK
  <2>8. Alone'
    <3>1. ASSUME NEW k \in Workers, worker[k] # Idle
          PROVE  /\ worker[k].transfer \in Transfers
                 /\ queue'[worker[k].transfer] = queue[worker[k].transfer]
                 /\ row'[worker[k].transfer] = row[worker[k].transfer]
      <4>1. worker[k].transfer \in Transfers /\ queue[worker[k].transfer].at # "none"
        BY <3>1, AtWork DEF Alone
      <4> QED
        BY <2>1, <4>1 DEF Progress, Stage
    <3> QED
      BY <2>2, <3>1 DEF Alone, Calm
  <2> QED
    BY <2>3, <2>4, <2>5, <2>6, <2>7, <2>8
<1>2. CASE Schedule(x)
  <2>1. /\ handler[x] = "idle" /\ handler'[x] = "done" /\ row'[x].status = "SCHEDULED"
        /\ refs' = refs /\ queue' = queue
        /\ \A y \in Transfers : y # x =>
             row'[y] = row[y] /\ handler'[y] = handler[y] /\ queue'[y] = queue[y]
    BY <1>2 DEF TypeOK, Schedule
  <2>2. worker' = worker
    BY <1>2 DEF Schedule
  <2>3. TypeOK'
    BY <1>2 DEF TypeOK, Schedule, Statuses
  <2>4. PaidFor'
    BY <2>1 DEF PaidFor, Progress, Stage
  <2>5. SettledExactly'
    BY <2>1 DEF SettledExactly, Calm, Progress, Stage
  <2>6. Progress'
    <3>1. ASSUME NEW y \in Transfers PROVE Stage(y)'
      <4>1. Stage(x) /\ Stage(y)
        BY DEF Progress
      <4>2. CASE y = x
        BY <2>1, <4>1, <4>2 DEF Stage, PaidFor
      <4>3. CASE y # x
        BY <2>1, <4>1, <4>3 DEF Stage
      <4> QED
        BY <4>2, <4>3
    <3> QED
      BY <3>1 DEF Progress
  <2>7. Queued'
    BY <2>1 DEF Queued, Progress, Stage, TypeOK
  <2>8. Alone'
    <3>1. ASSUME NEW k \in Workers, worker[k] # Idle
          PROVE  /\ worker[k].transfer \in Transfers
                 /\ queue'[worker[k].transfer] = queue[worker[k].transfer]
                 /\ row'[worker[k].transfer] = row[worker[k].transfer]
      <4>1. worker[k].transfer \in Transfers /\ queue[worker[k].transfer].at # "none"
        BY <3>1, AtWork DEF Alone
      <4> QED
        BY <2>1, <4>1 DEF Progress, Stage
    <3> QED
      BY <2>2, <3>1 DEF Alone, Calm
  <2> QED
    BY <2>3, <2>4, <2>5, <2>6, <2>7, <2>8
<1>3. CASE CancelScheduled(x)
  <2>1. /\ row[x].status = "SCHEDULED" /\ row'[x].status = "CANCELLED"
        /\ handler'[x] = handler[x] /\ refs' = refs /\ queue' = queue
        /\ \A y \in Transfers : y # x =>
             row'[y] = row[y] /\ handler'[y] = handler[y] /\ queue'[y] = queue[y]
    BY <1>3 DEF TypeOK, CancelScheduled
  <2>2. worker' = worker
    BY <1>3 DEF CancelScheduled
  <2>3. TypeOK'
    BY <1>3, SMTT(30), ZenonT(30) DEF TypeOK, CancelScheduled, Statuses
  <2>4. PaidFor'
    BY <2>1 DEF PaidFor, Progress, Stage
  <2>5. SettledExactly'
    BY <2>1 DEF SettledExactly, Calm, Progress, Stage
  <2>6. Progress'
    <3>1. ASSUME NEW y \in Transfers PROVE Stage(y)'
      <4>1. Stage(x) /\ Stage(y)
        BY DEF Progress
      <4>2. CASE y = x
        BY <2>1, <4>1, <4>2 DEF Stage, PaidFor
      <4>3. CASE y # x
        BY <2>1, <4>1, <4>3 DEF Stage
      <4> QED
        BY <4>2, <4>3
    <3> QED
      BY <3>1 DEF Progress
  <2>7. Queued'
    BY <2>1 DEF Queued, Progress, Stage, TypeOK
  <2>8. Alone'
    <3>1. ASSUME NEW k \in Workers, worker[k] # Idle
          PROVE  /\ worker[k].transfer \in Transfers
                 /\ queue'[worker[k].transfer] = queue[worker[k].transfer]
                 /\ row'[worker[k].transfer] = row[worker[k].transfer]
      <4>1. worker[k].transfer \in Transfers /\ queue[worker[k].transfer].at # "none"
        BY <3>1, AtWork DEF Alone
      <4> QED
        BY <2>1, <4>1 DEF Progress, Stage
    <3> QED
      BY <2>2, <3>1 DEF Alone, Calm
  <2> QED
    BY <2>3, <2>4, <2>5, <2>6, <2>7, <2>8
<1>4. CASE Initiate(x)
  <2>1. /\ handler[x] = "debited" /\ handler'[x] = "initiated" /\ row'[x].status = "PROCESSING"
        /\ refs' = refs /\ queue' = queue
        /\ \A y \in Transfers : y # x =>
             row'[y] = row[y] /\ handler'[y] = handler[y] /\ queue'[y] = queue[y]
    BY <1>4 DEF TypeOK, Initiate
  <2>2. worker' = worker
    BY <1>4 DEF Initiate
  <2>3. TypeOK'
    BY <1>4 DEF TypeOK, Initiate, Statuses
  <2>4. PaidFor'
    BY <2>1 DEF PaidFor, Progress, Stage
  <2>5. SettledExactly'
    BY <2>1 DEF SettledExactly, Calm, Progress, Stage
  <2>6. Progress'
    <3>1. ASSUME NEW y \in Transfers PROVE Stage(y)'
      <4>1. Stage(x) /\ Stage(y)
        BY DEF Progress
      <4>2. CASE y = x
        BY <2>1, <4>1, <4>2 DEF Stage, PaidFor
      <4>3. CASE y # x
        BY <2>1, <4>1, <4>3 DEF Stage
      <4> QED
        BY <4>2, <4>3
    <3> QED
      BY <3>1 DEF Progress
  <2>7. Queued'
    BY <2>1 DEF Queued, Progress, Stage, TypeOK
  <2>8. Alone'
    <3>1. ASSUME NEW k \in Workers, worker[k] # Idle
          PROVE  /\ worker[k].transfer \in Transfers
                 /\ queue'[worker[k].transfer] = queue[worker[k].transfer]
                 /\ row'[worker[k].transfer] = row[worker[k].transfer]
      <4>1. worker[k].transfer \in Transfers /\ queue[worker[k].transfer].at # "none"
        BY <3>1, AtWork DEF Alone
      <4> QED
        BY <2>1, <4>1 DEF Progress, Stage
    <3> QED
      BY <2>2, <3>1 DEF Alone, Calm
  <2> QED
    BY <2>3, <2>4, <2>5, <2>6, <2>7, <2>8
<1>5. CASE Enqueue(x)
  <2>1. /\ handler[x] = "initiated" /\ handler'[x] = "done" /\ row' = row /\ refs' = refs
        /\ queue[x].at = "none" /\ queue'[x].at = "waiting"
        /\ queue'[x].failures = queue[x].failures /\ queue'[x].stalls = queue[x].stalls
        /\ queue'[x].owner = queue[x].owner
        /\ \A y \in Transfers : y # x =>
             row'[y] = row[y] /\ handler'[y] = handler[y] /\ queue'[y] = queue[y]
    BY <1>5, SMTT(30), ZenonT(30) DEF TypeOK, Enqueue, Progress, Stage
  <2>2. worker' = worker
    BY <1>5 DEF Enqueue
  <2>3. TypeOK'
    <3>1. /\ queue' \in [Transfers ->
                [at : {"none", "waiting", "active", "failed", "removed"},
                 failures : 0..Attempts, stalls : 0..StallLimit, owner : Workers \cup {Idle}]]
          /\ handler' \in [Transfers -> {"idle", "debited", "initiated", "done", "dead"}]
          /\ UNCHANGED <<row, refs, worker, faults>>
      BY <1>5, SMTT(30), ZenonT(30) DEF TypeOK, Enqueue
    <3>2. ASSUME NEW y \in Transfers, queue'[y].at = "waiting"
          PROVE  queue'[y].failures < Attempts
      BY <2>1, <3>2 DEF Queued
    <3> QED
      BY <3>1, <3>2 DEF TypeOK
  <2>4. PaidFor'
    BY <2>1 DEF PaidFor, Progress, Stage
  <2>5. SettledExactly'
    BY <2>1 DEF SettledExactly, Calm, Progress, Stage
  <2>6. Progress'
    <3>1. ASSUME NEW y \in Transfers PROVE Stage(y)'
      <4>1. Stage(x) /\ Stage(y)
        BY DEF Progress
      <4>2. CASE y = x
        BY <2>1, <4>1, <4>2 DEF Stage, PaidFor
      <4>3. CASE y # x
        BY <2>1, <4>1, <4>3 DEF Stage
      <4> QED
        BY <4>2, <4>3
    <3> QED
      BY <3>1 DEF Progress
  <2>7. Queued'
    BY <2>1 DEF Queued, Progress, Stage, TypeOK
  <2>8. Alone'
    <3>1. ASSUME NEW k \in Workers, worker[k] # Idle
          PROVE  /\ worker[k].transfer \in Transfers
                 /\ queue'[worker[k].transfer] = queue[worker[k].transfer]
                 /\ row'[worker[k].transfer] = row[worker[k].transfer]
      <4>1. worker[k].transfer \in Transfers /\ queue[worker[k].transfer].at # "none"
        BY <3>1, AtWork DEF Alone
      <4> QED
        BY <2>1, <4>1 DEF Progress, Stage
    <3> QED
      BY <2>2, <3>1 DEF Alone, Calm
  <2> QED
    BY <2>3, <2>4, <2>5, <2>6, <2>7, <2>8
<1>6. CASE HandlerDies(x)
  <2>1. /\ handler[x] \in {"debited", "initiated"} /\ handler'[x] = "dead"
        /\ row' = row /\ refs' = refs /\ queue' = queue
        /\ \A y \in Transfers : y # x =>
             row'[y] = row[y] /\ handler'[y] = handler[y] /\ queue'[y] = queue[y]
    BY <1>6 DEF TypeOK, HandlerDies
  <2>2. worker' = worker
    BY <1>6 DEF HandlerDies
  <2>3. TypeOK'
    BY <1>6 DEF TypeOK, HandlerDies, Statuses
  <2>4. PaidFor'
    BY <2>1 DEF PaidFor, Progress, Stage
  <2>5. SettledExactly'
    BY <2>1 DEF SettledExactly, Calm, Progress, Stage
  <2>6. Progress'
    <3>1. ASSUME NEW y \in Transfers PROVE Stage(y)'
      <4>1. Stage(x) /\ Stage(y)
        BY DEF Progress
      <4>2. CASE y = x
        BY <2>1, <4>1, <4>2 DEF Stage, PaidFor
      <4>3. CASE y # x
        BY <2>1, <4>1, <4>3 DEF Stage
      <4> QED
        BY <4>2, <4>3
    <3> QED
      BY <3>1 DEF Progress
  <2>7. Queued'
    BY <2>1 DEF Queued, Progress, Stage, TypeOK
  <2>8. Alone'
    <3>1. ASSUME NEW k \in Workers, worker[k] # Idle
          PROVE  /\ worker[k].transfer \in Transfers
                 /\ queue'[worker[k].transfer] = queue[worker[k].transfer]
                 /\ row'[worker[k].transfer] = row[worker[k].transfer]
      <4>1. worker[k].transfer \in Transfers /\ queue[worker[k].transfer].at # "none"
        BY <3>1, AtWork DEF Alone
      <4> QED
        BY <2>1, <4>1 DEF Progress, Stage
    <3> QED
      BY <2>2, <3>1 DEF Alone, Calm
  <2> QED
    BY <2>3, <2>4, <2>5, <2>6, <2>7, <2>8
<1> QED
  BY <1>1, <1>2, <1>3, <1>4, <1>5, <1>6 DEF Handle

LEMMA TakeKeeps == ASSUME BInv, NEW k \in Workers, NEW x \in Transfers, Take(k, x) PROVE BInv'
<1> USE DEF BInv, Take
<1>1. TypeOK'
  <2>1. worker' \in [Workers -> [transfer : Transfers, stage : {"taken", "success", "failure"}]
                                \cup {Idle}]
    BY DEF TypeOK
  <2>2. queue' \in [Transfers ->
              [at : {"none", "waiting", "active", "failed", "removed"},
               failures : 0..Attempts, stalls : 0..StallLimit, owner : Workers \cup {Idle}]]
    <3>1. [queue[x] EXCEPT !.at = "active", !.owner = k] \in
              [at : {"none", "waiting", "active", "failed", "removed"},
               failures : 0..Attempts, stalls : 0..StallLimit, owner : Workers \cup {Idle}]
      BY SMTT(30), ZenonT(30) DEF TypeOK
    <3>2. queue' = [queue EXCEPT ![x] = [queue[x] EXCEPT !.at = "active", !.owner = k]]
      BY DEF TypeOK
    <3> QED
      BY <3>1, <3>2 DEF TypeOK
  <2>3. ASSUME NEW y \in Transfers, queue'[y].at = "waiting" PROVE queue'[y].failures < Attempts
    <3>1. y # x
      BY <2>3 DEF TypeOK
    <3> QED
      BY <2>3, <3>1 DEF TypeOK
  <2> QED
    BY <2>1, <2>2, <2>3 DEF TypeOK
<1>2. PaidFor' /\ SettledExactly' /\ Progress' /\ Queued'
  BY DEF TypeOK, PaidFor, SettledExactly, Calm, Progress, Stage, Queued
<1>3. Alone'
  BY AtWork DEF TypeOK, Alone, Calm
<1> QED
  BY <1>1, <1>2, <1>3

LEMMA AskKeeps == ASSUME BInv, NEW k \in Workers, AskProvider(k) PROVE BInv'
<1> USE DEF BInv, AskProvider, Runs
<1>1. TypeOK'
  BY AtWork DEF TypeOK
<1>2. PaidFor' /\ SettledExactly' /\ Progress' /\ Queued'
  BY DEF PaidFor, SettledExactly, Calm, Progress, Stage, Queued
<1>3. Alone'
  BY AtWork DEF TypeOK, Alone, Calm, Ready
<1> QED
  BY <1>1, <1>2, <1>3

LEMMA StallKeeps == ASSUME BInv, NEW k \in Workers, Stall(k) PROVE BInv'
<1> DEFINE x == worker[k].transfer
<1>1. x \in Transfers /\ queue[x].at # "none" /\ queue[x].stalls \in 0..1 /\ worker[k] # Idle
  BY AtWork DEF BInv, TypeOK, Alone, Stall
<1>2. queue' = IF queue[x].stalls < StallLimit
               THEN [queue EXCEPT ![x].at = "waiting", ![x].stalls = @ + 1, ![x].owner = Idle]
               ELSE [queue EXCEPT ![x].at = "failed", ![x].owner = Idle]
  BY DEF Stall
<1>3. UNCHANGED <<row, refs, handler>>
  BY DEF Stall
<1>4. queue'[x].stalls # 0 /\ queue'[x].at # "none"
      /\ \A y \in Transfers : y # x => queue'[y] = queue[y]
  BY <1>1, <1>2 DEF BInv, TypeOK
<1>5. \A j \in Workers : worker'[j] = Idle \/ worker'[j] = worker[j]
  BY DEF BInv, TypeOK, Stall
<1>6. TypeOK' /\ Queued'
  <2>1. queue[x].failures < Attempts /\ queue[x].owner \in Workers
    BY <1>1 DEF BInv, Queued, Stall
  <2>2. /\ queue' \in [Transfers ->
              [at : {"none", "waiting", "active", "failed", "removed"},
               failures : 0..Attempts, stalls : 0..StallLimit, owner : Workers \cup {Idle}]]
        /\ queue'[x].owner = Idle /\ queue'[x].failures = queue[x].failures
    BY <1>1, <1>2, SMTT(30), ZenonT(30) DEF BInv, TypeOK
  <2>3. faults' \in [deaths : 0..MaxDeaths, errors : 0..MaxErrors, stalls : 0..MaxStalls]
    BY SMTT(30), ZenonT(30) DEF BInv, TypeOK, Stall
  <2>4. worker' \in [Workers -> [transfer : Transfers, stage : {"taken", "success", "failure"}]
                                \cup {Idle}]
    BY DEF BInv, TypeOK, Stall
  <2>5. \A y \in Transfers : queue'[y].at = "waiting" => queue'[y].failures < Attempts
    BY <1>4, <2>1, <2>2 DEF BInv, TypeOK
  <2>6. TypeOK'
    BY <1>3, <2>2, <2>3, <2>4, <2>5 DEF BInv, TypeOK
  <2>7. Queued'
    BY <1>4, <2>1, <2>2 DEF BInv, Queued
  <2> QED
    BY <2>6, <2>7
<1>7. PaidFor' /\ SettledExactly' /\ Progress'
  BY <1>1, <1>3, <1>4 DEF BInv, PaidFor, SettledExactly, Calm, Progress, Stage
<1>8. Alone'
  BY <1>3, <1>4, <1>5, AtWork DEF BInv, Alone, Calm
<1> QED
  BY <1>6, <1>7, <1>8 DEF BInv

-----------------------------------------------------------------------------
(* The steps with which a worker ends an attempt.                          *)
JobEnds(k) ==
  \/ SkipSettled(k) \/ CompleteTransfer(k) \/ RefundTransfer(k) \/ RefundRejected(k)
  \/ AttemptFails(k)

LEMMA EndsAttempt ==
  ASSUME BInv, NEW k \in Workers, JobEnds(k)
  PROVE  /\ worker[k] # Idle /\ Outcome(k) /\ UNCHANGED handler
         /\ faults' \in [deaths : 0..MaxDeaths, errors : 0..MaxErrors, stalls : 0..MaxStalls]
         /\ \E at \in {"waiting", "failed", "removed"}, n \in Nat :
              /\ queue[worker[k].transfer].owner = k =>
                   n <= Attempts /\ (at = "waiting" => n < Attempts)
              /\ Release(k, at, n)
<1> DEFINE x == worker[k].transfer
<1>1. worker[k] # Idle /\ UNCHANGED handler
  BY DEF JobEnds, SkipSettled, CompleteTransfer, RefundTransfer, RefundRejected, AttemptFails, Runs
<1>2. Outcome(k)
  BY DEF JobEnds, SkipSettled, CompleteTransfer, RefundTransfer, RefundRejected, AttemptFails, Runs,
         Outcome
<1>3. faults' \in [deaths : 0..MaxDeaths, errors : 0..MaxErrors, stalls : 0..MaxStalls]
  BY DEF BInv, TypeOK, JobEnds, SkipSettled, CompleteTransfer, RefundTransfer, RefundRejected,
         AttemptFails
<1>4. /\ queue[x].failures \in 0..Attempts
      /\ queue[x].owner = k => queue[x].failures < Attempts
  BY <1>1, AtWork DEF BInv, TypeOK, Queued
<1>5. ASSUME Done(k)
      PROVE  \E at \in {"waiting", "failed", "removed"}, n \in Nat :
               /\ queue[x].owner = k => n <= Attempts /\ (at = "waiting" => n < Attempts)
               /\ Release(k, at, n)
  <2>1. Release(k, "removed", queue[x].failures)
    BY <1>5 DEF Done
  <2> QED
    BY <1>4, <2>1
<1>6. ASSUME Throw(k)
      PROVE  \E at \in {"waiting", "failed", "removed"}, n \in Nat :
               /\ queue[x].owner = k => n <= Attempts /\ (at = "waiting" => n < Attempts)
               /\ Release(k, at, n)
  <2>1. Release(k, IF queue[x].failures + 1 < Attempts THEN "waiting" ELSE "failed",
                queue[x].failures + 1)
    BY <1>6 DEF Throw
  <2>2. CASE queue[x].failures + 1 < Attempts
    <3>1. Release(k, "waiting", queue[x].failures + 1)
      BY <2>1, <2>2
    <3> QED
      BY <1>4, <2>2, <3>1
  <2>3. CASE ~(queue[x].failures + 1 < Attempts)
    <3>1. Release(k, "failed", queue[x].failures + 1)
      BY <2>1, <2>3
    <3> QED
      BY <1>4, <2>3, <3>1
  <2> QED
    BY <2>2, <2>3
<1>7. Done(k) \/ Throw(k)
  BY DEF JobEnds, SkipSettled, CompleteTransfer, RefundTransfer, RefundRejected, AttemptFails
<1> QED
  BY <1>1, <1>2, <1>3, <1>5, <1>6, <1>7

LEMMA StepInv == BInv /\ [Next]_vars => BInv'
<1> SUFFICES ASSUME BInv, [Next]_vars PROVE BInv'
  OBVIOUS
<1>1. CASE UNCHANGED vars
  BY <1>1 DEF vars, BInv, TypeOK, PaidFor, SettledExactly, Calm, Progress, Stage, Alone, Queued
<1>2. ASSUME NEW x \in Transfers,
             Debit(x) \/ Schedule(x) \/ CancelScheduled(x) \/ Handle(x) \/ HandlerDies(x)
      PROVE  BInv'
  BY <1>2, RequestKeeps
<1>3. ASSUME NEW k \in Workers, NEW x \in Transfers, Take(k, x) PROVE BInv'
  BY <1>3, TakeKeeps
<1>4. ASSUME NEW k \in Workers, AskProvider(k) PROVE BInv'
  BY <1>4, AskKeeps
<1>5. ASSUME NEW k \in Workers, JobEnds(k) PROVE BInv'
  BY <1>5, EndsAttempt, AttemptKeeps
<1>6. ASSUME NEW k \in Workers, Stall(k) PROVE BInv'
  BY <1>6, StallKeeps
<1> QED
  BY <1>1, <1>2, <1>3, <1>4, <1>5, <1>6 DEF Next, Work, JobEnds

LEMMA InvHolds == Spec => []BInv
BY InitInv, StepInv, PTL DEF Spec

(* Whatever dies, throws or stalls, a transfer in flight was debited, one  *)
(* that failed was refunded once, and one whose job never stalled was not  *)
(* refunded when it completed (TransfersService.settleExternalTransfer).   *)
THEOREM SettledSoundly == Spec => []SettlementSound
<1>1. BInv => SettlementSound
  BY DEF BInv, SettlementSound
<1> QED
  BY <1>1, InvHolds, PTL

(* A transfer that is settled stays so, however often its job runs again,  *)
(* one run after the other (transfers.service.ts:323).                     *)
THEOREM SettledOnce == Spec => SettledForGood
<1>1. BInv /\ [Next]_vars =>
        [\A x \in Transfers : row[x].status \in Settled /\ Calm(x) => row'[x] = row[x]]_vars
  <2> SUFFICES ASSUME BInv, Next, NEW x \in Transfers, row[x].status \in Settled, Calm(x)
               PROVE  row'[x] = row[x]
    OBVIOUS
  <2>1. ASSUME NEW y \in Transfers,
               Debit(y) \/ Schedule(y) \/ CancelScheduled(y) \/ Handle(y) \/ HandlerDies(y)
        PROVE  row'[x] = row[x]
    BY <2>1 DEF BInv, TypeOK, Progress, Stage, Settled, Debit, Schedule, CancelScheduled, Handle,
                Initiate, Enqueue, HandlerDies
  <2>2. ASSUME NEW k \in Workers, JobEnds(k) PROVE row'[x] = row[x]
    <3>1. worker[k] # Idle /\ worker[k].transfer \in Transfers /\ Outcome(k)
      BY <2>2, EndsAttempt, AtWork DEF BInv
    <3>2. worker[k].transfer = x /\ worker[k].stage # "taken" => row[x].status = "PROCESSING"
      BY <3>1 DEF BInv, Alone
    <3> QED
      BY <3>1, <3>2 DEF Outcome, BInv, TypeOK, Settled
  <2>3. ASSUME NEW k \in Workers, (\E y \in Transfers : Take(k, y)) \/ AskProvider(k) \/ Stall(k)
        PROVE  row'[x] = row[x]
    BY <2>3 DEF Take, AskProvider, Stall
  <2> QED
    BY <2>1, <2>2, <2>3 DEF Next, Work, JobEnds
<1> QED
  BY <1>1, InvHolds, PTL DEF Spec, SettledForGood

HIDE BankAssumption DEF Attempts, StallLimit

-----------------------------------------------------------------------------
(* Recurrence.                                                             *)

USE RecurrenceAssumption

TickRow == [todo : SUBSET Snapshots, inHand : Snapshots \cup {None}]
RuleRow == [active : BOOLEAN, next : 0..Horizon + 1]

(* A rule that is active, and a reading of one, is at an occurrence that   *)
(* is within recurrenceEndsAt or the first, and all before it were tried.  *)
AtOccurrence(x, n) ==
  /\ x \in Recurring /\ (n <= Ends[x] \/ n = First[x])
  /\ \A m \in First[x]..n - 1 : m \in tried[x]

ReadsTrue ==
  /\ \A x \in Templates : rule[x].active => AtOccurrence(x, rule[x].next)
  /\ \A k \in Ticks :
       /\ \A s \in tick[k].todo : AtOccurrence(s.template, s.next)
       /\ tick[k].inHand # None =>
            /\ AtOccurrence(tick[k].inHand.template, tick[k].inHand.next)
            /\ tick[k].inHand.next <= now
            /\ tick[k].inHand.next \in tried[tick[k].inHand.template]

(* As long as no tick overlaps another or dies, the one that runs has the  *)
(* rules as they are, and none of its occurrences has become a transfer    *)
(* but the one in its hands.                                               *)
OneAtATime ==
  ~overlap /\ deaths = 0 =>
    /\ \A j, k \in Ticks : tick[j] # NoTick /\ tick[k] # NoTick => j = k
    /\ \A k \in Ticks :
         /\ \A s \in tick[k].todo : s.next = rule[s.template].next
         /\ tick[k].inHand # None =>
              /\ tick[k].inHand.next = rule[tick[k].inHand.template].next
              /\ \A s \in tick[k].todo : s.template # tick[k].inHand.template
    /\ \A x \in Templates :
         /\ twice[x] = {}
         /\ \A n \in spawned[x] :
              \/ n < rule[x].next
              \/ n = rule[x].next
                   /\ \E k \in Ticks : tick[k].inHand # None /\ tick[k].inHand.template = x

RInv == RecurrenceTypeOK /\ NoneSkipped /\ InTime /\ ReadsTrue /\ OneAtATime

LEMMA RecurrenceShapes ==
  ASSUME RecurrenceTypeOK
  PROVE  /\ now \in Nat /\ now <= Horizon /\ Horizon \in Nat
         /\ tick \in [Ticks -> TickRow] /\ rule \in [Templates -> RuleRow]
         /\ status \in [Templates -> {"SCHEDULED", "CANCELLED"}]
         /\ tried \in [Templates -> SUBSET Times] /\ spawned \in [Templates -> SUBSET Times]
         /\ twice \in [Templates -> SUBSET Times]
         /\ \A k \in Ticks : \A s \in tick[k].todo : s \in Snapshots /\ s.next <= now
         /\ \A s \in Snapshots : s.template \in Templates /\ s.next \in Nat
         /\ \A x \in Templates : /\ rule[x].next \in Nat /\ First[x] \in Nat /\ Ends[x] \in Nat
                                 /\ First[x] <= Horizon
BY DEF RecurrenceTypeOK, TickRow, RuleRow, Times, Snapshots

LEMMA RecurrenceStart == RecurrenceInit => RInv
<1> SUFFICES ASSUME RecurrenceInit PROVE RInv
  OBVIOUS
<1>1. /\ \A k \in Ticks : tick[k] = NoTick
      /\ \A x \in Templates : /\ rule[x].active = (x \in Recurring) /\ rule[x].next = First[x]
                              /\ spawned[x] = {} /\ tried[x] = {} /\ twice[x] = {}
      /\ NoTick.todo = {} /\ NoTick.inHand = None
  BY DEF RecurrenceInit, NoTick
<1>2. RecurrenceTypeOK
  <2>1. tick \in [Ticks -> TickRow] /\ \A x \in Templates : First[x] \in 0..Horizon + 1
    BY DEF RecurrenceInit, NoTick, TickRow
  <2>2. rule \in [Templates -> RuleRow]
    BY <2>1 DEF RecurrenceInit, RuleRow
  <2>3. overlap \in BOOLEAN
    BY Zenon DEF RecurrenceInit
  <2>4. /\ now \in Times /\ status \in [Templates -> {"SCHEDULED", "CANCELLED"}]
        /\ tried \in [Templates -> SUBSET Times] /\ spawned \in [Templates -> SUBSET Times]
        /\ twice \in [Templates -> SUBSET Times] /\ deaths \in 0..MaxTickDeaths
    BY DEF RecurrenceInit, Times
  <2> QED
    BY <1>1, <2>1, <2>2, <2>3, <2>4 DEF RecurrenceTypeOK, TickRow, RuleRow
<1>3. \A x \in Templates : First[x] \in Nat /\ First[x]..First[x] - 1 = {}
  OBVIOUS
<1>4. ReadsTrue
  BY <1>1, <1>3 DEF ReadsTrue, AtOccurrence
<1>5. NoneSkipped /\ InTime
  BY <1>1, <1>3 DEF NoneSkipped, InTime
<1>6. OneAtATime
  BY <1>1 DEF OneAtATime
<1> QED
  BY <1>2, <1>4, <1>5, <1>6 DEF RInv

LEMMA TimeStep == ASSUME RInv, TimePasses PROVE RInv'
<1>1. /\ now' = now + 1 /\ now' \in Times /\ now \in Nat
      /\ UNCHANGED <<status, rule, tick, tried, spawned, twice, overlap, deaths>>
  BY DEF TimePasses, RInv, RecurrenceTypeOK, Times
<1>2. \A k \in Ticks : \A s \in tick[k].todo : s.next \in Nat
  BY RecurrenceShapes DEF RInv
<1>3. RecurrenceTypeOK'
  BY <1>1, <1>2 DEF RInv, RecurrenceTypeOK
<1>4. NoneSkipped' /\ OneAtATime'
  BY <1>1 DEF RInv, NoneSkipped, OneAtATime
<1>5. InTime'
  <2>1. \A x \in Templates : \A n \in spawned[x] : n \in Nat
    BY RecurrenceShapes DEF RInv, Times
  <2> QED
    BY <1>1, <2>1 DEF RInv, InTime
<1>6. ReadsTrue'
  <2>1. \A k \in Ticks : tick[k].inHand # None => tick[k].inHand.next \in Nat
    BY RecurrenceShapes DEF RInv, TickRow
  <2> QED
    BY <1>1, <2>1 DEF RInv, ReadsTrue, AtOccurrence
<1> QED
  BY <1>3, <1>4, <1>5, <1>6 DEF RInv

LEMMA CancelStep ==
  ASSUME RInv, NEW x \in Templates, CancelRecurring(x)
  PROVE  RInv'
<1>1. /\ status' = [status EXCEPT ![x] = "CANCELLED"] /\ rule' = [rule EXCEPT ![x].active = FALSE]
      /\ UNCHANGED <<now, tick, tried, spawned, twice, overlap, deaths>>
  BY DEF CancelRecurring
<1>2. /\ rule' \in [Templates -> RuleRow]
      /\ \A y \in Templates : rule'[y].next = rule[y].next /\ (rule'[y].active => rule[y].active)
      /\ status' \in [Templates -> {"SCHEDULED", "CANCELLED"}]
  <2>1. rule \in [Templates -> RuleRow] /\ status \in [Templates -> {"SCHEDULED", "CANCELLED"}]
    BY RecurrenceShapes DEF RInv
  <2>2. [rule[x] EXCEPT !.active = FALSE] \in RuleRow
    BY <2>1 DEF RuleRow
  <2>3. rule' \in [Templates -> RuleRow]
    BY <1>1, <2>1, <2>2
  <2>4. \A y \in Templates : rule'[y].next = rule[y].next /\ (rule'[y].active => rule[y].active)
    BY <1>1, <2>1 DEF RuleRow
  <2> QED
    BY <1>1, <2>1, <2>3, <2>4
<1>3. RecurrenceTypeOK'
  BY <1>1, <1>2 DEF RInv, RecurrenceTypeOK, RuleRow
<1>4. NoneSkipped' /\ InTime'
  BY <1>1, <1>2 DEF RInv, NoneSkipped, InTime
<1>5. \A y, n : AtOccurrence(y, n)' <=> AtOccurrence(y, n)
  BY <1>1 DEF AtOccurrence
<1>6. ReadsTrue'
  BY <1>1, <1>2, <1>5 DEF RInv, ReadsTrue
<1>7. OneAtATime'
  <2>1. \A k \in Ticks : \A s \in tick[k].todo : s.template \in Templates
    BY RecurrenceShapes DEF RInv
  <2>2. \A k \in Ticks : tick[k].inHand # None => tick[k].inHand.template \in Templates
    BY RecurrenceShapes DEF RInv, TickRow
  <2> QED
    BY <1>1, <1>2, <2>1, <2>2 DEF RInv, OneAtATime
<1> QED
  BY <1>3, <1>4, <1>6, <1>7 DEF RInv

LEMMA StartStep ==
  ASSUME RInv, NEW k \in Ticks, StartTick(k)
  PROVE  RInv'
<1> DEFINE read == {[template |-> x, next |-> rule[x].next] : x \in Due}
           new == [tick[k] EXCEPT !.todo = read]
<1>1. /\ tick[k] = NoTick /\ tick' = [tick EXCEPT ![k] = new]
      /\ UNCHANGED <<now, status, rule, tried, spawned, twice, deaths>>
      /\ overlap' = (overlap \/ \E j \in Ticks \ {k} : tick[j] # NoTick)
  BY DEF StartTick
<1>2. \A s \in read : /\ s \in Snapshots /\ rule[s.template].active
                      /\ rule[s.template].next = s.next /\ s.next <= now /\ s.template \in Templates
  <2> SUFFICES ASSUME NEW x \in Due
               PROVE  /\ [template |-> x, next |-> rule[x].next] \in Snapshots
                      /\ rule[x].active /\ rule[x].next <= now /\ x \in Templates
    OBVIOUS
  <2>1. x \in Templates /\ rule[x].active /\ rule[x].next <= now
    BY DEF Due
  <2>2. rule[x].next \in 0..Horizon + 1
    BY <2>1, RecurrenceShapes DEF RInv, RuleRow
  <2> QED
    BY <2>1, <2>2 DEF Snapshots
<1> HIDE DEF read
<1>3. new \in TickRow /\ new.todo = read /\ new.inHand = None
  BY <1>1, <1>2, RecurrenceShapes DEF RInv, TickRow, NoTick
<1> HIDE DEF new
<1>4. /\ tick' \in [Ticks -> TickRow] /\ tick'[k] = new
      /\ \A j \in Ticks \ {k} : tick'[j] = tick[j]
  BY <1>1, <1>3, RecurrenceShapes DEF RInv
<1>5. overlap' \in BOOLEAN
  BY <1>1, Zenon DEF RInv, RecurrenceTypeOK
<1>6. RecurrenceTypeOK'
  <2>1. \A j \in Ticks : \A s \in tick'[j].todo : s.next <= now
    BY <1>2, <1>3, <1>4 DEF RInv, RecurrenceTypeOK
  <2> QED
    BY <1>1, <1>4, <1>5, <2>1 DEF RInv, RecurrenceTypeOK, TickRow
<1>7. NoneSkipped' /\ InTime'
  BY <1>1 DEF RInv, NoneSkipped, InTime
<1>8. \A y, n : AtOccurrence(y, n)' <=> AtOccurrence(y, n)
  BY <1>1 DEF AtOccurrence
<1>9. ReadsTrue'
  <2>1. \A s \in read : AtOccurrence(s.template, s.next)
    BY <1>2 DEF RInv, ReadsTrue
  <2> QED
    BY <1>1, <1>3, <1>4, <1>8, <2>1 DEF RInv, ReadsTrue
<1>10. OneAtATime'
  <2> SUFFICES ASSUME ~overlap', deaths = 0
               PROVE  OneAtATime'
    BY <1>1 DEF OneAtATime
  <2>1. ~overlap /\ \A j \in Ticks \ {k} : tick[j] = NoTick
    BY <1>1
  <2>2. NoTick.todo = {} /\ NoTick.inHand = None
    BY DEF NoTick
  <2>3. \A j \in Ticks : tick[j].inHand = None
    BY <1>1, <2>1, <2>2
  <2>4. \A x \in Templates : twice[x] = {} /\ \A n \in spawned[x] : n < rule[x].next
    BY <2>1, <2>3 DEF RInv, OneAtATime
  <2>5. \A j \in Ticks : tick'[j].inHand = None /\ (tick'[j] # NoTick => j = k)
    BY <1>3, <1>4, <2>1, <2>3
  <2>6. \A j \in Ticks : \A s \in tick'[j].todo : s.next = rule[s.template].next
    BY <1>2, <1>3, <1>4, <2>1, <2>2
  <2> QED
    BY <1>1, <2>4, <2>5, <2>6 DEF OneAtATime
<1> QED
  BY <1>6, <1>7, <1>9, <1>10 DEF RInv

LEMMA SpawnStep ==
  ASSUME RInv, NEW k \in Ticks, SpawnInstance(k)
  PROVE  RInv'
<1>1. PICK s \in tick[k].todo :
        /\ tick' = [tick EXCEPT ![k] = [todo |-> @.todo \ {s}, inHand |-> s]]
        /\ tried' = [tried EXCEPT ![s.template] = @ \cup {s.next}]
        /\ \/ /\ spawned' = [spawned EXCEPT ![s.template] = @ \cup {s.next}]
              /\ twice' = [twice EXCEPT ![s.template] = @ \cup (spawned[s.template] \cap {s.next})]
           \/ UNCHANGED <<spawned, twice>>
  BY DEF SpawnInstance
<1>2. tick[k].inHand = None /\ UNCHANGED <<now, status, rule, overlap, deaths>>
  BY DEF SpawnInstance
<1>3. /\ s \in Snapshots /\ s # None /\ s.template \in Templates /\ s.next \in Nat /\ s.next <= now
      /\ s.next \in Times /\ AtOccurrence(s.template, s.next)
  <2>1. s \in Snapshots /\ s.next <= now /\ s.template \in Templates /\ s.next \in Nat
    BY RecurrenceShapes DEF RInv
  <2> QED
    BY <2>1, RecurrenceShapes DEF RInv, ReadsTrue, Times
<1> DEFINE new == [todo |-> tick[k].todo \ {s}, inHand |-> s]
<1>4. /\ new \in TickRow /\ new.todo = tick[k].todo \ {s} /\ new.inHand = s
      /\ tick' = [tick EXCEPT ![k] = new]
  BY <1>1, <1>3, RecurrenceShapes DEF RInv, TickRow
<1> HIDE DEF new
<1>5. /\ tick' \in [Ticks -> TickRow] /\ tick'[k] = new
      /\ \A j \in Ticks \ {k} : tick'[j] = tick[j]
  BY <1>4, RecurrenceShapes DEF RInv
<1>6. /\ tried' \in [Templates -> SUBSET Times] /\ s.next \in tried'[s.template]
      /\ \A x \in Templates : tried[x] \subseteq tried'[x]
  BY <1>1, <1>3, RecurrenceShapes DEF RInv
<1>7. /\ spawned' \in [Templates -> SUBSET Times]
      /\ \A x \in Templates : \A n \in spawned'[x] :
           n \in spawned[x] \/ (x = s.template /\ n = s.next)
      /\ twice' \in [Templates -> SUBSET Times]
      /\ \A x \in Templates : \A n \in twice'[x] :
           n \in twice[x] \/ (x = s.template /\ n = s.next /\ n \in spawned[x])
  <2>1. spawned \in [Templates -> SUBSET Times] /\ twice \in [Templates -> SUBSET Times]
    BY RecurrenceShapes DEF RInv
  <2>2. CASE UNCHANGED <<spawned, twice>>
    BY <2>1, <2>2
  <2>3. CASE /\ spawned' = [spawned EXCEPT ![s.template] = @ \cup {s.next}]
             /\ twice' = [twice EXCEPT ![s.template] = @ \cup (spawned[s.template] \cap {s.next})]
    BY <1>3, <2>1, <2>3
  <2> QED
    BY <1>1, <2>2, <2>3
<1>8. RecurrenceTypeOK'
  <2>1. \A j \in Ticks : \A q \in tick'[j].todo : q.next <= now
    BY <1>4, <1>5 DEF RInv, RecurrenceTypeOK
  <2> QED
    BY <1>2, <1>5, <1>6, <1>7, <2>1 DEF RInv, RecurrenceTypeOK, TickRow
<1>9. NoneSkipped'
  BY <1>2, <1>6 DEF RInv, NoneSkipped
<1>10. InTime'
  BY <1>2, <1>3, <1>7 DEF RInv, InTime, AtOccurrence
<1>11. \A y, n : AtOccurrence(y, n) => AtOccurrence(y, n)'
  BY <1>6 DEF AtOccurrence
<1>12. ReadsTrue'
  <2>1. (\A x \in Templates : rule[x].active => AtOccurrence(x, rule[x].next))'
    BY <1>2, <1>11 DEF RInv, ReadsTrue
  <2>2. ASSUME NEW j \in Ticks
        PROVE  (/\ \A q \in tick[j].todo : AtOccurrence(q.template, q.next)
                /\ tick[j].inHand # None =>
                     /\ AtOccurrence(tick[j].inHand.template, tick[j].inHand.next)
                     /\ tick[j].inHand.next <= now
                     /\ tick[j].inHand.next \in tried[tick[j].inHand.template])'
    <3>1. PICK d \in TickRow : tick'[j] = d
      BY <1>5
    <3>2. \A q \in d.todo : q \in tick[j].todo
      BY <1>4, <1>5, <3>1
    <3>3. d.inHand # None => d.inHand = s \/ d.inHand = tick[j].inHand
      BY <1>4, <1>5, <3>1
    <3>4. \A q \in tick[j].todo : AtOccurrence(q.template, q.next)
      BY DEF RInv, ReadsTrue
    <3>5. d.inHand # None => /\ AtOccurrence(d.inHand.template, d.inHand.next)
                             /\ d.inHand.next <= now
                             /\ d.inHand.next \in tried'[d.inHand.template]
      <4>1. CASE d.inHand = s
        BY <1>3, <1>6, <4>1
      <4>2. CASE d.inHand # None /\ d.inHand = tick[j].inHand
        <5>1. d.inHand.template \in Templates
          BY <4>2, RecurrenceShapes DEF RInv, TickRow
        <5> QED
          BY <1>6, <4>2, <5>1 DEF RInv, ReadsTrue
      <4> QED
        BY <3>3, <4>1, <4>2
    <3> QED
      BY <1>2, <1>11, <3>1, <3>2, <3>4, <3>5
  <2> QED
    BY <1>2, <2>1, <2>2 DEF ReadsTrue
<1>13. OneAtATime'
  <2> SUFFICES ASSUME ~overlap, deaths = 0
               PROVE  OneAtATime'
    BY <1>2 DEF OneAtATime
  <2>1. tick[k] # NoTick
    BY DEF NoTick
  <2>2. \A j \in Ticks \ {k} : tick[j] = NoTick /\ tick[j].todo = {} /\ tick[j].inHand = None
    <3>1. NoTick.todo = {} /\ NoTick.inHand = None
      BY DEF NoTick
    <3>2. \A j \in Ticks : tick[j] # NoTick => j = k
      BY <2>1 DEF RInv, OneAtATime
    <3> QED
      BY <3>1, <3>2
  <2>3. \A q \in tick[k].todo : q.next = rule[q.template].next /\ q \in Snapshots
    BY RecurrenceShapes DEF RInv, OneAtATime
  <2>4. \A x \in Templates : twice[x] = {} /\ \A n \in spawned[x] : n < rule[x].next
    BY <1>2, <2>2 DEF RInv, OneAtATime
  <2>5. \A q \in tick[k].todo \ {s} : q.template # s.template
    <3>1. \A q \in Snapshots : q.template = s.template /\ q.next = s.next => q = s
      BY <1>3 DEF Snapshots
    <3> QED
      BY <2>3, <3>1
  <2>6. s.next \notin spawned[s.template]
    BY <1>3, <2>3, <2>4
  <2>7. \A x \in Templates :
          /\ twice'[x] = {}
          /\ \A n \in spawned'[x] : n < rule[x].next \/ (n = rule[x].next /\ x = s.template)
    BY <1>7, <2>3, <2>4, <2>6
  <2>8. \A i, j \in Ticks : tick'[i] # NoTick /\ tick'[j] # NoTick => i = j
    BY <1>5, <2>2
  <2>9. \A j \in Ticks :
          /\ \A q \in tick'[j].todo : q.next = rule[q.template].next
          /\ tick'[j].inHand # None =>
               /\ tick'[j].inHand.next = rule[tick'[j].inHand.template].next
               /\ \A q \in tick'[j].todo : q.template # tick'[j].inHand.template
    BY <1>4, <1>5, <2>2, <2>3, <2>5
  <2>10. tick'[k].inHand # None /\ tick'[k].inHand.template = s.template
    BY <1>3, <1>4, <1>5
  <2> QED
    BY <1>2, <2>7, <2>8, <2>9, <2>10 DEF OneAtATime
<1> QED
  BY <1>8, <1>9, <1>10, <1>12, <1>13 DEF RInv

LEMMA AdvanceStep ==
  ASSUME RInv, NEW k \in Ticks, AdvanceRule(k)
  PROVE  RInv'
<1> DEFINE s == tick[k].inHand
           new == [active |-> s.next + 1 <= Ends[s.template], next |-> s.next + 1]
           rest == [tick[k] EXCEPT !.inHand = None]
<1>1. /\ s # None /\ rule' = [rule EXCEPT ![s.template] = new] /\ tick' = [tick EXCEPT ![k] = rest]
      /\ UNCHANGED <<now, status, tried, spawned, twice, overlap, deaths>>
  BY DEF AdvanceRule
<1>2. /\ s \in Snapshots /\ s.template \in Templates /\ s.next \in Nat /\ s.next <= now
      /\ s.template \in Recurring /\ s.next \in tried[s.template] /\ s.next <= Horizon
      /\ \A m \in First[s.template]..s.next - 1 : m \in tried[s.template]
  <2>1. s \in Snapshots
    BY <1>1, RecurrenceShapes DEF RInv, TickRow
  <2>2. /\ s.template \in Templates /\ s.next \in Nat
        /\ now <= Horizon /\ now \in Nat /\ Horizon \in Nat
    BY <2>1, RecurrenceShapes DEF RInv
  <2>3. s.next <= now /\ s.next \in tried[s.template] /\ AtOccurrence(s.template, s.next)
    BY <1>1 DEF RInv, ReadsTrue
  <2> QED
    BY <2>1, <2>2, <2>3 DEF AtOccurrence
<1>3. /\ new \in RuleRow /\ new.next = s.next + 1 /\ (new.active => s.next + 1 <= Ends[s.template])
  <2>1. s.next + 1 \in 0..Horizon + 1
    BY <1>2
  <2>2. (s.next + 1 <= Ends[s.template]) \in BOOLEAN
    OBVIOUS
  <2> QED
    BY <2>1, <2>2 DEF RuleRow
<1>4. rest \in TickRow /\ rest.todo = tick[k].todo /\ rest.inHand = None
  BY RecurrenceShapes DEF RInv, TickRow
<1> HIDE DEF new, rest
<1>5. /\ tick' \in [Ticks -> TickRow] /\ tick'[k] = rest
      /\ \A j \in Ticks \ {k} : tick'[j] = tick[j]
      /\ rule' \in [Templates -> RuleRow] /\ rule'[s.template] = new
      /\ \A x \in Templates \ {s.template} : rule'[x] = rule[x]
  BY <1>1, <1>2, <1>3, <1>4, RecurrenceShapes DEF RInv
<1>6. \A j \in Ticks : /\ tick'[j].todo = tick[j].todo
                       /\ tick'[j].inHand # None => j # k /\ tick'[j].inHand = tick[j].inHand
  BY <1>4, <1>5
<1>7. RecurrenceTypeOK'
  BY <1>1, <1>5, <1>6 DEF RInv, RecurrenceTypeOK, TickRow, RuleRow
<1>8. \A m \in First[s.template]..(s.next + 1) - 1 : m \in tried[s.template]
  <2>1. \A m \in First[s.template]..(s.next + 1) - 1 :
          m \in First[s.template]..s.next - 1 \/ m = s.next
    <3>1. First[s.template] \in Nat /\ s.next \in Nat
      BY <1>2
    <3> HIDE DEF s
    <3> QED
      BY <3>1
  <2> QED
    BY <1>2, <2>1
<1>9. NoneSkipped'
  BY <1>1, <1>2, <1>3, <1>5, <1>8 DEF RInv, NoneSkipped
<1>10. InTime'
  BY <1>1 DEF RInv, InTime
<1>11. \A y, n : AtOccurrence(y, n)' <=> AtOccurrence(y, n)
  BY <1>1 DEF AtOccurrence
<1>12. ReadsTrue'
  <2>1. new.active => AtOccurrence(s.template, new.next)
    BY <1>2, <1>3, <1>8 DEF AtOccurrence
  <2>2. \A x \in Templates : rule'[x].active => AtOccurrence(x, rule'[x].next)
    BY <1>5, <2>1 DEF RInv, ReadsTrue
  <2> HIDE DEF s
  <2> QED
    BY <1>1, <1>6, <1>11, <2>2 DEF RInv, ReadsTrue
<1>13. OneAtATime'
  <2> SUFFICES ASSUME ~overlap, deaths = 0
               PROVE  OneAtATime'
    BY <1>1 DEF OneAtATime
  <2>1. tick[k] # NoTick
    BY <1>1 DEF NoTick
  <2>2. \A j \in Ticks \ {k} : tick[j] = NoTick /\ tick[j].todo = {} /\ tick[j].inHand = None
    <3>1. NoTick.todo = {} /\ NoTick.inHand = None
      BY DEF NoTick
    <3>2. \A j \in Ticks : tick[j] # NoTick => j = k
      BY <2>1 DEF RInv, OneAtATime
    <3> QED
      BY <3>1, <3>2
  <2>3. /\ s.next = rule[s.template].next
        /\ \A q \in tick[k].todo : /\ q.next = rule[q.template].next /\ q.template # s.template
                                   /\ q.template \in Templates
    BY <1>1, RecurrenceShapes DEF RInv, OneAtATime
  <2>4. \A x \in Templates : /\ twice[x] = {} /\ rule[x].next \in Nat
                             /\ \A n \in spawned[x] :
                                  /\ n \in Nat
                                  /\ n < rule[x].next \/ (n = rule[x].next /\ x = s.template)
    <3>1. \A x \in Templates : rule[x].next \in Nat /\ \A n \in spawned[x] : n \in Nat
      BY RecurrenceShapes DEF RInv, Times
    <3> QED
      BY <2>2, <3>1 DEF RInv, OneAtATime
  <2>5. \A x \in Templates : \A n \in spawned[x] : n < rule'[x].next
    <3>1. rule'[s.template].next = rule[s.template].next + 1
      BY <1>3, <1>5, <2>3
    <3> QED
      BY <1>2, <1>5, <2>4, <3>1
  <2>6. \A i, j \in Ticks : tick'[i] # NoTick /\ tick'[j] # NoTick => i = j
    BY <1>5, <2>2
  <2>7. \A j \in Ticks : /\ \A q \in tick'[j].todo : q.next = rule'[q.template].next
                         /\ tick'[j].inHand = None
    BY <1>4, <1>5, <2>2, <2>3
  <2> QED
    BY <1>1, <2>4, <2>5, <2>6, <2>7 DEF OneAtATime
<1> QED
  BY <1>7, <1>9, <1>10, <1>12, <1>13 DEF RInv

LEMMA DeathStep ==
  ASSUME RInv, NEW k \in Ticks, TickDies(k)
  PROVE  RInv'
<1>1. /\ deaths < MaxTickDeaths /\ deaths' = deaths + 1 /\ tick' = [tick EXCEPT ![k] = NoTick]
      /\ UNCHANGED <<now, status, rule, tried, spawned, twice, overlap>>
  BY DEF TickDies
<1>2. NoTick \in TickRow /\ NoTick.todo = {} /\ NoTick.inHand = None
  BY DEF NoTick, TickRow
<1>3. /\ tick' \in [Ticks -> TickRow] /\ tick'[k] = NoTick
      /\ \A j \in Ticks \ {k} : tick'[j] = tick[j]
  BY <1>1, <1>2, RecurrenceShapes DEF RInv
<1>4. deaths' \in 0..MaxTickDeaths /\ deaths' # 0
  BY <1>1 DEF RInv, RecurrenceTypeOK
<1>5. RecurrenceTypeOK'
  BY <1>1, <1>2, <1>3, <1>4 DEF RInv, RecurrenceTypeOK, TickRow
<1>6. \A y, n : AtOccurrence(y, n)' <=> AtOccurrence(y, n)
  BY <1>1 DEF AtOccurrence
<1>7. ReadsTrue'
  BY <1>1, <1>2, <1>3, <1>6 DEF RInv, ReadsTrue
<1>8. NoneSkipped' /\ InTime' /\ OneAtATime'
  BY <1>1, <1>4 DEF RInv, NoneSkipped, InTime, OneAtATime
<1> QED
  BY <1>5, <1>7, <1>8 DEF RInv

LEMMA RInvHolds == RecurrenceSpec => []RInv
<1>1. RInv /\ [RecurrenceNext]_recurrenceVars => RInv'
  <2> SUFFICES ASSUME RInv, [RecurrenceNext]_recurrenceVars PROVE RInv'
    OBVIOUS
  <2>1. CASE UNCHANGED recurrenceVars
    BY <2>1 DEF recurrenceVars, RInv, RecurrenceTypeOK, NoneSkipped, InTime, ReadsTrue,
                AtOccurrence, OneAtATime
  <2> QED
    BY <2>1, TimeStep, CancelStep, StartStep, SpawnStep, AdvanceStep, DeathStep
       DEF RecurrenceNext, RunTick
<1> QED
  BY <1>1, RecurrenceStart, PTL DEF RecurrenceSpec

(* For any rules and ticks, however they overlap and die: a rule passes no *)
(* occurrence that was not tried, nothing is paid early or after its end,  *)
(* and nothing twice unless ticks overlap or die (runDueRecurrences).      *)
THEOREM OccurrencesPaid == RecurrenceSpec => []OccurrencesTrue
<1>1. RInv => OccurrencesTrue
  BY DEF RInv, OccurrencesTrue, PaidOnce, OneAtATime, RecurrenceTypeOK
<1> QED
  BY <1>1, RInvHolds, PTL

(* A cancelled transfer in the hands of no tick stays out, for any rules   *)
(* and ticks (cancelScheduled, runDueRecurrences).                         *)
THEOREM CancelledForGood == RecurrenceSpec => CancelledStaysOut
<1>1. RInv /\ [RecurrenceNext]_recurrenceVars => \A x \in Templates : Out(x) => Out(x)'
  <2> SUFFICES ASSUME RInv, [RecurrenceNext]_recurrenceVars, NEW x \in Templates, Out(x)
               PROVE  Out(x)'
    OBVIOUS
  <2>1. /\ tick \in [Ticks -> TickRow] /\ rule \in [Templates -> RuleRow]
        /\ status \in [Templates -> {"SCHEDULED", "CANCELLED"}]
        /\ \A s \in Snapshots : s.template \in Templates
    BY RecurrenceShapes DEF RInv
  <2>2. CASE UNCHANGED recurrenceVars \/ TimePasses
    BY <2>2 DEF recurrenceVars, TimePasses, Out
  <2>3. ASSUME NEW y \in Templates, CancelRecurring(y) PROVE Out(x)'
    BY <2>1, <2>3 DEF CancelRecurring, Out, RuleRow
  <2>4. ASSUME NEW k \in Ticks, StartTick(k) PROVE Out(x)'
    <3>1. tick' = [tick EXCEPT ![k].todo = {[template |-> y, next |-> rule[y].next] : y \in Due}]
          /\ UNCHANGED <<status, rule>>
      BY <2>4 DEF StartTick
    <3>2. \A s \in {[template |-> y, next |-> rule[y].next] : y \in Due} : s.template # x
      BY DEF Due, Out
    <3> HIDE DEF Due
    <3>3. \A j \in Ticks : /\ tick'[j].inHand = tick[j].inHand
                           /\ \A s \in tick'[j].todo : s \in tick[j].todo \/ s.template # x
      BY <2>1, <3>1, <3>2 DEF TickRow
    <3> QED
      BY <3>1, <3>3 DEF Out
  <2>5. ASSUME NEW k \in Ticks, SpawnInstance(k) PROVE Out(x)'
    <3>1. PICK s \in tick[k].todo :
            tick' = [tick EXCEPT ![k] = [todo |-> @.todo \ {s}, inHand |-> s]]
      BY <2>5 DEF SpawnInstance
    <3>2. UNCHANGED <<status, rule>>
      BY <2>5 DEF SpawnInstance
    <3> QED
      BY <2>1, <3>1, <3>2 DEF Out, TickRow
  <2>6. ASSUME NEW k \in Ticks, AdvanceRule(k) PROVE Out(x)'
    <3>1. tick[k].inHand # None /\ tick[k].inHand.template # x
      BY <2>6 DEF AdvanceRule, Out
    <3>2. UNCHANGED status /\ rule'[x] = rule[x] /\ tick' = [tick EXCEPT ![k].inHand = None]
      BY <2>1, <2>6, <3>1 DEF AdvanceRule
    <3> QED
      BY <2>1, <3>2 DEF Out, TickRow
  <2>7. ASSUME NEW k \in Ticks, TickDies(k) PROVE Out(x)'
    BY <2>1, <2>7 DEF TickDies, Out, NoTick
  <2> QED
    BY <2>2, <2>3, <2>4, <2>5, <2>6, <2>7 DEF RecurrenceNext, RunTick
<1> QED
  BY <1>1, RInvHolds, PTL DEF RecurrenceSpec, CancelledStaysOut

HIDE RecurrenceAssumption

-----------------------------------------------------------------------------
(* PriceAlerts.                                                            *)

USE PriceAlertsAssumption

AlertRow == [state : {"none", "waiting", "triggered", "deleted"}, direction : {"ABOVE", "BELOW"},
             email : BOOLEAN]
RoundRow == [stage : {"idle", "looking", "marking", "mailing"}, todo : SUBSET Alerts,
             at : Alerts \cup {None}]

(* A round that marks or mails is at an alert, any other at none; what it  *)
(* has before it was made, and what it mails was marked.                   *)
RoundHolds(d) ==
  /\ d.stage = "idle" => d.todo = {}
  /\ d.stage \in {"idle", "looking"} <=> d.at = None
  /\ \A a \in d.todo \cup ({d.at} \ {None}) : alert[a].state # "none"
  /\ d.stage = "mailing" => alert[d.at].state \in {"triggered", "deleted"}

(* An alert that was mailed was marked, once it is not shared no round has *)
(* it before it any more, and no two rounds have one alert.                *)
Unshared ==
  shared
    \/ /\ \A a \in Alerts : mails[a] <= 1
       /\ \A k \in Rounds : /\ round[k].at \notin round[k].todo
                            /\ \A a \in Before(k) : mails[a] = 0
       /\ \A j, k \in Rounds : j # k => Before(j) \cap Before(k) = {}

AInv ==
  /\ AlertsTypeOK /\ ToldOnce
  /\ \A k \in Rounds : RoundHolds(round[k])
  /\ \A a \in Alerts : alert[a].state \in {"none", "waiting"} => mails[a] = 0
  /\ Unshared

LEMMA AlertShapes ==
  ASSUME AlertsTypeOK
  PROVE  /\ alert \in [Alerts -> AlertRow] /\ round \in [Rounds -> RoundRow]
         /\ mails \in [Alerts -> Nat] /\ lost \subseteq Alerts
         /\ \A k \in Rounds : Before(k) \subseteq Alerts /\ round[k].todo \subseteq Alerts
         /\ None \notin Alerts /\ Alerts \subseteq Nat
BY DEF AlertsTypeOK, AlertRow, RoundRow, Before, Alerts

LEMMA AlertsStart == AlertsInit => AInv
<1> SUFFICES ASSUME AlertsInit PROVE AInv
  OBVIOUS
<1>1. /\ \A a \in Alerts : alert[a].state = "none" /\ mails[a] = 0
      /\ \A k \in Rounds : round[k].stage = "idle" /\ round[k].todo = {} /\ round[k].at = None
  BY DEF AlertsInit, NoAlert, Resting
<1>2. AlertsTypeOK
  <2>1. shared \in BOOLEAN
    BY Zenon DEF AlertsInit
  <2>2. NoAlert \in AlertRow /\ Resting \in RoundRow
    BY DEF NoAlert, Resting, AlertRow, RoundRow
  <2>3. alert \in [Alerts -> AlertRow] /\ round \in [Rounds -> RoundRow]
    BY <2>2 DEF AlertsInit
  <2>4. /\ price \in Prices /\ shifts \in 0..MaxShifts
        /\ mails \in [Alerts -> Nat] /\ lost \subseteq Alerts
    BY DEF AlertsInit
  <2> QED
    BY <2>1, <2>3, <2>4 DEF AlertsTypeOK, AlertRow, RoundRow
<1>3. ToldOnce
  BY <1>1 DEF ToldOnce
<1>4. \A k \in Rounds : RoundHolds(round[k])
  BY <1>1 DEF RoundHolds
<1>5. Unshared
  BY <1>1 DEF Unshared, Before
<1> QED
  BY <1>1, <1>2, <1>3, <1>4, <1>5 DEF AInv

(* What the step of a user or of the market leaves of an alert.            *)
AlertKept(a) ==
  \/ alert'[a] = alert[a]
  \/ alert[a].state = "none" /\ alert'[a].state = "waiting"
  \/ alert[a].state # "none" /\ alert'[a].state = "deleted"

LEMMA UserStep ==
  ASSUME AInv, CreateAlert \/ DeleteAlert \/ MovePrice
  PROVE  AInv'
<1> USE AlertShapes DEF AInv
<1>1. UNCHANGED <<round, mails, lost, shared>> /\ price' \in Prices /\ shifts' \in 0..MaxShifts
  <2>1. price \in Prices /\ shifts \in 0..MaxShifts
    BY DEF AlertsTypeOK
  <2>2. CASE CreateAlert
    BY <2>1, <2>2 DEF CreateAlert
  <2>3. CASE DeleteAlert
    BY <2>1, <2>3 DEF DeleteAlert
  <2>4. CASE MovePrice
    BY <2>1, <2>4 DEF MovePrice
  <2> QED
    BY <2>2, <2>3, <2>4
<1>2. alert' \in [Alerts -> AlertRow] /\ \A a \in Alerts : AlertKept(a)
  <2>1. alert \in [Alerts -> AlertRow]
    OBVIOUS
  <2>2. CASE CreateAlert
    <3>1. PICK a \in Alerts, direction \in {"ABOVE", "BELOW"}, email \in BOOLEAN :
            /\ alert[a].state = "none"
            /\ alert' = [alert EXCEPT ![a] = [state |-> "waiting", direction |-> direction,
                                             email |-> email]]
      BY <2>2 DEF CreateAlert
    <3>2. [state |-> "waiting", direction |-> direction, email |-> email] \in AlertRow
      BY DEF AlertRow
    <3> QED
      BY <2>1, <3>1, <3>2 DEF AlertKept
  <2>3. CASE DeleteAlert
    <3>1. PICK a \in Alerts : /\ alert[a].state \in {"waiting", "triggered"}
                              /\ alert' = [alert EXCEPT ![a].state = "deleted"]
      BY <2>3 DEF DeleteAlert
    <3>2. [alert[a] EXCEPT !.state = "deleted"] \in AlertRow
      BY <2>1 DEF AlertRow
    <3>3. alert[a] \in AlertRow
      BY <2>1
    <3> QED
      BY <2>1, <3>1, <3>2, <3>3 DEF AlertKept, AlertRow
  <2>4. CASE MovePrice
    BY <2>1, <2>4 DEF MovePrice, AlertKept
  <2> QED
    BY <2>2, <2>3, <2>4
<1>3. AlertsTypeOK'
  BY <1>1, <1>2 DEF AlertsTypeOK, AlertRow
<1>4. ToldOnce'
  BY <1>1, <1>2 DEF ToldOnce, AlertKept
<1>5. ASSUME NEW k \in Rounds PROVE RoundHolds(round[k])'
  <2>1. round[k] \in RoundRow
    OBVIOUS
  <2>2. RoundHolds(round[k])
    OBVIOUS
  <2>3. round'[k] = round[k]
    BY <1>1
  <2>4. \A a \in round[k].todo \cup ({round[k].at} \ {None}) : a \in Alerts
    BY <2>1 DEF RoundRow
  <2>5. round[k].stage = "mailing" => round[k].at \in Alerts
    BY <2>1, <2>2 DEF RoundHolds, RoundRow
  <2> QED
    BY <1>2, <2>2, <2>3, <2>4, <2>5 DEF RoundHolds, AlertKept
<1>6. \A a \in Alerts : alert'[a].state \in {"none", "waiting"} => mails'[a] = 0
  BY <1>1, <1>2 DEF AlertKept
<1>7. Unshared'
  BY <1>1 DEF Unshared, Before
<1> QED
  BY <1>3, <1>4, <1>5, <1>6, <1>7

(* A round takes a record that sees no more alerts than it saw, and marks  *)
(* no more than the alert it is at.                                        *)
LEMMA RoundTaken ==
  ASSUME AInv, NEW k \in Rounds, NEW d \in RoundRow, round' = [round EXCEPT ![k] = d],
         UNCHANGED <<price, shifts, mails, shared, alert>>,
         lost \subseteq lost', lost' \subseteq Alerts, RoundHolds(d),
         d.at \notin d.todo,
         d.todo \cup ({d.at} \ {None}) \subseteq Before(k),
         round[k].stage = "mailing" => round[k].at \in lost' \/ ~alert[round[k].at].email
  PROVE  AInv'
<1> USE AlertShapes DEF AInv
<1>1. /\ round' \in [Rounds -> RoundRow] /\ round'[k] = d
      /\ \A j \in Rounds \ {k} : round'[j] = round[j]
  OBVIOUS
<1>2. AlertsTypeOK'
  BY <1>1 DEF AlertsTypeOK, RoundRow
<1>3. ToldOnce'
  BY <1>1 DEF ToldOnce
<1>4. \A j \in Rounds : RoundHolds(round[j])'
  BY <1>1 DEF RoundHolds
<1>5. Unshared'
  <2>1. \A j \in Rounds : Before(j)' \subseteq Before(j)
    BY <1>1 DEF Before
  <2>2. \A j \in Rounds : shared \/ round'[j].at \notin round'[j].todo
    BY <1>1 DEF Unshared
  <2> QED
    BY <2>1, <2>2 DEF Unshared
<1> QED
  BY <1>2, <1>3, <1>4, <1>5

LEMMA ReadStep ==
  ASSUME AInv, NEW k \in Rounds, ReadPending(k)
  PROVE  AInv'
<1> USE AlertShapes DEF AInv
<1> DEFINE pending == {a \in Alerts : alert[a].state = "waiting"}
           d == [round[k] EXCEPT !.stage = "looking", !.todo = pending]
<1>1. /\ round[k].stage = "idle" /\ round' = [round EXCEPT ![k] = d]
      /\ shared' = (shared \/ \E j \in Rounds : Before(j) \cap pending # {})
      /\ UNCHANGED <<alert, price, shifts, mails, lost>>
  BY DEF ReadPending
<1>2. pending \subseteq Alerts /\ \A a \in pending : alert[a].state = "waiting" /\ mails[a] = 0
  OBVIOUS
<1>3. round[k].at = None /\ round[k].todo = {}
  <2>1. RoundHolds(round[k])
    OBVIOUS
  <2> QED
    BY <1>1, <2>1 DEF RoundHolds
<1>4. d \in RoundRow /\ d.stage = "looking" /\ d.todo = pending /\ d.at = None
  <2>1. round[k] \in RoundRow
    OBVIOUS
  <2> HIDE DEF pending
  <2> QED
    BY <1>2, <1>3, <2>1 DEF RoundRow
<1> HIDE DEF d, pending
<1>5. /\ round' \in [Rounds -> RoundRow] /\ round'[k] = d
      /\ \A j \in Rounds \ {k} : round'[j] = round[j]
  BY <1>1, <1>4
<1>6. AlertsTypeOK'
  <2>1. shared' \in BOOLEAN
    BY <1>1, Zenon DEF AlertsTypeOK
  <2> QED
    BY <1>1, <1>5, <2>1 DEF AlertsTypeOK, RoundRow
<1>7. ToldOnce'
  BY <1>1, <1>5 DEF ToldOnce
<1>8. \A j \in Rounds : RoundHolds(round[j])'
  BY <1>1, <1>2, <1>4, <1>5 DEF RoundHolds
<1>9. Unshared'
  <2> SUFFICES ASSUME ~shared' PROVE Unshared'
    BY DEF Unshared
  <2>1. ~shared /\ \A j \in Rounds : Before(j) \cap pending = {}
    BY <1>1
  <2>2. Before(k)' = pending /\ \A j \in Rounds \ {k} : Before(j)' = Before(j)
    BY <1>4, <1>5 DEF Before
  <2>3. None \notin pending
    BY <1>2
  <2>4. \A j \in Rounds : /\ round'[j].at \notin round'[j].todo
                          /\ \A a \in Before(j)' : mails[a] = 0
    BY <1>2, <1>4, <1>5, <2>1, <2>2, <2>3 DEF Unshared
  <2>5. \A i, j \in Rounds : i # j => Before(i)' \cap Before(j)' = {}
    BY <2>1, <2>2 DEF Unshared
  <2> QED
    BY <1>1, <2>1, <2>4, <2>5 DEF Unshared
<1> QED
  BY <1>1, <1>6, <1>7, <1>8, <1>9

LEMMA CheckPriceStep ==
  ASSUME AInv, NEW k \in Rounds, CheckPrice(k)
  PROVE  AInv'
<1> USE AlertShapes DEF AInv
<1>1. /\ round[k] \in RoundRow /\ RoundHolds(round[k]) /\ round[k].stage = "looking"
      /\ UNCHANGED <<alert, price, shifts, mails, lost, shared>> /\ lost \subseteq Alerts
  BY DEF CheckPrice
<1>2. PICK a \in round[k].todo :
        round' = [round EXCEPT ![k].todo = @ \ {a},
                               ![k].stage = IF Hit(a) THEN "marking" ELSE "looking",
                               ![k].at = IF Hit(a) THEN a ELSE None]
  BY DEF CheckPrice
<1>3. PICK d \in RoundRow :
        /\ round' = [round EXCEPT ![k] = d] /\ d.todo = round[k].todo \ {a}
        /\ \/ d.stage = "marking" /\ d.at = a
           \/ d.stage = "looking" /\ d.at = None
  <2>1. CASE Hit(a)
    <3> DEFINE entry == [round[k] EXCEPT !.todo = @ \ {a}, !.stage = "marking", !.at = a]
    <3>1. /\ entry \in RoundRow /\ entry.todo = round[k].todo \ {a}
          /\ entry.stage = "marking" /\ entry.at = a
      BY <1>1 DEF RoundRow
    <3>2. round' = [round EXCEPT ![k] = entry]
      BY <1>2, <2>1
    <3> HIDE DEF entry
    <3> QED
      BY <3>1, <3>2
  <2>2. CASE ~Hit(a)
    <3> DEFINE entry == [round[k] EXCEPT !.todo = @ \ {a}, !.stage = "looking", !.at = None]
    <3>1. /\ entry \in RoundRow /\ entry.todo = round[k].todo \ {a}
          /\ entry.stage = "looking" /\ entry.at = None
      BY <1>1 DEF RoundRow
    <3>2. round' = [round EXCEPT ![k] = entry]
      BY <1>2, <2>2
    <3> HIDE DEF entry
    <3> QED
      BY <3>1, <3>2
  <2> QED
    BY <2>1, <2>2
<1>4. a \in Alerts /\ a # None /\ round[k].todo \subseteq Alerts
  OBVIOUS
<1>5. RoundHolds(d)
  BY <1>1, <1>3, <1>4 DEF RoundHolds
<1>6. d.at \notin d.todo /\ d.todo \cup ({d.at} \ {None}) \subseteq Before(k)
  BY <1>3, <1>4 DEF Before
<1> QED
  BY <1>1, <1>3, <1>5, <1>6, RoundTaken

LEMMA MarkStep ==
  ASSUME AInv, NEW k \in Rounds, MarkTriggered(k)
  PROVE  AInv'
<1> USE AlertShapes DEF AInv
<1> DEFINE a == round[k].at
<1>1. /\ round[k] \in RoundRow /\ RoundHolds(round[k]) /\ round[k].stage = "marking"
      /\ UNCHANGED <<price, shifts, mails, lost, shared>> /\ lost \subseteq Alerts
  BY DEF MarkTriggered
<1>2. a \in Alerts /\ alert[a].state # "none" /\ alert[a] \in AlertRow /\ a # None
  <2>1. a # None /\ a \in Alerts
    BY <1>1 DEF RoundHolds, RoundRow
  <2> QED
    BY <1>1, <2>1 DEF RoundHolds
<1>3. CASE alert[a].state = "deleted"
  <2>1. UNCHANGED alert /\ round' = [round EXCEPT ![k] = Resting]
    BY <1>3 DEF MarkTriggered
  <2>2. /\ Resting \in RoundRow /\ Resting.stage = "idle" /\ Resting.todo = {} /\ Resting.at = None
    BY DEF Resting, RoundRow
  <2>3. /\ RoundHolds(Resting) /\ Resting.at \notin Resting.todo
        /\ Resting.todo \cup ({Resting.at} \ {None}) \subseteq Before(k)
    BY <2>2 DEF RoundHolds
  <2> QED
    BY <1>1, <2>1, <2>2, <2>3, RoundTaken
<1>4. CASE alert[a].state # "deleted"
  <2> DEFINE entry == [alert[a] EXCEPT !.state = "triggered"]
             d == [round[k] EXCEPT !.stage = "mailing"]
  <2>1. alert' = [alert EXCEPT ![a] = entry] /\ round' = [round EXCEPT ![k] = d]
    BY <1>4 DEF MarkTriggered
  <2>2. /\ entry \in AlertRow /\ entry.state = "triggered"
        /\ d \in RoundRow /\ d.stage = "mailing" /\ d.todo = round[k].todo /\ d.at = a
    BY <1>1, <1>2 DEF AlertRow, RoundRow
  <2> HIDE DEF entry, d
  <2>3. /\ alert' \in [Alerts -> AlertRow] /\ alert'[a] = entry
        /\ \A b \in Alerts \ {a} : alert'[b] = alert[b]
        /\ round' \in [Rounds -> RoundRow] /\ round'[k] = d
        /\ \A j \in Rounds \ {k} : round'[j] = round[j]
    BY <1>2, <2>1, <2>2
  <2>4. AlertsTypeOK'
    BY <1>1, <2>3 DEF AlertsTypeOK, AlertRow, RoundRow
  <2>5. ToldOnce'
    <3>1. \A b \in Alerts : b # a /\ alert'[b].state = "triggered" /\ alert'[b].email =>
            \/ mails[b] > 0 \/ b \in lost
            \/ \E j \in Rounds : round'[j].stage = "mailing" /\ round'[j].at = b
      <4>1. \A j \in Rounds : round[j].stage = "mailing" => j # k
        BY <1>1
      <4> QED
        BY <2>3, <4>1 DEF ToldOnce
    <3>2. round'[k].stage = "mailing" /\ round'[k].at = a
      BY <2>2, <2>3
    <3> QED
      BY <1>1, <3>1, <3>2 DEF ToldOnce
  <2>6. ASSUME NEW j \in Rounds PROVE RoundHolds(round[j])'
    <3>1. \A b \in Alerts : /\ alert[b].state # "none" => alert'[b].state # "none"
                            /\ alert[b].state \in {"triggered", "deleted"} =>
                                 alert'[b].state \in {"triggered", "deleted"}
      BY <2>2, <2>3
    <3>2. PICK e \in RoundRow : round'[j] = e
      BY <2>3
    <3>3. RoundHolds(round[j]) /\ round[j] \in RoundRow
      OBVIOUS
    <3>4. e.todo = round[j].todo /\ e.at = round[j].at /\ (e.stage = round[j].stage \/ j = k)
      BY <2>2, <2>3, <3>2
    <3>5. e.stage = "mailing" => alert'[e.at].state \in {"triggered", "deleted"}
      <4>1. CASE j = k
        BY <2>2, <2>3, <3>2, <4>1
      <4>2. CASE j # k
        BY <3>1, <3>3, <3>4, <4>2 DEF RoundHolds, RoundRow
      <4> QED
        BY <4>1, <4>2
    <3>6. \A b \in e.todo \cup ({e.at} \ {None}) : alert'[b].state # "none"
      BY <3>1, <3>3, <3>4 DEF RoundHolds, RoundRow
    <3>7. /\ e.stage = "idle" => e.todo = {}
          /\ e.stage \in {"idle", "looking"} <=> e.at = None
      BY <1>1, <1>2, <2>2, <2>3, <3>2, <3>3, <3>4 DEF RoundHolds
    <3> QED
      BY <3>2, <3>5, <3>6, <3>7 DEF RoundHolds
  <2>7. Unshared'
    <3>1. \A j \in Rounds : Before(j)' = Before(j)
      BY <2>2, <2>3 DEF Before
    <3>2. \A j \in Rounds : round'[j].at = round[j].at /\ round'[j].todo = round[j].todo
      BY <2>2, <2>3
    <3> QED
      BY <1>1, <3>1, <3>2 DEF Unshared
  <2>8. \A b \in Alerts : alert'[b].state \in {"none", "waiting"} => mails'[b] = 0
    BY <1>1, <2>2, <2>3
  <2> QED
    BY <2>4, <2>5, <2>6, <2>7, <2>8
<1> QED
  BY <1>3, <1>4

LEMMA MailStep ==
  ASSUME AInv, NEW k \in Rounds, SendMail(k)
  PROVE  AInv'
<1> USE AlertShapes DEF AInv
<1> DEFINE a == round[k].at
           d == [round[k] EXCEPT !.stage = "looking", !.at = None]
<1>1. /\ round[k] \in RoundRow /\ RoundHolds(round[k]) /\ round[k].stage = "mailing"
      /\ UNCHANGED <<alert, price, shifts, shared>> /\ round' = [round EXCEPT ![k] = d]
  BY DEF SendMail
<1>2. a \in Alerts /\ alert[a].state \in {"triggered", "deleted"} /\ a # None
  BY <1>1 DEF RoundHolds, RoundRow
<1>3. d \in RoundRow /\ d.stage = "looking" /\ d.todo = round[k].todo /\ d.at = None
  BY <1>1 DEF RoundRow
<1> HIDE DEF d
<1>4. RoundHolds(d) /\ d.at \notin d.todo /\ d.todo \cup ({d.at} \ {None}) \subseteq Before(k)
  BY <1>1, <1>3 DEF RoundHolds, Before
<1>5. CASE lost' = lost \cup {a} /\ UNCHANGED mails
  <2>1. lost \subseteq lost' /\ lost' \subseteq Alerts /\ a \in lost'
    BY <1>2, <1>5
  <2> QED
    BY <1>1, <1>3, <1>4, <1>5, <2>1, RoundTaken
<1>6. CASE mails' = [mails EXCEPT ![a] = @ + 1] /\ UNCHANGED lost
  <2>1. /\ mails' \in [Alerts -> Nat] /\ mails'[a] = mails[a] + 1 /\ mails[a] \in Nat
        /\ \A b \in Alerts \ {a} : mails'[b] = mails[b]
        /\ round' \in [Rounds -> RoundRow] /\ round'[k] = d
        /\ \A j \in Rounds \ {k} : round'[j] = round[j]
    BY <1>1, <1>2, <1>3, <1>6
  <2>2. AlertsTypeOK'
    BY <1>1, <1>6, <2>1 DEF AlertsTypeOK, RoundRow
  <2>3. Unshared'
    <3> SUFFICES ASSUME ~shared PROVE Unshared'
      BY <1>1 DEF Unshared
    <3>1. a \in Before(k) /\ a \notin round[k].todo /\ mails[a] = 0
      BY <1>2 DEF Unshared, Before
    <3>2. Before(k)' = Before(k) \ {a} /\ \A j \in Rounds \ {k} : Before(j)' = Before(j)
      BY <1>3, <2>1, <3>1 DEF Before
    <3>3. \A j \in Rounds : Before(j)' \subseteq Before(j) /\ a \notin Before(j)'
      BY <3>1, <3>2 DEF Unshared
    <3>4. \A j \in Rounds : round'[j].at \notin round'[j].todo
      BY <1>3, <2>1, <1>4 DEF Unshared
    <3>5. \A b \in Alerts : mails'[b] <= 1
      BY <2>1, <3>1 DEF Unshared
    <3>6. \A j \in Rounds : \A b \in Before(j)' : mails'[b] = 0
      BY <2>1, <3>3 DEF Unshared
    <3>7. \A i, j \in Rounds : i # j => Before(i)' \cap Before(j)' = {}
      BY <3>3 DEF Unshared
    <3> QED
      BY <1>1, <3>4, <3>5, <3>6, <3>7 DEF Unshared
  <2>4. ToldOnce'
    <3>1. \A b \in Alerts : mails'[b] <= 1 \/ shared'
      BY <2>3 DEF Unshared
    <3>2. \A b \in Alerts : mails[b] > 0 \/ b = a => mails'[b] > 0
      BY <2>1
    <3>3. \A b \in Alerts, j \in Rounds :
            round[j].stage = "mailing" /\ round[j].at = b /\ b # a =>
              round'[j].stage = "mailing" /\ round'[j].at = b
      BY <2>1
    <3> QED
      BY <1>1, <1>6, <3>1, <3>2, <3>3 DEF ToldOnce
  <2>5. \A j \in Rounds : RoundHolds(round[j])'
    BY <1>1, <1>4, <2>1 DEF RoundHolds
  <2>6. \A b \in Alerts : alert'[b].state \in {"none", "waiting"} => mails'[b] = 0
    BY <1>1, <1>2, <2>1
  <2> QED
    BY <2>2, <2>3, <2>4, <2>5, <2>6
<1>7. CASE ~alert[a].email /\ UNCHANGED <<mails, lost>>
  <2>1. lost \subseteq lost' /\ lost' \subseteq Alerts
    BY <1>7
  <2> QED
    BY <1>1, <1>3, <1>4, <1>7, <2>1, RoundTaken
<1> QED
  BY <1>5, <1>6, <1>7 DEF SendMail

LEMMA FinishStep ==
  ASSUME AInv, NEW k \in Rounds, FinishRound(k)
  PROVE  AInv'
<1> USE AlertShapes DEF AInv
<1>1. /\ round[k].stage = "looking" /\ round' = [round EXCEPT ![k] = Resting]
      /\ lost \subseteq Alerts
      /\ UNCHANGED <<alert, price, shifts, mails, lost, shared>>
  BY DEF FinishRound
<1>2. /\ Resting \in RoundRow /\ Resting.stage = "idle" /\ Resting.todo = {} /\ Resting.at = None
  BY DEF Resting, RoundRow
<1>3. /\ RoundHolds(Resting) /\ Resting.at \notin Resting.todo
      /\ Resting.todo \cup ({Resting.at} \ {None}) \subseteq Before(k)
  BY <1>2 DEF RoundHolds
<1> QED
  BY <1>1, <1>2, <1>3, RoundTaken

LEMMA DieStep == ASSUME AInv, Die PROVE AInv'
<1> USE AlertShapes DEF AInv
<1> DEFINE mailing == {round[k].at : k \in {j \in Rounds : round[j].stage = "mailing"}}
<1>1. /\ round' = [k \in Rounds |-> Resting] /\ lost' = lost \cup mailing
      /\ UNCHANGED <<alert, price, shifts, mails, shared>>
  BY DEF Die
<1>2. mailing \subseteq Alerts
  <2>1. \A k \in Rounds : round[k] \in RoundRow /\ RoundHolds(round[k])
    OBVIOUS
  <2> QED
    BY <2>1 DEF RoundHolds, RoundRow
<1>3. \A k \in Rounds : round[k].stage = "mailing" => round[k].at \in mailing
  OBVIOUS
<1> HIDE DEF mailing
<1>4. /\ Resting \in RoundRow /\ Resting.stage = "idle" /\ Resting.todo = {} /\ Resting.at = None
  BY DEF Resting, RoundRow
<1>5. round' \in [Rounds -> RoundRow] /\ \A k \in Rounds : round'[k] = Resting
  BY <1>1, <1>4
<1>6. AlertsTypeOK'
  BY <1>1, <1>2, <1>5 DEF AlertsTypeOK, RoundRow
<1>7. ToldOnce'
  BY <1>1, <1>3 DEF ToldOnce
<1>8. \A k \in Rounds : RoundHolds(round[k])'
  BY <1>4, <1>5 DEF RoundHolds
<1>9. Unshared'
  BY <1>1, <1>4, <1>5 DEF Unshared, Before
<1> QED
  BY <1>1, <1>6, <1>7, <1>8, <1>9

LEMMA AInvHolds == AlertsSpec => []AInv
<1>1. AInv /\ [AlertsNext]_alertVars => AInv'
  <2> SUFFICES ASSUME AInv, [AlertsNext]_alertVars PROVE AInv'
    OBVIOUS
  <2>1. CASE UNCHANGED alertVars
    BY <2>1 DEF alertVars, AInv, AlertsTypeOK, ToldOnce, RoundHolds, Unshared, Before
  <2> QED
    BY <2>1, UserStep, ReadStep, CheckPriceStep, MarkStep, MailStep, FinishStep, DieStep
       DEF AlertsNext, RoundStep
<1> QED
  BY <1>1, AlertsStart, PTL DEF AlertsSpec

(* However many rounds of the job overlap, die or fail to mail: an alert   *)
(* is mailed once unless two rounds had it before them, and one that is    *)
(* marked, of a user who has an e-mail, was mailed, is about to be, or its *)
(* mail was lost (checkAlerts).                                            *)
THEOREM AlertsTold == AlertsSpec => []AlertsSound
<1>1. AInv => AlertsSound
  BY DEF AInv, AlertsSound
<1> QED
  BY <1>1, AInvHolds, PTL

HIDE PriceAlertsAssumption

-----------------------------------------------------------------------------
(* Pricing.                                                                *)

USE PricingAssumption

LEMMA PricingTyped == PricingSpec => []PricingTypeOK
<1>1. PricingInit => PricingTypeOK
  BY DEF PricingInit, PricingTypeOK, PairsOf
<1>2. ASSUME PricingTypeOK, [PricingNext]_pricingVars PROVE PricingTypeOK'
  <2>1. CASE UpdateFeeRule
    <3>1. PICK r \in RuleFor : \E min \in MinFees \cup {bounds[r].min},
                                  max \in MaxFees \cup {bounds[r].max} :
            bounds' = [bounds EXCEPT ![r] = [min |-> min, max |-> max]]
      BY <2>1 DEF UpdateFeeRule
    <3>2. bounds[r] \in [min : Nat, max : Nat \cup {None}]
      BY <1>2 DEF PricingTypeOK
    <3>3. \A min \in MinFees \cup {bounds[r].min}, max \in MaxFees \cup {bounds[r].max} :
            [min |-> min, max |-> max] \in [min : Nat, max : Nat \cup {None}]
      BY <3>2
    <3> QED
      BY <1>2, <2>1, <3>1, <3>3 DEF PricingTypeOK, UpdateFeeRule
  <2>2. CASE SetFeeRuleActive \/ UpsertExchangeRate \/ UNCHANGED pricingVars
    BY <1>2, <2>2 DEF pricingVars, PricingTypeOK, SetFeeRuleActive, UpsertExchangeRate
  <2> QED
    BY <1>2, <2>1, <2>2 DEF PricingNext
<1> QED
  BY <1>1, <1>2, PTL DEF PricingSpec

-----------------------------------------------------------------------------
(* Fees.                                                                   *)

(* What a fee is after the bounds of its rule.                             *)
LEMMA FeeBounded ==
  ASSUME PricingTypeOK, NEW r \in RuleFor
  PROVE  /\ FeeOf(r) \in {Amount * Percentage + Flat(r), bounds[r].min, bounds[r].max}
         /\ bounds[r].max # None => FeeOf(r) <= bounds[r].max
         /\ bounds[r].max = None \/ bounds[r].min <= bounds[r].max => FeeOf(r) >= bounds[r].min
<1> DEFINE raw == Amount * Percentage + Flat(r)
<1>1. raw \in Nat
  BY DEF Flat, Percentage
<1>2. bounds[r].min \in Nat /\ bounds[r].max \in Nat \cup {None}
  BY DEF PricingTypeOK
<1>3. FeeOf(r) = Bounded(r, raw)
  BY DEF FeeOf
<1> HIDE DEF raw
<1>4. /\ FeeOf(r) \in {raw, bounds[r].min, bounds[r].max}
      /\ bounds[r].max # None => FeeOf(r) <= bounds[r].max
      /\ bounds[r].max = None \/ bounds[r].min <= bounds[r].max => FeeOf(r) >= bounds[r].min
  BY <1>1, <1>2, <1>3 DEF Bounded
<1> QED
  BY <1>4 DEF raw

(* Rail before currency: what is tried is what fits, the closest first.    *)
LEMMA ClosestFirst ==
  ASSUME NEW rail \in Rails, NEW currency \in Currencies
  PROVE  /\ \A i, j \in 1..4 :
              i <= j => AtLeastAsClose(Preferred(rail, currency)[i], Preferred(rail, currency)[j])
         /\ \A i \in 1..4 : /\ Preferred(rail, currency)[i].rail \in {rail, None}
                            /\ Preferred(rail, currency)[i].currency \in {currency, None}
         /\ \A r \in RuleFor :
              r.rail \in {rail, None} /\ r.currency \in {currency, None} =>
                \E i \in 1..4 : r = Preferred(rail, currency)[i]
<1> rail # None /\ currency # None
  OBVIOUS
<1> DEFINE p == Preferred(rail, currency)
<1>1. /\ p[1] = [rail |-> rail, currency |-> currency] /\ p[2] = [rail |-> rail, currency |-> None]
      /\ p[3] = [rail |-> None, currency |-> currency] /\ p[4] = [rail |-> None, currency |-> None]
  BY DEF Preferred
<1> HIDE DEF p
<1>2. \A i, j \in 1..4 : i <= j => AtLeastAsClose(p[i], p[j])
  BY <1>1 DEF AtLeastAsClose
<1>3. \A i \in 1..4 : p[i].rail \in {rail, None} /\ p[i].currency \in {currency, None}
  BY <1>1
<1>4. ASSUME NEW r \in RuleFor, r.rail \in {rail, None}, r.currency \in {currency, None}
      PROVE  \E i \in 1..4 : r = p[i]
  <2>1. r = [rail |-> r.rail, currency |-> r.currency]
    BY DEF RuleFor
  <2>2. CASE r.rail = rail /\ r.currency = currency
    BY <1>1, <2>1, <2>2
  <2>3. CASE r.rail = rail /\ r.currency = None
    BY <1>1, <2>1, <2>3
  <2>4. CASE r.rail = None /\ r.currency = currency
    BY <1>1, <2>1, <2>4
  <2>5. CASE r.rail = None /\ r.currency = None
    BY <1>1, <2>1, <2>5
  <2> QED
    BY <1>4, <2>2, <2>3, <2>4, <2>5
<1> QED
  BY <1>2, <1>3, <1>4 DEF p

LEMMA FeesTrue == PricingTypeOK => FeeOfClosestRule
<1> SUFFICES ASSUME PricingTypeOK, NEW rail \in Rails, NEW currency \in Currencies,
                    Fitting(rail, currency) # {}
             PROVE  \E best \in Fitting(rail, currency) :
                      /\ \A r \in Fitting(rail, currency) : AtLeastAsClose(best, r)
                      /\ \A fee \in CalculateFee(rail, currency) :
                           /\ fee \in {Amount * Percentage + Flat(best), bounds[best].min,
                                       bounds[best].max}
                           /\ bounds[best].max # None => fee <= bounds[best].max
                           /\ bounds[best].max = None \/ bounds[best].min <= bounds[best].max =>
                                fee >= bounds[best].min
  BY DEF FeeOfClosestRule
<1> DEFINE p == Preferred(rail, currency)
           found == {i \in 1..4 : p[i] \in Candidates(rail)}
           first == CHOOSE i \in found : \A j \in found : i <= j
<1>1. active \subseteq RuleFor /\ Candidates(rail) \subseteq active
  BY DEF PricingTypeOK, Candidates
<1>2. \A i \in found : p[i] \in Fitting(rail, currency)
  BY ClosestFirst DEF Candidates, Fitting
<1>3. \A r \in Fitting(rail, currency) : \E i \in found : r = p[i]
  BY <1>1, ClosestFirst DEF Candidates, Fitting
<1>4. found # {}
  BY <1>3
<1>5. first \in found /\ \A j \in found : first <= j
  <2>1. \E i \in found : \A j \in found : i <= j
    BY <1>4
  <2> HIDE DEF found
  <2> QED
    BY <2>1
<1>6. Applied(rail, currency) = {p[first]}
  BY <1>4 DEF Applied
<1>7. \A i \in found : i \in 1..4 /\ p[i] \in Candidates(rail)
  OBVIOUS
<1> HIDE DEF found, first, p
<1>8. CalculateFee(rail, currency) = {FeeOf(p[first])}
  BY <1>5, <1>6, <1>7 DEF CalculateFee
<1>9. \A r \in Fitting(rail, currency) : AtLeastAsClose(p[first], r)
  BY <1>3, <1>5, <1>7, ClosestFirst DEF p
<1>10. p[first] \in Fitting(rail, currency) /\ p[first] \in RuleFor
  BY <1>1, <1>2, <1>5, <1>7
<1> QED
  BY <1>8, <1>9, <1>10, FeeBounded

-----------------------------------------------------------------------------
(* Rates: what is left after a rounding, after two legs, after the bridge. *)

Positive == (Nat \ {0}) \X (Nat \ {0})

LEMMA TimesMonotone ==
  ASSUME NEW a \in Nat, NEW b \in Nat, NEW c \in Nat, NEW d \in Nat, a <= b, c <= d
  PROVE  a * c <= b * d
<1>1. a * c <= b * c
  OBVIOUS
<1>2. b * c <= b * d
  OBVIOUS
<1>3. a * c \in Nat /\ b * c \in Nat /\ b * d \in Nat
  OBVIOUS
<1> QED
  BY <1>1, <1>2, <1>3

LEMMA TimesPositive == \A x, y \in Nat \ {0} : x * y \in Nat \ {0}
  OBVIOUS

(* A quotient of Least or more, rounded, is off by half its last digit.    *)
LEMMA HalfUpNear ==
  ASSUME NEW n \in Nat, NEW d \in Nat \ {0}, n \div d >= Least
  PROVE  /\ HalfUp(n, d) \in Nat \ {0}
         /\ (2 * Least - 1) * n <= 2 * Least * (HalfUp(n, d) * d)
         /\ 2 * Least * (HalfUp(n, d) * d) <= (2 * Least + 1) * n
<1> DEFINE m == HalfUp(n, d)
<1>1. n >= Least * d
  <2>1. n \div d \in Int /\ n >= (n \div d) * d
    OBVIOUS
  <2>2. (n \div d) * d >= Least * d
    BY <2>1
  <2> QED
    BY <2>1, <2>2
<1>2. m \in Int /\ 2 * d * m <= 2 * n + d /\ 2 * n + d < 2 * d * m + 2 * d
  BY DEF HalfUp
<1> HIDE DEF m
<1> DEFINE q == m * d
<1>3. q \in Int /\ 2 * q <= 2 * n + d /\ 2 * n < 2 * q + d
  BY <1>2
<1>4. m \in Nat \ {0}
  <2>1. n >= 10 * d
    BY <1>1
  <2>2. q > 0
    BY <1>3, <2>1
  <2> QED
    BY <1>2, <2>2
<1> HIDE DEF q
<1>5. Least * (2 * q) <= Least * (2 * n + d) /\ Least * (2 * n) <= Least * (2 * q + d)
  BY <1>3
<1>6. /\ Least * (2 * q) = 2 * Least * q /\ Least * (2 * n + d) = 2 * Least * n + Least * d
      /\ Least * (2 * n) = 2 * Least * n /\ Least * (2 * q + d) = 2 * Least * q + Least * d
      /\ (2 * Least - 1) * n = 2 * Least * n - n /\ (2 * Least + 1) * n = 2 * Least * n + n
  BY <1>3
<1>7. (2 * Least - 1) * n <= 2 * Least * q /\ 2 * Least * q <= (2 * Least + 1) * n
  BY <1>1, <1>3, <1>5, <1>6
<1> QED
  BY <1>4, <1>7 DEF q, m

(* y states x to within half of the last digit.                            *)
NearTo(y, x) ==
  /\ (2 * Least - 1) * (x[1] * y[2]) <= 2 * Least * (y[1] * x[2])
  /\ 2 * Least * (y[1] * x[2]) <= (2 * Least + 1) * (x[1] * y[2])

LEMMA RoundedNear ==
  ASSUME NEW x \in Positive, \E s \in Places : FitsAt(x, s)
  PROVE  Rounded(x) \in Positive /\ NearTo(Rounded(x), x)
<1> DEFINE s == CHOOSE s \in Places : FitsAt(x, s)
<1>1. s \in Places /\ FitsAt(x, s)
  OBVIOUS
<1>2. Rounded(x) = <<HalfUp(s[1] * x[1], s[2] * x[2]) * s[2], s[1]>>
  BY DEF Rounded
<1> HIDE DEF s
<1>3. PICK a \in Nat \ {0}, b \in Nat \ {0} : s = <<a, b>>
  <2>1. PICK p \in Powers : s = <<p, 1>> \/ s = <<1, p>>
    BY <1>1 DEF Places
  <2> QED
    BY <2>1
<1>4. PICK n \in Nat \ {0}, d \in Nat \ {0} : x = <<n, d>>
  BY DEF Positive
<1>5. a * n \in Nat \ {0} /\ b * d \in Nat \ {0}
  BY TimesPositive
<1>6. (a * n) \div (b * d) >= Least
  <2>1. (a * n) \div (b * d) \in Least..(10 * Least - 1)
    BY <1>1, <1>3, <1>4 DEF FitsAt
  <2> QED
    BY <2>1
<1> DEFINE m == HalfUp(a * n, b * d)
<1>7. /\ m \in Nat \ {0}
      /\ (2 * Least - 1) * (a * n) <= 2 * Least * (m * (b * d))
      /\ 2 * Least * (m * (b * d)) <= (2 * Least + 1) * (a * n)
  BY <1>5, <1>6, HalfUpNear
<1>8. Rounded(x) = <<m * b, a>>
  BY <1>2, <1>3, <1>4
<1> HIDE DEF m
<1>9. m * b \in Nat \ {0} /\ m * (b * d) = (m * b) * d /\ a * n = n * a
  BY <1>7, TimesPositive
<1>10. Rounded(x) \in Positive
  BY <1>8, <1>9 DEF Positive
<1>11. NearTo(Rounded(x), x)
  BY <1>4, <1>7, <1>8, <1>9 DEF NearTo
<1> QED
  BY <1>10, <1>11

LEMMA LegsPositive ==
  /\ \A r \in RateRows : /\ Direct(r) \in Positive /\ Rounded(Inverse(r)) \in Positive
                         /\ NearTo(Rounded(Inverse(r)), Inverse(r))
  /\ Legs \subseteq Positive
<1>1. ASSUME NEW r \in RateRows
      PROVE  /\ Direct(r) \in Positive /\ Rounded(Inverse(r)) \in Positive
             /\ NearTo(Rounded(Inverse(r)), Inverse(r))
  <2>1. Direct(r) \in Positive /\ Inverse(r) \in Positive
    BY DEF Direct, Inverse, Positive
  <2>2. \E s \in Places : FitsAt(Inverse(r), s)
    BY PowersSuffice
  <2> QED
    BY <2>1, <2>2, RoundedNear
<1> QED
  BY <1>1 DEF Legs

(* A leg and the leg back: a rate and its inverse.                         *)
LEMMA LegBack ==
  ASSUME PricingTypeOK, NEW a \in Currencies, NEW b \in Currencies
  PROVE  /\ Leg(a, b) \in Positive \cup {NoRate}
         /\ a # b => Leg(a, b) \in Legs \cup {NoRate}
         /\ Leg(a, b) = NoRate <=> Leg(b, a) = NoRate
         /\ OneRow(a, b) /\ Leg(a, b) # NoRate => NearOne(Product(Leg(a, b), Leg(b, a)), 1, 1)
<1>1. CASE a = b
  <2>1. Leg(a, b) = <<1, 1>> /\ Leg(b, a) = <<1, 1>>
    BY <1>1 DEF Leg
  <2> QED
    BY <1>1, <2>1 DEF NoRate, Positive, NearOne, Product
<1>2. CASE a # b
  <2> DEFINE r == rates[<<a, b>>]
             q == rates[<<b, a>>]
  <2>1. r \in RateRows \cup {0} /\ q \in RateRows \cup {0} /\ 0 \notin RateRows
    BY <1>2 DEF PricingTypeOK, PairsOf
  <2>2. /\ r # 0 => Leg(a, b) = Direct(r)
        /\ r = 0 /\ q # 0 => Leg(a, b) = Rounded(Inverse(q))
        /\ r = 0 /\ q = 0 => Leg(a, b) = NoRate
        /\ q # 0 => Leg(b, a) = Direct(q)
        /\ q = 0 /\ r # 0 => Leg(b, a) = Rounded(Inverse(r))
        /\ r = 0 /\ q = 0 => Leg(b, a) = NoRate
    BY <1>2 DEF Leg
  <2>3. OneRow(a, b) <=> r = 0 \/ q = 0
    BY <1>2 DEF OneRow
  <2> HIDE DEF r, q
  <2>4. NoRate \notin Positive
    BY DEF NoRate, Positive
  <2>5. Leg(a, b) \in Legs \cup {NoRate} /\ (Leg(a, b) = NoRate <=> Leg(b, a) = NoRate)
    BY <2>1, <2>2, <2>4, LegsPositive DEF Legs
  <2>6. ASSUME NEW c \in RateRows
        PROVE  /\ NearOne(Product(Direct(c), Rounded(Inverse(c))), 1, 1)
               /\ NearOne(Product(Rounded(Inverse(c)), Direct(c)), 1, 1)
    <3>1. PICK y1 \in Nat \ {0}, y2 \in Nat \ {0} : Rounded(Inverse(c)) = <<y1, y2>>
      BY LegsPositive DEF Positive
    <3>2. /\ (2 * Least - 1) * (RateUnit * y2) <= 2 * Least * (y1 * c)
          /\ 2 * Least * (y1 * c) <= (2 * Least + 1) * (RateUnit * y2)
      <4>1. NearTo(<<y1, y2>>, <<RateUnit, c>>)
        BY <3>1, LegsPositive DEF Inverse
      <4> QED
        BY <4>1 DEF NearTo
    <3>3. y1 * c = c * y1 /\ RateUnit * y2 = y2 * RateUnit
      BY <3>1
    <3> QED
      BY <3>1, <3>2, <3>3 DEF NearOne, Product, Direct
  <2> QED
    BY <1>2, <2>1, <2>2, <2>3, <2>5, <2>6, LegsPositive
<1> QED
  BY <1>1, <1>2

(* Four roundings: two ratios near one multiply to one twice as far off.   *)
LEMMA RatiosMultiply ==
  ASSUME NEW k \in Nat, NEW l \in Nat, NEW a \in Nat, NEW b \in Nat, NEW c \in Nat, NEW d \in Nat,
         k * a <= l * b, k * c <= l * d
  PROVE  (k * k) * (a * c) <= (l * l) * (b * d)
<1>1. k * a \in Nat /\ l * b \in Nat /\ k * c \in Nat /\ l * d \in Nat
  OBVIOUS
<1>2. (k * a) * (k * c) <= (l * b) * (l * d)
  BY <1>1, TimesMonotone
<1>3. (k * a) * (k * c) = (k * k) * (a * c) /\ (l * b) * (l * d) = (l * l) * (b * d)
  OBVIOUS
<1> QED
  BY <1>2, <1>3

LEMMA Cancelled ==
  ASSUME NEW c \in Nat \ {0}, NEW x \in Nat, NEW y \in Nat, c * x <= c * y
  PROVE  x <= y
<1> SUFFICES ASSUME x > y PROVE FALSE
  OBVIOUS
<1>1. x >= y + 1
  OBVIOUS
<1>2. c * x >= c * (y + 1)
  BY <1>1
<1>3. c * (y + 1) = c * y + c /\ c * y \in Nat /\ c * x \in Nat
  OBVIOUS
<1> QED
  BY <1>2, <1>3

LEMMA RatiosChain ==
  ASSUME NEW k \in Nat, NEW l \in Nat, NEW u \in Nat, NEW v \in Nat,
         NEW n \in Nat, NEW d \in Nat \ {0},
         k * (u * d) <= l * (n * v), k * n <= l * d
  PROVE  (k * k) * u <= (l * l) * v
<1> DEFINE lv == l * v
<1>1. lv \in Nat /\ k * n \in Nat /\ l * d \in Nat /\ k * (u * d) \in Nat /\ l * (n * v) \in Nat
  OBVIOUS
<1>2. k * (k * (u * d)) <= k * (l * (n * v))
  BY <1>1, TimesMonotone
<1>3. lv * (k * n) <= lv * (l * d)
  BY <1>1, TimesMonotone
<1>4. /\ k * (k * (u * d)) = d * ((k * k) * u)
      /\ k * (l * (n * v)) = lv * (k * n)
      /\ lv * (l * d) = d * ((l * l) * v)
  OBVIOUS
<1>5. (k * k) * u \in Nat /\ (l * l) * v \in Nat /\ lv * (k * n) \in Nat
  BY <1>1
<1> HIDE DEF lv
<1>6. d * ((k * k) * u) <= d * ((l * l) * v)
  BY <1>2, <1>3, <1>4, <1>5
<1> QED
  BY <1>5, <1>6, Cancelled

(* Over the bridge: y there and z back, each rounded from two legs.        *)
LEMMA BridgeBack ==
  ASSUME NEW t \in Positive, NEW f \in Positive, NEW g \in Positive, NEW u \in Positive,
         NEW y \in Positive, NEW z \in Positive,
         NearTo(y, Product(t, f)), NearTo(z, Product(g, u)),
         NearOne(Product(t, u), 1, 1), NearOne(Product(g, f), 1, 1)
  PROVE  NearOne(Product(y, z), 4, 5)
<1> DEFINE k == 2 * Least
<1>1. k \in Nat /\ k >= 20 /\ k - 1 \in Nat /\ k + 1 \in Nat
  OBVIOUS
<1>2. PICK t1 \in Nat \ {0}, t2 \in Nat \ {0} : t = <<t1, t2>>
  BY DEF Positive
<1>3. PICK f1 \in Nat \ {0}, f2 \in Nat \ {0} : f = <<f1, f2>>
  BY DEF Positive
<1>4. PICK g1 \in Nat \ {0}, g2 \in Nat \ {0} : g = <<g1, g2>>
  BY DEF Positive
<1>5. PICK u1 \in Nat \ {0}, u2 \in Nat \ {0} : u = <<u1, u2>>
  BY DEF Positive
<1>6. PICK y1 \in Nat \ {0}, y2 \in Nat \ {0} : y = <<y1, y2>>
  BY DEF Positive
<1>7. PICK z1 \in Nat \ {0}, z2 \in Nat \ {0} : z = <<z1, z2>>
  BY DEF Positive
<1>8. /\ (k - 1) * ((t1 * f1) * y2) <= k * (y1 * (t2 * f2))
      /\ k * (y1 * (t2 * f2)) <= (k + 1) * ((t1 * f1) * y2)
  BY <1>2, <1>3, <1>6 DEF NearTo, Product
<1>9. /\ (k - 1) * ((g1 * u1) * z2) <= k * (z1 * (g2 * u2))
      /\ k * (z1 * (g2 * u2)) <= (k + 1) * ((g1 * u1) * z2)
  BY <1>4, <1>5, <1>7 DEF NearTo, Product
<1>10. /\ (k - 1) * (t2 * u2) <= k * (t1 * u1) /\ k * (t1 * u1) <= (k + 1) * (t2 * u2)
       /\ (k - 1) * (g2 * f2) <= k * (g1 * f1) /\ k * (g1 * f1) <= (k + 1) * (g2 * f2)
  BY <1>2, <1>3, <1>4, <1>5 DEF NearOne, Product
<1> HIDE DEF k
<1> DEFINE n == (t1 * f1) * (g1 * u1)
           d == (t2 * f2) * (g2 * u2)
           v == y1 * z1
           w == y2 * z2
<1>11. n \in Nat \ {0} /\ d \in Nat \ {0} /\ v \in Nat \ {0} /\ w \in Nat \ {0}
  BY TimesPositive
<1>12. /\ t1 * f1 \in Nat /\ t2 * f2 \in Nat /\ g1 * u1 \in Nat /\ g2 * u2 \in Nat
       /\ t1 * u1 \in Nat /\ t2 * u2 \in Nat /\ g1 * f1 \in Nat /\ g2 * f2 \in Nat
  OBVIOUS
<1>13. /\ (t1 * f1) * y2 \in Nat /\ y1 * (t2 * f2) \in Nat
       /\ (g1 * u1) * z2 \in Nat /\ z1 * (g2 * u2) \in Nat
  BY <1>12
<1>14. /\ ((t1 * f1) * y2) * ((g1 * u1) * z2) = n * w /\ n * w = w * n
       /\ (y1 * (t2 * f2)) * (z1 * (g2 * u2)) = v * d /\ v * d = d * v
       /\ (t1 * u1) * (g1 * f1) = n /\ (t2 * u2) * (g2 * f2) = d
  OBVIOUS
<1> HIDE DEF n, d, v, w
<1>15. (k * k) * (v * d) <= ((k + 1) * (k + 1)) * (n * w)
  BY <1>1, <1>8, <1>9, <1>13, <1>14, RatiosMultiply
<1>16. (k * k) * n <= ((k + 1) * (k + 1)) * d
  BY <1>1, <1>10, <1>12, <1>14, RatiosMultiply
<1>17. ((k - 1) * (k - 1)) * (w * n) <= (k * k) * (d * v)
  BY <1>1, <1>8, <1>9, <1>13, <1>14, RatiosMultiply
<1>18. ((k - 1) * (k - 1)) * d <= (k * k) * n
  BY <1>1, <1>10, <1>12, <1>14, RatiosMultiply
<1>19. k * k \in Nat /\ (k + 1) * (k + 1) \in Nat /\ (k - 1) * (k - 1) \in Nat
  BY <1>1
<1>20. ((k * k) * (k * k)) * v <= (((k + 1) * (k + 1)) * ((k + 1) * (k + 1))) * w
  BY <1>11, <1>15, <1>16, <1>19, RatiosChain
<1>21. (((k - 1) * (k - 1)) * ((k - 1) * (k - 1))) * w <= ((k * k) * (k * k)) * v
  BY <1>11, <1>17, <1>18, <1>19, RatiosChain
<1> DEFINE c == (k * k) * k
<1>22. /\ c \in Nat \ {0} /\ k + 5 \in Nat /\ k - 4 \in Nat
       /\ ((k + 1) * (k + 1)) * ((k + 1) * (k + 1)) <= c * (k + 5)
       /\ c * (k - 4) <= ((k - 1) * (k - 1)) * ((k - 1) * (k - 1))
       /\ ((k * k) * (k * k)) * v = c * (k * v)
       /\ (c * (k + 5)) * w = c * ((k + 5) * w) /\ (c * (k - 4)) * w = c * ((k - 4) * w)
  <2>1. c \in Nat \ {0} /\ k + 5 \in Nat /\ k - 4 \in Nat
    BY <1>1
  <2>2. ((k + 1) * (k + 1)) * ((k + 1) * (k + 1)) <= c * (k + 5)
    <3>1. ((k + 1) * (k + 1)) * ((k + 1) * (k + 1))
            = ((k * k) * (k * k)) + 4 * ((k * k) * k) + 6 * (k * k) + 4 * k + 1
      BY <1>1
    <3>2. c * (k + 5) = ((k * k) * (k * k)) + 5 * ((k * k) * k)
      BY <1>1
    <3>3. 20 * (k * k) <= (k * k) * k /\ 20 * k <= k * k /\ k * k \in Nat /\ (k * k) * k \in Nat
      <4>1. k * k \in Nat
        BY <1>1
      <4>2. 20 * k <= k * k
        BY <1>1, TimesMonotone
      <4> QED
        BY <1>1, <4>1, <4>2, TimesMonotone
    <3> QED
      BY <1>1, <3>1, <3>2, <3>3
  <2>3. c * (k - 4) <= ((k - 1) * (k - 1)) * ((k - 1) * (k - 1))
    <3>1. ((k - 1) * (k - 1)) * ((k - 1) * (k - 1))
            = ((k * k) * (k * k)) - 4 * ((k * k) * k) + 6 * (k * k) - 4 * k + 1
      BY <1>1
    <3>2. c * (k - 4) = ((k * k) * (k * k)) - 4 * ((k * k) * k)
      BY <1>1
    <3>3. 20 * k <= k * k /\ k * k \in Nat
      BY <1>1, TimesMonotone
    <3> QED
      BY <1>1, <3>1, <3>2, <3>3
  <2>4. /\ ((k * k) * (k * k)) * v = c * (k * v)
        /\ (c * (k + 5)) * w = c * ((k + 5) * w) /\ (c * (k - 4)) * w = c * ((k - 4) * w)
    BY <1>1, <1>11
  <2> QED
    BY <2>1, <2>2, <2>3, <2>4
<1> HIDE DEF c
<1>23. k * v <= (k + 5) * w
  <2>1. (((k + 1) * (k + 1)) * ((k + 1) * (k + 1))) * w <= (c * (k + 5)) * w
    <3>1. ((k + 1) * (k + 1)) * ((k + 1) * (k + 1)) \in Nat /\ c * (k + 5) \in Nat
      BY <1>19, <1>22
    <3> QED
      BY <1>11, <1>22, <3>1, TimesMonotone
  <2>2. c * (k * v) <= c * ((k + 5) * w)
    <3>1. /\ (((k + 1) * (k + 1)) * ((k + 1) * (k + 1))) * w \in Nat
          /\ c * ((k + 5) * w) \in Nat /\ c * (k * v) \in Nat
      BY <1>1, <1>11, <1>19, <1>22
    <3> QED
      BY <1>20, <1>22, <2>1, <3>1
  <2>3. k * v \in Nat /\ (k + 5) * w \in Nat
    BY <1>1, <1>11
  <2> QED
    BY <1>22, <2>2, <2>3, Cancelled
<1>24. (k - 4) * w <= k * v
  <2>1. (c * (k - 4)) * w <= (((k - 1) * (k - 1)) * ((k - 1) * (k - 1))) * w
    <3>1. ((k - 1) * (k - 1)) * ((k - 1) * (k - 1)) \in Nat /\ c * (k - 4) \in Nat
      BY <1>19, <1>22
    <3> QED
      BY <1>11, <1>22, <3>1, TimesMonotone
  <2>2. c * ((k - 4) * w) <= c * (k * v)
    <3>1. /\ (((k - 1) * (k - 1)) * ((k - 1) * (k - 1))) * w \in Nat
          /\ c * ((k - 4) * w) \in Nat /\ c * (k * v) \in Nat
      BY <1>1, <1>11, <1>19, <1>22
    <3> QED
      BY <1>21, <1>22, <2>1, <3>1
  <2>3. k * v \in Nat /\ (k - 4) * w \in Nat
    BY <1>1, <1>11, <1>22
  <2> QED
    BY <1>22, <2>2, <2>3, Cancelled
<1> QED
  BY <1>6, <1>7, <1>23, <1>24 DEF NearOne, Product, k, v, w

LEMMA RatesTrue == PricingTypeOK => RoundTrip
<1> SUFFICES ASSUME PricingTypeOK, NEW a \in Currencies, NEW b \in Currencies
             PROVE  /\ GetRate(a, b) = NoRate <=> GetRate(b, a) = NoRate
                    /\ GetRate(a, b) # NoRate /\ OneRow(a, b) /\ OneRow(a, USD) /\ OneRow(b, USD) =>
                         IF Leg(a, b) # NoRate
                           THEN NearOne(Product(GetRate(a, b), GetRate(b, a)), 1, 1)
                           ELSE NearOne(Product(GetRate(a, b), GetRate(b, a)), 4, 5)
  BY DEF RoundTrip
<1>1. CASE Leg(a, b) # NoRate \/ USD \in {a, b}
  <2>1. GetRate(a, b) = Leg(a, b) /\ GetRate(b, a) = Leg(b, a)
    BY <1>1, LegBack DEF GetRate
  <2> QED
    BY <2>1, LegBack
<1>2. CASE Leg(a, b) = NoRate /\ USD \notin {a, b}
  <2>1. Leg(b, a) = NoRate
    BY <1>2, LegBack
  <2>2. CASE Leg(a, USD) = NoRate \/ Leg(USD, b) = NoRate
    <3>1. Leg(USD, a) = NoRate \/ Leg(b, USD) = NoRate
      BY <2>2, LegBack
    <3> QED
      BY <1>2, <2>1, <2>2, <3>1 DEF GetRate
  <2>3. CASE Leg(a, USD) # NoRate /\ Leg(USD, b) # NoRate
    <3> DEFINE t == Leg(a, USD)
               f == Leg(USD, b)
               g == Leg(b, USD)
               u == Leg(USD, a)
    <3>1. u # NoRate /\ g # NoRate
      BY <2>3, LegBack
    <3>2. /\ GetRate(a, b) = Rounded(Product(t, f))
          /\ GetRate(b, a) = Rounded(Product(g, u))
      BY <1>2, <2>1, <2>3, <3>1 DEF GetRate
    <3>3. t \in Legs /\ f \in Legs /\ g \in Legs /\ u \in Legs
      BY <1>2, <2>3, <3>1, LegBack
    <3>4. /\ OneRow(a, USD) => NearOne(Product(t, u), 1, 1)
          /\ OneRow(b, USD) => NearOne(Product(g, f), 1, 1)
      BY <2>3, <3>1, LegBack
    <3> HIDE DEF t, f, g, u
    <3>5. \A p, q \in Legs : /\ Product(p, q) \in Positive
                             /\ \E s \in Places : FitsAt(Product(p, q), s)
      <4>1. ASSUME NEW p \in Legs, NEW q \in Legs PROVE Product(p, q) \in Positive
        <5>1. PICK p1 \in Nat \ {0}, p2 \in Nat \ {0} : p = <<p1, p2>>
          BY LegsPositive DEF Positive
        <5>2. PICK q1 \in Nat \ {0}, q2 \in Nat \ {0} : q = <<q1, q2>>
          BY LegsPositive DEF Positive
        <5>3. p1 * q1 \in Nat \ {0} /\ p2 * q2 \in Nat \ {0}
          BY TimesPositive
        <5> QED
          BY <5>1, <5>2, <5>3 DEF Product, Positive
      <4> QED
        BY <4>1, PowersSuffice
    <3>6. /\ GetRate(a, b) \in Positive /\ NearTo(GetRate(a, b), Product(t, f))
          /\ GetRate(b, a) \in Positive /\ NearTo(GetRate(b, a), Product(g, u))
      BY <3>2, <3>3, <3>5, RoundedNear
    <3>7. NoRate \notin Positive
      BY DEF NoRate, Positive
    <3>8. ASSUME OneRow(a, USD), OneRow(b, USD)
          PROVE  NearOne(Product(GetRate(a, b), GetRate(b, a)), 4, 5)
      BY <3>3, <3>4, <3>6, <3>8, LegsPositive, BridgeBack
    <3> QED
      BY <1>2, <3>6, <3>7, <3>8
  <2> QED
    BY <2>2, <2>3
<1> QED
  BY <1>1, <1>2

(* Whatever fee rules and rates the tables hold and however many digits a  *)
(* Decimal keeps: a fee is that of the closest rule, within the bounds of  *)
(* that rule, and a conversion there and back is one but for the rounding, *)
(* direct, inverse or over the bridge (calculateFee, getRate).             *)
THEOREM PricesTrue == PricingSpec => []PricingTrue
<1>1. PricingTypeOK => PricingTrue
  BY FeesTrue, RatesTrue DEF PricingTrue
<1> QED
  BY <1>1, PricingTyped, PTL

HIDE PricingAssumption
=============================================================================
