----------------------------- MODULE Recurrence -----------------------------
(***************************************************************************)
(* Scheduled and recurring bank transfers: the template transfers that     *)
(* createBankTransfer leaves in status SCHEDULED, their recurrence rules,  *)
(* cancelScheduled, and the job that @nestjs/schedule starts every minute. *)
(*                                                                         *)
(* A tick reads the due rules and then, rule by rule, spawns a transfer    *)
(* and advances the rule from the nextRunAt it has read.  Nothing keeps    *)
(* the next tick, or the tick of another server, from starting before this *)
(* one has ended.  One unit of time is one interval of the frequency.      *)
(***************************************************************************)
EXTENDS Actors, Integers

CONSTANTS
  Templates,  \* scheduled transfers
  Ticks,      \* runs of the job that can be in progress at a time
  First,      \* First[x]: scheduledFor
  Ends,       \* Ends[x]: recurrenceEndsAt, or Horizon when there is none
  Recurring,  \* the templates created with a recurrenceFrequency
  Horizon,    \* bound: the last instant of the model
  MaxTickDeaths   \* bound: ticks that end half way

Times == 0..Horizon

(* What a tick reads of a rule.                                            *)
Snapshots == [template : Templates, next : 0..Horizon + 1]

ASSUME RecurrenceAssumption ==
  /\ Horizon \in Nat /\ MaxTickDeaths \in Nat
  /\ Recurring \subseteq Templates
  /\ First \in [Templates -> 1..Horizon]
  /\ Ends \in [Templates -> Times]
  /\ None \notin Snapshots

VARIABLES
  now,
  status,    \* status[x]: the status of the template transfer
  rule,      \* rule[x]: isActive and nextRunAt; inactive when x has no rule
  tick,      \* tick[k]: the due rules still to handle, and the one in hand
  tried,     \* tried[x]: the occurrences a tick has tried to spawn
  spawned,   \* spawned[x]: the occurrences that became a transfer
  twice,     \* twice[x]: those that became more than one
  overlap,   \* whether two ticks have been in progress at once
  deaths     \* ticks that ended half way

recurrenceVars == <<now, status, rule, tick, tried, spawned, twice, overlap, deaths>>

NoTick == [todo |-> {}, inHand |-> None]

(* Every variable has its type, and what a tick has in hand is due         *)
(* (runDueRecurrences, cancelScheduled).                                   *)
RecurrenceTypeOK ==
  /\ now \in Times
  /\ status \in [Templates -> {"SCHEDULED", "CANCELLED"}]
  /\ rule \in [Templates -> [active : BOOLEAN, next : 0..Horizon + 1]]
  /\ tick \in [Ticks -> [todo : SUBSET Snapshots, inHand : Snapshots \cup {None}]]
  /\ \A k \in Ticks : \A s \in tick[k].todo : s.next <= now
  /\ tried \in [Templates -> SUBSET Times]
  /\ spawned \in [Templates -> SUBSET Times]
  /\ twice \in [Templates -> SUBSET Times]
  /\ overlap \in BOOLEAN
  /\ deaths \in 0..MaxTickDeaths

RecurrenceInit ==
  /\ now = 0
  /\ status = [x \in Templates |-> "SCHEDULED"]
  /\ rule = [x \in Templates |-> [active |-> x \in Recurring, next |-> First[x]]]
  /\ tick = [k \in Ticks |-> NoTick]
  /\ tried = [x \in Templates |-> {}]
  /\ spawned = [x \in Templates |-> {}]
  /\ twice = [x \in Templates |-> {}]
  /\ overlap = FALSE
  /\ deaths = 0

TimePasses ==
  /\ now < Horizon
  /\ now' = now + 1
  /\ UNCHANGED <<status, rule, tick, tried, spawned, twice, overlap, deaths>>

(* cancelScheduled: the rule and the template, in one transaction.  Only   *)
(* another cancellation moves a SCHEDULED template, so the status it has   *)
(* read still holds, or the write is a repetition.                         *)
CancelRecurring(x) ==
  /\ status[x] = "SCHEDULED"
  /\ status' = [status EXCEPT ![x] = "CANCELLED"]
  /\ rule' = [rule EXCEPT ![x].active = FALSE]
  /\ UNCHANGED <<now, tick, tried, spawned, twice, overlap, deaths>>

(* The filter on isActive left out.                                        *)
DueInactive == {x \in Templates : rule[x].next <= now}

(* The rules of this very instant.                                         *)
DueExactly == {x \in Templates : rule[x].active /\ rule[x].next = now}

Due == {x \in Templates : rule[x].active /\ rule[x].next <= now}

(* findMany of the due rules.                                              *)
StartTick(k) ==
  /\ tick[k] = NoTick
  /\ Due # {}
  /\ tick' = [tick EXCEPT ![k].todo = {[template |-> x, next |-> rule[x].next] : x \in Due}]
  /\ overlap' = (overlap \/ \E j \in Ticks \ {k} : tick[j] # NoTick)
  /\ UNCHANGED <<now, status, rule, tried, spawned, twice, deaths>>

(* executeRecurrenceInstance: a transfer, or an error that is swallowed.   *)
SpawnInstance(k) ==
  /\ tick[k].inHand = None
  /\ \E s \in tick[k].todo :
       LET x == s.template
       IN  /\ tick' = [tick EXCEPT ![k] = [todo |-> @.todo \ {s}, inHand |-> s]]
           /\ tried' = [tried EXCEPT ![x] = @ \cup {s.next}]
           /\ \/ /\ spawned' = [spawned EXCEPT ![x] = @ \cup {s.next}]
                 /\ twice' = [twice EXCEPT ![x] = @ \cup (spawned[x] \cap {s.next})]
              \/ UNCHANGED <<spawned, twice>>
  /\ UNCHANGED <<now, status, rule, overlap, deaths>>

(* The rule advanced by two intervals.                                     *)
AdvanceRuleTooFar(k) ==
  /\ tick[k].inHand # None
  /\ LET x == tick[k].inHand.template
         next == tick[k].inHand.next + 2
     IN  rule' = [rule EXCEPT ![x] = [active |-> next <= Ends[x], next |-> next]]
  /\ tick' = [tick EXCEPT ![k].inHand = None]
  /\ UNCHANGED <<now, status, tried, spawned, twice, overlap, deaths>>

(* recurrenceRule.update by id, from what the tick has read.               *)
AdvanceRule(k) ==
  /\ tick[k].inHand # None
  /\ LET x == tick[k].inHand.template
         next == tick[k].inHand.next + 1
     IN  rule' = [rule EXCEPT ![x] = [active |-> next <= Ends[x], next |-> next]]
  /\ tick' = [tick EXCEPT ![k].inHand = None]
  /\ UNCHANGED <<now, status, tried, spawned, twice, overlap, deaths>>

(* The process dies, or the update of a rule throws out of the loop.       *)
TickDies(k) ==
  /\ tick[k] # NoTick
  /\ deaths < MaxTickDeaths
  /\ deaths' = deaths + 1
  /\ tick' = [tick EXCEPT ![k] = NoTick]
  /\ UNCHANGED <<now, status, rule, tried, spawned, twice, overlap>>

RunTick(k) == StartTick(k) \/ SpawnInstance(k) \/ AdvanceRule(k)

RecurrenceNext ==
  \/ TimePasses
  \/ \E x \in Templates : CancelRecurring(x)
  \/ \E k \in Ticks : RunTick(k) \/ TickDies(k)

RecurrenceSpec == RecurrenceInit /\ [][RecurrenceNext]_recurrenceVars

(* Time passes and the job runs.                                           *)
FairRecurrence ==
  /\ RecurrenceSpec
  /\ WF_recurrenceVars(TimePasses)
  /\ \A k \in Ticks : WF_recurrenceVars(RunTick(k))

-----------------------------------------------------------------------------
(* However ticks overlap or die, a rule never passes an occurrence that no *)
(* tick has tried to spawn (runDueRecurrences).                            *)
NoneSkipped ==
  \A x \in Recurring : \A n \in First[x]..rule[x].next - 1 : n \in tried[x]

(* No overlap spawns an occurrence before it is due, or after              *)
(* recurrenceEndsAt.  The exception is the first one, which is never       *)
(* compared with recurrenceEndsAt (transfers.service.ts:294-303, 411-416). *)
InTime ==
  \A x \in Templates : \A n \in spawned[x] : n <= now /\ (n <= Ends[x] \/ n = First[x])

(* As long as ticks do not overlap and none dies, an occurrence is paid at *)
(* most once (runDueRecurrences).                                          *)
PaidOnce == overlap \/ deaths > 0 \/ \A x \in Templates : twice[x] = {}

(* Cancelled, its rule inactive, and in the hands of no tick.              *)
Out(x) ==
  /\ status[x] = "CANCELLED" /\ ~rule[x].active
  /\ \A k \in Ticks : \A s \in tick[k].todo \cup {tick[k].inHand} :
       s # None => s.template # x

(* A cancelled transfer that no tick has in its hands never fires again    *)
(* (cancelScheduled, runDueRecurrences).  A tick that has read the rule    *)
(* before the cancellation still spawns, and then switches the rule on     *)
(* again: this is as much as cancelScheduled can guarantee.                *)
CancelledStaysOut == [][\A x \in Templates : Out(x) => Out(x)']_recurrenceVars

(* Every occurrence up to recurrenceEndsAt is handled, however ticks       *)
(* overlap or die, unless it is cancelled first (README.md:37-40).         *)
RecurrenceFires ==
  <>(\A x \in Recurring : \A n \in First[x]..Horizon :
       n <= Ends[x] \/ n = First[x] => n \in tried[x] \/ status[x] = "CANCELLED")

(* The occurrences of a rule are all tried, in time and once; its rows and *)
(* ticks keep their shapes.                                                *)
OccurrencesTrue == RecurrenceTypeOK /\ NoneSkipped /\ InTime /\ PaidOnce

(* "it's just a template the scheduler activates on its due date"          *)
(* (transfers.service.ts:261-262; README.md:37-40).                        *)
ScheduledFires ==
  \A x \in Templates : <>(First[x] \in tried[x] \/ status[x] = "CANCELLED")

=============================================================================
