---------------------------- MODULE AtomicLedger ----------------------------
(***************************************************************************)
(* What the callers of WalletsService take a money transaction to be: all  *)
(* the movements of its program applied to the wallets in one step, each   *)
(* debit covered by the balance it finds and each reference new, or no     *)
(* effect at all.                                                          *)
(***************************************************************************)
EXTENDS Integers, Sequences

CONSTANTS Txs, Wallets, Refs, Opening, Menu, None

VARIABLES
  account,  \* account[w]: balance and frozen balance
  used,     \* references of applied credits and debits
  outcome   \* outcome[t] is "open", "applied" or "refused"

vars == <<account, used, outcome>>

Init ==
  /\ account = Opening
  /\ used = {}
  /\ outcome = [t \in Txs |-> "open"]

Move(acc, m) ==
  CASE m.op = "CREDIT"  -> [acc EXCEPT ![m.wallet].balance = @ + m.amount]
    [] m.op = "DEBIT"   -> [acc EXCEPT ![m.wallet].balance = @ - m.amount]
    [] m.op = "HOLD"    -> [acc EXCEPT ![m.wallet].frozen = @ + m.amount]
    [] m.op = "RELEASE" -> [acc EXCEPT ![m.wallet].frozen = @ - m.amount]

(* After(acc, p)[i] is acc after the first i movements of p.               *)
After(acc, p) ==
  LET run[i \in 0..Len(p)] == IF i = 0 THEN acc ELSE Move(run[i - 1], p[i])
  IN  run

Keys(p) == {i \in DOMAIN p : p[i].op \in {"CREDIT", "DEBIT"}}

Covered(p) == \A i \in Keys(p) : After(account, p)[i][p[i].wallet].balance >= 0

Fresh(p) ==
  /\ \A i \in Keys(p) : p[i].ref \notin used
  /\ \A i, j \in Keys(p) : p[i].ref = p[j].ref => i = j

Apply(t, p) ==
  /\ outcome[t] = "open"
  /\ outcome' = [outcome EXCEPT ![t] = "applied"]
  /\ Covered(p) /\ Fresh(p)
  /\ account' = After(account, p)[Len(p)]
  /\ used' = used \cup {p[i].ref : i \in Keys(p)}

Refuse(t) ==
  /\ outcome[t] = "open"
  /\ outcome' = [outcome EXCEPT ![t] = "refused"]
  /\ UNCHANGED <<account, used>>

(* A step is the end of one transaction.                                   *)
Next ==
  \E t \in Txs :
    outcome'[t] # outcome[t] /\ (Refuse(t) \/ \E p \in Menu[t] : Apply(t, p))

Spec == Init /\ [][Next]_vars

=============================================================================
