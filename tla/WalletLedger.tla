---------------------------- MODULE WalletLedger ----------------------------
(***************************************************************************)
(* The wallet ledger of GlobaPay: WalletsService, the only code that       *)
(* changes a wallet, run inside the database transactions that the money   *)
(* services open with prisma.$transaction.                                 *)
(*                                                                         *)
(* A transaction is a program: a sequence of movements, one per call of    *)
(* applyLedgerMovementInTx (CREDIT, DEBIT), holdInFrozenInTx (HOLD) or     *)
(* releaseFrozenOnlyInTx (RELEASE).  A CREDIT or DEBIT is three statements *)
(* and not one: SELECT the wallet, UPDATE its balance to the value the     *)
(* service computed from what it read, INSERT the ledger entry.  HOLD and  *)
(* RELEASE are one statement, an increment computed by the database.       *)
(*                                                                         *)
(* No call chooses an isolation level, so PostgreSQL runs at READ          *)
(* COMMITTED: a SELECT sees the last committed row, or the transaction's   *)
(* own version of it, and takes no lock; an UPDATE locks the row until the *)
(* transaction ends and works on its newest version; an INSERT of a key    *)
(* that an unfinished transaction has inserted waits for that transaction, *)
(* and fails when the key is committed.                                    *)
(***************************************************************************)
EXTENDS Integers, Sequences, Functions

CONSTANTS
  Txs,      \* database transactions, each runs once
  Wallets,  \* wallet rows
  Refs,     \* values of LedgerEntry.reference
  Opening,  \* Opening[w]: the two balances of w at the first transaction
  Menu,     \* Menu[t]: the programs t may run
  None      \* no transaction, no reference

Ops == {"CREDIT", "DEBIT", "HOLD", "RELEASE"}

(* One call of the wallet service with the arguments the caller gives it.  *)
Movements ==
  [op : Ops, wallet : Wallets, amount : Nat, ref : Refs \cup {None}]

(* CREDIT and DEBIT are the movements that write a ledger entry.           *)
Ledgered(m) == m.op \in {"CREDIT", "DEBIT"}

ASSUME LedgerAssumption ==
  /\ None \notin Txs
  /\ None \notin Refs
  /\ Opening \in [Wallets -> [balance : Nat, frozen : Nat]]
  /\ \A t \in Txs : \A p \in Menu[t] :
        /\ p \in Seq(Movements)
        /\ \A i \in DOMAIN p : Ledgered(p[i]) => p[i].ref \in Refs

VARIABLES
  committed,  \* committed[w]: the last committed version of the wallet row
  draft,      \* draft[w]: its newest version, written by holder[w] if any
  holder,     \* holder[w]: the transaction that has the row locked, or None
  index,      \* index[r]: who inserted reference r in the unique index
  prog, pc, step, target

(* prog[t] is the program t runs, step[t] its current movement, pc[t] the  *)
(* next statement, target[t] the newBalance computed at line 171.          *)
vars == <<committed, draft, holder, index, prog, pc, step, target>>

Entries == [ref : Refs, delta : Int, after : Nat]

(* A wallet row with the ledger entries that reference it.                 *)
Rows == [balance : Int, frozen : Int, journal : Seq(Entries)]

Unfinished == {"ready", "write", "insert"}

Active(t) == pc[t] \in Unfinished
Current(t) == prog[t][step[t]]

(* The signed amount of a movement: lines 169-170.                         *)
Delta(m) == IF m.op = "CREDIT" THEN m.amount ELSE -m.amount
FrozenDelta(m) == IF m.op = "HOLD" THEN m.amount ELSE -m.amount

(* What a SELECT of t sees of row w.                                       *)
View(t, w) == IF holder[w] = t THEN draft[w] ELSE committed[w]

(* An UPDATE of row w by t can proceed.                                    *)
CanLock(t, w) == holder[w] \in {None, t}

-----------------------------------------------------------------------------
Init ==
  /\ committed =
       [w \in Wallets |-> [balance |-> Opening[w].balance,
                            frozen |-> Opening[w].frozen, journal |-> <<>>]]
  /\ draft = committed
  /\ holder = [w \in Wallets |-> None]
  /\ index = [r \in Refs |-> None]
  /\ prog = [t \in Txs |-> <<>>]
  /\ pc = [t \in Txs |-> "idle"]
  /\ step = [t \in Txs |-> 1]
  /\ target = [t \in Txs |-> 0]

(* prisma.$transaction(callback) starts program p.                         *)
Begin(t, p) ==
  /\ pc[t] = "idle"
  /\ pc' = [pc EXCEPT ![t] = "ready"]
  /\ prog' = [prog EXCEPT ![t] = p]
  /\ UNCHANGED <<committed, draft, holder, index, step, target>>

(* The end of t without a commit: every row it wrote goes back to its      *)
(* committed version, its references are free again, its locks released.   *)
Rollback(t) ==
  /\ pc' = [pc EXCEPT ![t] = "rolledback"]
  /\ draft' = [w \in Wallets |-> IF holder[w] = t THEN committed[w] ELSE draft[w]]
  /\ holder' = [w \in Wallets |-> IF holder[w] = t THEN None ELSE holder[w]]
  /\ index' = [r \in Refs |-> IF index[r] = t THEN None ELSE index[r]]
  /\ UNCHANGED <<committed, prog, step, target>>

(* The next call of t is a movement of the given operations.               *)
AtMovement(t, ops) ==
  /\ pc[t] = "ready"
  /\ step[t] <= Len(prog[t])
  /\ Current(t).op \in ops

(* The read without the check at line 173.                                 *)
ReadWalletUnchecked(t) ==
  /\ AtMovement(t, {"CREDIT", "DEBIT"})
  /\ LET m == Current(t)
     IN  target' = [target EXCEPT ![t] = View(t, m.wallet).balance + Delta(m)]
  /\ pc' = [pc EXCEPT ![t] = "write"]
  /\ UNCHANGED <<committed, draft, holder, index, prog, step>>

(* The read made with this.prisma and not with the transaction's client.   *)
ReadWalletOutsideTx(t) ==
  /\ AtMovement(t, {"CREDIT", "DEBIT"})
  /\ LET m == Current(t)
         newBalance == committed[m.wallet].balance + Delta(m)
     IN  /\ newBalance >= 0
         /\ target' = [target EXCEPT ![t] = newBalance]
  /\ pc' = [pc EXCEPT ![t] = "write"]
  /\ UNCHANGED <<committed, draft, holder, index, prog, step>>

(* findUnique, and newBalance computed from the row that was read.         *)
ReadWallet(t) ==
  /\ AtMovement(t, {"CREDIT", "DEBIT"})
  /\ LET m == Current(t)
         newBalance == View(t, m.wallet).balance + Delta(m)
     IN  /\ newBalance >= 0
         /\ target' = [target EXCEPT ![t] = newBalance]
         /\ pc' = [pc EXCEPT ![t] = "write"]
  /\ UNCHANGED <<committed, draft, holder, index, prog, step>>

(* An overdraft that skips its leg and lets the other legs commit.         *)
RejectOverdraftSkips(t) ==
  /\ AtMovement(t, {"CREDIT", "DEBIT"})
  /\ LET m == Current(t) IN View(t, m.wallet).balance + Delta(m) < 0
  /\ step' = [step EXCEPT ![t] = @ + 1]
  /\ UNCHANGED <<committed, draft, holder, index, prog, pc, target>>

(* newBalance.isNegative(): BadRequestException rolls the whole back.      *)
RejectOverdraft(t) ==
  /\ AtMovement(t, {"CREDIT", "DEBIT"})
  /\ LET m == Current(t) IN View(t, m.wallet).balance + Delta(m) < 0
  /\ Rollback(t)

(* {balance: {increment: signedAmount}} with the check still at line 173.  *)
UpdateBalanceByIncrement(t) ==
  /\ pc[t] = "write"
  /\ LET m == Current(t)
     IN  /\ CanLock(t, m.wallet)
         /\ holder' = [holder EXCEPT ![m.wallet] = t]
         /\ draft' = [draft EXCEPT ![m.wallet].balance = @ + Delta(m)]
  /\ pc' = [pc EXCEPT ![t] = "insert"]
  /\ UNCHANGED <<committed, index, prog, step, target>>

(* wallet.update({data: {balance: newBalance}}): an absolute value.        *)
UpdateBalance(t) ==
  /\ pc[t] = "write"
  /\ LET w == Current(t).wallet
     IN  /\ CanLock(t, w)
         /\ holder' = [holder EXCEPT ![w] = t]
         /\ draft' = [draft EXCEPT ![w].balance = target[t]]
  /\ pc' = [pc EXCEPT ![t] = "insert"]
  /\ UNCHANGED <<committed, index, prog, step, target>>

(* The ledger without @unique on reference.                                *)
CreateLedgerEntryNotUnique(t) ==
  /\ pc[t] = "insert"
  /\ LET m == Current(t)
         entry == [ref |-> m.ref, delta |-> Delta(m), after |-> target[t]]
     IN  /\ index' = [index EXCEPT ![m.ref] = t]
         /\ draft' = [draft EXCEPT ![m.wallet].journal = Append(@, entry)]
  /\ pc' = [pc EXCEPT ![t] = "ready"]
  /\ step' = [step EXCEPT ![t] = @ + 1]
  /\ UNCHANGED <<committed, holder, prog, target>>

(* ledgerEntry.create: the reference is new to the unique index.           *)
CreateLedgerEntry(t) ==
  /\ pc[t] = "insert"
  /\ LET m == Current(t)
         entry == [ref |-> m.ref, delta |-> Delta(m), after |-> target[t]]
     IN  /\ index[m.ref] = None
         /\ index' = [index EXCEPT ![m.ref] = t]
         /\ draft' = [draft EXCEPT ![m.wallet].journal = Append(@, entry)]
  /\ pc' = [pc EXCEPT ![t] = "ready"]
  /\ step' = [step EXCEPT ![t] = @ + 1]
  /\ UNCHANGED <<committed, holder, prog, target>>

(* The unique violation caught and ignored inside the transaction.         *)
RejectDuplicateIgnored(t) ==
  /\ pc[t] = "insert"
  /\ index[Current(t).ref] \in Txs
  /\ pc' = [pc EXCEPT ![t] = "ready"]
  /\ step' = [step EXCEPT ![t] = @ + 1]
  /\ UNCHANGED <<committed, draft, holder, index, prog, target>>

(* A retry of the call inside the transaction, which fails in the same way *)
(* for ever.                                                               *)
RejectDuplicateRetries(t) ==
  /\ pc[t] = "insert"
  /\ LET owner == index[Current(t).ref]
     IN  owner = t \/ (owner \in Txs /\ pc[owner] = "committed")
  /\ pc' = [pc EXCEPT ![t] = "write"]
  /\ UNCHANGED <<committed, draft, holder, index, prog, step, target>>

(* ledgerEntry.create fails: the reference is committed, or t's own.       *)
RejectDuplicate(t) ==
  /\ pc[t] = "insert"
  /\ LET owner == index[Current(t).ref]
     IN  owner = t \/ (owner \in Txs /\ pc[owner] = "committed")
  /\ Rollback(t)

(* A frozen update that does not wait for the row's lock.                  *)
MoveFrozenUnlocked(t) ==
  /\ AtMovement(t, {"HOLD", "RELEASE"})
  /\ LET m == Current(t)
     IN  /\ holder' = [holder EXCEPT ![m.wallet] = t]
         /\ draft' = [draft EXCEPT ![m.wallet].frozen =
                                     committed[m.wallet].frozen + FrozenDelta(m)]
  /\ step' = [step EXCEPT ![t] = @ + 1]
  /\ UNCHANGED <<committed, index, prog, pc, target>>

(* holdInFrozenInTx and releaseFrozenOnlyInTx: increment and decrement are *)
(* computed by the UPDATE itself, on the newest version of the row.        *)
MoveFrozen(t) ==
  /\ AtMovement(t, {"HOLD", "RELEASE"})
  /\ LET m == Current(t)
     IN  /\ CanLock(t, m.wallet)
         /\ holder' = [holder EXCEPT ![m.wallet] = t]
         /\ draft' = [draft EXCEPT ![m.wallet].frozen = @ + FrozenDelta(m)]
  /\ step' = [step EXCEPT ![t] = @ + 1]
  /\ UNCHANGED <<committed, index, prog, pc, target>>

(* The callback returned: everything t wrote becomes visible at once.      *)
Commit(t) ==
  /\ pc[t] = "ready"
  /\ step[t] > Len(prog[t])
  /\ pc' = [pc EXCEPT ![t] = "committed"]
  /\ committed' = [w \in Wallets |-> IF holder[w] = t THEN draft[w] ELSE committed[w]]
  /\ holder' = [w \in Wallets |-> IF holder[w] = t THEN None ELSE holder[w]]
  /\ UNCHANGED <<draft, index, prog, step, target>>

(* The transactions t cannot go on before: the holder of the row it wants  *)
(* to update, the inserter of the reference it wants to insert.            *)
WaitsFor(t) ==
  LET atRow == pc[t] = "write" \/ AtMovement(t, {"HOLD", "RELEASE"})
  IN  {u \in Txs \ {t} :
         \/ atRow /\ holder[Current(t).wallet] = u
         \/ pc[t] = "insert" /\ index[Current(t).ref] = u /\ pc[u] # "committed"}

(* PostgreSQL aborts a transaction that is on a cycle of waits.            *)
DeadlockVictim(t) ==
  /\ Active(t)
  /\ \E S \in SUBSET Txs :
        /\ t \in S
        /\ \A u \in S : WaitsFor(u) # {}
        /\ S = UNION {WaitsFor(u) : u \in S}
  /\ Rollback(t)

(* Prisma's transaction timeout, a lost connection, a crash of the server  *)
(* process: an unfinished transaction can be rolled back at any point.     *)
Expire(t) == Active(t) /\ Rollback(t)

Advance(t) ==
  \/ ReadWallet(t) \/ RejectOverdraft(t)
  \/ UpdateBalance(t)
  \/ CreateLedgerEntry(t) \/ RejectDuplicate(t)
  \/ MoveFrozen(t)
  \/ Commit(t)
  \/ DeadlockVictim(t)

Next ==
  \E t \in Txs :
    \/ \E p \in Menu[t] : Begin(t, p)
    \/ Advance(t)
    \/ Expire(t)

Spec == Init /\ [][Next]_vars

(* A running callback goes on, and the deadlock detector runs.  Nothing    *)
(* makes a request arrive (Begin) or a timeout fire (Expire).              *)
FairSpec == Spec /\ \A t \in Txs : WF_vars(Advance(t))

-----------------------------------------------------------------------------
(* What holds of every interleaving.                                       *)

(* Every variable has its type (wallets.service.ts, class WalletsService). *)
TypeOK ==
  /\ committed \in [Wallets -> Rows]
  /\ draft \in [Wallets -> Rows]
  /\ holder \in [Wallets -> Txs \cup {None}]
  /\ index \in [Refs -> Txs \cup {None}]
  /\ prog \in [Txs -> Seq(Movements)]
  /\ pc \in [Txs -> Unfinished \cup {"idle", "committed", "rolledback"}]
  /\ step \in [Txs -> Nat \ {0}]
  /\ target \in [Txs -> Nat]

(* No interleaving overdraws a wallet: the check at line 173 is made on a  *)
(* value that may be stale, but it is that same value that is written.     *)
NeverNegative == \A w \in Wallets : committed[w].balance >= 0

LastAfter(w, row) ==
  IF row.journal = <<>> THEN Opening[w].balance ELSE row.journal[Len(row.journal)].after

(* The newest ledger entry of a wallet always states its current balance,  *)
(* even when concurrent movements were lost: balanceAfter alone can never  *)
(* show that the ledger is wrong.                                          *)
LastEntryAgrees ==
  \A w \in Wallets : committed[w].balance = LastAfter(w, committed[w])

(* A reference is in the ledger at most once, whoever retries: the guard   *)
(* (LedgerEntry.reference @unique) every money service relies on.          *)
ReferencesUnique ==
  \A w, v \in Wallets :
    \A i \in 1..Len(committed[w].journal), j \in 1..Len(committed[v].journal) :
      committed[w].journal[i].ref = committed[v].journal[j].ref => w = v /\ i = j

(* The journal is true to the balances, one entry per reference.           *)
EntriesSound == LastEntryAgrees /\ ReferencesUnique

InJournal(m) ==
  \E i \in 1..Len(committed[m.wallet].journal) :
    LET e == committed[m.wallet].journal[i]
    IN  e.ref = m.ref /\ e.delta = Delta(m)

(* A committed transaction left an entry for every one of its credits and  *)
(* debits; one that is not committed owns no entry of the ledger (both     *)
(* legs or none: applyLedgerMovementInTx composed in an outer transaction).*)
AllOrNothing ==
  /\ \A t \in Txs : pc[t] = "committed" =>
       \A i \in 1..Len(prog[t]) :
         Ledgered(prog[t][i]) => index[prog[t][i].ref] = t /\ InJournal(prog[t][i])
  /\ \A w \in Wallets : \A i \in 1..Len(committed[w].journal) :
       LET owner == index[committed[w].journal[i].ref]
       IN  owner \in Txs /\ pc[owner] = "committed"

(* What each movement of program p adds to the hold on wallet w.           *)
HoldsOn(p, w) ==
  [i \in 1..Len(p) |->
    IF p[i].wallet = w /\ ~Ledgered(p[i]) THEN FrozenDelta(p[i]) ELSE 0]

HeldBy(t, w) == SumFunctionOnSet(HoldsOn(prog[t], w), 1..Len(prog[t]))

Done == {t \in Txs : pc[t] = "committed"}

(* The hold on a wallet is what it started with and the holds and releases *)
(* of the committed transactions, all summed: increments computed by the   *)
(* database are never lost, whatever the balance of the same row loses     *)
(* (holdInFrozenInTx, releaseFrozenOnlyInTx).                              *)
FrozenExact ==
  \A w \in Wallets :
    committed[w].frozen =
      Opening[w].frozen + SumFunctionOnSet([t \in Txs |-> HeldBy(t, w)], Done)

(* Every transaction that begins ends: the opposite lock orders of two     *)
(* transfers, or of a transfer and a refund, cannot block both for ever.   *)
EveryTxEnds == \A t \in Txs : Active(t) ~> ~Active(t)

-----------------------------------------------------------------------------
(* What needs requests that do not overlap on a wallet.                    *)

Touched(p) == {p[i].wallet : i \in DOMAIN p}

(* No unfinished transaction has a wallet in common with program p.        *)
Exclusive(p) ==
  \A u \in Txs : Active(u) => Touched(prog[u]) \cap Touched(p) = {}

ExclusiveNext ==
  \E t \in Txs :
    \/ \E p \in Menu[t] : Exclusive(p) /\ Begin(t, p)
    \/ Advance(t)
    \/ Expire(t)

ExclusiveSpec == Init /\ [][ExclusiveNext]_vars

(* The balance the wallet had before entry i of its journal.               *)
Before(w, row, i) == IF i = 1 THEN Opening[w].balance ELSE row.journal[i - 1].after

(* Entry by entry, the amounts explain the balances.                       *)
Chained(w, row) ==
  \A i \in 1..Len(row.journal) :
    row.journal[i].after = Before(w, row, i) + row.journal[i].delta

(* "every movement is auditable via LedgerEntry": the journal explains the *)
(* balance.  It holds when requests never overlap on a wallet, and is what *)
(* concurrent requests break (wallets.service.ts:131-135).                 *)
Auditable ==
  \A w \in Wallets :
    Chained(w, committed[w]) /\ committed[w].balance = LastAfter(w, committed[w])

(* The atomic ledger, which transactions that do not overlap implement.    *)
Atomic == INSTANCE AtomicLedger WITH
  account <- [w \in Wallets |->
    [balance |-> committed[w].balance, frozen |-> committed[w].frozen]],
  used <- {r \in Refs : index[r] # None /\ pc[index[r]] = "committed"},
  outcome <- [t \in Txs |->
    IF pc[t] = "committed" THEN "applied"
    ELSE IF pc[t] = "rolledback" THEN "refused" ELSE "open"]

AtomicSpec == Atomic!Spec

=============================================================================
