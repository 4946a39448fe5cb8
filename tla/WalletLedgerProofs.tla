------------------------- MODULE WalletLedgerProofs -------------------------
(***************************************************************************)
(* Theorems about WalletLedger, for every set of transactions, wallets,    *)
(* references and programs.                                                *)
(***************************************************************************)
EXTENDS WalletLedger, SequenceTheorems, SumTheorems

(* A transaction is inside a movement only at a CREDIT or DEBIT of its     *)
(* program, and every such movement has a reference.                       *)
ProgramsOK ==
  /\ \A t \in Txs : \A i \in 1..Len(prog[t]) :
       Ledgered(prog[t][i]) => prog[t][i].ref \in Refs
  /\ \A t \in Txs : pc[t] \in {"write", "insert"} =>
       step[t] \in 1..Len(prog[t]) /\ Ledgered(Current(t))

Typed == TypeOK /\ ProgramsOK

LEMMA DeltaInt ==
  ASSUME NEW m \in Movements
  PROVE  Delta(m) \in Int /\ FrozenDelta(m) \in Int
BY DEF Movements, Delta, FrozenDelta

LEMMA CurrentIsMovement ==
  ASSUME Typed, NEW t \in Txs, step[t] <= Len(prog[t])
  PROVE  /\ Current(t) \in Movements
         /\ step[t] \in 1..Len(prog[t])
         /\ Ledgered(Current(t)) => Current(t).ref \in Refs
<1>1. prog[t] \in Seq(Movements) /\ step[t] \in Nat \ {0}
  BY DEF Typed, TypeOK
<1>2. step[t] \in 1..Len(prog[t])
  BY <1>1
<1> QED
  BY <1>1, <1>2 DEF Typed, ProgramsOK, Current

LEMMA InMovement ==
  ASSUME Typed
  PROVE  \A u \in Txs : pc[u] \in {"write", "insert"} =>
           /\ Current(u) \in Movements
           /\ Current(u).wallet \in Wallets
           /\ Current(u).ref \in Refs
<1> SUFFICES ASSUME NEW u \in Txs, pc[u] \in {"write", "insert"}
             PROVE  Current(u) \in Movements /\ Current(u).ref \in Refs
  BY DEF Movements
<1>1. step[u] <= Len(prog[u]) /\ Ledgered(Current(u))
  BY DEF Typed, TypeOK, ProgramsOK
<1> QED
  BY <1>1, CurrentIsMovement

LEMMA ViewRow ==
  ASSUME TypeOK, NEW t \in Txs, NEW w \in Wallets
  PROVE  View(t, w) \in Rows
BY DEF TypeOK, View

(* Changing one field of a row, with a value of its type, gives a row.     *)
LEMMA RowUpdates ==
  ASSUME NEW rows \in [Wallets -> Rows], NEW w \in Wallets,
         NEW b \in Int, NEW j \in Seq(Entries)
  PROVE  /\ [rows EXCEPT ![w].balance = b] \in [Wallets -> Rows]
         /\ [rows EXCEPT ![w].frozen = b] \in [Wallets -> Rows]
         /\ [rows EXCEPT ![w].journal = j] \in [Wallets -> Rows]
<1>1. rows[w] \in Rows
  OBVIOUS
<1>2. /\ [rows[w] EXCEPT !.balance = b] \in Rows
      /\ [rows[w] EXCEPT !.frozen = b] \in Rows
      /\ [rows[w] EXCEPT !.journal = j] \in Rows
  BY <1>1 DEF Rows
<1> QED
  BY <1>2

LEMMA RollbackTyped ==
  ASSUME Typed, NEW t \in Txs, Rollback(t)
  PROVE  Typed'
<1> USE DEF Typed, Rollback
<1>1. TypeOK'
  BY DEF TypeOK
<1>2. ProgramsOK'
  BY DEF TypeOK, ProgramsOK, Current
<1> QED
  BY <1>1, <1>2

LEMMA InitTyped == Init => Typed
<1> SUFFICES ASSUME Init PROVE Typed
  OBVIOUS
<1>1. \A w \in Wallets : [balance |-> Opening[w].balance, frozen |-> Opening[w].frozen,
                          journal |-> <<>>] \in Rows
  BY LedgerAssumption DEF Rows
<1>2. TypeOK
  BY <1>1 DEF Init, TypeOK, Unfinished
<1>3. ProgramsOK
  BY DEF Init, ProgramsOK
<1> QED
  BY <1>2, <1>3 DEF Typed

LEMMA StepTyped == Typed /\ [Next]_vars => Typed'
<1> SUFFICES ASSUME Typed, [Next]_vars PROVE Typed'
  OBVIOUS
<1>1. CASE UNCHANGED vars
  BY <1>1 DEF Typed, TypeOK, ProgramsOK, vars, Current
<1>2. CASE Next
  <2> PICK t \in Txs : \/ \E p \in Menu[t] : Begin(t, p)
                       \/ Advance(t)
                       \/ Expire(t)
    BY <1>2 DEF Next
  <2>1. ASSUME NEW p \in Menu[t], Begin(t, p) PROVE Typed'
    <3>1. p \in Seq(Movements)
          /\ \A i \in 1..Len(p) : Ledgered(p[i]) => p[i].ref \in Refs
      BY LedgerAssumption
    <3>2. TypeOK'
      BY <2>1, <3>1 DEF Typed, TypeOK, Begin, Unfinished
    <3>3. ASSUME NEW u \in Txs
          PROVE  /\ \A i \in 1..Len(prog'[u]) :
                      Ledgered(prog'[u][i]) => prog'[u][i].ref \in Refs
                 /\ pc'[u] \in {"write", "insert"} =>
                      step'[u] \in 1..Len(prog'[u]) /\ Ledgered(prog'[u][step'[u]])
      <4>1. CASE u = t
        BY <2>1, <3>1, <4>1 DEF Typed, TypeOK, Begin
      <4>2. CASE u # t
        BY <2>1, <4>2 DEF Typed, TypeOK, ProgramsOK, Begin, Current
      <4> QED
        BY <4>1, <4>2
    <3>4. ProgramsOK'
      BY <3>3 DEF ProgramsOK, Current
    <3> QED
      BY <3>2, <3>4 DEF Typed
  <2>2. CASE ReadWallet(t)
    <3>1. Current(t) \in Movements /\ step[t] \in 1..Len(prog[t])
      BY <2>2, CurrentIsMovement DEF ReadWallet, AtMovement
    <3>2. View(t, Current(t).wallet).balance + Delta(Current(t)) \in Int
      BY <3>1, ViewRow, DeltaInt DEF Typed, Movements, Rows
    <3>3. TypeOK'
      BY <2>2, <3>2 DEF Typed, TypeOK, ReadWallet, Unfinished
    <3>4. ProgramsOK'
      BY <2>2, <3>1 DEF Typed, TypeOK, ProgramsOK, ReadWallet, AtMovement, Current, Ledgered
    <3> QED
      BY <3>3, <3>4 DEF Typed
  <2>3. CASE UpdateBalance(t)
    <3>1. Current(t).wallet \in Wallets
      BY <2>3, CurrentIsMovement DEF UpdateBalance, Typed, ProgramsOK, Movements
    <3>0. draft' \in [Wallets -> Rows]
      <4> DEFINE w == Current(t).wallet
      <4>1. draft' = [draft EXCEPT ![w].balance = target[t]] /\ target[t] \in Int
        BY <2>3 DEF UpdateBalance, Typed, TypeOK
      <4> HIDE DEF w
      <4> QED
        BY <3>1, <4>1, RowUpdates, <<>> \in Seq(Entries) DEF w, Typed, TypeOK
    <3>2. TypeOK'
      BY <2>3, <3>1, <3>0 DEF Typed, TypeOK, UpdateBalance, Unfinished
    <3>3. ProgramsOK'
      BY <2>3 DEF Typed, TypeOK, ProgramsOK, UpdateBalance, Current
    <3> QED
      BY <3>2, <3>3 DEF Typed
  <2>4. CASE CreateLedgerEntry(t)
    <3>1. Current(t) \in Movements /\ Current(t).ref \in Refs
      BY <2>4, CurrentIsMovement DEF CreateLedgerEntry, Typed, ProgramsOK
    <3>2. [ref |-> Current(t).ref, delta |-> Delta(Current(t)), after |-> target[t]]
             \in Entries
      BY <3>1, DeltaInt DEF Entries, Typed, TypeOK
    <3>0. draft' \in [Wallets -> Rows]
      <4> DEFINE w == Current(t).wallet
                 j == Append(draft[w].journal,
                             [ref |-> Current(t).ref, delta |-> Delta(Current(t)),
                              after |-> target[t]])
      <4>1. w \in Wallets
        BY <3>1 DEF Movements
      <4>2. j \in Seq(Entries)
        BY <3>2, <4>1 DEF Typed, TypeOK, Rows
      <4>3. draft' = [draft EXCEPT ![w].journal = j]
        BY <2>4 DEF CreateLedgerEntry
      <4> HIDE DEF w, j
      <4> QED
        BY <4>1, <4>2, <4>3, RowUpdates, 0 \in Int DEF Typed, TypeOK
    <3>3. TypeOK'
      BY <2>4, <3>1, <3>0 DEF Typed, TypeOK, CreateLedgerEntry, Unfinished
    <3>4. ProgramsOK'
      BY <2>4 DEF Typed, TypeOK, ProgramsOK, CreateLedgerEntry, Current
    <3> QED
      BY <3>3, <3>4 DEF Typed
  <2>5. CASE MoveFrozen(t)
    <3>1. Current(t) \in Movements
      BY <2>5, CurrentIsMovement DEF MoveFrozen, AtMovement
    <3>2. FrozenDelta(Current(t)) \in Int /\ Current(t).wallet \in Wallets
      BY <3>1, DeltaInt DEF Movements
    <3>0. draft' \in [Wallets -> Rows]
      <4> DEFINE w == Current(t).wallet
                 f == draft[w].frozen + FrozenDelta(Current(t))
      <4>1. f \in Int
        BY <3>2 DEF Typed, TypeOK, Rows
      <4>2. draft' = [draft EXCEPT ![w].frozen = f]
        BY <2>5 DEF MoveFrozen
      <4> HIDE DEF w, f
      <4> QED
        BY <3>2, <4>1, <4>2, RowUpdates, <<>> \in Seq(Entries) DEF w, Typed, TypeOK
    <3>3. TypeOK'
      BY <2>5, <3>2, <3>0 DEF Typed, TypeOK, MoveFrozen
    <3>4. ProgramsOK'
      BY <2>5 DEF Typed, TypeOK, ProgramsOK, MoveFrozen, AtMovement, Current
    <3> QED
      BY <3>3, <3>4 DEF Typed
  <2>6. CASE Commit(t)
    <3>1. TypeOK'
      BY <2>6 DEF Typed, TypeOK, Commit
    <3>2. ProgramsOK'
      BY <2>6 DEF Typed, TypeOK, ProgramsOK, Commit, Current
    <3> QED
      BY <3>1, <3>2 DEF Typed
  <2>7. CASE Rollback(t)
    BY <2>7, RollbackTyped
  <2> QED
    BY <2>1, <2>2, <2>3, <2>4, <2>5, <2>6, <2>7
    DEF Advance, RejectOverdraft, RejectDuplicate, DeadlockVictim, Expire
<1> QED
  BY <1>1, <1>2

(* Every variable keeps its type, whatever the programs are.               *)
THEOREM TypeCorrect == Spec => []TypeOK
<1>1. Typed => TypeOK
  BY DEF Typed
<1> QED
  BY <1>1, InitTyped, StepTyped, PTL DEF Spec

-----------------------------------------------------------------------------
(* The rows: who may differ from the committed version, and what a row     *)
(* version satisfies at every statement.                                   *)

(* Row w differs from its committed version only while an unfinished       *)
(* transaction has it locked.                                              *)
LockOK(w) ==
  /\ holder[w] # None => Active(holder[w])
  /\ holder[w] = None => draft[w] = committed[w]

(* Between its UPDATE and its INSERT a transaction has the row locked, at  *)
(* the balance it is about to enter in the ledger.                         *)
InsertOK(t) ==
  pc[t] = "insert" =>
    /\ holder[Current(t).wallet] = t
    /\ draft[Current(t).wallet].balance = target[t]

MidMovement(w) == \E t \in Txs : pc[t] = "insert" /\ Current(t).wallet = w

(* Outside that interval the last entry of the newest version states its   *)
(* balance; the committed version always does.                             *)
RowOK(w) ==
  /\ committed[w].balance >= 0 /\ committed[w].balance = LastAfter(w, committed[w])
  /\ draft[w].balance >= 0
  /\ ~MidMovement(w) => draft[w].balance = LastAfter(w, draft[w])

RowsOK ==
  /\ \A w \in Wallets : LockOK(w) /\ RowOK(w)
  /\ \A t \in Txs : InsertOK(t)

LEMMA InitRows == Init => RowsOK
BY LedgerAssumption
DEF Init, RowsOK, LockOK, RowOK, InsertOK, MidMovement, LastAfter, Unfinished

LEMMA RollbackRows ==
  ASSUME Typed, RowsOK, NEW t \in Txs, Rollback(t)
  PROVE  RowsOK'
<1>0. \A u \in Txs : pc[u] \in {"write", "insert"} =>
        Current(u) \in Movements /\ Current(u).wallet \in Wallets /\ Current(u).ref \in Refs
  BY InMovement
<1> USE DEF Typed, TypeOK, RowsOK, Rollback
<1>1. ASSUME NEW u \in Txs PROVE InsertOK(u)'
  <2>1. CASE u = t
    BY <2>1 DEF InsertOK
  <2>2. CASE u # t
    <3>1. pc[u] = "insert" => Current(u).wallet \in Wallets
      BY <1>0
    <3> QED
      BY <2>2, <3>1 DEF InsertOK, Current
  <2> QED
    BY <2>1, <2>2
<1>2. ASSUME NEW w \in Wallets PROVE LockOK(w)'
  BY LedgerAssumption DEF LockOK, Active, Unfinished
<1>3. ASSUME NEW w \in Wallets PROVE RowOK(w)'
  <2>1. CASE holder[w] = t
    BY <2>1 DEF RowOK, LastAfter
  <2>2. CASE holder[w] # t
    <3>1. draft'[w] = draft[w] /\ committed'[w] = committed[w]
      BY <2>2
    <3>2. ~MidMovement(w)' => ~MidMovement(w)
      BY <2>2 DEF MidMovement, InsertOK, Current
    <3> QED
      BY <3>1, <3>2 DEF RowOK, LastAfter
  <2> QED
    BY <2>1, <2>2
<1> QED
  BY <1>1, <1>2, <1>3

LEMMA UpdateRows ==
  ASSUME Typed, RowsOK, NEW t \in Txs, UpdateBalance(t)
  PROVE  RowsOK'
<1> DEFINE x == Current(t).wallet
<1>0. \A u \in Txs : pc[u] \in {"write", "insert"} =>
        Current(u) \in Movements /\ Current(u).wallet \in Wallets /\ Current(u).ref \in Refs
  BY InMovement
<1> USE DEF Typed, TypeOK, RowsOK
<1>1. x \in Wallets /\ Current(t)' = Current(t)
  BY <1>0 DEF UpdateBalance, Current
<1>2. /\ holder[x] \in {None, t}
      /\ holder' = [holder EXCEPT ![x] = t]
      /\ draft' = [draft EXCEPT ![x].balance = target[t]]
      /\ pc' = [pc EXCEPT ![t] = "insert"]
      /\ UNCHANGED <<committed, prog, step, target>>
  BY DEF UpdateBalance, CanLock
<1>3. /\ draft'[x].balance = target[t]
      /\ \A w \in Wallets \ {x} : draft'[w] = draft[w]
  BY <1>1, <1>2 DEF Rows
<1>4. \A u \in Txs \ {t} : pc[u] = "insert" => Current(u).wallet # x
  BY <1>1, <1>2, LedgerAssumption DEF InsertOK
<1> HIDE DEF x
<1>5. ASSUME NEW u \in Txs PROVE InsertOK(u)'
  <2>1. CASE u = t
    BY <1>1, <1>2, <1>3, <2>1 DEF InsertOK, x
  <2>2. CASE u # t
    <3>1. pc[u] = "insert" => Current(u).wallet \in Wallets \ {x}
      BY <1>0, <1>4, <2>2
    <3> QED
      BY <1>2, <1>3, <2>2, <3>1 DEF InsertOK, Current
  <2> QED
    BY <2>1, <2>2
<1>6. ASSUME NEW w \in Wallets PROVE LockOK(w)'
  BY <1>1, <1>2, <1>3, LedgerAssumption DEF LockOK, Active, Unfinished
<1>7. ASSUME NEW w \in Wallets PROVE RowOK(w)'
  <2>1. CASE w = x
    <3>1. MidMovement(w)'
      BY <1>1, <1>2, <2>1 DEF MidMovement, x
    <3> QED
      BY <1>2, <1>3, <2>1, <3>1 DEF RowOK, LastAfter
  <2>2. CASE w # x
    <3>1. ~MidMovement(w)' => ~MidMovement(w)
      BY <1>2, <2>2 DEF MidMovement, Current
    <3> QED
      BY <1>2, <1>3, <2>2, <3>1 DEF RowOK, LastAfter
  <2> QED
    BY <2>1, <2>2
<1> QED
  BY <1>5, <1>6, <1>7

LEMMA CreateRows ==
  ASSUME Typed, RowsOK, NEW t \in Txs, CreateLedgerEntry(t)
  PROVE  RowsOK'
<1> DEFINE x == Current(t).wallet
           e == [ref |-> Current(t).ref, delta |-> Delta(Current(t)), after |-> target[t]]
<1>0. \A u \in Txs : pc[u] \in {"write", "insert"} =>
        Current(u) \in Movements /\ Current(u).wallet \in Wallets /\ Current(u).ref \in Refs
  BY InMovement
<1> USE DEF Typed, TypeOK, RowsOK
<1>1. x \in Wallets /\ Current(t) \in Movements /\ Current(t).ref \in Refs
  BY <1>0 DEF CreateLedgerEntry
<1>2. /\ draft' = [draft EXCEPT ![x].journal = Append(draft[x].journal, e)]
      /\ pc[t] = "insert"
      /\ pc' = [pc EXCEPT ![t] = "ready"]
      /\ step' = [step EXCEPT ![t] = step[t] + 1]
      /\ UNCHANGED <<committed, holder, prog, target>>
  BY DEF CreateLedgerEntry
<1>3. holder[x] = t /\ draft[x].balance = target[t]
  BY <1>2 DEF InsertOK
<1>4. e \in Entries /\ e.after = target[t]
  BY <1>1, DeltaInt DEF Entries
<1> HIDE DEF x, e
<1>5. /\ draft'[x].balance = target[t]
      /\ draft'[x].journal = Append(draft[x].journal, e)
      /\ \A w \in Wallets \ {x} : draft'[w] = draft[w]
  BY <1>1, <1>2, <1>3 DEF Rows
<1>6. ASSUME NEW u \in Txs PROVE InsertOK(u)'
  <2>1. CASE u = t
    BY <1>2, <2>1 DEF InsertOK
  <2>2. CASE u # t
    <3>1. pc[u] = "insert" => Current(u).wallet \in Wallets \ {x}
      BY <1>0, <1>3, <2>2 DEF InsertOK
    <3> QED
      BY <1>2, <1>5, <2>2, <3>1 DEF InsertOK, Current
  <2> QED
    BY <2>1, <2>2
<1>7. ASSUME NEW w \in Wallets PROVE LockOK(w)'
  BY <1>1, <1>2, <1>3, <1>5, LedgerAssumption DEF LockOK, Active, Unfinished
<1>8. ASSUME NEW w \in Wallets PROVE RowOK(w)'
  <2>1. CASE w = x
    <3>1. draft[x].journal \in Seq(Entries)
      BY <1>1 DEF Rows
    <3>2. LastAfter(x, draft'[x]) = target[t]
      <4> DEFINE j == draft[x].journal
                 k == draft'[x].journal
      <4>1. k # <<>> /\ Len(k) = Len(j) + 1 /\ k[Len(j) + 1] = e
        BY <1>4, <1>5, <3>1, AppendProperties
      <4>2. k[Len(k)].after = target[t]
        BY <1>4, <4>1
      <4> QED
        BY <4>1, <4>2 DEF LastAfter
    <3>3. LastAfter(x, committed'[x]) = LastAfter(x, committed[x])
      BY <1>2 DEF LastAfter
    <3>4. /\ committed'[x].balance >= 0
          /\ committed'[x].balance = LastAfter(x, committed'[x])
          /\ draft'[x].balance >= 0
          /\ draft'[x].balance = LastAfter(x, draft'[x])
      BY <1>1, <1>2, <1>5, <3>2, <3>3 DEF RowOK
    <3> QED
      BY <2>1, <3>4 DEF RowOK, LastAfter
  <2>2. CASE w # x
    <3>1. ~MidMovement(w)' => ~MidMovement(w)
      BY <1>2, <2>2 DEF MidMovement, Current, x
    <3> QED
      BY <1>2, <1>5, <2>2, <3>1 DEF RowOK, LastAfter
  <2> QED
    BY <2>1, <2>2
<1> QED
  BY <1>6, <1>7, <1>8

LEMMA FrozenRows ==
  ASSUME Typed, RowsOK, NEW t \in Txs, MoveFrozen(t)
  PROVE  RowsOK'
<1> DEFINE x == Current(t).wallet
           f == draft[x].frozen + FrozenDelta(Current(t))
<1>0. \A u \in Txs : pc[u] \in {"write", "insert"} =>
        Current(u) \in Movements /\ Current(u).wallet \in Wallets /\ Current(u).ref \in Refs
  BY InMovement
<1>1. x \in Wallets
  BY CurrentIsMovement DEF MoveFrozen, AtMovement, Movements
<1> USE DEF Typed, TypeOK, RowsOK
<1>2. /\ holder[x] \in {None, t}
      /\ holder' = [holder EXCEPT ![x] = t]
      /\ draft' = [draft EXCEPT ![x].frozen = f]
      /\ pc[t] = "ready"
      /\ step' = [step EXCEPT ![t] = step[t] + 1]
      /\ UNCHANGED <<committed, prog, pc, target>>
  BY DEF MoveFrozen, CanLock, AtMovement
<1> HIDE DEF x, f
<1>3. /\ draft'[x].balance = draft[x].balance
      /\ draft'[x].journal = draft[x].journal
      /\ \A w \in Wallets \ {x} : draft'[w] = draft[w]
  BY <1>1, <1>2 DEF Rows
<1>4. ASSUME NEW u \in Txs PROVE InsertOK(u)'
  <2>1. CASE u = t
    BY <1>2, <2>1 DEF InsertOK
  <2>2. CASE u # t
    <3>1. pc[u] = "insert" => Current(u).wallet \in Wallets \ {x}
      BY <1>0, <1>2, <2>2, LedgerAssumption DEF InsertOK
    <3> QED
      BY <1>2, <1>3, <2>2, <3>1 DEF InsertOK, Current
  <2> QED
    BY <2>1, <2>2
<1>5. ASSUME NEW w \in Wallets PROVE LockOK(w)'
  BY <1>1, <1>2, <1>3, LedgerAssumption DEF LockOK, Active, Unfinished
<1>6. ASSUME NEW w \in Wallets PROVE RowOK(w)'
  <2>1. ~MidMovement(w)' => ~MidMovement(w)
    BY <1>2 DEF MidMovement, Current
  <2> QED
    BY <1>2, <1>3, <2>1 DEF RowOK, LastAfter
<1> QED
  BY <1>4, <1>5, <1>6

LEMMA CommitRows ==
  ASSUME Typed, RowsOK, NEW t \in Txs, Commit(t)
  PROVE  RowsOK'
<1>0. \A u \in Txs : pc[u] \in {"write", "insert"} =>
        Current(u) \in Movements /\ Current(u).wallet \in Wallets /\ Current(u).ref \in Refs
  BY InMovement
<1> USE DEF Typed, TypeOK, RowsOK, Commit
<1>1. ASSUME NEW u \in Txs PROVE InsertOK(u)'
  <2>1. CASE u = t
    BY <2>1 DEF InsertOK
  <2>2. CASE u # t
    <3>1. pc[u] = "insert" => Current(u).wallet \in Wallets
      BY <1>0
    <3> QED
      BY <2>2, <3>1 DEF InsertOK, Current
  <2> QED
    BY <2>1, <2>2
<1>2. ASSUME NEW w \in Wallets PROVE LockOK(w)'
  BY LedgerAssumption DEF LockOK, Active, Unfinished
<1>3. ASSUME NEW w \in Wallets PROVE RowOK(w)'
  <2>1. ~MidMovement(w)' => ~MidMovement(w)
    BY DEF MidMovement, Current
  <2>2. CASE holder[w] = t
    <3>1. ~MidMovement(w)
      BY <2>2 DEF MidMovement, InsertOK
    <3> QED
      BY <2>2, <3>1 DEF RowOK, LastAfter
  <2>3. CASE holder[w] # t
    BY <2>1, <2>3 DEF RowOK, LastAfter
  <2> QED
    BY <2>2, <2>3
<1> QED
  BY <1>1, <1>2, <1>3

LEMMA StepRows == Typed /\ RowsOK /\ [Next]_vars => RowsOK'
<1> SUFFICES ASSUME Typed, RowsOK, [Next]_vars PROVE RowsOK'
  OBVIOUS
<1>1. CASE UNCHANGED vars
  BY <1>1 DEF RowsOK, LockOK, RowOK, InsertOK, MidMovement, LastAfter, Active, Current, vars
<1>2. CASE Next
  <2> PICK t \in Txs : \/ \E p \in Menu[t] : Begin(t, p)
                       \/ Advance(t)
                       \/ Expire(t)
    BY <1>2 DEF Next
  <2> USE DEF Typed, TypeOK
  <2>1. ASSUME NEW p \in Menu[t], Begin(t, p) PROVE RowsOK'
    <3>1. \A u \in Txs : pc'[u] = "insert" => u # t /\ pc[u] = "insert"
      BY <2>1 DEF Begin
    <3>2. \A u \in Txs \ {t} : Current(u)' = Current(u) /\ pc'[u] = pc[u]
      BY <2>1 DEF Begin, Current
    <3>3. \A w \in Wallets : MidMovement(w)' <=> MidMovement(w)
      BY <2>1, <3>1, <3>2 DEF MidMovement, Begin
    <3> QED
      BY <2>1, <3>1, <3>2, <3>3
      DEF RowsOK, LockOK, RowOK, InsertOK, LastAfter, Active, Begin, Unfinished
  <2>2. CASE ReadWallet(t)
    <3>1. \A u \in Txs : pc'[u] = "insert" <=> u # t /\ pc[u] = "insert"
      BY <2>2 DEF ReadWallet, AtMovement
    <3>2. pc[t] # "insert" /\ \A u \in Txs : Current(u)' = Current(u)
      BY <2>2 DEF ReadWallet, AtMovement, Current
    <3>3. \A w \in Wallets : MidMovement(w)' <=> MidMovement(w)
      BY <3>1, <3>2 DEF MidMovement
    <3> QED
      BY <2>2, <3>1, <3>2, <3>3
      DEF RowsOK, LockOK, RowOK, InsertOK, LastAfter, Active, ReadWallet, Unfinished
  <2>3. CASE UpdateBalance(t)
    BY <2>3, UpdateRows
  <2>4. CASE CreateLedgerEntry(t)
    BY <2>4, CreateRows
  <2>5. CASE MoveFrozen(t)
    BY <2>5, FrozenRows
  <2>6. CASE Commit(t)
    BY <2>6, CommitRows
  <2>7. CASE Rollback(t)
    BY <2>7, RollbackRows
  <2> QED
    BY <2>1, <2>2, <2>3, <2>4, <2>5, <2>6, <2>7
    DEF Advance, RejectOverdraft, RejectDuplicate, DeadlockVictim, Expire
<1> QED
  BY <1>1, <1>2

(* No interleaving of requests overdraws a wallet, and the newest entry of *)
(* its ledger always states its balance.                                   *)
THEOREM BalancesSound == Spec => [](NeverNegative /\ LastEntryAgrees)
<1>1. RowsOK => NeverNegative /\ LastEntryAgrees
  BY DEF RowsOK, RowOK, NeverNegative, LastEntryAgrees
<1> QED
  BY <1>1, InitTyped, StepTyped, InitRows, StepRows, PTL DEF Spec

-----------------------------------------------------------------------------
(* Requests that do not overlap on a wallet.                               *)

(* A transaction writes the balance it read plus the amount, and no other  *)
(* one can have changed the row in between.                                *)
WriteOK(t) ==
  pc[t] = "write" =>
    target[t] = View(t, Current(t).wallet).balance + Delta(Current(t))

EntryOK(t) ==
  pc[t] = "insert" =>
    target[t] = LastAfter(Current(t).wallet, draft[Current(t).wallet]) + Delta(Current(t))

Separate ==
  /\ \A t, u \in Txs :
       t # u /\ Active(t) /\ Active(u) => Touched(prog[t]) \cap Touched(prog[u]) = {}
  /\ \A w \in Wallets : holder[w] # None => w \in Touched(prog[holder[w]])

ChainsOK ==
  /\ Separate
  /\ \A t \in Txs : WriteOK(t) /\ EntryOK(t)
  /\ \A w \in Wallets : Chained(w, committed[w]) /\ Chained(w, draft[w])

LEMMA ExclusiveIsNext == [ExclusiveNext]_vars => [Next]_vars
BY DEF ExclusiveNext, Next

LEMMA ChainAppend ==
  ASSUME NEW w \in Wallets, NEW row \in Rows, NEW new \in Rows, NEW e \in Entries,
         new.journal = Append(row.journal, e),
         e.after = LastAfter(w, row) + e.delta,
         Chained(w, row)
  PROVE  Chained(w, new)
<1> DEFINE j == row.journal
           k == new.journal
<1>1. j \in Seq(Entries) /\ Len(j) \in Nat
  BY DEF Rows
<1>2. /\ Len(k) = Len(j) + 1
      /\ k[Len(j) + 1] = e
      /\ \A i \in 1..Len(j) : k[i] = j[i]
  BY <1>1, AppendProperties
<1> SUFFICES ASSUME NEW i \in 1..Len(k)
             PROVE  k[i].after = Before(w, new, i) + k[i].delta
  BY DEF Chained
<1>3. CASE i = Len(j) + 1
  <2>1. Before(w, new, i) = LastAfter(w, row)
    BY <1>1, <1>2, <1>3, EmptySeq DEF Before, LastAfter
  <2> QED
    BY <1>2, <1>3, <2>1
<1>4. CASE i # Len(j) + 1
  <2>1. i \in 1..Len(j)
    BY <1>1, <1>2, <1>4
  <2>2. Before(w, new, i) = Before(w, row, i)
    BY <1>1, <1>2, <2>1 DEF Before
  <2> QED
    BY <1>2, <2>1, <2>2 DEF Chained
<1> QED
  BY <1>3, <1>4

(* The chain of a row depends on its journal alone.                        *)
LEMMA SameJournal ==
  ASSUME NEW w, NEW row, NEW new, new.journal = row.journal
  PROVE  /\ Chained(w, row) <=> Chained(w, new)
         /\ LastAfter(w, row) = LastAfter(w, new)
BY DEF Chained, Before, LastAfter

LEMMA CurrentTouched ==
  ASSUME Typed, NEW t \in Txs, step[t] <= Len(prog[t])
  PROVE  Current(t).wallet \in Touched(prog[t])
BY CurrentIsMovement DEF Typed, TypeOK, Touched, Current

LEMMA InitChains == Init => ChainsOK
BY LedgerAssumption
DEF Init, ChainsOK, Separate, WriteOK, EntryOK, Chained, Active, Unfinished

(* The rows of a transaction that takes no step: its wallets are touched   *)
(* by no other unfinished transaction.                                     *)
LEMMA OthersKeepOut ==
  ASSUME Typed, RowsOK, ChainsOK,
         NEW t \in Txs, NEW u \in Txs, u # t, Active(t),
         pc[u] \in {"write", "insert"}
  PROVE  /\ Current(u).wallet \in Wallets
         /\ Current(u).wallet \notin Touched(prog[t])
         /\ holder[Current(u).wallet] # t
<1>1. step[u] <= Len(prog[u]) /\ Current(u).wallet \in Wallets
  BY InMovement DEF Typed, TypeOK, ProgramsOK
<1>2. Current(u).wallet \in Touched(prog[u])
  BY <1>1, CurrentTouched
<1>3. Touched(prog[u]) \cap Touched(prog[t]) = {}
  BY DEF ChainsOK, Separate, Active, Unfinished
<1>4. holder[Current(u).wallet] # t
  BY <1>1, <1>2, <1>3, LedgerAssumption DEF ChainsOK, Separate
<1> QED
  BY <1>1, <1>2, <1>3, <1>4

(* A step of t that writes only wallets of its program leaves alone what   *)
(* the movement of every other transaction relies on.                      *)
LEMMA OthersUnaffected ==
  ASSUME Typed, RowsOK, ChainsOK, NEW t \in Txs, Active(t),
         \A u \in Txs \ {t} : /\ pc'[u] = pc[u] /\ prog'[u] = prog[u]
                              /\ step'[u] = step[u] /\ target'[u] = target[u],
         \A w \in Wallets \ Touched(prog[t]) :
           committed'[w] = committed[w] /\ draft'[w] = draft[w],
         \A w \in Wallets \ Touched(prog[t]) : holder'[w] = holder[w]
  PROVE  \A u \in Txs \ {t} : WriteOK(u)' /\ EntryOK(u)'
<1> SUFFICES ASSUME NEW u \in Txs \ {t} PROVE WriteOK(u)' /\ EntryOK(u)'
  OBVIOUS
<1>1. pc'[u] = pc[u] /\ Current(u)' = Current(u) /\ target'[u] = target[u]
  BY DEF Current
<1>2. CASE pc[u] \in {"write", "insert"}
  <2> DEFINE x == Current(u).wallet
  <2>1. x \in Wallets \ Touched(prog[t])
    BY <1>2, OthersKeepOut
  <2>2. holder'[x] = holder[x] /\ draft'[x] = draft[x] /\ committed'[x] = committed[x]
    BY <2>1
  <2>3. View(u, x)' = View(u, x)
    BY <1>1, <2>2 DEF View
  <2>4. LastAfter(x, draft[x])' = LastAfter(x, draft[x])
    BY <1>1, <2>2 DEF LastAfter
  <2> QED
    BY <1>1, <2>3, <2>4 DEF ChainsOK, WriteOK, EntryOK, Delta
<1>3. CASE pc[u] \notin {"write", "insert"}
  BY <1>1, <1>3 DEF WriteOK, EntryOK
<1> QED
  BY <1>2, <1>3

LEMMA HeldIsTouched ==
  ASSUME Typed, ChainsOK, NEW t \in Txs, NEW w \in Wallets \ Touched(prog[t])
  PROVE  holder[w] # t
BY LedgerAssumption DEF ChainsOK, Separate

LEMMA RollbackChains ==
  ASSUME Typed, RowsOK, ChainsOK, NEW t \in Txs, Active(t), Rollback(t)
  PROVE  ChainsOK'
<1>1. Separate'
  BY LedgerAssumption DEF Rollback, ChainsOK, Separate, Typed, TypeOK, Active, Unfinished
<1>2. ASSUME NEW w \in Wallets PROVE Chained(w, committed[w])' /\ Chained(w, draft[w])'
  <2>1. committed' = committed /\ draft'[w] \in {committed[w], draft[w]}
    BY DEF Rollback
  <2>2. Chained(w, committed'[w]) /\ Chained(w, draft'[w])
    BY <2>1 DEF ChainsOK
  <2> QED
    BY <2>2 DEF Chained, Before
<1>3. \A u \in Txs \ {t} : WriteOK(u)' /\ EntryOK(u)'
  BY OthersUnaffected, HeldIsTouched DEF Rollback, Typed, TypeOK
<1>4. WriteOK(t)' /\ EntryOK(t)'
  BY DEF Rollback, WriteOK, EntryOK, Typed, TypeOK
<1> QED
  BY <1>1, <1>2, <1>3, <1>4 DEF ChainsOK

LEMMA UpdateChains ==
  ASSUME Typed, RowsOK, ChainsOK, NEW t \in Txs, UpdateBalance(t)
  PROVE  ChainsOK'
<1> DEFINE x == Current(t).wallet
<1>1. x \in Wallets /\ x \in Touched(prog[t]) /\ Active(t)
  BY InMovement, CurrentTouched DEF UpdateBalance, Typed, TypeOK, ProgramsOK, Active, Unfinished
<1>2. /\ holder[x] \in {None, t}
      /\ holder' = [holder EXCEPT ![x] = t]
      /\ draft' = [draft EXCEPT ![x].balance = target[t]]
      /\ pc[t] = "write" /\ pc' = [pc EXCEPT ![t] = "insert"]
      /\ UNCHANGED <<committed, index, prog, step, target>>
  BY DEF UpdateBalance, CanLock
<1>3. draft'[x].journal = draft[x].journal /\ \A w \in Wallets \ {x} : draft'[w] = draft[w]
  BY <1>1, <1>2 DEF Typed, TypeOK, Rows
<1>4. Separate'
  BY <1>1, <1>2, LedgerAssumption DEF ChainsOK, Separate, Typed, TypeOK, Active, Unfinished
<1>5. ASSUME NEW w \in Wallets PROVE Chained(w, committed[w])' /\ Chained(w, draft[w])'
  <2>1. draft'[w].journal = draft[w].journal
    BY <1>3
  <2>2. Chained(w, committed'[w]) /\ Chained(w, draft'[w])
    BY <1>2, <2>1, SameJournal DEF ChainsOK
  <2> QED
    BY <2>2 DEF Chained, Before
<1>6. \A u \in Txs \ {t} : WriteOK(u)' /\ EntryOK(u)'
  BY <1>1, <1>2, <1>3, OthersUnaffected DEF Typed, TypeOK
<1>7. WriteOK(t)' /\ EntryOK(t)'
  <2>1. View(t, x) = draft[x]
    BY <1>1, <1>2 DEF View, RowsOK, LockOK
  <2>2. ~MidMovement(x)
    BY <1>1, <1>2, LedgerAssumption DEF MidMovement, RowsOK, InsertOK
  <2>3. target[t] = LastAfter(x, draft[x]) + Delta(Current(t))
    BY <1>1, <1>2, <2>1, <2>2 DEF ChainsOK, WriteOK, RowsOK, RowOK
  <2>4. Current(t)' = Current(t) /\ target' = target
    BY <1>2 DEF Current
  <2>5. LastAfter(x, draft[x])' = LastAfter(x, draft[x])
    BY <1>3, <2>4 DEF LastAfter
  <2>6. EntryOK(t)'
    BY <2>3, <2>4, <2>5 DEF EntryOK, Delta
  <2> QED
    BY <1>2, <2>6 DEF WriteOK, Typed, TypeOK
<1> QED
  BY <1>4, <1>5, <1>6, <1>7 DEF ChainsOK

LEMMA CreateChains ==
  ASSUME Typed, RowsOK, ChainsOK, NEW t \in Txs, CreateLedgerEntry(t)
  PROVE  ChainsOK'
<1> DEFINE x == Current(t).wallet
           e == [ref |-> Current(t).ref, delta |-> Delta(Current(t)), after |-> target[t]]
<1>1. x \in Wallets /\ x \in Touched(prog[t]) /\ Active(t) /\ e \in Entries
  <2>1. Current(t) \in Movements /\ x \in Wallets /\ Current(t).ref \in Refs
    BY InMovement DEF CreateLedgerEntry
  <2>2. x \in Touched(prog[t]) /\ Active(t)
    BY CurrentTouched
    DEF CreateLedgerEntry, Typed, TypeOK, ProgramsOK, Active, Unfinished
  <2>3. target[t] \in Nat
    BY DEF Typed, TypeOK
  <2> QED
    BY <2>1, <2>2, <2>3, DeltaInt DEF Entries
<1>2. /\ draft' = [draft EXCEPT ![x].journal = Append(draft[x].journal, e)]
      /\ pc[t] = "insert" /\ pc' = [pc EXCEPT ![t] = "ready"]
      /\ step' = [step EXCEPT ![t] = step[t] + 1]
      /\ UNCHANGED <<committed, holder, prog, target>>
  BY DEF CreateLedgerEntry
<1>3. e.after = LastAfter(x, draft[x]) + e.delta
  BY <1>2 DEF ChainsOK, EntryOK
<1> HIDE DEF x, e
<1>4. /\ draft'[x].journal = Append(draft[x].journal, e)
      /\ \A w \in Wallets \ {x} : draft'[w] = draft[w]
  BY <1>1, <1>2 DEF Typed, TypeOK, Rows
<1>5. Separate'
  BY <1>1, <1>2, LedgerAssumption DEF ChainsOK, Separate, Typed, TypeOK, Active, Unfinished
<1>6. ASSUME NEW w \in Wallets PROVE Chained(w, committed[w])' /\ Chained(w, draft[w])'
  <2>1. Chained(w, committed'[w])
    BY <1>2 DEF ChainsOK
  <2>2. Chained(w, draft'[w])
    <3>1. CASE w = x
      <4>1. draft[x] \in Rows /\ draft'[x] \in Rows
        BY <1>1, StepTyped DEF Next, Advance, Typed, TypeOK
      <4>2. Chained(x, draft[x])
        BY <1>1 DEF ChainsOK
      <4> QED
        BY <1>1, <1>3, <1>4, <3>1, <4>1, <4>2, ChainAppend
    <3>2. CASE w # x
      BY <1>4, <3>2 DEF ChainsOK
    <3> QED
      BY <3>1, <3>2
  <2> QED
    BY <2>1, <2>2 DEF Chained, Before
<1>7. \A u \in Txs \ {t} : WriteOK(u)' /\ EntryOK(u)'
  BY <1>1, <1>2, <1>4, OthersUnaffected DEF Typed, TypeOK
<1>8. WriteOK(t)' /\ EntryOK(t)'
  BY <1>2 DEF WriteOK, EntryOK, Typed, TypeOK
<1> QED
  BY <1>5, <1>6, <1>7, <1>8 DEF ChainsOK

LEMMA FrozenChains ==
  ASSUME Typed, RowsOK, ChainsOK, NEW t \in Txs, MoveFrozen(t)
  PROVE  ChainsOK'
<1> DEFINE x == Current(t).wallet
           f == draft[x].frozen + FrozenDelta(Current(t))
<1>1. x \in Wallets /\ x \in Touched(prog[t]) /\ Active(t)
  BY CurrentIsMovement, CurrentTouched DEF MoveFrozen, AtMovement, Movements, Active, Unfinished
<1>2. /\ holder' = [holder EXCEPT ![x] = t]
      /\ draft' = [draft EXCEPT ![x].frozen = f]
      /\ pc[t] = "ready"
      /\ step' = [step EXCEPT ![t] = step[t] + 1]
      /\ UNCHANGED <<committed, prog, pc, target>>
  BY DEF MoveFrozen, AtMovement
<1> HIDE DEF x, f
<1>3. draft'[x].journal = draft[x].journal /\ \A w \in Wallets \ {x} : draft'[w] = draft[w]
  BY <1>1, <1>2 DEF Typed, TypeOK, Rows
<1>4. Separate'
  BY <1>1, <1>2, LedgerAssumption DEF ChainsOK, Separate, Typed, TypeOK, Active, Unfinished
<1>5. ASSUME NEW w \in Wallets PROVE Chained(w, committed[w])' /\ Chained(w, draft[w])'
  <2>1. draft'[w].journal = draft[w].journal
    BY <1>3
  <2>2. Chained(w, committed'[w]) /\ Chained(w, draft'[w])
    BY <1>2, <2>1, SameJournal DEF ChainsOK
  <2> QED
    BY <2>2 DEF Chained, Before
<1>6. \A u \in Txs \ {t} : WriteOK(u)' /\ EntryOK(u)'
  BY <1>1, <1>2, <1>3, OthersUnaffected DEF Typed, TypeOK
<1>7. WriteOK(t)' /\ EntryOK(t)'
  BY <1>2 DEF WriteOK, EntryOK, Typed, TypeOK
<1> QED
  BY <1>4, <1>5, <1>6, <1>7 DEF ChainsOK

LEMMA CommitChains ==
  ASSUME Typed, RowsOK, ChainsOK, NEW t \in Txs, Commit(t)
  PROVE  ChainsOK'
<1>1. Active(t)
  BY DEF Commit, Active, Unfinished
<1>2. Separate'
  BY LedgerAssumption DEF Commit, ChainsOK, Separate, Typed, TypeOK, Active, Unfinished
<1>3. ASSUME NEW w \in Wallets PROVE Chained(w, committed[w])' /\ Chained(w, draft[w])'
  <2>1. draft' = draft /\ committed'[w] \in {committed[w], draft[w]}
    BY DEF Commit
  <2>2. Chained(w, committed'[w]) /\ Chained(w, draft'[w])
    BY <2>1 DEF ChainsOK
  <2> QED
    BY <2>2 DEF Chained, Before
<1>4. \A u \in Txs \ {t} : WriteOK(u)' /\ EntryOK(u)'
  BY <1>1, OthersUnaffected, HeldIsTouched DEF Commit, Typed, TypeOK
<1>5. WriteOK(t)' /\ EntryOK(t)'
  BY DEF Commit, WriteOK, EntryOK, Typed, TypeOK
<1> QED
  BY <1>2, <1>3, <1>4, <1>5 DEF ChainsOK

LEMMA ReadChains ==
  ASSUME Typed, RowsOK, ChainsOK, NEW t \in Txs, ReadWallet(t)
  PROVE  ChainsOK'
<1>1. /\ Active(t) /\ pc' = [pc EXCEPT ![t] = "write"]
      /\ target' = [target EXCEPT ![t] =
                      View(t, Current(t).wallet).balance + Delta(Current(t))]
      /\ UNCHANGED <<committed, draft, holder, prog, step>>
  BY DEF ReadWallet, AtMovement, Active, Unfinished
<1>2. Separate'
  BY <1>1 DEF ChainsOK, Separate, Typed, TypeOK, Active, Unfinished
<1>3. ASSUME NEW w \in Wallets PROVE Chained(w, committed[w])' /\ Chained(w, draft[w])'
  BY <1>1 DEF ChainsOK, Chained, Before
<1>4. \A u \in Txs \ {t} : WriteOK(u)' /\ EntryOK(u)'
  BY <1>1, OthersUnaffected DEF Typed, TypeOK
<1>5. WriteOK(t)' /\ EntryOK(t)'
  <2>1. View(t, Current(t).wallet)' = View(t, Current(t).wallet) /\ Current(t)' = Current(t)
    BY <1>1 DEF View, Current
  <2> QED
    BY <1>1, <2>1 DEF WriteOK, EntryOK, Typed, TypeOK, Delta
<1> QED
  BY <1>2, <1>3, <1>4, <1>5 DEF ChainsOK

LEMMA BeginChains ==
  ASSUME Typed, RowsOK, ChainsOK, NEW t \in Txs, NEW p \in Menu[t],
         Exclusive(p), Begin(t, p)
  PROVE  ChainsOK'
<1>1. \A w \in Wallets : holder[w] # t
  BY LedgerAssumption DEF RowsOK, LockOK, Active, Unfinished, Begin
<1>2. Separate'
  BY <1>1, LedgerAssumption
  DEF Begin, Exclusive, ChainsOK, Separate, Typed, TypeOK, Active, Unfinished
<1>3. ASSUME NEW w \in Wallets PROVE Chained(w, committed[w])' /\ Chained(w, draft[w])'
  BY DEF Begin, ChainsOK, Chained, Before
<1>4. ASSUME NEW u \in Txs PROVE WriteOK(u)' /\ EntryOK(u)'
  <2>1. CASE u = t
    BY <2>1 DEF Begin, WriteOK, EntryOK, Typed, TypeOK
  <2>2. CASE u # t
    BY <2>2 DEF Begin, ChainsOK, WriteOK, EntryOK, Typed, TypeOK, View, LastAfter, Current, Delta
  <2> QED
    BY <2>1, <2>2
<1> QED
  BY <1>2, <1>3, <1>4 DEF ChainsOK

LEMMA StepChains == Typed /\ RowsOK /\ ChainsOK /\ [ExclusiveNext]_vars => ChainsOK'
<1> SUFFICES ASSUME Typed, RowsOK, ChainsOK, [ExclusiveNext]_vars PROVE ChainsOK'
  OBVIOUS
<1>1. CASE UNCHANGED vars
  <2>1. Separate'
    BY <1>1 DEF vars, ChainsOK, Separate, Active
  <2>2. ASSUME NEW t \in Txs PROVE WriteOK(t)' /\ EntryOK(t)'
    <3>1. WriteOK(t) /\ EntryOK(t)
      BY DEF ChainsOK
    <3> QED
      BY <1>1, <3>1 DEF vars, WriteOK, EntryOK, LastAfter, Current, View, Delta
  <2>3. ASSUME NEW w \in Wallets PROVE Chained(w, committed[w])' /\ Chained(w, draft[w])'
    BY <1>1 DEF vars, ChainsOK, Chained, Before
  <2> QED
    BY <2>1, <2>2, <2>3 DEF ChainsOK
<1>2. CASE ExclusiveNext
  <2> PICK t \in Txs : \/ \E p \in Menu[t] : Exclusive(p) /\ Begin(t, p)
                       \/ Advance(t)
                       \/ Expire(t)
    BY <1>2 DEF ExclusiveNext
  <2>1. ASSUME NEW p \in Menu[t], Exclusive(p), Begin(t, p) PROVE ChainsOK'
    BY <2>1, BeginChains
  <2>2. CASE ReadWallet(t)
    BY <2>2, ReadChains
  <2>3. CASE UpdateBalance(t)
    BY <2>3, UpdateChains
  <2>4. CASE CreateLedgerEntry(t)
    BY <2>4, CreateChains
  <2>5. CASE MoveFrozen(t)
    BY <2>5, FrozenChains
  <2>6. CASE Commit(t)
    BY <2>6, CommitChains
  <2>7. CASE RejectOverdraft(t) \/ RejectDuplicate(t) \/ DeadlockVictim(t) \/ Expire(t)
    BY <2>7, RollbackChains
    DEF RejectOverdraft, RejectDuplicate, DeadlockVictim, Expire, AtMovement, Active, Unfinished
  <2> QED
    BY <2>1, <2>2, <2>3, <2>4, <2>5, <2>6, <2>7 DEF Advance
<1> QED
  BY <1>1, <1>2

(* When no two unfinished requests have a wallet in common, the journal of *)
(* every wallet explains its balance entry by entry.  The run              *)
(* WalletLedgerAudit shows that the condition cannot be dropped.           *)
THEOREM ExclusiveAuditable == ExclusiveSpec => []Auditable
<1>1. RowsOK /\ ChainsOK => Auditable
  BY DEF RowsOK, RowOK, ChainsOK, Auditable
<1> QED
  BY <1>1, InitTyped, StepTyped, InitRows, StepRows, InitChains, StepChains,
     ExclusiveIsNext, PTL DEF ExclusiveSpec

-----------------------------------------------------------------------------
(* The journals: who owns a reference, and what a transaction has entered. *)

(* The committed journal of a row is the beginning of its newest one, and  *)
(* all its entries belong to transactions that committed.                  *)
CommittedPart(w) ==
  \A i \in 1..Len(committed[w].journal) :
    /\ i \in 1..Len(draft[w].journal)
    /\ draft[w].journal[i] = committed[w].journal[i]
    /\ index[committed[w].journal[i].ref] \in Txs
    /\ pc[index[committed[w].journal[i].ref]] = "committed"

(* Whatever is in the newest journal of a row is owned by a transaction    *)
(* that committed or by the one that has the row locked.                   *)
Owned(w) ==
  \A i \in 1..Len(draft[w].journal) :
    LET owner == index[draft[w].journal[i].ref]
    IN  owner \in Txs /\ (pc[owner] = "committed" \/ owner = holder[w])

DraftUnique ==
  \A w, v \in Wallets :
    \A i \in 1..Len(draft[w].journal), j \in 1..Len(draft[v].journal) :
      draft[w].journal[i].ref = draft[v].journal[j].ref => w = v /\ i = j

Entered(row, m) ==
  \E i \in 1..Len(row.journal) : row.journal[i].ref = m.ref /\ row.journal[i].delta = Delta(m)

(* Each credit or debit that t has made is entered: in a row it has locked *)
(* while it runs, in the ledger when it committed.                         *)
Made(t, i) ==
  LET m == prog[t][i]
  IN  /\ index[m.ref] = t
      /\ Active(t) => holder[m.wallet] = t /\ Entered(draft[m.wallet], m)
      /\ pc[t] = "committed" => Entered(committed[m.wallet], m)

LegsOK(t) ==
  /\ pc[t] = "idle" => step[t] = 1
  /\ pc[t] = "committed" => step[t] > Len(prog[t])
  /\ pc[t] # "rolledback" =>
       \A i \in 1..Len(prog[t]) : i < step[t] /\ Ledgered(prog[t][i]) => Made(t, i)

JournalsOK ==
  /\ \A w \in Wallets : CommittedPart(w) /\ Owned(w)
  /\ DraftUnique
  /\ \A t \in Txs : LegsOK(t)

LEMMA InitJournals == Init => JournalsOK
BY DEF Init, JournalsOK, CommittedPart, Owned, DraftUnique, LegsOK

LEMMA LegIsMovement ==
  ASSUME Typed, NEW t \in Txs, NEW i \in 1..Len(prog[t]), Ledgered(prog[t][i])
  PROVE  /\ prog[t][i] \in Movements
         /\ prog[t][i].wallet \in Wallets
         /\ prog[t][i].ref \in Refs
<1>1. prog[t] \in Seq(Movements) /\ prog[t][i].ref \in Refs
  BY DEF Typed, TypeOK, ProgramsOK
<1>2. prog[t][i] \in Movements
  BY <1>1
<1> QED
  BY <1>1, <1>2 DEF Movements

LEMMA JournalEntries ==
  ASSUME Typed, NEW w \in Wallets
  PROVE  /\ Len(draft[w].journal) \in Nat /\ Len(committed[w].journal) \in Nat
         /\ \A i \in 1..Len(draft[w].journal) : draft[w].journal[i].ref \in Refs
         /\ \A i \in 1..Len(committed[w].journal) : committed[w].journal[i].ref \in Refs
<1>1. draft[w].journal \in Seq(Entries) /\ committed[w].journal \in Seq(Entries)
  BY DEF Typed, TypeOK, Rows
<1>2. /\ \A i \in 1..Len(draft[w].journal) : draft[w].journal[i] \in Entries
      /\ \A i \in 1..Len(committed[w].journal) : committed[w].journal[i] \in Entries
  BY <1>1
<1>3. \A e \in Entries : e.ref \in Refs
  BY DEF Entries
<1> QED
  BY <1>1, <1>2, <1>3

LEMMA SameEntered ==
  ASSUME NEW old, NEW new, NEW m, Entered(old, m),
         \A i \in 1..Len(old.journal) :
           i \in 1..Len(new.journal) /\ new.journal[i] = old.journal[i]
  PROVE  Entered(new, m)
BY DEF Entered

(* A step of t that enters nothing in a journal and does not end t.        *)
LEMMA QuietJournals ==
  ASSUME Typed, JournalsOK, NEW t \in Txs,
         committed' = committed, index' = index,
         \A w \in Wallets : draft'[w].journal = draft[w].journal,
         \A w \in Wallets :
           holder'[w] = holder[w] \/ (holder'[w] = t /\ holder[w] \in {None, t}),
         pc[t] \in Unfinished \cup {"idle"}, Active(t)',
         \A u \in Txs \ {t} :
           pc'[u] = pc[u] /\ prog'[u] = prog[u] /\ step'[u] = step[u],
         LegsOK(t)'
  PROVE  JournalsOK'
<1>1. ASSUME NEW w \in Wallets PROVE CommittedPart(w)'
  BY DEF JournalsOK, CommittedPart, Active, Unfinished
<1>2. ASSUME NEW w \in Wallets PROVE Owned(w)'
  <2> SUFFICES ASSUME NEW i \in 1..Len(draft[w].journal)
               PROVE  LET owner == index[draft[w].journal[i].ref]
                      IN  owner \in Txs /\ (pc'[owner] = "committed" \/ owner = holder'[w])
    BY DEF Owned
  <2> DEFINE owner == index[draft[w].journal[i].ref]
  <2>1. owner \in Txs /\ (pc[owner] = "committed" \/ owner = holder[w])
    BY DEF JournalsOK, Owned
  <2> HIDE DEF owner
  <2>2. holder[w] = owner => holder'[w] = owner
    BY <2>1, LedgerAssumption
  <2>3. pc[owner] = "committed" => pc'[owner] = "committed"
    BY <2>1 DEF Unfinished
  <2> QED
    BY <2>1, <2>2, <2>3 DEF owner
<1>3. DraftUnique'
  <2> SUFFICES ASSUME NEW w \in Wallets, NEW v \in Wallets,
                      NEW i \in 1..Len(draft'[w].journal),
                      NEW j \in 1..Len(draft'[v].journal),
                      draft'[w].journal[i].ref = draft'[v].journal[j].ref
               PROVE  w = v /\ i = j
    BY DEF DraftUnique
  <2>1. draft'[w].journal = draft[w].journal /\ draft'[v].journal = draft[v].journal
    OBVIOUS
  <2>2. /\ i \in 1..Len(draft[w].journal) /\ j \in 1..Len(draft[v].journal)
        /\ draft[w].journal[i].ref = draft[v].journal[j].ref
    BY <2>1
  <2> QED
    BY <2>2 DEF JournalsOK, DraftUnique
<1>4. ASSUME NEW u \in Txs \ {t} PROVE LegsOK(u)'
  <2>1. /\ pc[u] = "idle" => step[u] = 1
        /\ pc[u] = "committed" => step[u] > Len(prog[u])
    BY DEF JournalsOK, LegsOK
  <2>2. ASSUME pc[u] # "rolledback", NEW i \in 1..Len(prog[u]),
               i < step[u], Ledgered(prog[u][i])
        PROVE  Made(u, i)'
    <3>1. Made(u, i)
      BY <2>2 DEF JournalsOK, LegsOK
    <3>2. prog[u][i].wallet \in Wallets
      BY <2>2, LegIsMovement
    <3>3. Active(u)' => Active(u)
      BY DEF Active
    <3>4. Entered(draft[prog[u][i].wallet], prog[u][i])
            => Entered(draft'[prog[u][i].wallet], prog[u][i])
      BY <3>2, SameEntered
    <3>5. holder[prog[u][i].wallet] = u => holder'[prog[u][i].wallet] = u
      BY <3>2, LedgerAssumption
    <3> QED
      BY <3>1, <3>3, <3>4, <3>5 DEF Made
  <2> QED
    BY <2>1, <2>2 DEF LegsOK, Ledgered
<1> QED
  BY <1>1, <1>2, <1>3, <1>4 DEF JournalsOK

LEMMA CreateJournals ==
  ASSUME Typed, RowsOK, JournalsOK, NEW t \in Txs, CreateLedgerEntry(t)
  PROVE  JournalsOK'
<1> DEFINE m == Current(t)
           x == m.wallet
           e == [ref |-> m.ref, delta |-> Delta(m), after |-> target[t]]
<1>1. /\ m \in Movements /\ x \in Wallets /\ m.ref \in Refs
      /\ step[t] \in 1..Len(prog[t]) /\ m = prog[t][step[t]]
  BY InMovement DEF CreateLedgerEntry, Typed, ProgramsOK, Current
<1>2. /\ draft' = [draft EXCEPT ![x].journal = Append(draft[x].journal, e)]
      /\ index[m.ref] = None
      /\ index' = [index EXCEPT ![m.ref] = t]
      /\ pc[t] = "insert"
      /\ pc' = [pc EXCEPT ![t] = "ready"]
      /\ step' = [step EXCEPT ![t] = step[t] + 1]
      /\ UNCHANGED <<committed, holder, prog, target>>
  BY DEF CreateLedgerEntry
<1>3. holder[x] = t
  BY <1>2 DEF RowsOK, InsertOK
<1>4. e \in Entries /\ e.ref = m.ref /\ e.delta = Delta(m)
  BY <1>1, DeltaInt DEF Entries, Typed, TypeOK
<1>5. draft[x].journal \in Seq(Entries) /\ None \notin Txs
  BY <1>1, LedgerAssumption DEF Typed, TypeOK, Rows
<1> HIDE DEF m, x, e
<1>6. /\ draft'[x].journal = Append(draft[x].journal, e)
      /\ \A w \in Wallets \ {x} : draft'[w] = draft[w]
  BY <1>1, <1>2 DEF Typed, TypeOK, Rows
<1>7. /\ Len(draft'[x].journal) = Len(draft[x].journal) + 1
      /\ \A i \in 1..Len(draft[x].journal) : draft'[x].journal[i] = draft[x].journal[i]
      /\ draft'[x].journal[Len(draft[x].journal) + 1] = e
      /\ Len(draft[x].journal) \in Nat
  BY <1>4, <1>5, <1>6, AppendProperties
<1>8. \A w \in Wallets : \A i \in 1..Len(draft[w].journal) :
        draft[w].journal[i].ref \in Refs \ {m.ref}
  <2> SUFFICES ASSUME NEW w \in Wallets, NEW i \in 1..Len(draft[w].journal)
               PROVE  draft[w].journal[i].ref \in Refs \ {m.ref}
    OBVIOUS
  <2>1. draft[w].journal[i] \in Entries
    BY DEF Typed, TypeOK, Rows
  <2>2. index[draft[w].journal[i].ref] \in Txs
    BY DEF JournalsOK, Owned
  <2> QED
    BY <2>1, <2>2, <1>2, <1>5 DEF Entries
<1>15. ASSUME NEW w \in Wallets, NEW i \in 1..Len(draft'[w].journal),
              ~(w = x /\ i = Len(draft[x].journal) + 1)
       PROVE  i \in 1..Len(draft[w].journal) /\ draft'[w].journal[i] = draft[w].journal[i]
  <2>1. CASE w = x
    <3>1. i \in 1..Len(draft[x].journal)
      BY <1>7, <1>15, <2>1
    <3> QED
      BY <1>7, <2>1, <3>1
  <2>2. CASE w # x
    BY <1>6, <2>2
  <2> QED
    BY <2>1, <2>2
<1>9. \A r \in Refs \ {m.ref} : index'[r] = index[r]
  BY <1>2
<1>10. index'[m.ref] = t
  BY <1>1, <1>2 DEF Typed, TypeOK
<1>11. ASSUME NEW w \in Wallets PROVE CommittedPart(w)'
  <2> SUFFICES ASSUME NEW i \in 1..Len(committed[w].journal)
               PROVE  /\ i \in 1..Len(draft'[w].journal)
                      /\ draft'[w].journal[i] = committed[w].journal[i]
                      /\ index'[committed[w].journal[i].ref] \in Txs
                      /\ pc'[index'[committed[w].journal[i].ref]] = "committed"
    BY <1>2 DEF CommittedPart
  <2>1. /\ i \in 1..Len(draft[w].journal)
        /\ draft[w].journal[i] = committed[w].journal[i]
        /\ index[committed[w].journal[i].ref] \in Txs
        /\ pc[index[committed[w].journal[i].ref]] = "committed"
    BY DEF JournalsOK, CommittedPart
  <2>2. i \in 1..Len(draft'[w].journal) /\ draft'[w].journal[i] = draft[w].journal[i]
    <3>1. CASE w = x
      BY <2>1, <1>7, <3>1
    <3>2. CASE w # x
      <4>1. draft'[w] = draft[w]
        BY <1>6, <3>2
      <4> QED
        BY <2>1, <4>1
    <3> QED
      BY <3>1, <3>2
  <2>3. index'[committed[w].journal[i].ref] = index[committed[w].journal[i].ref]
    BY <2>1, <1>8, <1>9
  <2> QED
    BY <1>2, <2>1, <2>2, <2>3
<1>12. ASSUME NEW w \in Wallets PROVE Owned(w)'
  <2> SUFFICES ASSUME NEW i \in 1..Len(draft'[w].journal)
               PROVE  LET owner == index'[draft'[w].journal[i].ref]
                      IN  owner \in Txs /\ (pc'[owner] = "committed" \/ owner = holder[w])
    BY <1>2 DEF Owned
  <2>1. CASE w = x /\ i = Len(draft[x].journal) + 1
    BY <2>1, <1>3, <1>4, <1>7, <1>10
  <2>2. CASE ~(w = x /\ i = Len(draft[x].journal) + 1)
    <3>1. i \in 1..Len(draft[w].journal) /\ draft'[w].journal[i] = draft[w].journal[i]
      BY <2>2, <1>15
    <3>2. index'[draft'[w].journal[i].ref] = index[draft[w].journal[i].ref]
      BY <3>1, <1>8, <1>9
    <3>3. LET owner == index[draft[w].journal[i].ref]
          IN  owner \in Txs /\ (pc[owner] = "committed" \/ owner = holder[w])
      BY <3>1 DEF JournalsOK, Owned
    <3> QED
      BY <1>2, <3>2, <3>3 DEF Typed, TypeOK
  <2> QED
    BY <2>1, <2>2
<1>13. DraftUnique'
  <2> SUFFICES ASSUME NEW w \in Wallets, NEW v \in Wallets,
                      NEW i \in 1..Len(draft'[w].journal),
                      NEW j \in 1..Len(draft'[v].journal),
                      draft'[w].journal[i].ref = draft'[v].journal[j].ref
               PROVE  w = v /\ i = j
    BY DEF DraftUnique
  <2> DEFINE New(y, k) == y = x /\ k = Len(draft[x].journal) + 1
  <2>1. ~New(w, i) => i \in 1..Len(draft[w].journal)
                      /\ draft'[w].journal[i] = draft[w].journal[i]
    BY <1>15
  <2>2. ~New(v, j) => j \in 1..Len(draft[v].journal)
                      /\ draft'[v].journal[j] = draft[v].journal[j]
    BY <1>15
  <2>3. New(w, i) => draft'[w].journal[i].ref = m.ref
    BY <1>4, <1>7
  <2>4. New(v, j) => draft'[v].journal[j].ref = m.ref
    BY <1>4, <1>7
  <2>5. CASE New(w, i) /\ New(v, j)
    BY <2>5
  <2>6. CASE ~New(w, i) /\ ~New(v, j)
    <3>1. draft[w].journal[i].ref = draft[v].journal[j].ref
      BY <2>1, <2>2, <2>6
    <3>2. i \in 1..Len(draft[w].journal) /\ j \in 1..Len(draft[v].journal)
      BY <2>1, <2>2, <2>6
    <3>3. DraftUnique
      BY DEF JournalsOK
    <3> QED
      BY <3>1, <3>2, <3>3 DEF DraftUnique
  <2>7. CASE New(w, i) /\ ~New(v, j)
    BY <2>2, <2>3, <2>7, <1>8
  <2>8. CASE ~New(w, i) /\ New(v, j)
    BY <2>1, <2>4, <2>8, <1>8
  <2> QED
    BY <2>5, <2>6, <2>7, <2>8
<1>14. ASSUME NEW u \in Txs PROVE LegsOK(u)'
  <2>1. /\ pc'[u] = "idle" => step'[u] = 1
        /\ pc'[u] = "committed" => step'[u] > Len(prog'[u])
    BY <1>2 DEF JournalsOK, LegsOK, Typed, TypeOK
  <2>2. ASSUME pc'[u] # "rolledback", NEW i \in 1..Len(prog[u]),
               i < step'[u], Ledgered(prog[u][i])
        PROVE  Made(u, i)'
    <3>1. prog[u][i].ref \in Refs /\ prog[u][i].wallet \in Wallets
      BY <2>2, LegIsMovement
    <3>2. CASE u = t /\ i = step[t]
      <4>1. prog[u][i] = m
        BY <1>1, <3>2
      <4>2. Entered(draft'[x], m)
        <5>1. Len(draft[x].journal) + 1 \in 1..Len(draft'[x].journal)
          BY <1>7
        <5> QED
          BY <1>4, <1>7, <5>1 DEF Entered
      <4>3. prog'[u][i] = m /\ m.wallet = x
        BY <1>2, <4>1 DEF x
      <4>4. pc'[t] = "ready" /\ holder' = holder
        BY <1>2 DEF Typed, TypeOK
      <4> QED
        BY <1>3, <1>10, <3>2, <4>2, <4>3, <4>4 DEF Made
    <3>3. CASE ~(u = t /\ i = step[t])
      <4>1. i < step[u] /\ pc[u] # "rolledback"
        BY <1>2, <2>2, <3>3 DEF Typed, TypeOK
      <4>2. Made(u, i)
        BY <2>2, <4>1 DEF JournalsOK, LegsOK
      <4>3. prog[u][i].ref # m.ref
        BY <1>2, <1>5, <4>2 DEF Made
      <4>4. Active(u)' <=> Active(u)
        BY <1>2 DEF Active, Unfinished, Typed, TypeOK
      <4>5. pc'[u] = "committed" <=> pc[u] = "committed"
        BY <1>2 DEF Typed, TypeOK
      <4>6. Entered(draft[prog[u][i].wallet], prog[u][i])
              => Entered(draft'[prog[u][i].wallet], prog[u][i])
        <5>1. \A k \in 1..Len(draft[prog[u][i].wallet].journal) :
                /\ k \in 1..Len(draft'[prog[u][i].wallet].journal)
                /\ draft'[prog[u][i].wallet].journal[k] = draft[prog[u][i].wallet].journal[k]
          <6>1. CASE prog[u][i].wallet = x
            BY <1>7, <6>1
          <6>2. CASE prog[u][i].wallet # x
            BY <1>6, <3>1, <6>2
          <6> QED
            BY <6>1, <6>2
        <5> QED
          BY <5>1, SameEntered
      <4>7. index'[prog[u][i].ref] = index[prog[u][i].ref]
        BY <1>9, <3>1, <4>3
      <4> QED
        BY <1>2, <4>2, <4>4, <4>5, <4>6, <4>7 DEF Made
    <3> QED
      BY <3>2, <3>3
  <2> QED
    BY <1>2, <2>1, <2>2 DEF LegsOK, Ledgered
<1> QED
  BY <1>11, <1>12, <1>13, <1>14 DEF JournalsOK

LEMMA CommitJournals ==
  ASSUME Typed, JournalsOK, NEW t \in Txs, Commit(t)
  PROVE  JournalsOK'
<1>1. /\ pc[t] = "ready" /\ step[t] > Len(prog[t])
      /\ pc' = [pc EXCEPT ![t] = "committed"]
      /\ UNCHANGED <<draft, index, prog, step, target>>
      /\ \A w \in Wallets :
           /\ committed'[w] = IF holder[w] = t THEN draft[w] ELSE committed[w]
           /\ holder'[w] = IF holder[w] = t THEN None ELSE holder[w]
  BY DEF Commit
<1>2. \A u \in Txs : pc'[u] = IF u = t THEN "committed" ELSE pc[u]
  BY <1>1 DEF Typed, TypeOK
<1>3. ASSUME NEW w \in Wallets PROVE CommittedPart(w)'
  BY <1>1, <1>2 DEF JournalsOK, CommittedPart, Owned
<1>4. ASSUME NEW w \in Wallets PROVE Owned(w)'
  BY <1>1, <1>2 DEF JournalsOK, Owned
<1>5. DraftUnique'
  BY <1>1 DEF JournalsOK, DraftUnique
<1>6. ASSUME NEW u \in Txs PROVE LegsOK(u)'
  <2>1. /\ pc'[u] = "idle" => step'[u] = 1
        /\ pc'[u] = "committed" => step'[u] > Len(prog'[u])
    BY <1>1, <1>2 DEF JournalsOK, LegsOK
  <2>2. ASSUME pc'[u] # "rolledback", NEW i \in 1..Len(prog[u]),
               i < step[u], Ledgered(prog[u][i])
        PROVE  Made(u, i)'
    <3>1. Made(u, i) /\ prog[u][i].wallet \in Wallets
      BY <1>1, <1>2, <2>2, LegIsMovement DEF JournalsOK, LegsOK
    <3>2. CASE u = t
      <4>1. Active(t) /\ ~Active(t)'
        BY <1>1, <1>2 DEF Active, Unfinished
      <4>2. holder[prog[u][i].wallet] = t /\ Entered(draft[prog[u][i].wallet], prog[u][i])
        BY <3>1, <3>2, <4>1 DEF Made
      <4>3. committed'[prog[u][i].wallet] = draft[prog[u][i].wallet]
        BY <1>1, <3>1, <4>2
      <4> QED
        BY <1>1, <3>1, <3>2, <4>1, <4>2, <4>3 DEF Made
    <3>3. CASE u # t
      <4>1. Active(u)' => holder[prog[u][i].wallet] = u
        BY <1>2, <3>1, <3>3 DEF Made, Active
      <4>2. Entered(committed[prog[u][i].wallet], prog[u][i])
              => Entered(committed'[prog[u][i].wallet], prog[u][i])
        <5>1. \A k \in 1..Len(committed[prog[u][i].wallet].journal) :
                /\ k \in 1..Len(draft[prog[u][i].wallet].journal)
                /\ draft[prog[u][i].wallet].journal[k] = committed[prog[u][i].wallet].journal[k]
          BY <3>1 DEF JournalsOK, CommittedPart
        <5>2. committed'[prog[u][i].wallet] \in
                {draft[prog[u][i].wallet], committed[prog[u][i].wallet]}
          BY <1>1, <3>1
        <5>3. Entered(committed[prog[u][i].wallet], prog[u][i])
                => Entered(draft[prog[u][i].wallet], prog[u][i])
          <6> DEFINE old == committed[prog[u][i].wallet]
                     new == draft[prog[u][i].wallet]
          <6>1. \A k \in 1..Len(old.journal) :
                  k \in 1..Len(new.journal) /\ new.journal[k] = old.journal[k]
            BY <5>1
          <6> HIDE DEF old, new
          <6>2. Entered(old, prog[u][i]) => Entered(new, prog[u][i])
            BY <6>1, SameEntered
          <6> QED
            BY <6>2 DEF old, new
        <5>4. CASE committed'[prog[u][i].wallet] = draft[prog[u][i].wallet]
          BY <5>3, <5>4
        <5>5. CASE committed'[prog[u][i].wallet] = committed[prog[u][i].wallet]
          BY <5>5
        <5> QED
          BY <5>2, <5>4, <5>5
      <4>3. pc'[u] = pc[u] /\ (Active(u)' <=> Active(u))
        BY <1>2, <3>3 DEF Active
      <4>4. Active(u)' => holder'[prog[u][i].wallet] = u
        BY <1>1, <3>1, <3>3, <4>1
      <4> QED
        BY <1>1, <3>1, <4>2, <4>3, <4>4 DEF Made
    <3> QED
      BY <3>2, <3>3
  <2> QED
    BY <1>1, <2>1, <2>2 DEF LegsOK, Ledgered
<1> QED
  BY <1>3, <1>4, <1>5, <1>6 DEF JournalsOK

LEMMA RollbackJournals ==
  ASSUME Typed, RowsOK, JournalsOK, NEW t \in Txs, Active(t), Rollback(t)
  PROVE  JournalsOK'
<1>1. /\ pc' = [pc EXCEPT ![t] = "rolledback"]
      /\ UNCHANGED <<committed, prog, step, target>>
      /\ \A w \in Wallets :
           /\ draft'[w] = IF holder[w] = t THEN committed[w] ELSE draft[w]
           /\ holder'[w] = IF holder[w] = t THEN None ELSE holder[w]
      /\ \A r \in Refs : index'[r] = IF index[r] = t THEN None ELSE index[r]
  BY DEF Rollback
<1>2. /\ \A u \in Txs : pc'[u] = IF u = t THEN "rolledback" ELSE pc[u]
      /\ pc[t] # "committed"
  BY <1>1 DEF Typed, TypeOK, Active, Unfinished
<1>3. \A w \in Wallets :
        /\ \A i \in 1..Len(committed[w].journal) : committed[w].journal[i].ref \in Refs
        /\ \A i \in 1..Len(draft[w].journal) : draft[w].journal[i].ref \in Refs
  BY JournalEntries
<1>4. ASSUME NEW w \in Wallets PROVE CommittedPart(w)'
  BY <1>1, <1>2, <1>3 DEF JournalsOK, CommittedPart
<1>5. ASSUME NEW w \in Wallets PROVE Owned(w)'
  <2>1. CASE holder[w] = t
    <3>1. draft'[w] = committed[w]
      BY <1>1, <2>1
    <3>2. ASSUME NEW i \in 1..Len(committed[w].journal)
          PROVE  LET owner == index'[committed[w].journal[i].ref]
                 IN  owner \in Txs /\ pc'[owner] = "committed"
      <4>1. /\ index[committed[w].journal[i].ref] \in Txs \ {t}
            /\ pc[index[committed[w].journal[i].ref]] = "committed"
        BY <1>2, <3>2 DEF JournalsOK, CommittedPart
      <4>2. index'[committed[w].journal[i].ref] = index[committed[w].journal[i].ref]
        BY <1>1, <1>3, <3>2, <4>1
      <4> QED
        BY <1>2, <4>1, <4>2
    <3> QED
      BY <3>1, <3>2 DEF Owned
  <2>2. CASE holder[w] # t
    <3>1. draft'[w] = draft[w] /\ holder'[w] = holder[w]
      BY <1>1, <2>2
    <3>2. ASSUME NEW i \in 1..Len(draft[w].journal)
          PROVE  LET owner == index'[draft[w].journal[i].ref]
                 IN  owner \in Txs /\ (pc'[owner] = "committed" \/ owner = holder[w])
      <4>1. index[draft[w].journal[i].ref] \in Txs \ {t}
        BY <1>2, <2>2, <3>2 DEF JournalsOK, Owned
      <4>2. index'[draft[w].journal[i].ref] = index[draft[w].journal[i].ref]
        BY <1>1, <1>3, <3>2, <4>1
      <4> QED
        BY <1>2, <3>2, <4>1, <4>2 DEF JournalsOK, Owned
    <3> QED
      BY <3>1, <3>2 DEF Owned
  <2> QED
    BY <2>1, <2>2
<1>6. DraftUnique'
  <2>1. \A w \in Wallets : \A i \in 1..Len(draft'[w].journal) :
          i \in 1..Len(draft[w].journal) /\ draft'[w].journal[i] = draft[w].journal[i]
    BY <1>1 DEF JournalsOK, CommittedPart
  <2> SUFFICES ASSUME NEW w \in Wallets, NEW v \in Wallets,
                      NEW i \in 1..Len(draft'[w].journal),
                      NEW j \in 1..Len(draft'[v].journal),
                      draft'[w].journal[i].ref = draft'[v].journal[j].ref
               PROVE  w = v /\ i = j
    BY DEF DraftUnique
  <2>2. draft[w].journal[i].ref = draft[v].journal[j].ref
    BY <2>1
  <2> QED
    BY <2>1, <2>2 DEF JournalsOK, DraftUnique
<1>7. ASSUME NEW u \in Txs PROVE LegsOK(u)'
  <2>1. /\ pc'[u] = "idle" => step'[u] = 1
        /\ pc'[u] = "committed" => step'[u] > Len(prog'[u])
    BY <1>1, <1>2 DEF JournalsOK, LegsOK
  <2>2. ASSUME pc'[u] # "rolledback", NEW i \in 1..Len(prog[u]),
               i < step[u], Ledgered(prog[u][i])
        PROVE  Made(u, i)'
    <3>1. Made(u, i) /\ prog[u][i].wallet \in Wallets /\ prog[u][i].ref \in Refs /\ u # t
      BY <1>1, <1>2, <2>2, LegIsMovement DEF JournalsOK, LegsOK
    <3>2. pc'[u] = pc[u] /\ index'[prog[u][i].ref] = u
      BY <1>1, <1>2, <3>1 DEF Made
    <3>3. /\ holder[prog[u][i].wallet] = u
               => /\ holder'[prog[u][i].wallet] = u
                  /\ draft'[prog[u][i].wallet] = draft[prog[u][i].wallet]
          /\ Active(u)' <=> Active(u)
      BY <1>1, <3>1, <3>2 DEF Active
    <3> QED
      BY <1>1, <3>1, <3>2, <3>3 DEF Made
  <2> QED
    BY <1>1, <2>1, <2>2 DEF LegsOK, Ledgered
<1> QED
  BY <1>4, <1>5, <1>6, <1>7 DEF JournalsOK

LEMMA StepJournals == Typed /\ RowsOK /\ JournalsOK /\ [Next]_vars => JournalsOK'
<1> SUFFICES ASSUME Typed, RowsOK, JournalsOK, [Next]_vars PROVE JournalsOK'
  OBVIOUS
<1>1. CASE UNCHANGED vars
  <2>1. /\ \A t \in Txs : LegsOK(t)' <=> LegsOK(t)
        /\ \A w \in Wallets : CommittedPart(w)' /\ Owned(w)'
        /\ DraftUnique'
    BY <1>1 DEF vars, LegsOK, Made, Active, JournalsOK, CommittedPart, Owned, DraftUnique
  <2> QED
    BY <2>1 DEF JournalsOK
<1>2. CASE Next
  <2> PICK t \in Txs : \/ \E p \in Menu[t] : Begin(t, p)
                       \/ Advance(t)
                       \/ Expire(t)
    BY <1>2 DEF Next
  <2>0. LegsOK(t)
    BY DEF JournalsOK
  <2>1. ASSUME NEW p \in Menu[t], Begin(t, p) PROVE JournalsOK'
    <3>1. LegsOK(t)'
      BY <2>0, <2>1 DEF Begin, LegsOK, Typed, TypeOK
    <3> QED
      BY <2>1, <3>1, QuietJournals DEF Begin, Typed, TypeOK, Active, Unfinished
  <2>2. CASE ReadWallet(t)
    <3>1. /\ pc[t] = "ready" /\ pc' = [pc EXCEPT ![t] = "write"]
          /\ UNCHANGED <<committed, draft, holder, index, prog, step>>
      BY <2>2 DEF ReadWallet, AtMovement
    <3>2. LegsOK(t)'
      BY <2>0, <3>1
      DEF LegsOK, Made, Entered, Typed, TypeOK, Active, Unfinished, Ledgered, Delta
    <3> QED
      BY <3>1, <3>2, QuietJournals DEF Typed, TypeOK, Active, Unfinished
  <2>3. CASE UpdateBalance(t)
    <3> DEFINE x == Current(t).wallet
    <3>1. /\ pc[t] = "write" /\ pc' = [pc EXCEPT ![t] = "insert"]
          /\ x \in Wallets
          /\ holder[x] \in {None, t}
          /\ holder' = [holder EXCEPT ![x] = t]
          /\ draft' = [draft EXCEPT ![x].balance = target[t]]
          /\ UNCHANGED <<committed, index, prog, step>>
      BY <2>3, InMovement DEF UpdateBalance, CanLock
    <3> HIDE DEF x
    <3>2. \A w \in Wallets : draft'[w].journal = draft[w].journal
      BY <3>1 DEF Typed, TypeOK, Rows
    <3>3. ASSUME NEW i \in 1..Len(prog[t]), i < step[t], Ledgered(prog[t][i])
          PROVE  Made(t, i)'
      <4>1. Made(t, i) /\ prog[t][i].wallet \in Wallets
        BY <2>0, <3>1, <3>3, LegIsMovement DEF LegsOK
      <4>2. Entered(draft[prog[t][i].wallet], prog[t][i])
              => Entered(draft'[prog[t][i].wallet], prog[t][i])
        BY <3>2, <4>1, SameEntered
      <4>3. holder[prog[t][i].wallet] = t => holder'[prog[t][i].wallet] = t
        BY <3>1, <4>1 DEF Typed, TypeOK
      <4>4. Active(t) /\ pc'[t] = "insert"
        BY <3>1 DEF Typed, TypeOK, Active, Unfinished
      <4> QED
        BY <3>1, <4>1, <4>2, <4>3, <4>4 DEF Made
    <3>4. LegsOK(t)'
      BY <3>1, <3>3 DEF LegsOK, Typed, TypeOK, Ledgered
    <3> QED
      BY <3>1, <3>2, <3>4, QuietJournals DEF Typed, TypeOK, Active, Unfinished
  <2>4. CASE CreateLedgerEntry(t)
    BY <2>4, CreateJournals
  <2>5. CASE MoveFrozen(t)
    <3> DEFINE x == Current(t).wallet
               f == draft[x].frozen + FrozenDelta(Current(t))
    <3>1. /\ pc[t] = "ready" /\ pc' = pc
          /\ x \in Wallets
          /\ holder[x] \in {None, t}
          /\ holder' = [holder EXCEPT ![x] = t]
          /\ draft' = [draft EXCEPT ![x].frozen = f]
          /\ step' = [step EXCEPT ![t] = step[t] + 1]
          /\ UNCHANGED <<committed, index, prog>>
          /\ ~Ledgered(prog[t][step[t]])
      BY <2>5, CurrentIsMovement DEF MoveFrozen, CanLock, AtMovement, Movements, Current, Ledgered
    <3> HIDE DEF x, f
    <3>2. \A w \in Wallets : draft'[w].journal = draft[w].journal
      BY <3>1 DEF Typed, TypeOK, Rows
    <3>3. ASSUME NEW i \in 1..Len(prog[t]), i < step'[t], Ledgered(prog[t][i])
          PROVE  Made(t, i)'
      <4>1. i < step[t]
        BY <3>1, <3>3 DEF Typed, TypeOK
      <4>2. Made(t, i) /\ prog[t][i].wallet \in Wallets
        BY <2>0, <3>1, <3>3, <4>1, LegIsMovement DEF LegsOK
      <4>3. Entered(draft[prog[t][i].wallet], prog[t][i])
              => Entered(draft'[prog[t][i].wallet], prog[t][i])
        BY <3>2, <4>2, SameEntered
      <4>4. holder[prog[t][i].wallet] = t => holder'[prog[t][i].wallet] = t
        BY <3>1, <4>2 DEF Typed, TypeOK
      <4>5. Active(t)
        BY <3>1 DEF Active, Unfinished
      <4> QED
        BY <3>1, <4>2, <4>3, <4>4, <4>5 DEF Made
    <3>4. LegsOK(t)'
      BY <3>1, <3>3 DEF LegsOK, Typed, TypeOK, Ledgered
    <3> QED
      BY <3>1, <3>2, <3>4, QuietJournals DEF Typed, TypeOK, Active, Unfinished
  <2>6. CASE Commit(t)
    BY <2>6, CommitJournals
  <2>7. CASE RejectOverdraft(t) \/ RejectDuplicate(t) \/ DeadlockVictim(t) \/ Expire(t)
    BY <2>7, RollbackJournals
    DEF RejectOverdraft, RejectDuplicate, DeadlockVictim, Expire, AtMovement, Active, Unfinished
  <2> QED
    BY <2>1, <2>2, <2>3, <2>4, <2>5, <2>6, <2>7 DEF Advance
<1> QED
  BY <1>1, <1>2

(* The ledger is true to the balances and holds a reference at most once,  *)
(* whichever requests are retried or overlap: the guard every money        *)
(* service relies on (LedgerEntry.reference @unique).                      *)
THEOREM LedgerSound == Spec => []EntriesSound
<1>1. RowsOK => LastEntryAgrees
  BY DEF RowsOK, RowOK, LastEntryAgrees
<1>2. JournalsOK => ReferencesUnique
  <2> SUFFICES ASSUME JournalsOK, NEW w \in Wallets, NEW v \in Wallets,
                      NEW i \in 1..Len(committed[w].journal),
                      NEW j \in 1..Len(committed[v].journal),
                      committed[w].journal[i].ref = committed[v].journal[j].ref
               PROVE  w = v /\ i = j
    BY DEF ReferencesUnique
  <2>1. /\ i \in 1..Len(draft[w].journal) /\ draft[w].journal[i] = committed[w].journal[i]
        /\ j \in 1..Len(draft[v].journal) /\ draft[v].journal[j] = committed[v].journal[j]
    BY DEF JournalsOK, CommittedPart
  <2>2. draft[w].journal[i].ref = draft[v].journal[j].ref
    BY <2>1
  <2>3. \A k \in 1..Len(draft[w].journal), l \in 1..Len(draft[v].journal) :
          draft[w].journal[k].ref = draft[v].journal[l].ref => w = v /\ k = l
    BY DEF JournalsOK, DraftUnique
  <2> QED
    BY <2>1, <2>2, <2>3
<1>3. RowsOK /\ JournalsOK => EntriesSound
  BY <1>1, <1>2 DEF EntriesSound
<1> QED
  BY <1>3, InitTyped, StepTyped, InitRows, StepRows, InitJournals, StepJournals, PTL DEF Spec

(* A money transaction leaves all its ledger entries or none               *)
(* (applyLedgerMovementInTx composed in an outer transaction), whatever    *)
(* statement it is rolled back at.                                         *)
THEOREM TransactionsAtomic == Spec => []AllOrNothing
<1>1. Typed /\ JournalsOK => AllOrNothing
  <2> SUFFICES ASSUME Typed, JournalsOK PROVE AllOrNothing
    OBVIOUS
  <2>1. ASSUME NEW t \in Txs, pc[t] = "committed", NEW i \in 1..Len(prog[t]),
               Ledgered(prog[t][i])
        PROVE  index[prog[t][i].ref] = t /\ InJournal(prog[t][i])
    <3>1. i < step[t]
      BY <2>1 DEF JournalsOK, LegsOK, Typed, TypeOK
    <3>2. Made(t, i)
      BY <2>1, <3>1 DEF JournalsOK, LegsOK
    <3> QED
      BY <2>1, <3>2 DEF Made, Entered, InJournal
  <2>2. ASSUME NEW w \in Wallets, NEW i \in 1..Len(committed[w].journal)
        PROVE  LET owner == index[committed[w].journal[i].ref]
               IN  owner \in Txs /\ pc[owner] = "committed"
    BY DEF JournalsOK, CommittedPart
  <2> QED
    BY <2>1, <2>2 DEF AllOrNothing
<1> QED
  BY <1>1, InitTyped, StepTyped, InitRows, StepRows, InitJournals, StepJournals, PTL DEF Spec

-----------------------------------------------------------------------------
(* Transactions that do not overlap are atomic.  First what the atomic     *)
(* ledger computes: After is a recursive function over a program.          *)

LEMMA AfterRecursion ==
  ASSUME NEW acc, NEW p \in Seq(Movements)
  PROVE  Atomic!After(acc, p) =
           [i \in 0..Len(p) |-> IF i = 0 THEN acc
                                ELSE Atomic!Move(Atomic!After(acc, p)[i - 1], p[i])]
<1> DEFINE Step(f, i) == IF i = 0 THEN acc ELSE Atomic!Move(f[i - 1], p[i])
           IsRun(f, n) == f = [i \in 0..n |-> Step(f, i)]
           Good == {n \in Nat : \E f : IsRun(f, n)}
<1>1. 0 \in Good
  <2> DEFINE f == [i \in 0..0 |-> acc]
  <2>1. f = [i \in 0..0 |-> Step(f, i)]
    OBVIOUS
  <2> QED
    BY <2>1
<1>2. ASSUME NEW n \in Nat, n \in Good PROVE n + 1 \in Good
  <2>1. PICK f : f = [i \in 0..n |-> Step(f, i)]
    BY <1>2
  <2> DEFINE g == [i \in 0..(n + 1) |-> IF i = n + 1 THEN Atomic!Move(f[n], p[n + 1]) ELSE f[i]]
  <2>2. ASSUME NEW i \in 0..(n + 1) PROVE g[i] = Step(g, i)
    <3>1. CASE i = 0
      BY <2>1, <3>1
    <3>2. CASE i = n + 1
      BY <3>2
    <3>3. CASE i \in 1..n
      <4>1. g[i] = f[i] /\ g[i - 1] = f[i - 1] /\ i # 0
        BY <3>3
      <4>2. f[i] = Step(f, i)
        BY <2>1, <3>3
      <4> QED
        BY <4>1, <4>2
    <3> QED
      BY <3>1, <3>2, <3>3
  <2>3. g = [i \in 0..(n + 1) |-> Step(g, i)]
    BY <2>2
  <2> HIDE DEF g
  <2>4. IsRun(g, n + 1)
    BY <2>3
  <2> HIDE DEF IsRun
  <2> QED
    BY <2>4
<1> HIDE DEF Good
<1>3. Len(p) \in Good
  BY <1>1, <1>2, SetInduction
<1>4. \E f : f = [i \in 0..Len(p) |-> Step(f, i)]
  BY <1>3 DEF Good
<1> QED
  BY <1>4 DEF Atomic!After

LEMMA AfterSteps ==
  ASSUME NEW acc, NEW p \in Seq(Movements)
  PROVE  /\ Atomic!After(acc, p)[0] = acc
         /\ \A i \in 1..Len(p) :
              Atomic!After(acc, p)[i] = Atomic!Move(Atomic!After(acc, p)[i - 1], p[i])
<1> DEFINE run == Atomic!After(acc, p)
<1>1. run = [i \in 0..Len(p) |-> IF i = 0 THEN acc ELSE Atomic!Move(run[i - 1], p[i])]
  BY AfterRecursion
<1>2. Len(p) \in Nat
  OBVIOUS
<1> HIDE DEF run
<1>3. run[0] = acc /\ \A i \in 1..Len(p) : run[i] = Atomic!Move(run[i - 1], p[i])
  BY <1>1, <1>2
<1> QED
  BY <1>3 DEF run

Accounts == [Wallets -> [balance : Int, frozen : Int]]
Balances(row) == [balance |-> row.balance, frozen |-> row.frozen]

(* A movement changes one wallet, by its amount.                           *)
LEMMA MoveOne ==
  ASSUME NEW acc \in Accounts, NEW m \in Movements
  PROVE  /\ Atomic!Move(acc, m) \in Accounts
         /\ \A w \in Wallets \ {m.wallet} : Atomic!Move(acc, m)[w] = acc[w]
         /\ Ledgered(m) =>
              /\ Atomic!Move(acc, m)[m.wallet].balance = acc[m.wallet].balance + Delta(m)
              /\ Atomic!Move(acc, m)[m.wallet].frozen = acc[m.wallet].frozen
         /\ ~Ledgered(m) =>
              /\ Atomic!Move(acc, m)[m.wallet].balance = acc[m.wallet].balance
              /\ Atomic!Move(acc, m)[m.wallet].frozen = acc[m.wallet].frozen + FrozenDelta(m)
<1> DEFINE x == m.wallet
<1>1. x \in Wallets /\ m.amount \in Nat /\ m.op \in Ops
  BY DEF Movements
<1>2. acc[x].balance \in Int /\ acc[x].frozen \in Int
  BY <1>1 DEF Accounts
<1>3. CASE m.op = "CREDIT"
  <2>1. Atomic!Move(acc, m) = [acc EXCEPT ![x].balance = acc[x].balance + Delta(m)]
    BY <1>3 DEF Atomic!Move, Delta
  <2> HIDE DEF x
  <2>2. acc[x].balance + Delta(m) \in Int
    BY <1>1, <1>2 DEF Delta
  <2> QED
    BY <1>1, <1>2, <1>3, <2>1, <2>2 DEF Accounts, Ledgered, x
<1>4. CASE m.op = "DEBIT"
  <2>1. Atomic!Move(acc, m) = [acc EXCEPT ![x].balance = acc[x].balance + Delta(m)]
    BY <1>1, <1>2, <1>4 DEF Atomic!Move, Delta
  <2> HIDE DEF x
  <2>2. acc[x].balance + Delta(m) \in Int
    BY <1>1, <1>2 DEF Delta
  <2> QED
    BY <1>1, <1>2, <1>4, <2>1, <2>2 DEF Accounts, Ledgered, x
<1>5. CASE m.op = "HOLD"
  <2>1. Atomic!Move(acc, m) = [acc EXCEPT ![x].frozen = acc[x].frozen + FrozenDelta(m)]
    BY <1>1, <1>2, <1>5 DEF Atomic!Move, FrozenDelta
  <2> HIDE DEF x
  <2>2. acc[x].frozen + FrozenDelta(m) \in Int
    BY <1>1, <1>2 DEF FrozenDelta
  <2> QED
    BY <1>1, <1>2, <1>5, <2>1, <2>2 DEF Accounts, Ledgered, x
<1>6. CASE m.op = "RELEASE"
  <2>1. Atomic!Move(acc, m) = [acc EXCEPT ![x].frozen = acc[x].frozen + FrozenDelta(m)]
    BY <1>1, <1>2, <1>6 DEF Atomic!Move, FrozenDelta
  <2> HIDE DEF x
  <2>2. acc[x].frozen + FrozenDelta(m) \in Int
    BY <1>1, <1>2 DEF FrozenDelta
  <2> QED
    BY <1>1, <1>2, <1>6, <2>1, <2>2 DEF Accounts, Ledgered, x
<1> QED
  BY <1>1, <1>3, <1>4, <1>5, <1>6 DEF Ops

LEMMA TouchedWallets ==
  ASSUME NEW p \in Seq(Movements)
  PROVE  Touched(p) \subseteq Wallets /\ \A i \in 1..Len(p) : p[i].wallet \in Touched(p)
<1>1. \A i \in 1..Len(p) : p[i] \in Movements
  OBVIOUS
<1> QED
  BY <1>1 DEF Touched, Movements

(* The movements of p change the wallets p touches and no other.           *)
LEMMA AfterTyped ==
  ASSUME NEW acc \in Accounts, NEW p \in Seq(Movements)
  PROVE  \A i \in 0..Len(p) :
           /\ Atomic!After(acc, p)[i] \in Accounts
           /\ \A w \in Wallets \ Touched(p) : Atomic!After(acc, p)[i][w] = acc[w]
<1> DEFINE run == Atomic!After(acc, p)
           Good == {n \in Nat : n <= Len(p) =>
                      /\ run[n] \in Accounts
                      /\ \A w \in Wallets \ Touched(p) : run[n][w] = acc[w]}
<1>1. /\ run[0] = acc
      /\ \A i \in 1..Len(p) : run[i] = Atomic!Move(run[i - 1], p[i])
  BY AfterSteps
<1> HIDE DEF run
<1>2. 0 \in Good
  BY <1>1
<1>3. ASSUME NEW n \in Nat, n \in Good PROVE n + 1 \in Good
  <2> SUFFICES ASSUME n + 1 <= Len(p)
               PROVE  /\ run[n + 1] \in Accounts
                      /\ \A w \in Wallets \ Touched(p) : run[n + 1][w] = acc[w]
    OBVIOUS
  <2>1. /\ run[n] \in Accounts
        /\ \A w \in Wallets \ Touched(p) : run[n][w] = acc[w]
    BY <1>3
  <2>2. n + 1 \in 1..Len(p) /\ p[n + 1] \in Movements
    OBVIOUS
  <2>3. run[n + 1] = Atomic!Move(run[n], p[n + 1])
    BY <1>1, <2>2
  <2>4. p[n + 1].wallet \in Touched(p)
    BY <2>2, TouchedWallets
  <2>5. /\ run[n + 1] \in Accounts
        /\ \A w \in Wallets \ {p[n + 1].wallet} : run[n + 1][w] = run[n][w]
    BY <2>1, <2>2, <2>3, MoveOne
  <2> QED
    BY <2>1, <2>4, <2>5
<1>4. \A n \in Nat : n \in Good
  <2> HIDE DEF Good
  <2> QED
    BY <1>2, <1>3, SetInduction
<1> QED
  BY <1>4 DEF run

(* What p does to its wallets does not depend on the other accounts.       *)
LEMMA AfterElsewhere ==
  ASSUME NEW acc \in Accounts, NEW bcc \in Accounts, NEW p \in Seq(Movements),
         \A w \in Touched(p) : bcc[w] = acc[w]
  PROVE  \A i \in 0..Len(p) : \A w \in Touched(p) :
           Atomic!After(bcc, p)[i][w] = Atomic!After(acc, p)[i][w]
<1> DEFINE a == Atomic!After(acc, p)
           b == Atomic!After(bcc, p)
           Good == {n \in Nat : n <= Len(p) => \A w \in Touched(p) : b[n][w] = a[n][w]}
<1>1. /\ a[0] = acc /\ b[0] = bcc
      /\ \A i \in 1..Len(p) : /\ a[i] = Atomic!Move(a[i - 1], p[i])
                              /\ b[i] = Atomic!Move(b[i - 1], p[i])
      /\ \A i \in 0..Len(p) : a[i] \in Accounts /\ b[i] \in Accounts
  BY AfterSteps, AfterTyped
<1> HIDE DEF a, b
<1>2. 0 \in Good
  BY <1>1
<1>3. ASSUME NEW n \in Nat, n \in Good PROVE n + 1 \in Good
  <2> SUFFICES ASSUME n + 1 <= Len(p), NEW w \in Touched(p)
               PROVE  b[n + 1][w] = a[n + 1][w]
    OBVIOUS
  <2> DEFINE m == p[n + 1]
  <2>1. \A v \in Touched(p) : b[n][v] = a[n][v]
    BY <1>3
  <2>2. n + 1 \in 1..Len(p) /\ n \in 0..Len(p) /\ m \in Movements
    OBVIOUS
  <2>3. /\ a[n + 1] = Atomic!Move(a[n], m) /\ b[n + 1] = Atomic!Move(b[n], m)
        /\ a[n] \in Accounts /\ b[n] \in Accounts
        /\ a[n + 1] \in Accounts /\ b[n + 1] \in Accounts
    BY <1>1, <2>2
  <2>4. m.wallet \in Touched(p) /\ w \in Wallets
    BY <2>2, TouchedWallets
  <2> HIDE DEF m
  <2>7. \A c \in Accounts :
          /\ \A v \in Wallets \ {m.wallet} : Atomic!Move(c, m)[v] = c[v]
          /\ Ledgered(m) =>
               /\ Atomic!Move(c, m)[m.wallet].balance = c[m.wallet].balance + Delta(m)
               /\ Atomic!Move(c, m)[m.wallet].frozen = c[m.wallet].frozen
          /\ ~Ledgered(m) =>
               /\ Atomic!Move(c, m)[m.wallet].balance = c[m.wallet].balance
               /\ Atomic!Move(c, m)[m.wallet].frozen = c[m.wallet].frozen + FrozenDelta(m)
    BY <2>2, MoveOne
  <2>5. CASE w # m.wallet
    <3>1. a[n + 1][w] = a[n][w] /\ b[n + 1][w] = b[n][w]
      BY <2>3, <2>4, <2>5, <2>7
    <3> QED
      BY <2>1, <3>1
  <2>6. CASE w = m.wallet
    <3>1. a[n][w] = b[n][w]
      BY <2>1
    <3>2. /\ a[n + 1][w].balance = b[n + 1][w].balance
          /\ a[n + 1][w].frozen = b[n + 1][w].frozen
      BY <2>3, <2>6, <2>7, <3>1
    <3>3. /\ a[n + 1][w] \in [balance : Int, frozen : Int]
          /\ b[n + 1][w] \in [balance : Int, frozen : Int]
      BY <2>3, <2>4 DEF Accounts
    <3> QED
      BY <3>2, <3>3
  <2> QED
    BY <2>5, <2>6
<1>4. \A n \in Nat : n \in Good
  <2> HIDE DEF Good
  <2> QED
    BY <1>2, <1>3, SetInduction
<1> QED
  BY <1>4 DEF a, b

-----------------------------------------------------------------------------
(* The state of the atomic ledger that the rows stand for.                 *)
Account == [w \in Wallets |->
             [balance |-> committed[w].balance, frozen |-> committed[w].frozen]]
Used == {r \in Refs : index[r] # None /\ pc[index[r]] = "committed"}
Outcome == [t \in Txs |-> IF pc[t] = "committed" THEN "applied"
                          ELSE IF pc[t] = "rolledback" THEN "refused" ELSE "open"]

(* The movements of t whose effect its wallet rows show.                   *)
Pending(t) == IF pc[t] = "insert" THEN step[t] ELSE step[t] - 1

(* To an unfinished transaction its wallets are what its movements so far  *)
(* make of the committed ones.                                             *)
AloneOK(t) ==
  /\ prog[t] \in Menu[t]
  /\ step[t] <= Len(prog[t]) + 1
  /\ \A w \in Touched(prog[t]) :
       Balances(View(t, w)) = Atomic!After(Account, prog[t])[Pending(t)][w]
  /\ \A i \in 1..Len(prog[t]) : i <= Pending(t) /\ Ledgered(prog[t][i]) =>
       Atomic!After(Account, prog[t])[i][prog[t][i].wallet].balance >= 0

(* It has inserted each of its references once, and owns no other.         *)
RefsOK(t) ==
  /\ \A i, j \in 1..Len(prog[t]) :
       i < step[t] /\ j < step[t] /\ Ledgered(prog[t][i]) /\ Ledgered(prog[t][j])
         /\ prog[t][i].ref = prog[t][j].ref => i = j
  /\ \A r \in Refs : index[r] = t =>
       \E i \in 1..Len(prog[t]) :
         i < step[t] /\ Ledgered(prog[t][i]) /\ prog[t][i].ref = r

SerialOK ==
  /\ \A t \in Txs : Active(t) => AloneOK(t)
  /\ \A t \in Txs : pc[t] \in Unfinished \cup {"idle"} => RefsOK(t)

LEMMA AccountTyped == Typed => Account \in Accounts
BY DEF Typed, TypeOK, Rows, Account, Accounts

LEMMA InitSerial == Init => SerialOK
BY LedgerAssumption DEF Init, SerialOK, RefsOK, Active, Unfinished

(* A step of t, as the other transactions see it.                          *)
LEMMA SerialOthers ==
  ASSUME Typed, Typed', RowsOK, SerialOK, NEW t \in Txs, NEW u \in Txs \ {t},
         pc'[u] = pc[u] /\ prog'[u] = prog[u] /\ step'[u] = step[u],
         Active(u) => \A w \in Touched(prog[u]) :
                        View(u, w)' = View(u, w) /\ Account'[w] = Account[w],
         \A r \in Refs : index'[r] = u => index[r] = u
  PROVE  /\ Active(u)' => AloneOK(u)'
         /\ pc'[u] \in Unfinished \cup {"idle"} => RefsOK(u)'
<1>1. pc[u] \in Unfinished \cup {"idle"} => RefsOK(u)'
  BY DEF SerialOK, RefsOK, Ledgered
<1>2. ASSUME Active(u) PROVE AloneOK(u)'
  <2> DEFINE p == prog[u]
             k == Pending(u)
  <2>0. (Typed => Account \in Accounts)'
    BY AccountTyped, PTL
  <2>1. /\ p \in Menu[u] /\ p \in Seq(Movements) /\ prog'[u] = p
        /\ Account \in Accounts /\ Account' \in Accounts
    BY <1>2, <2>0, AccountTyped, LedgerAssumption DEF SerialOK, AloneOK
  <2>2. Pending(u)' = k /\ step'[u] = step[u]
    BY DEF Pending
  <2>3. \A i \in 0..Len(p) : \A w \in Touched(p) :
          Atomic!After(Account', p)[i][w] = Atomic!After(Account, p)[i][w]
    BY <1>2, <2>1, AfterElsewhere
  <2>4. k \in 0..Len(p)
    BY <1>2 DEF SerialOK, AloneOK, Pending, Typed, TypeOK, ProgramsOK
  <2>5. \A i \in 1..Len(p) : p[i].wallet \in Touched(p)
    BY <2>1, TouchedWallets
  <2>6. /\ step[u] <= Len(p) + 1
        /\ \A w \in Touched(p) : Balances(View(u, w)) = Atomic!After(Account, p)[k][w]
        /\ \A i \in 1..Len(p) : i <= k /\ Ledgered(p[i]) =>
             Atomic!After(Account, p)[i][p[i].wallet].balance >= 0
    BY <1>2 DEF SerialOK, AloneOK
  <2> HIDE DEF p, k
  <2>7. \A w \in Touched(p) : Balances(View(u, w)') = Atomic!After(Account', p)[k][w]
    BY <1>2, <2>3, <2>4, <2>6 DEF p
  <2>8. \A i \in 1..Len(p) : i <= k /\ Ledgered(p[i]) =>
          Atomic!After(Account', p)[i][p[i].wallet].balance >= 0
    BY <2>3, <2>5, <2>6
  <2> QED
    BY <2>1, <2>2, <2>6, <2>7, <2>8 DEF AloneOK
<1> QED
  BY <1>1, <1>2 DEF Active

LEMMA AfterNext ==
  ASSUME NEW acc \in Accounts, NEW p \in Seq(Movements), NEW k \in 1..Len(p)
  PROVE  LET a == Atomic!After(acc, p)
             m == p[k]
             x == m.wallet
         IN  /\ \A w \in Wallets \ {x} : a[k][w] = a[k - 1][w]
             /\ Ledgered(m) =>
                  a[k][x] = [balance |-> a[k - 1][x].balance + Delta(m),
                             frozen |-> a[k - 1][x].frozen]
             /\ ~Ledgered(m) =>
                  a[k][x] = [balance |-> a[k - 1][x].balance,
                             frozen |-> a[k - 1][x].frozen + FrozenDelta(m)]
<1> DEFINE a == Atomic!After(acc, p)
           m == p[k]
           x == m.wallet
<1>1. /\ k - 1 \in 0..Len(p) /\ k \in 0..Len(p) /\ m \in Movements
      /\ a[k] = Atomic!Move(a[k - 1], m)
      /\ a[k] \in Accounts /\ a[k - 1] \in Accounts
  BY AfterSteps, AfterTyped
<1>2. x \in Wallets
  BY <1>1 DEF Movements
<1> HIDE DEF a, m, x
<1>3. a[k][x] \in [balance : Int, frozen : Int]
  BY <1>1, <1>2 DEF Accounts
<1>4. /\ \A w \in Wallets \ {x} : a[k][w] = a[k - 1][w]
      /\ Ledgered(m) => /\ a[k][x].balance = a[k - 1][x].balance + Delta(m)
                        /\ a[k][x].frozen = a[k - 1][x].frozen
      /\ ~Ledgered(m) => /\ a[k][x].balance = a[k - 1][x].balance
                         /\ a[k][x].frozen = a[k - 1][x].frozen + FrozenDelta(m)
  <2> DEFINE c == a[k - 1]
  <2> HIDE DEF c
  <2>1. c \in Accounts /\ a[k] = Atomic!Move(c, m)
    BY <1>1 DEF c
  <2>2. /\ \A w \in Wallets \ {x} : a[k][w] = c[w]
        /\ Ledgered(m) => /\ a[k][x].balance = c[x].balance + Delta(m)
                          /\ a[k][x].frozen = c[x].frozen
        /\ ~Ledgered(m) => /\ a[k][x].balance = c[x].balance
                           /\ a[k][x].frozen = c[x].frozen + FrozenDelta(m)
    BY <1>1, <2>1, MoveOne DEF x
  <2> QED
    BY <2>2 DEF c
<1> QED
  BY <1>3, <1>4 DEF a, m, x

(* The rows t has not locked are the committed ones.                       *)
LEMMA ViewIsDraft ==
  ASSUME RowsOK, NEW t \in Txs, NEW w \in Wallets, holder[w] \in {None, t}
  PROVE  View(t, w) = draft[w]
BY DEF RowsOK, LockOK, View

(* What a step of t may change, as the others see it.                      *)
LEMMA OthersView ==
  ASSUME Typed, Typed', ChainsOK, NEW t \in Txs, Active(t), NEW u \in Txs \ {t}, Active(u),
         \A w \in Wallets \ Touched(prog[t]) :
           /\ committed'[w] = committed[w] /\ draft'[w] = draft[w]
           /\ holder'[w] = holder[w],
         prog[u] \in Seq(Movements)
  PROVE  \A w \in Touched(prog[u]) : View(u, w)' = View(u, w) /\ Account'[w] = Account[w]
<1>1. \A w \in Touched(prog[u]) : w \in Wallets \ Touched(prog[t])
  BY TouchedWallets DEF ChainsOK, Separate
<1> QED
  BY <1>1 DEF View, Account

LEMMA ActiveTyped ==
  ASSUME Typed, SerialOK, NEW t \in Txs, Active(t)
  PROVE  /\ prog[t] \in Seq(Movements) /\ prog[t] \in Menu[t]
         /\ step[t] \in Nat \ {0} /\ step[t] <= Len(prog[t]) + 1
         /\ Pending(t) \in 0..Len(prog[t])
BY LedgerAssumption DEF SerialOK, AloneOK, Typed, TypeOK, ProgramsOK, Pending

LEMMA UpdateSerial ==
  ASSUME Typed, Typed', RowsOK, ChainsOK, SerialOK, NEW t \in Txs, UpdateBalance(t)
  PROVE  SerialOK'
<1> DEFINE p == prog[t]
           m == Current(t)
           x == m.wallet
           k == step[t]
           a == Atomic!After(Account, p)
<1>1. /\ Active(t) /\ pc[t] = "write" /\ pc' = [pc EXCEPT ![t] = "insert"]
      /\ holder[x] \in {None, t}
      /\ holder' = [holder EXCEPT ![x] = t]
      /\ draft' = [draft EXCEPT ![x].balance = target[t]]
      /\ UNCHANGED <<committed, index, prog, step, target>>
  BY DEF UpdateBalance, CanLock, Active, Unfinished
<1>2. /\ p \in Seq(Movements) /\ k \in 1..Len(p) /\ m = p[k] /\ Ledgered(m)
      /\ m \in Movements /\ x \in Wallets /\ x \in Touched(p)
      /\ Account \in Accounts /\ Account' = Account
  <2>1. p \in Seq(Movements) /\ k \in 1..Len(p) /\ Ledgered(m)
    BY <1>1, ActiveTyped DEF Typed, ProgramsOK
  <2>2. m = p[k] /\ m \in Movements
    BY <2>1 DEF Current
  <2>3. x \in Wallets /\ x \in Touched(p)
    BY <2>1, <2>2, TouchedWallets DEF Movements
  <2>4. Account \in Accounts /\ Account' = Account
    BY <1>1, AccountTyped DEF Account
  <2> QED
    BY <2>1, <2>2, <2>3, <2>4
<1>3. target[t] = View(t, x).balance + Delta(m) /\ target[t] \in Nat
  BY <1>1 DEF ChainsOK, WriteOK, Typed, TypeOK
<1>4. View(t, x) = draft[x]
  BY <1>1, <1>2, ViewIsDraft
<1>5. /\ \A w \in Touched(p) : Balances(View(t, w)) = a[k - 1][w]
      /\ \A i \in 1..Len(p) : i <= k - 1 /\ Ledgered(p[i]) => a[i][p[i].wallet].balance >= 0
      /\ p \in Menu[t] /\ k <= Len(p) + 1
  BY <1>1 DEF SerialOK, AloneOK, Pending
<1>6. /\ \A w \in Wallets \ {x} : a[k][w] = a[k - 1][w]
      /\ a[k][x] = [balance |-> a[k - 1][x].balance + Delta(m), frozen |-> a[k - 1][x].frozen]
  <2>1. /\ \A w \in Wallets \ {p[k].wallet} : a[k][w] = a[k - 1][w]
        /\ Ledgered(p[k]) =>
             a[k][p[k].wallet] =
               [balance |-> a[k - 1][p[k].wallet].balance + Delta(p[k]),
                frozen |-> a[k - 1][p[k].wallet].frozen]
    BY <1>2, AfterNext
  <2> HIDE DEF p, m, k, a
  <2> QED
    BY <1>2, <2>1
<1> HIDE DEF p, m, x, k, a
<1>7. /\ draft'[x].balance = target[t] /\ draft'[x].frozen = draft[x].frozen
      /\ \A w \in Wallets \ {x} : draft'[w] = draft[w] /\ holder'[w] = holder[w]
      /\ holder'[x] = t
  BY <1>1, <1>2 DEF Typed, TypeOK, Rows
<1>8. Balances(draft'[x]) = a[k][x]
  <2>1. a[k - 1][x] = [balance |-> draft[x].balance, frozen |-> draft[x].frozen]
    BY <1>2, <1>4, <1>5 DEF Balances
  <2> QED
    BY <1>3, <1>4, <1>6, <1>7, <2>1 DEF Balances
<1>9. \A w \in Touched(p) : Balances(View(t, w)') = a[k][w]
  <2>1. ASSUME NEW w \in Wallets, w = x PROVE View(t, w)' = draft'[w]
    BY <1>7, <2>1 DEF View
  <2>2. Touched(p) \subseteq Wallets
    BY <1>2, TouchedWallets
  <2>3. ASSUME NEW w \in Touched(p) \ {x} PROVE View(t, w)' = View(t, w)
    BY <1>1, <1>7, <2>2 DEF View
  <2> QED
    BY <1>5, <1>6, <1>8, <2>1, <2>2, <2>3
<1>10. \A i \in 1..Len(p) : i <= k /\ Ledgered(p[i]) => a[i][p[i].wallet].balance >= 0
  <2>1. a[k][x].balance = target[t]
    BY <1>7, <1>8 DEF Balances
  <2>2. \A i \in 1..Len(p) : i <= k => i = k \/ i <= k - 1
    BY <1>2
  <2>3. a[k][p[k].wallet].balance >= 0
    BY <1>2, <1>3, <2>1 DEF x
  <2> QED
    BY <1>5, <2>2, <2>3
<1>11. AloneOK(t)'
  <2>1. /\ prog'[t] = p /\ step'[t] = k /\ Pending(t)' = k
        /\ Atomic!After(Account', p) = a
    BY <1>1, <1>2 DEF p, k, a, Pending, Typed, TypeOK
  <2> QED
    BY <1>2, <1>5, <1>9, <1>10, <2>1 DEF AloneOK
<1>12. RefsOK(t)'
  BY <1>1 DEF SerialOK, RefsOK, Ledgered, Active
<1>13. ASSUME NEW u \in Txs \ {t}
       PROVE  /\ Active(u)' => AloneOK(u)'
              /\ pc'[u] \in Unfinished \cup {"idle"} => RefsOK(u)'
  <2>1. \A w \in Wallets \ Touched(p) :
          committed'[w] = committed[w] /\ draft'[w] = draft[w] /\ holder'[w] = holder[w]
    BY <1>1, <1>2, <1>7
  <2>2. Active(u) => \A w \in Touched(prog[u]) :
                        View(u, w)' = View(u, w) /\ Account'[w] = Account[w]
    BY <1>1, <2>1, OthersView, ActiveTyped DEF p
  <2> QED
    BY <1>1, <2>2, SerialOthers DEF Typed, TypeOK
<1> QED
  BY <1>11, <1>12, <1>13 DEF SerialOK

LEMMA FrozenSerial ==
  ASSUME Typed, Typed', RowsOK, ChainsOK, SerialOK, NEW t \in Txs, MoveFrozen(t)
  PROVE  SerialOK'
<1> DEFINE p == prog[t]
           m == Current(t)
           x == m.wallet
           k == step[t]
           f == draft[x].frozen + FrozenDelta(m)
           a == Atomic!After(Account, p)
<1>1. /\ Active(t) /\ pc[t] = "ready" /\ pc' = pc
      /\ holder[x] \in {None, t}
      /\ holder' = [holder EXCEPT ![x] = t]
      /\ draft' = [draft EXCEPT ![x].frozen = f]
      /\ step' = [step EXCEPT ![t] = k + 1]
      /\ UNCHANGED <<committed, index, prog, target>>
      /\ k <= Len(p) /\ ~Ledgered(m)
  BY DEF MoveFrozen, CanLock, AtMovement, Active, Unfinished, Ledgered
<1>2. /\ p \in Seq(Movements) /\ k \in 1..Len(p) /\ m = p[k]
      /\ m \in Movements /\ x \in Wallets /\ x \in Touched(p)
      /\ Account \in Accounts /\ Account' = Account
  <2>1. p \in Seq(Movements) /\ k \in 1..Len(p)
    BY <1>1, ActiveTyped
  <2>2. m = p[k] /\ m \in Movements
    BY <2>1 DEF Current
  <2>3. x \in Wallets /\ x \in Touched(p)
    BY <2>1, <2>2, TouchedWallets DEF Movements
  <2>4. Account \in Accounts /\ Account' = Account
    BY <1>1, AccountTyped DEF Account
  <2> QED
    BY <2>1, <2>2, <2>3, <2>4
<1>3. View(t, x) = draft[x]
  BY <1>1, <1>2, ViewIsDraft
<1>4. /\ \A w \in Touched(p) : Balances(View(t, w)) = a[k - 1][w]
      /\ \A i \in 1..Len(p) : i <= k - 1 /\ Ledgered(p[i]) => a[i][p[i].wallet].balance >= 0
      /\ p \in Menu[t]
  BY <1>1 DEF SerialOK, AloneOK, Pending
<1>5. /\ \A w \in Wallets \ {x} : a[k][w] = a[k - 1][w]
      /\ a[k][x] = [balance |-> a[k - 1][x].balance,
                    frozen |-> a[k - 1][x].frozen + FrozenDelta(m)]
  <2>1. /\ \A w \in Wallets \ {p[k].wallet} : a[k][w] = a[k - 1][w]
        /\ ~Ledgered(p[k]) =>
             a[k][p[k].wallet] =
               [balance |-> a[k - 1][p[k].wallet].balance,
                frozen |-> a[k - 1][p[k].wallet].frozen + FrozenDelta(p[k])]
    BY <1>2, AfterNext
  <2> HIDE DEF p, m, k, a
  <2> QED
    BY <1>1, <1>2, <2>1
<1>6. f = draft[x].frozen + FrozenDelta(m)
  OBVIOUS
<1> HIDE DEF p, m, x, k, a, f
<1>7. /\ draft'[x].balance = draft[x].balance /\ draft'[x].frozen = f
      /\ \A w \in Wallets \ {x} : draft'[w] = draft[w] /\ holder'[w] = holder[w]
      /\ holder'[x] = t
  BY <1>1, <1>2 DEF Typed, TypeOK, Rows
<1>8. Balances(draft'[x]) = a[k][x]
  <2>1. a[k - 1][x] = [balance |-> draft[x].balance, frozen |-> draft[x].frozen]
    BY <1>2, <1>3, <1>4 DEF Balances
  <2> QED
    BY <1>5, <1>6, <1>7, <2>1 DEF Balances
<1>9. \A w \in Touched(p) : Balances(View(t, w)') = a[k][w]
  <2>1. ASSUME NEW w \in Wallets, w = x PROVE View(t, w)' = draft'[w]
    BY <1>7, <2>1 DEF View
  <2>2. Touched(p) \subseteq Wallets
    BY <1>2, TouchedWallets
  <2>3. ASSUME NEW w \in Touched(p) \ {x} PROVE View(t, w)' = View(t, w)
    BY <1>1, <1>7, <2>2 DEF View
  <2> QED
    BY <1>4, <1>5, <1>8, <2>1, <2>2, <2>3
<1>10. \A i \in 1..Len(p) : i <= k /\ Ledgered(p[i]) => a[i][p[i].wallet].balance >= 0
  <2>1. \A i \in 1..Len(p) : i <= k => i = k \/ i <= k - 1
    BY <1>2
  <2>2. ~Ledgered(p[k])
    BY <1>1, <1>2
  <2> QED
    BY <1>4, <2>1, <2>2
<1>11. AloneOK(t)'
  <2>1. /\ prog'[t] = p /\ step'[t] = k + 1 /\ Pending(t)' = k
        /\ Atomic!After(Account', p) = a
    BY <1>1, <1>2 DEF p, k, a, Pending, Typed, TypeOK
  <2> QED
    BY <1>2, <1>4, <1>9, <1>10, <2>1 DEF AloneOK
<1>12. RefsOK(t)'
  <2>1. RefsOK(t) /\ prog'[t] = p /\ step'[t] = k + 1 /\ index' = index /\ k \in Nat
    BY <1>1, <1>2 DEF SerialOK, Active, p, k, Typed, TypeOK
  <2>2. \A i \in 1..Len(p) : i < k + 1 /\ Ledgered(p[i]) => i < k
    BY <1>1, <1>2
  <2> QED
    BY <2>1, <2>2 DEF RefsOK, p, k
<1>13. ASSUME NEW u \in Txs \ {t}
       PROVE  /\ Active(u)' => AloneOK(u)'
              /\ pc'[u] \in Unfinished \cup {"idle"} => RefsOK(u)'
  <2>1. \A w \in Wallets \ Touched(p) :
          committed'[w] = committed[w] /\ draft'[w] = draft[w] /\ holder'[w] = holder[w]
    BY <1>1, <1>2, <1>7
  <2>2. Active(u) => \A w \in Touched(prog[u]) :
                        View(u, w)' = View(u, w) /\ Account'[w] = Account[w]
    BY <1>1, <2>1, OthersView, ActiveTyped DEF p
  <2> QED
    BY <1>1, <2>2, SerialOthers DEF Typed, TypeOK
<1> QED
  BY <1>11, <1>12, <1>13 DEF SerialOK

LEMMA CreateSerial ==
  ASSUME Typed, Typed', RowsOK, ChainsOK, JournalsOK, SerialOK,
         NEW t \in Txs, CreateLedgerEntry(t)
  PROVE  SerialOK'
<1> DEFINE p == prog[t]
           m == Current(t)
           x == m.wallet
           k == step[t]
<1>1. /\ Active(t) /\ pc[t] = "insert" /\ pc' = [pc EXCEPT ![t] = "ready"]
      /\ index[m.ref] = None /\ index' = [index EXCEPT ![m.ref] = t]
      /\ step' = [step EXCEPT ![t] = k + 1]
      /\ UNCHANGED <<committed, holder, prog, target>>
      /\ \A w \in Wallets : Balances(draft'[w]) = Balances(draft[w])
      /\ \A w \in Wallets \ {x} : draft'[w] = draft[w]
  <2>1. draft' = [draft EXCEPT ![x].journal =
                    Append(draft[x].journal,
                      [ref |-> m.ref, delta |-> Delta(m), after |-> target[t]])]
    BY DEF CreateLedgerEntry
  <2>2. x \in Wallets
    BY InMovement DEF CreateLedgerEntry
  <2> HIDE DEF x
  <2>3. /\ \A w \in Wallets : Balances(draft'[w]) = Balances(draft[w])
        /\ \A w \in Wallets \ {x} : draft'[w] = draft[w]
    BY <2>1, <2>2 DEF Balances, Typed, TypeOK, Rows
  <2> QED
    BY <2>3 DEF CreateLedgerEntry, Active, Unfinished
<1>2. /\ p \in Seq(Movements) /\ k \in 1..Len(p) /\ m = p[k] /\ Ledgered(m)
      /\ m \in Movements /\ x \in Wallets /\ x \in Touched(p) /\ m.ref \in Refs
      /\ Account' = Account
  <2>1. p \in Seq(Movements) /\ k \in 1..Len(p) /\ Ledgered(m)
    BY <1>1, ActiveTyped DEF Typed, ProgramsOK
  <2> QED
    BY <1>1, <2>1, InMovement, TouchedWallets DEF Current, Account
<1>3. AloneOK(t) /\ RefsOK(t) /\ LegsOK(t)
  BY <1>1 DEF SerialOK, JournalsOK, Active
<1>4. AloneOK(t)'
  <2>1. prog'[t] = p /\ step'[t] = k + 1 /\ Pending(t) = k /\ Pending(t)' = k
    BY <1>1, <1>2 DEF Pending, Typed, TypeOK
  <2>2. \A w \in Touched(p) : Balances(View(t, w)') = Balances(View(t, w))
    BY <1>1, <1>2, TouchedWallets DEF View
  <2>3. /\ p \in Menu[t]
        /\ \A w \in Touched(p) : Balances(View(t, w)') = Atomic!After(Account', p)[k][w]
        /\ \A i \in 1..Len(p) : i <= k /\ Ledgered(p[i]) =>
             Atomic!After(Account', p)[i][p[i].wallet].balance >= 0
    BY <1>2, <1>3, <2>1, <2>2 DEF AloneOK
  <2>4. k + 1 <= Len(p) + 1
    BY <1>2
  <2> HIDE DEF p, k
  <2> QED
    BY <2>1, <2>3, <2>4 DEF AloneOK
<1> HIDE DEF m, x
<1>5. RefsOK(t)'
  <2>1. /\ prog'[t] = p /\ step'[t] = k + 1 /\ k \in Nat
        /\ \A r \in Refs : index'[r] = IF r = m.ref THEN t ELSE index[r]
    BY <1>1, <1>2 DEF Typed, TypeOK
  <2>2. ASSUME NEW i \in 1..Len(p), i < k, Ledgered(p[i]) PROVE p[i].ref # m.ref
    BY <1>1, <1>3, <2>2, LedgerAssumption DEF LegsOK, Made
  <2>3. \A i \in 1..Len(p) : i < k + 1 => i < k \/ i = k
    BY <1>2
  <2>4. ASSUME NEW i \in 1..Len(p), NEW j \in 1..Len(p), i < k + 1, j < k + 1,
               Ledgered(p[i]), Ledgered(p[j]), p[i].ref = p[j].ref
        PROVE  i = j
    <3>1. CASE i < k /\ j < k
      BY <1>3, <2>4, <3>1 DEF RefsOK
    <3>2. CASE i = k \/ j = k
      BY <1>2, <2>2, <2>3, <2>4, <3>2
    <3> QED
      BY <2>3, <2>4, <3>1, <3>2
  <2>5. ASSUME NEW r \in Refs, index'[r] = t
        PROVE  \E i \in 1..Len(p) : i < k + 1 /\ Ledgered(p[i]) /\ p[i].ref = r
    <3>1. CASE r = m.ref
      BY <1>2, <3>1
    <3>2. CASE r # m.ref
      BY <1>2, <1>3, <2>1, <2>5, <3>2 DEF RefsOK
    <3> QED
      BY <3>1, <3>2
  <2> HIDE DEF p, k
  <2> QED
    BY <2>1, <2>4, <2>5 DEF RefsOK
<1>6. ASSUME NEW u \in Txs \ {t}
      PROVE  /\ Active(u)' => AloneOK(u)'
             /\ pc'[u] \in Unfinished \cup {"idle"} => RefsOK(u)'
  <2>1. \A w \in Wallets \ Touched(p) :
          committed'[w] = committed[w] /\ draft'[w] = draft[w] /\ holder'[w] = holder[w]
    BY <1>1, <1>2
  <2>2. Active(u) => \A w \in Touched(prog[u]) :
                        View(u, w)' = View(u, w) /\ Account'[w] = Account[w]
    BY <1>1, <2>1, OthersView, ActiveTyped
  <2>3. \A r \in Refs : index'[r] = u => index[r] = u
    BY <1>1 DEF Typed, TypeOK
  <2> QED
    BY <1>1, <2>2, <2>3, SerialOthers DEF Typed, TypeOK
<1> QED
  BY <1>4, <1>5, <1>6 DEF SerialOK

LEMMA BeginSerial ==
  ASSUME Typed, Typed', RowsOK, JournalsOK, SerialOK,
         NEW t \in Txs, NEW p \in Menu[t], Begin(t, p)
  PROVE  SerialOK'
<1>1. /\ pc[t] = "idle" /\ pc' = [pc EXCEPT ![t] = "ready"]
      /\ prog' = [prog EXCEPT ![t] = p]
      /\ UNCHANGED <<committed, draft, holder, index, step, target>>
      /\ step[t] = 1 /\ p \in Seq(Movements)
  BY LedgerAssumption DEF Begin, JournalsOK, LegsOK
<1>2. \A w \in Wallets : holder[w] # t
  BY <1>1, LedgerAssumption DEF RowsOK, LockOK, Active, Unfinished
<1>3. \A r \in Refs : index[r] # t
  BY <1>1 DEF SerialOK, RefsOK, Typed, TypeOK
<1>4. AloneOK(t)'
  <2>1. prog'[t] = p /\ step'[t] = 1 /\ Pending(t)' = 0 /\ Account' = Account
    BY <1>1 DEF Pending, Typed, TypeOK, Account
  <2>2. \A w \in Touched(p) : Balances(View(t, w)') = Account[w]
    BY <1>1, <1>2, TouchedWallets DEF View, Balances, Account
  <2>3. Atomic!After(Account, p)[0] = Account
    BY <1>1, AfterSteps
  <2>4. /\ 1 <= Len(p) + 1
        /\ \A i \in 1..Len(p) : ~(i <= 0)
    BY <1>1
  <2>5. \A w \in Touched(p) :
          Balances(View(t, w)') = Atomic!After(Account', p)[0][w]
    BY <2>1, <2>2, <2>3
  <2> QED
    BY <2>1, <2>4, <2>5 DEF AloneOK
<1>5. RefsOK(t)'
  <2>1. prog'[t] = p /\ step'[t] = 1 /\ index' = index
    BY <1>1 DEF Typed, TypeOK
  <2> QED
    BY <1>3, <2>1 DEF RefsOK
<1>6. ASSUME NEW u \in Txs \ {t}
      PROVE  /\ Active(u)' => AloneOK(u)'
             /\ pc'[u] \in Unfinished \cup {"idle"} => RefsOK(u)'
  <2>1. Active(u) => \A w \in Touched(prog[u]) :
                        View(u, w)' = View(u, w) /\ Account'[w] = Account[w]
    BY <1>1 DEF View, Account
  <2> QED
    BY <1>1, <2>1, SerialOthers DEF Typed, TypeOK
<1> QED
  BY <1>4, <1>5, <1>6 DEF SerialOK

LEMMA ReadSerial ==
  ASSUME Typed, Typed', RowsOK, SerialOK, NEW t \in Txs, ReadWallet(t)
  PROVE  SerialOK'
<1>1. /\ pc[t] = "ready" /\ pc' = [pc EXCEPT ![t] = "write"] /\ Active(t)
      /\ UNCHANGED <<committed, draft, holder, index, prog, step>>
  BY DEF ReadWallet, AtMovement, Active, Unfinished
<1>2. AloneOK(t)'
  <2>1. /\ prog' = prog /\ step' = step /\ Pending(t)' = Pending(t) /\ Account' = Account
        /\ \A w : View(t, w)' = View(t, w)
    BY <1>1 DEF Pending, Typed, TypeOK, Account, View
  <2>2. AloneOK(t)
    BY <1>1 DEF SerialOK
  <2> QED
    BY <2>1, <2>2 DEF AloneOK
<1>3. RefsOK(t)'
  BY <1>1 DEF SerialOK, RefsOK, Active
<1>4. ASSUME NEW u \in Txs \ {t}
      PROVE  /\ Active(u)' => AloneOK(u)'
             /\ pc'[u] \in Unfinished \cup {"idle"} => RefsOK(u)'
  <2>1. Active(u) => \A w \in Touched(prog[u]) :
                        View(u, w)' = View(u, w) /\ Account'[w] = Account[w]
    BY <1>1 DEF View, Account
  <2> QED
    BY <1>1, <2>1, SerialOthers DEF Typed, TypeOK
<1> QED
  BY <1>2, <1>3, <1>4 DEF SerialOK

(* The end of t, committed or not: only rows of its program change.        *)
LEMMA EndSerial ==
  ASSUME Typed, Typed', RowsOK, ChainsOK, SerialOK, NEW t \in Txs, Active(t),
         ~Active(t)', pc'[t] # "idle", UNCHANGED <<prog, step>>,
         \A u \in Txs \ {t} : pc'[u] = pc[u],
         \A w \in Wallets : holder[w] # t =>
           /\ committed'[w] = committed[w] /\ draft'[w] = draft[w]
           /\ holder'[w] = holder[w],
         \A r \in Refs : \A u \in Txs \ {t} : index'[r] = u => index[r] = u
  PROVE  SerialOK'
<1>1. ASSUME NEW u \in Txs \ {t}
      PROVE  /\ Active(u)' => AloneOK(u)'
             /\ pc'[u] \in Unfinished \cup {"idle"} => RefsOK(u)'
  <2>1. \A w \in Wallets \ Touched(prog[t]) :
          committed'[w] = committed[w] /\ draft'[w] = draft[w] /\ holder'[w] = holder[w]
    BY HeldIsTouched
  <2>2. Active(u) => \A w \in Touched(prog[u]) :
                        View(u, w)' = View(u, w) /\ Account'[w] = Account[w]
    BY <2>1, OthersView, ActiveTyped
  <2> QED
    BY <2>2, SerialOthers
<1> QED
  BY <1>1 DEF SerialOK, Active

LEMMA RollbackSerial ==
  ASSUME Typed, Typed', RowsOK, ChainsOK, SerialOK, NEW t \in Txs, Active(t), Rollback(t)
  PROVE  SerialOK'
<1>1. /\ \A u \in Txs : pc'[u] = IF u = t THEN "rolledback" ELSE pc[u]
      /\ \A w \in Wallets : holder[w] # t =>
           committed'[w] = committed[w] /\ draft'[w] = draft[w] /\ holder'[w] = holder[w]
      /\ \A r \in Refs : \A u \in Txs \ {t} : index'[r] = u => index[r] = u
      /\ UNCHANGED <<prog, step>>
  BY LedgerAssumption DEF Rollback, Typed, TypeOK
<1> QED
  BY <1>1, EndSerial DEF Active, Unfinished

LEMMA CommitSerial ==
  ASSUME Typed, Typed', RowsOK, ChainsOK, SerialOK, NEW t \in Txs, Commit(t)
  PROVE  SerialOK'
<1>1. /\ \A u \in Txs : pc'[u] = IF u = t THEN "committed" ELSE pc[u]
      /\ \A w \in Wallets : holder[w] # t =>
           committed'[w] = committed[w] /\ draft'[w] = draft[w] /\ holder'[w] = holder[w]
      /\ UNCHANGED <<prog, step, index>>
      /\ Active(t)
  BY DEF Commit, Typed, TypeOK, Active, Unfinished
<1> QED
  BY <1>1, EndSerial DEF Active, Unfinished

-----------------------------------------------------------------------------
(* Each step is a step of the atomic ledger, or leaves it as it is.        *)

LEMMA QuietAtomic ==
  ASSUME Typed, Typed', NEW t \in Txs, committed' = committed,
         \A u \in Txs \ {t} : pc'[u] = pc[u],
         pc[t] # "committed", pc'[t] # "committed",
         \A r \in Refs : \/ index'[r] = index[r]
                         \/ index[r] \in {None, t} /\ index'[r] \in {None, t}
  PROVE  Account' = Account /\ Used' = Used
<1>1. Account' = Account
  BY DEF Account
<1>2. ASSUME NEW r \in Refs PROVE r \in Used' <=> r \in Used
  BY LedgerAssumption DEF Used, Typed, TypeOK
<1> QED
  BY <1>1, <1>2 DEF Used

LEMMA RollbackRefuses ==
  ASSUME Typed, Typed', NEW t \in Txs, Active(t), Rollback(t)
  PROVE  Atomic!Next
<1>1. /\ pc' = [pc EXCEPT ![t] = "rolledback"] /\ committed' = committed
      /\ \A r \in Refs : index'[r] = IF index[r] = t THEN None ELSE index[r]
      /\ pc[t] # "committed" /\ pc[t] # "rolledback"
  BY DEF Rollback, Active, Unfinished
<1>2. /\ \A u \in Txs \ {t} : pc'[u] = pc[u]
      /\ pc'[t] = "rolledback"
  BY <1>1 DEF Typed, TypeOK
<1>3. Account' = Account /\ Used' = Used
  <2>1. \A r \in Refs : \/ index'[r] = index[r]
                        \/ index[r] \in {None, t} /\ index'[r] \in {None, t}
    BY <1>1
  <2> QED
    BY <1>1, <1>2, <2>1, QuietAtomic
<1>4. Outcome[t] = "open" /\ Outcome' = [Outcome EXCEPT ![t] = "refused"]
  BY <1>1, <1>2 DEF Outcome
<1>5. Atomic!Refuse(t)
  BY <1>3, <1>4 DEF Atomic!Refuse, Account, Used, Outcome
<1>6. Outcome'[t] # Outcome[t]
  BY <1>4 DEF Outcome
<1> QED
  BY <1>5, <1>6 DEF Atomic!Next, Outcome

LEMMA CommitApplies ==
  ASSUME Typed, Typed', RowsOK, ChainsOK, JournalsOK, SerialOK, NEW t \in Txs, Commit(t)
  PROVE  Atomic!Next
<1> PICK p \in Menu[t] : p = prog[t]
  BY ActiveTyped DEF Commit, Active, Unfinished
<1> DEFINE a == Atomic!After(Account, p)
<1>1. /\ pc[t] = "ready" /\ step[t] > Len(p) /\ Active(t)
      /\ pc' = [pc EXCEPT ![t] = "committed"]
      /\ index' = index
      /\ \A w \in Wallets : committed'[w] = IF holder[w] = t THEN draft[w] ELSE committed[w]
  BY DEF Commit, Active, Unfinished
<1>2. /\ p \in Seq(Movements) /\ p \in Menu[t]
      /\ Pending(t) = Len(p) /\ step[t] = Len(p) + 1 /\ Len(p) \in Nat
  BY <1>1, ActiveTyped DEF Pending
<1>3. /\ \A w \in Touched(p) : Balances(View(t, w)) = a[Len(p)][w]
      /\ \A i \in 1..Len(p) : Ledgered(p[i]) => a[i][p[i].wallet].balance >= 0
  BY <1>1, <1>2 DEF SerialOK, AloneOK
<1>4. /\ \A i, j \in 1..Len(p) :
           Ledgered(p[i]) /\ Ledgered(p[j]) /\ p[i].ref = p[j].ref => i = j
      /\ \A r \in Refs : index[r] = t =>
           \E i \in 1..Len(p) : Ledgered(p[i]) /\ p[i].ref = r
      /\ \A i \in 1..Len(p) : Ledgered(p[i]) => index[p[i].ref] = t /\ p[i].ref \in Refs
  <2>1. RefsOK(t) /\ LegsOK(t)
    BY <1>1 DEF SerialOK, JournalsOK, Active
  <2>2. \A i \in 1..Len(p) : i < step[t]
    BY <1>2
  <2>3. \A i \in 1..Len(p) : Ledgered(p[i]) => p[i].ref \in Refs
    BY LegIsMovement
  <2>4. \A i, j \in 1..Len(p) :
           Ledgered(p[i]) /\ Ledgered(p[j]) /\ p[i].ref = p[j].ref => i = j
    BY <2>1, <2>2 DEF RefsOK
  <2>5. \A r \in Refs : index[r] = t =>
           \E i \in 1..Len(p) : Ledgered(p[i]) /\ p[i].ref = r
    BY <2>1 DEF RefsOK
  <2>6. \A i \in 1..Len(p) : Ledgered(p[i]) => index[p[i].ref] = t
    BY <1>1, <2>1, <2>2 DEF LegsOK, Made
  <2> QED
    BY <2>3, <2>4, <2>5, <2>6
<1>5. Account' = a[Len(p)]
  <2>1. Account \in Accounts /\ Account' = [w \in Wallets |-> Balances(committed'[w])]
    BY AccountTyped DEF Account, Balances
  <2>2. /\ a[Len(p)] \in Accounts
        /\ \A w \in Wallets \ Touched(p) : a[Len(p)][w] = Account[w]
    BY <1>2, <2>1, AfterTyped
  <2>3. ASSUME NEW w \in Wallets PROVE Balances(committed'[w]) = a[Len(p)][w]
    <3>1. CASE w \in Touched(p)
      BY <1>1, <1>3, <3>1 DEF View
    <3>2. CASE w \notin Touched(p)
      <4>1. holder[w] # t
        BY <3>2, HeldIsTouched
      <4> QED
        BY <1>1, <2>2, <3>2, <4>1 DEF Account, Balances
    <3> QED
      BY <3>1, <3>2
  <2> HIDE DEF a
  <2> QED
    BY <2>1, <2>2, <2>3 DEF Accounts
<1>6. Atomic!Keys(p) = {i \in 1..Len(p) : Ledgered(p[i])}
  BY <1>2 DEF Atomic!Keys, Ledgered
<1>7. Used' = Used \cup {p[i].ref : i \in Atomic!Keys(p)}
  <2>1. \A r \in Refs : r \in Used' <=> r \in Used \/ index[r] = t
    BY <1>1, LedgerAssumption DEF Used, Typed, TypeOK
  <2> QED
    BY <1>4, <1>6, <2>1 DEF Used
<1>8. Outcome[t] = "open" /\ Outcome' = [Outcome EXCEPT ![t] = "applied"]
  BY <1>1 DEF Outcome, Typed, TypeOK
<1>9. \A i \in Atomic!Keys(p) : a[i][p[i].wallet].balance >= 0
  BY <1>3, <1>6
<1>10. /\ \A i \in Atomic!Keys(p) : p[i].ref \notin Used
       /\ \A i, j \in Atomic!Keys(p) : p[i].ref = p[j].ref => i = j
  BY <1>1, <1>4, <1>6 DEF Used
<1>11. Atomic!Covered(p) /\ Atomic!Fresh(p)
  BY <1>9, <1>10 DEF Atomic!Covered, Atomic!Fresh, Account, Used
<1>12. Atomic!Apply(t, p)
  BY <1>5, <1>7, <1>8, <1>11 DEF Atomic!Apply, Account, Used, Outcome
<1>13. Outcome'[t] # Outcome[t]
  BY <1>8 DEF Outcome
<1> QED
  BY <1>12, <1>13 DEF Atomic!Next, Outcome

LEMMA AtomicInit == Init => Atomic!Init
<1> SUFFICES ASSUME Init PROVE Atomic!Init
  OBVIOUS
<1>1. Account = Opening
  BY LedgerAssumption DEF Init, Account
<1>2. Used = {}
  BY DEF Init, Used
<1>3. Outcome = [t \in Txs |-> "open"]
  BY DEF Init, Outcome
<1> QED
  BY <1>1, <1>2, <1>3 DEF Atomic!Init, Account, Used, Outcome

LEMMA StepSerial ==
  ASSUME Typed, Typed', RowsOK, ChainsOK, JournalsOK, SerialOK, [ExclusiveNext]_vars
  PROVE  SerialOK' /\ [Atomic!Next]_(Atomic!vars)
<1>0. Account' = Account /\ Used' = Used /\ Outcome' = Outcome => UNCHANGED Atomic!vars
  BY DEF Atomic!vars, Account, Used, Outcome
<1>1. CASE UNCHANGED vars
  <2>1. SerialOK'
    BY <1>1 DEF vars, SerialOK, AloneOK, RefsOK, Active, Pending, View, Account
  <2>2. UNCHANGED Atomic!vars
    BY <1>0, <1>1 DEF vars, Account, Used, Outcome
  <2> QED
    BY <2>1, <2>2
<1>2. CASE ExclusiveNext
  <2> PICK t \in Txs : \/ \E p \in Menu[t] : Exclusive(p) /\ Begin(t, p)
                       \/ Advance(t)
                       \/ Expire(t)
    BY <1>2 DEF ExclusiveNext
  <2>1. ASSUME NEW p \in Menu[t], Begin(t, p) PROVE SerialOK' /\ UNCHANGED Atomic!vars
    <3>1. /\ pc[t] = "idle" /\ pc' = [pc EXCEPT ![t] = "ready"]
          /\ committed' = committed /\ index' = index
      BY <2>1 DEF Begin
    <3>2. Account' = Account /\ Used' = Used
      BY <3>1, QuietAtomic DEF Typed, TypeOK
    <3>3. Outcome' = Outcome
      BY <3>1 DEF Outcome, Typed, TypeOK
    <3> QED
      BY <1>0, <2>1, <3>2, <3>3, BeginSerial
  <2>2. CASE ReadWallet(t)
    <3>1. /\ pc[t] = "ready" /\ pc' = [pc EXCEPT ![t] = "write"]
          /\ committed' = committed /\ index' = index
      BY <2>2 DEF ReadWallet, AtMovement
    <3>2. Account' = Account /\ Used' = Used
      BY <3>1, QuietAtomic DEF Typed, TypeOK
    <3>3. Outcome' = Outcome
      BY <3>1 DEF Outcome, Typed, TypeOK
    <3> QED
      BY <1>0, <2>2, <3>2, <3>3, ReadSerial
  <2>3. CASE UpdateBalance(t)
    <3>1. /\ pc[t] = "write" /\ pc' = [pc EXCEPT ![t] = "insert"]
          /\ committed' = committed /\ index' = index
      BY <2>3 DEF UpdateBalance
    <3>2. Account' = Account /\ Used' = Used
      BY <3>1, QuietAtomic DEF Typed, TypeOK
    <3>3. Outcome' = Outcome
      BY <3>1 DEF Outcome, Typed, TypeOK
    <3> QED
      BY <1>0, <2>3, <3>2, <3>3, UpdateSerial
  <2>4. CASE CreateLedgerEntry(t)
    <3>1. /\ pc[t] = "insert" /\ pc' = [pc EXCEPT ![t] = "ready"]
          /\ committed' = committed
          /\ index[Current(t).ref] = None /\ index' = [index EXCEPT ![Current(t).ref] = t]
      BY <2>4 DEF CreateLedgerEntry
    <3>2. \A r \in Refs : \/ index'[r] = index[r]
                          \/ index[r] \in {None, t} /\ index'[r] \in {None, t}
      BY <3>1 DEF Typed, TypeOK
    <3>3. Account' = Account /\ Used' = Used
      BY <3>1, <3>2, QuietAtomic DEF Typed, TypeOK
    <3>4. Outcome' = Outcome
      BY <3>1 DEF Outcome, Typed, TypeOK
    <3> QED
      BY <1>0, <2>4, <3>3, <3>4, CreateSerial
  <2>5. CASE MoveFrozen(t)
    <3>1. pc' = pc /\ committed' = committed /\ index' = index
      BY <2>5 DEF MoveFrozen
    <3>2. Account' = Account /\ Used' = Used /\ Outcome' = Outcome
      BY <3>1 DEF Account, Used, Outcome
    <3> QED
      BY <1>0, <2>5, <3>2, FrozenSerial
  <2>6. CASE Commit(t)
    BY <2>6, CommitSerial, CommitApplies
  <2>7. CASE RejectOverdraft(t) \/ RejectDuplicate(t) \/ DeadlockVictim(t) \/ Expire(t)
    <3>1. Active(t) /\ Rollback(t)
      BY <2>7 DEF RejectOverdraft, RejectDuplicate, DeadlockVictim, Expire, AtMovement,
                  Active, Unfinished
    <3> QED
      BY <3>1, RollbackSerial, RollbackRefuses
  <2> QED
    BY <2>1, <2>2, <2>3, <2>4, <2>5, <2>6, <2>7 DEF Advance
<1> QED
  BY <1>1, <1>2

(* Requests that do not overlap on a wallet behave as the atomic ledger    *)
(* the callers of WalletsService take it to be: each one is applied whole, *)
(* every debit covered and every reference new, or has no effect.          *)
THEOREM ExclusiveImplementsAtomic == ExclusiveSpec => AtomicSpec
<1> DEFINE Inv == Typed /\ RowsOK /\ ChainsOK /\ JournalsOK /\ SerialOK
<1>1. Init => Inv
  BY InitTyped, InitRows, InitChains, InitJournals, InitSerial
<1>2. Inv /\ [ExclusiveNext]_vars => Inv' /\ [Atomic!Next]_(Atomic!vars)
  BY ExclusiveIsNext, StepTyped, StepRows, StepChains, StepJournals, StepSerial
<1> QED
  BY <1>1, <1>2, AtomicInit, PTL DEF ExclusiveSpec, AtomicSpec, Atomic!Spec

-----------------------------------------------------------------------------
(* The holds.  Every movement of the frozen balance is an increment, so    *)
(* that the row a transaction has locked is ahead of the committed one by  *)
(* the movements the transaction has made so far.                          *)

SoFar(p, w, n) == SumFunctionOnSet(HoldsOn(p, w), 1..(n - 1))

(* Done is finite in every reachable state, for any set of transactions.   *)
HoldsOK ==
  /\ IsFiniteSet(Done)
  /\ \A t \in Txs : step[t] <= Len(prog[t]) + 1
  /\ \A w \in Wallets, t \in Txs :
       holder[w] = t =>
         draft[w].frozen = committed[w].frozen + SoFar(prog[t], w, step[t])
  /\ \A w \in Wallets, t \in Txs :
       pc[t] \in Unfinished \cup {"idle"} /\ holder[w] # t => SoFar(prog[t], w, step[t]) = 0
  /\ FrozenExact

LEMMA HoldsInt ==
  ASSUME NEW p \in Seq(Movements), NEW w
  PROVE  /\ 1..Len(p) = DOMAIN HoldsOn(p, w)
         /\ \A i \in 1..Len(p) : HoldsOn(p, w)[i] \in Int
<1>1. \A i \in 1..Len(p) : p[i] \in Movements
  OBVIOUS
<1>2. \A i \in 1..Len(p) : FrozenDelta(p[i]) \in Int
  BY <1>1, DeltaInt
<1> QED
  BY <1>2 DEF HoldsOn

LEMMA SoFarFirst == ASSUME NEW p, NEW w PROVE SoFar(p, w, 1) = 0
<1>1. 1..(1 - 1) = {}
  OBVIOUS
<1> QED
  BY <1>1, SumEmpty DEF SoFar

LEMMA SoFarNext ==
  ASSUME NEW p \in Seq(Movements), NEW w, NEW n \in 1..Len(p)
  PROVE  /\ SoFar(p, w, n) \in Int
         /\ SoFar(p, w, n + 1) =
              SoFar(p, w, n) + IF p[n].wallet = w /\ ~Ledgered(p[n])
                               THEN FrozenDelta(p[n]) ELSE 0
<1> DEFINE f == HoldsOn(p, w)
           S == 1..(n - 1)
<1>1. \A i \in 1..Len(p) : f[i] \in Int
  BY HoldsInt
<1>2. /\ IsFiniteSet(S) /\ n \notin S /\ S \cup {n} = 1..((n + 1) - 1)
      /\ \A i \in S : i \in 1..Len(p)
  BY FS_Interval
<1>3. f[n] = IF p[n].wallet = w /\ ~Ledgered(p[n]) THEN FrozenDelta(p[n]) ELSE 0
  BY DEF HoldsOn
<1>4. /\ \A i \in S : f[i] \in Int
      /\ f[n] \in Int
  BY <1>1, <1>2
<1> HIDE DEF f, S
<1>5. SumFunctionOnSet(f, S) \in Int
  BY <1>2, <1>4, SumInt
<1>6. SumFunctionOnSet(f, S \cup {n}) = f[n] + SumFunctionOnSet(f, S)
  BY <1>2, <1>4, SumAdd
<1>7. /\ SoFar(p, w, n) = SumFunctionOnSet(f, S)
      /\ SoFar(p, w, n + 1) = SumFunctionOnSet(f, S \cup {n})
  BY <1>2 DEF f, S, SoFar
<1> QED
  BY <1>3, <1>4, <1>5, <1>6, <1>7

LEMMA InitHolds == Init => HoldsOK
<1> SUFFICES ASSUME Init PROVE HoldsOK
  OBVIOUS
<1>1. Done = {}
  BY DEF Init, Done
<1>2. IsFiniteSet(Done)
  BY <1>1, FS_EmptySet
<1>3. \A w \in Wallets, t \in Txs : SoFar(prog[t], w, step[t]) = 0
  BY SoFarFirst DEF Init
<1>4. \A w \in Wallets : SumFunctionOnSet([t \in Txs |-> HeldBy(t, w)], Done) = 0
  BY <1>1, SumEmpty
<1>5. FrozenExact
  <2>1. \A w \in Wallets : committed[w].frozen = Opening[w].frozen /\ Opening[w].frozen \in Nat
    BY LedgerAssumption DEF Init
  <2> QED
    BY <1>4, <2>1 DEF FrozenExact
<1>6. \A t \in Txs : step[t] <= Len(prog[t]) + 1
  BY DEF Init
<1>7. \A w \in Wallets, t \in Txs : holder[w] # t
  BY LedgerAssumption DEF Init
<1> QED
  BY <1>2, <1>3, <1>5, <1>6, <1>7 DEF HoldsOK

(* A step of t that is not its commit: what committed transactions hold    *)
(* stays the same.                                                         *)
LEMMA SameHolds ==
  ASSUME Typed, HoldsOK, NEW t \in Txs,
         committed' = committed, pc[t] # "committed", pc'[t] # "committed",
         \A u \in Txs \ {t} : pc'[u] = pc[u] /\ prog'[u] = prog[u]
  PROVE  IsFiniteSet(Done)' /\ FrozenExact'
<1>1. Done' = Done /\ t \notin Done
  BY DEF Done
<1>2. ASSUME NEW w \in Wallets
      PROVE  SumFunctionOnSet([u \in Txs |-> HeldBy(u, w)], Done)'
               = SumFunctionOnSet([u \in Txs |-> HeldBy(u, w)], Done)
  <2> DEFINE f == [u \in Txs |-> SumFunctionOnSet(HoldsOn(prog[u], w), 1..Len(prog[u]))]
             g == [u \in Txs |-> SumFunctionOnSet(HoldsOn(prog'[u], w), 1..Len(prog'[u]))]
  <2>1. \A u \in Done : u \in Txs /\ g[u] = f[u] /\ prog[u] \in Seq(Movements)
    BY <1>1 DEF Done, Typed, TypeOK
  <2>2. \A u \in Done : f[u] \in Int
    <3> SUFFICES ASSUME NEW u \in Done PROVE f[u] \in Int
      OBVIOUS
    <3>1. \A i \in 1..Len(prog[u]) : HoldsOn(prog[u], w)[i] \in Int
      BY <2>1, HoldsInt
    <3>2. IsFiniteSet(1..Len(prog[u]))
      BY <2>1, FS_Interval
    <3>3. SumFunctionOnSet(HoldsOn(prog[u], w), 1..Len(prog[u])) \in Int
      BY <3>1, <3>2, SumInt
    <3> QED
      BY <2>1, <3>3
  <2>3. IsFiniteSet(Done)
    BY DEF HoldsOK
  <2> HIDE DEF f, g
  <2>4. SumFunctionOnSet(g, Done) = SumFunctionOnSet(f, Done)
    BY <2>1, <2>2, <2>3, SumSame
  <2> QED
    BY <1>1, <2>4 DEF f, g, HeldBy
<1> QED
  BY <1>1, <1>2 DEF HoldsOK, FrozenExact

(* A step of t that moves no hold.                                         *)
LEMMA QuietHolds ==
  ASSUME Typed, RowsOK, HoldsOK, NEW t \in Txs,
         committed' = committed,
         pc[t] \in Unfinished \cup {"idle"}, pc'[t] \in Unfinished,
         \A u \in Txs \ {t} :
           pc'[u] = pc[u] /\ prog'[u] = prog[u] /\ step'[u] = step[u],
         \A w \in Wallets :
           /\ draft'[w].frozen = draft[w].frozen
           /\ holder'[w] = holder[w] \/ (holder'[w] = t /\ holder[w] \in {None, t})
           /\ SoFar(prog'[t], w, step'[t]) = SoFar(prog[t], w, step[t]),
         step'[t] <= Len(prog'[t]) + 1
  PROVE  HoldsOK'
<1>1. IsFiniteSet(Done)' /\ FrozenExact'
  BY SameHolds DEF Unfinished
<1>2. \A u \in Txs, w \in Wallets :
        SoFar(prog'[u], w, step'[u]) = SoFar(prog[u], w, step[u])
  OBVIOUS
<1>3. ASSUME NEW w \in Wallets, NEW u \in Txs, holder'[w] = u
      PROVE  draft'[w].frozen = committed[w].frozen + SoFar(prog'[u], w, step'[u])
  <2>1. CASE holder[w] = u
    <3>1. draft[w].frozen = committed[w].frozen + SoFar(prog[u], w, step[u])
      BY <2>1 DEF HoldsOK
    <3> QED
      BY <1>2, <3>1
  <2>2. CASE holder[w] # u
    <3>1. holder[w] = None /\ u = t
      BY <1>3, <2>2
    <3>2. draft[w] = committed[w]
      BY <3>1 DEF RowsOK, LockOK
    <3>3. SoFar(prog[t], w, step[t]) = 0
      BY <2>2, <3>1 DEF HoldsOK
    <3>4. SoFar(prog'[u], w, step'[u]) = 0
      BY <1>2, <3>1, <3>3
    <3>5. committed[w].frozen \in Int
      BY DEF Typed, TypeOK, Rows
    <3> QED
      BY <3>2, <3>4, <3>5
  <2> QED
    BY <2>1, <2>2
<1>4. ASSUME NEW w \in Wallets, NEW u \in Txs,
             pc'[u] \in Unfinished \cup {"idle"}, holder'[w] # u
      PROVE  SoFar(prog'[u], w, step'[u]) = 0
  <2>1. pc[u] \in Unfinished \cup {"idle"} /\ holder[w] # u
    BY <1>4, LedgerAssumption
  <2> QED
    BY <1>2, <2>1 DEF HoldsOK
<1>5. \A u \in Txs : step'[u] <= Len(prog'[u]) + 1
  BY DEF HoldsOK
<1> QED
  BY <1>1, <1>3, <1>4, <1>5 DEF HoldsOK

LEMMA RollbackHolds ==
  ASSUME Typed, RowsOK, HoldsOK, NEW t \in Txs, Rollback(t), pc[t] # "committed"
  PROVE  HoldsOK'
<1>1. /\ committed' = committed /\ prog' = prog /\ step' = step
      /\ pc' = [pc EXCEPT ![t] = "rolledback"]
      /\ \A w \in Wallets :
           /\ draft'[w] = IF holder[w] = t THEN committed[w] ELSE draft[w]
           /\ holder'[w] = IF holder[w] = t THEN None ELSE holder[w]
  BY DEF Rollback
<1>2. \A u \in Txs : pc'[u] = IF u = t THEN "rolledback" ELSE pc[u]
  BY <1>1 DEF Typed, TypeOK
<1>3. IsFiniteSet(Done)' /\ FrozenExact'
  BY <1>1, <1>2, SameHolds
<1>4. ASSUME NEW w \in Wallets, NEW u \in Txs, holder'[w] = u
      PROVE  draft'[w].frozen = committed[w].frozen + SoFar(prog[u], w, step[u])
  <2>1. holder[w] = u /\ u # t
    BY <1>1, <1>4, LedgerAssumption
  <2> QED
    BY <1>1, <2>1 DEF HoldsOK
<1>5. ASSUME NEW w \in Wallets, NEW u \in Txs,
             pc'[u] \in Unfinished \cup {"idle"}, holder'[w] # u
      PROVE  SoFar(prog[u], w, step[u]) = 0
  <2>1. u # t /\ pc[u] \in Unfinished \cup {"idle"} /\ holder[w] # u
    BY <1>1, <1>2, <1>5 DEF Unfinished
  <2> QED
    BY <2>1 DEF HoldsOK
<1> QED
  BY <1>1, <1>3, <1>4, <1>5 DEF HoldsOK

LEMMA MoveHolds ==
  ASSUME Typed, RowsOK, HoldsOK, NEW t \in Txs, MoveFrozen(t)
  PROVE  HoldsOK'
<1> DEFINE m == Current(t)
           x == m.wallet
<1>1. /\ pc[t] = "ready" /\ pc' = pc
      /\ m \in Movements /\ x \in Wallets /\ ~Ledgered(m)
      /\ step[t] \in 1..Len(prog[t]) /\ m = prog[t][step[t]]
      /\ holder[x] \in {None, t}
      /\ holder' = [holder EXCEPT ![x] = t]
      /\ draft' = [draft EXCEPT ![x].frozen = draft[x].frozen + FrozenDelta(m)]
      /\ step' = [step EXCEPT ![t] = step[t] + 1]
      /\ committed' = committed /\ prog' = prog
  BY CurrentIsMovement
  DEF MoveFrozen, CanLock, AtMovement, Movements, Current, Ledgered
<1>2. FrozenDelta(m) \in Int
  BY <1>1, DeltaInt
<1>3. prog[t] \in Seq(Movements)
  BY DEF Typed, TypeOK
<1> HIDE DEF m
<1>4. \A w \in Wallets :
        /\ SoFar(prog[t], w, step[t]) \in Int
        /\ SoFar(prog[t], w, step[t] + 1) =
             SoFar(prog[t], w, step[t]) + IF x = w THEN FrozenDelta(m) ELSE 0
  BY <1>1, <1>3, SoFarNext
<1>5. /\ draft'[x].frozen = draft[x].frozen + FrozenDelta(m)
      /\ \A w \in Wallets \ {x} : draft'[w] = draft[w] /\ holder'[w] = holder[w]
      /\ holder'[x] = t
      /\ step'[t] = step[t] + 1
      /\ \A u \in Txs \ {t} : step'[u] = step[u]
  BY <1>1 DEF Typed, TypeOK, Rows
<1>6. \A w \in Wallets : committed[w].frozen \in Int /\ draft[w].frozen \in Int
  BY DEF Typed, TypeOK, Rows
<1>7. IsFiniteSet(Done)' /\ FrozenExact'
  BY <1>1, SameHolds
<1>8. ASSUME NEW w \in Wallets, NEW u \in Txs, holder'[w] = u
      PROVE  draft'[w].frozen = committed[w].frozen + SoFar(prog[u], w, step'[u])
  <2>1. CASE w = x
    <3>1. u = t
      BY <1>5, <1>8, <2>1
    <3>2. draft[x].frozen = committed[x].frozen + SoFar(prog[t], x, step[t])
      <4>1. CASE holder[x] = t
        BY <4>1, <1>1 DEF HoldsOK
      <4>2. CASE holder[x] = None
        <5>1. draft[x] = committed[x]
          BY <1>1, <4>2 DEF RowsOK, LockOK
        <5>2. SoFar(prog[t], x, step[t]) = 0
          BY <1>1, <4>2, LedgerAssumption DEF HoldsOK, Unfinished
        <5> QED
          BY <1>1, <1>6, <5>1, <5>2
      <4> QED
        BY <1>1, <4>1, <4>2
    <3>3. SoFar(prog[t], x, step[t] + 1) = SoFar(prog[t], x, step[t]) + FrozenDelta(m)
      BY <1>1, <1>4
    <3>4. SoFar(prog[t], x, step[t]) \in Int
      BY <1>1, <1>4
    <3>5. draft[x].frozen + FrozenDelta(m)
            = committed[x].frozen + SoFar(prog[t], x, step[t] + 1)
      <4> DEFINE a == SoFar(prog[t], x, step[t])
      <4> HIDE DEF a
      <4>1. /\ a \in Int /\ committed[x].frozen \in Int
            /\ draft[x].frozen = committed[x].frozen + a
            /\ SoFar(prog[t], x, step[t] + 1) = a + FrozenDelta(m)
        BY <1>1, <1>6, <3>2, <3>3, <3>4 DEF a
      <4> QED
        BY <1>2, <4>1
    <3> QED
      BY <1>5, <2>1, <3>1, <3>5
  <2>2. CASE w # x
    <3>1. holder[w] = u /\ draft'[w] = draft[w]
      BY <1>5, <1>8, <2>2
    <3>2. draft[w].frozen = committed[w].frozen + SoFar(prog[u], w, step[u])
      BY <3>1 DEF HoldsOK
    <3>3. SoFar(prog[u], w, step'[u]) = SoFar(prog[u], w, step[u])
      BY <1>4, <1>5, <2>2
    <3> QED
      BY <3>1, <3>2, <3>3
  <2> QED
    BY <2>1, <2>2
<1>9. ASSUME NEW w \in Wallets, NEW u \in Txs,
             pc[u] \in Unfinished \cup {"idle"}, holder'[w] # u
      PROVE  SoFar(prog[u], w, step'[u]) = 0
  <2>1. holder[w] # u
    BY <1>1, <1>5, <1>9, LedgerAssumption
  <2>2. SoFar(prog[u], w, step[u]) = 0
    BY <1>9, <2>1 DEF HoldsOK
  <2>3. CASE u = t
    <3>1. w # x
      BY <1>5, <1>9, <2>3
    <3> QED
      BY <1>4, <1>5, <2>2, <2>3, <3>1
  <2>4. CASE u # t
    BY <1>5, <2>2, <2>4
  <2> QED
    BY <2>3, <2>4
<1>10. ASSUME NEW u \in Txs PROVE step'[u] <= Len(prog[u]) + 1
  <2>1. CASE u = t
    <3>1. Len(prog[t]) \in Nat
      BY <1>3
    <3>2. step[t] + 1 <= Len(prog[t]) + 1
      BY <1>1, <3>1
    <3> QED
      BY <1>5, <2>1, <3>2
  <2>2. CASE u # t
    BY <1>5, <2>2 DEF HoldsOK
  <2> QED
    BY <2>1, <2>2
<1> QED
  BY <1>1, <1>7, <1>8, <1>9, <1>10 DEF HoldsOK

LEMMA CommitHolds ==
  ASSUME Typed, RowsOK, HoldsOK, NEW t \in Txs, Commit(t)
  PROVE  HoldsOK'
<1>1. /\ pc[t] = "ready" /\ step[t] > Len(prog[t])
      /\ pc' = [pc EXCEPT ![t] = "committed"]
      /\ UNCHANGED <<draft, index, prog, step, target>>
      /\ \A w \in Wallets :
           /\ committed'[w] = IF holder[w] = t THEN draft[w] ELSE committed[w]
           /\ holder'[w] = IF holder[w] = t THEN None ELSE holder[w]
  BY DEF Commit
<1>2. \A u \in Txs : pc'[u] = IF u = t THEN "committed" ELSE pc[u]
  BY <1>1 DEF Typed, TypeOK
<1>3. Done' = Done \cup {t} /\ t \notin Done /\ \A u \in Done : u \in Txs
  BY <1>1, <1>2 DEF Done
<1>4. IsFiniteSet(Done) /\ IsFiniteSet(Done)'
  BY <1>3, FS_AddElement DEF HoldsOK
<1>5. \A u \in Txs : prog[u] \in Seq(Movements) /\ Len(prog[u]) \in Nat /\ step[u] \in Nat
  BY DEF Typed, TypeOK
<1>6. step[t] = Len(prog[t]) + 1
  BY <1>1, <1>5 DEF HoldsOK
<1>7. \A u \in Txs, w \in Wallets : HeldBy(u, w) \in Int
  <2> SUFFICES ASSUME NEW u \in Txs, NEW w \in Wallets PROVE HeldBy(u, w) \in Int
    OBVIOUS
  <2>1. \A i \in 1..Len(prog[u]) : HoldsOn(prog[u], w)[i] \in Int
    BY <1>5, HoldsInt
  <2>2. IsFiniteSet(1..Len(prog[u]))
    BY <1>5, FS_Interval
  <2> QED
    BY <2>1, <2>2, SumInt DEF HeldBy
<1>8. \A w \in Wallets : HeldBy(t, w) = SoFar(prog[t], w, step[t])
  <2>1. 1..(step[t] - 1) = 1..Len(prog[t])
    BY <1>5, <1>6
  <2> QED
    BY <2>1 DEF HeldBy, SoFar
<1>9. ASSUME NEW w \in Wallets
      PROVE  committed'[w].frozen = committed[w].frozen + HeldBy(t, w)
  <2>1. CASE holder[w] = t
    <3>1. draft[w].frozen = committed[w].frozen + SoFar(prog[t], w, step[t])
      BY <2>1 DEF HoldsOK
    <3> QED
      BY <1>1, <1>8, <2>1, <3>1
  <2>2. CASE holder[w] # t
    <3>1. SoFar(prog[t], w, step[t]) = 0
      BY <1>1, <2>2 DEF HoldsOK, Unfinished
    <3>2. committed[w].frozen \in Int
      BY DEF Typed, TypeOK, Rows
    <3> QED
      BY <1>1, <1>8, <2>2, <3>1, <3>2
  <2> QED
    BY <2>1, <2>2
<1>10. ASSUME NEW w \in Wallets
       PROVE  committed'[w].frozen =
                Opening[w].frozen + SumFunctionOnSet([u \in Txs |-> HeldBy(u, w)], Done')
  <2> DEFINE f == [u \in Txs |-> HeldBy(u, w)]
  <2>1. /\ \A u \in Done : f[u] \in Int
        /\ f[t] \in Int /\ f[t] = HeldBy(t, w)
    BY <1>3, <1>7
  <2>2. committed[w].frozen = Opening[w].frozen + SumFunctionOnSet(f, Done)
    BY DEF HoldsOK, FrozenExact
  <2> HIDE DEF f
  <2>3. SumFunctionOnSet(f, Done) \in Int
    BY <1>4, <2>1, SumInt
  <2>4. SumFunctionOnSet(f, Done \cup {t}) = f[t] + SumFunctionOnSet(f, Done)
    BY <1>3, <1>4, <2>1, SumAdd
  <2>5. Opening[w].frozen \in Int
    BY LedgerAssumption
  <2>6. committed'[w].frozen = Opening[w].frozen + SumFunctionOnSet(f, Done')
    BY <1>3, <1>9, <2>1, <2>2, <2>3, <2>4, <2>5
  <2> QED
    BY <2>6 DEF f
<1>11. FrozenExact'
  <2>1. \A u \in Txs, w \in Wallets : HeldBy(u, w)' = HeldBy(u, w)
    BY <1>1 DEF HeldBy
  <2> QED
    BY <1>10, <2>1 DEF FrozenExact
<1>12. ASSUME NEW w \in Wallets, NEW u \in Txs, holder'[w] = u
       PROVE  draft[w].frozen = committed'[w].frozen + SoFar(prog[u], w, step[u])
  <2>1. holder[w] = u /\ u # t
    BY <1>1, <1>12, LedgerAssumption
  <2> QED
    BY <1>1, <2>1 DEF HoldsOK
<1>13. ASSUME NEW w \in Wallets, NEW u \in Txs,
              pc'[u] \in Unfinished \cup {"idle"}, holder'[w] # u
       PROVE  SoFar(prog[u], w, step[u]) = 0
  <2>1. u # t /\ pc[u] \in Unfinished \cup {"idle"} /\ holder[w] # u
    BY <1>1, <1>2, <1>13 DEF Unfinished
  <2> QED
    BY <2>1 DEF HoldsOK
<1> QED
  BY <1>1, <1>4, <1>11, <1>12, <1>13 DEF HoldsOK

LEMMA StepHolds == Typed /\ RowsOK /\ JournalsOK /\ HoldsOK /\ [Next]_vars => HoldsOK'
<1> SUFFICES ASSUME Typed, RowsOK, JournalsOK, HoldsOK, [Next]_vars PROVE HoldsOK'
  OBVIOUS
<1>1. CASE UNCHANGED vars
  BY <1>1 DEF vars, HoldsOK, Done, FrozenExact, HeldBy
<1>2. CASE Next
  <2> PICK t \in Txs : \/ \E p \in Menu[t] : Begin(t, p)
                       \/ Advance(t)
                       \/ Expire(t)
    BY <1>2 DEF Next
  <2>1. ASSUME NEW p \in Menu[t], Begin(t, p) PROVE HoldsOK'
    <3>1. /\ pc[t] = "idle" /\ pc' = [pc EXCEPT ![t] = "ready"]
          /\ prog' = [prog EXCEPT ![t] = p]
          /\ UNCHANGED <<committed, draft, holder, index, step, target>>
      BY <2>1 DEF Begin
    <3>2. step[t] = 1
      BY <3>1 DEF JournalsOK, LegsOK
    <3>3. p \in Seq(Movements)
      BY LedgerAssumption
    <3>4. /\ prog'[t] = p /\ pc'[t] = "ready"
          /\ \A u \in Txs \ {t} : pc'[u] = pc[u] /\ prog'[u] = prog[u]
      BY <3>1 DEF Typed, TypeOK
    <3>5. \A w \in Wallets : /\ SoFar(prog[t], w, step[t]) = 0
                             /\ SoFar(prog'[t], w, step'[t]) = 0
      BY <3>1, <3>2, SoFarFirst
    <3>6. step'[t] <= Len(prog'[t]) + 1
      BY <3>1, <3>2, <3>3, <3>4
    <3> QED
      BY <3>1, <3>4, <3>5, <3>6, QuietHolds DEF Unfinished
  <2>2. CASE ReadWallet(t)
    <3>1. /\ pc[t] = "ready" /\ pc' = [pc EXCEPT ![t] = "write"]
          /\ UNCHANGED <<committed, draft, holder, index, prog, step>>
      BY <2>2 DEF ReadWallet, AtMovement
    <3>2. pc'[t] = "write" /\ \A u \in Txs \ {t} : pc'[u] = pc[u]
      BY <3>1 DEF Typed, TypeOK
    <3>3. step[t] <= Len(prog[t]) + 1
      BY DEF HoldsOK
    <3> QED
      BY <3>1, <3>2, <3>3, QuietHolds DEF Unfinished
  <2>3. CASE UpdateBalance(t)
    <3> DEFINE x == Current(t).wallet
    <3>1. /\ pc[t] = "write" /\ pc' = [pc EXCEPT ![t] = "insert"]
          /\ x \in Wallets
          /\ holder[x] \in {None, t}
          /\ holder' = [holder EXCEPT ![x] = t]
          /\ draft' = [draft EXCEPT ![x].balance = target[t]]
          /\ UNCHANGED <<committed, index, prog, step>>
      BY <2>3, InMovement DEF UpdateBalance, CanLock
    <3> HIDE DEF x
    <3>2. \A w \in Wallets :
            /\ draft'[w].frozen = draft[w].frozen
            /\ holder'[w] = holder[w] \/ (holder'[w] = t /\ holder[w] \in {None, t})
      BY <3>1 DEF Typed, TypeOK, Rows
    <3>3. pc'[t] = "insert" /\ \A u \in Txs \ {t} : pc'[u] = pc[u]
      BY <3>1 DEF Typed, TypeOK
    <3>4. step[t] <= Len(prog[t]) + 1
      BY DEF HoldsOK
    <3> QED
      BY <3>1, <3>2, <3>3, <3>4, QuietHolds DEF Unfinished
  <2>4. CASE CreateLedgerEntry(t)
    <3> DEFINE x == Current(t).wallet
               j == Append(draft[x].journal,
                      [ref |-> Current(t).ref, delta |-> Delta(Current(t)), after |-> target[t]])
    <3>1. /\ pc[t] = "insert" /\ pc' = [pc EXCEPT ![t] = "ready"]
          /\ x \in Wallets
          /\ draft' = [draft EXCEPT ![x].journal = j]
          /\ step' = [step EXCEPT ![t] = step[t] + 1]
          /\ UNCHANGED <<committed, holder, prog>>
      BY <2>4, InMovement DEF CreateLedgerEntry
    <3> HIDE DEF x, j
    <3>2. \A w \in Wallets : draft'[w].frozen = draft[w].frozen
      BY <3>1 DEF Typed, TypeOK, Rows
    <3>3. /\ pc'[t] = "ready" /\ step'[t] = step[t] + 1
          /\ \A u \in Txs \ {t} : pc'[u] = pc[u] /\ step'[u] = step[u]
          /\ prog[t] \in Seq(Movements)
      BY <3>1 DEF Typed, TypeOK
    <3>4. step[t] \in 1..Len(prog[t]) /\ Ledgered(prog[t][step[t]])
      BY <3>1 DEF Typed, ProgramsOK, Current
    <3>5. \A w \in Wallets : SoFar(prog'[t], w, step'[t]) = SoFar(prog[t], w, step[t])
      BY <3>1, <3>3, <3>4, SoFarNext
    <3>6. step'[t] <= Len(prog'[t]) + 1
      BY <3>1, <3>3, <3>4
    <3> QED
      BY <3>1, <3>2, <3>3, <3>5, <3>6, QuietHolds DEF Unfinished
  <2>5. CASE MoveFrozen(t)
    BY <2>5, MoveHolds
  <2>6. CASE Commit(t)
    BY <2>6, CommitHolds
  <2>7. CASE RejectOverdraft(t) \/ RejectDuplicate(t) \/ DeadlockVictim(t) \/ Expire(t)
    BY <2>7, RollbackHolds
    DEF RejectOverdraft, RejectDuplicate, DeadlockVictim, Expire, AtMovement, Active, Unfinished
  <2> QED
    BY <2>1, <2>2, <2>3, <2>4, <2>5, <2>6, <2>7 DEF Advance
<1> QED
  BY <1>1, <1>2

(* However transactions interleave, and for any set of them, the hold on a *)
(* wallet is the sum of the holds and releases that committed.             *)
THEOREM HoldsExact == Spec => []FrozenExact
<1>1. HoldsOK => FrozenExact
  BY DEF HoldsOK
<1> QED
  BY <1>1, InitTyped, StepTyped, InitRows, StepRows, InitJournals, StepJournals,
     InitHolds, StepHolds, PTL DEF Spec

=============================================================================
