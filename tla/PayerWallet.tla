---------------------------- MODULE PayerWallet ----------------------------
(***************************************************************************)
(* What card purchases and checkout payments share: the wallet of the user *)
(* who pays, and the requests of that user and of the merchant.  A debit   *)
(* reads the balance without a lock and writes what it has computed from   *)
(* it when its transaction commits; WalletLedger has every statement.      *)
(***************************************************************************)
EXTENDS Integers

CONSTANTS
  OpeningBalance,  \* what the wallet holds at first
  MaxRequests,     \* bound: the requests that arrive
  Debits,          \* the transactions that debit the wallet
  None             \* no card, no limit, no session

ASSUME PayerAssumption ==
  OpeningBalance \in Nat /\ MaxRequests \in Nat /\ None \notin Nat

VARIABLES
  balance,    \* Wallet.balance
  requests,   \* the requests that have arrived
  seen,       \* seen[t]: the balance transaction t has read, None when it is not open
  overlapped  \* two of them have been open at once

walletVars == <<balance, seen, overlapped>>
payerVars == <<walletVars, requests>>

PayerTypeOK ==
  /\ balance \in 0..OpeningBalance /\ requests \in 0..MaxRequests
  /\ seen \in [Debits -> 0..OpeningBalance \cup {None}]
  /\ overlapped \in BOOLEAN

PayerInit ==
  /\ balance = OpeningBalance /\ requests = 0
  /\ seen = [t \in Debits |-> None]
  /\ overlapped = FALSE

Arrives == requests < MaxRequests /\ requests' = requests + 1

(* applyLedgerMovementInTx with DEBIT, as far as the balance goes.  The     *)
(* read and the check: nothing is locked.                                  *)
ReadBalance(t, amount) ==
  /\ seen[t] = None /\ amount <= balance
  /\ seen' = [seen EXCEPT ![t] = balance]
  /\ overlapped' = (overlapped \/ \E u \in Debits : seen[u] # None)
  /\ UNCHANGED balance

(* The update, which writes newBalance whatever the balance is by now; the *)
(* row stays locked until the commit, so the two are one step.             *)
Debit(t, amount) ==
  /\ seen[t] # None
  /\ balance' = seen[t] - amount
  /\ seen' = [seen EXCEPT ![t] = None]
  /\ UNCHANGED overlapped

(* The transaction throws, before or after it has read.                    *)
RollBack(t) ==
  /\ seen' = [seen EXCEPT ![t] = None]
  /\ UNCHANGED <<balance, overlapped>>

=============================================================================
