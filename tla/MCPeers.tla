------------------------------ MODULE MCPeers -------------------------------
(***************************************************************************)
(* Users who pay each other: the ledger under transactions that overlap, and *)
(* the marketplace above it with one request or sweep at a time.  The      *)
(* marketplace sees of the ledger no more than its unique references and its *)
(* holds: a behaviour is one of one part, and the other stays as it began. *)
(***************************************************************************)
EXTENDS MCWalletLedger, MCP2PEscrow

VARIABLE part

peerVars == <<part, vars, escrowVars>>

PeersInit == part \in {"ledger", "marketplace"} /\ Init /\ EscrowInit

Ledger(action) == part = "ledger" /\ action /\ UNCHANGED <<part, escrowVars>>
Market(action) == part = "marketplace" /\ action /\ UNCHANGED <<part, vars>>

(* Next of WalletLedger and SerialNext, disjunct by disjunct.              *)
PeersNext ==
  \/ \E t \in Txs :
       \/ \E p \in Menu[t] : Ledger(Begin(t, p))
       \/ Ledger(Advance(t)) \/ Ledger(Expire(t))
  \/ \E k \in Workers :
       \/ Market(Quiet /\ Start(k))
       \/ Market(SettleCryptoOrderInstantly(k)) \/ Market(HoldGiftCardOrderInEscrow(k))
       \/ Market(DeliverGiftCardCode(k)) \/ Market(ConfirmDelivery(k))
       \/ Market(RaiseDispute(k)) \/ Market(ResolveDispute(k)) \/ Market(RequestFails(k))
  \/ Market(Quiet /\ FindOverdue)
  \/ \E o \in Orders : Market(ExpireOrder(o)) \/ Market(PassDeadline(o))
  \/ Market(SweepFails)
  \/ \E f \in Offers, s \in {"ACTIVE", "PAUSED"} : Market(SetOfferStatus(f, s))

(* The fairness of FairSpec and of SerialSpec.  A part that is not at work *)
(* has no transaction, request or order to be fair to.                     *)
PeersSpec ==
  /\ PeersInit /\ [][PeersNext]_peerVars
  /\ \A t \in Txs : WF_vars(Advance(t))
  /\ \A k \in Workers : WF_escrowVars(Write(k))
  /\ SF_escrowVars(Quiet /\ FindOverdue)
  /\ \A o \in Orders : WF_escrowVars(PassDeadline(o)) /\ SF_escrowVars(ExpireOrder(o))
=============================================================================
