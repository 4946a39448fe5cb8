-------------------------------- MODULE Kyc --------------------------------
(***************************************************************************)
(* The verification of one user, tier by tier (KycService): submissions,   *)
(* their documents, the automated screening, the user's finalize and the   *)
(* decisions of reviewers.                                                 *)
(*                                                                         *)
(* Handlers read, then write; only approve is a transaction.  A document   *)
(* is told apart by the requirement of its tier that it meets.             *)
(***************************************************************************)
EXTENDS Actors, Naturals

CONSTANTS
  MaxSubmissions,  \* bound: submissions made
  MaxWithdrawals   \* bound: documents removed

ASSUME KycAssumption ==
  MaxSubmissions \in Nat /\ MaxWithdrawals \in Nat /\ None \notin Nat

Tiers == 1..3
Submissions == 1..MaxSubmissions

(* REQUIRED_DOCS_BY_TIER: a selfie; an identity and a proof of address; a  *)
(* registration certificate and a tax document.                            *)
Required(t) == IF t = 1 THEN {"first"} ELSE {"first", "second"}
Papers == {"first", "second"}

Open == {"PENDING", "IN_REVIEW", "NEEDS_MORE_INFO"}
Closed == {"APPROVED", "REJECTED"}

VARIABLES
  tier,         \* User.kycTier
  sub,          \* sub[s]: the KycSubmission rows, in the order they were made
  desk,         \* desk[r]: how far handler r is and what it has read
  withdrawals,  \* documents removed so far
  crossed,      \* the submissions one handler decided or removed from while
                \* another, that had read them open, was yet to write
  submittedTwice \* two submissions of one tier were open, or one was made while its
                \* tier was being approved

kycVars == <<tier, sub, desk, withdrawals, crossed, submittedTwice>>

NoSubmission == [status |-> "none", tier |-> 1, flagged |-> FALSE, docs |-> {}, auto |-> FALSE]
NoCall == [stage |-> "idle", sub |-> None, tier |-> 0, what |-> None]

KycInit ==
  /\ tier = 0
  /\ sub = [s \in Submissions |-> NoSubmission]
  /\ desk = [r \in Calls |-> NoCall]
  /\ withdrawals = 0 /\ crossed = {} /\ submittedTwice = FALSE

IsOpen(s) == sub[s].status \in Open
End(r) == desk' = [desk EXCEPT ![r] = NoCall]

(* The handlers about to write what they decided of s from an older read.  *)
Writing == {"finalizing", "reviewing"}
OthersWriting(r, s) == {q \in Calls \ {r} : desk[q].sub = s /\ desk[q].stage \in Writing}
CrossedBy(r, s) == IF OthersWriting(r, s) = {} THEN crossed ELSE crossed \cup {s}

-----------------------------------------------------------------------------
(* submitTier1, submitTier2, submitTier3.                                  *)

(* assertCanSubmit reads the tier of the user: the next one is due.        *)
CheckTier(r) ==
  /\ desk[r].stage = "idle" /\ tier < 3
  /\ desk' = [desk EXCEPT ![r].stage = "submitting", ![r].tier = tier + 1]
  /\ UNCHANGED <<tier, sub, withdrawals, crossed, submittedTwice>>

(* Then it looks for an open submission of that tier.                      *)
CheckNoneOpen(r) ==
  /\ desk[r].stage = "submitting"
  /\ IF \E s \in Submissions : IsOpen(s) /\ sub[s].tier = desk[r].tier
       THEN End(r)
       ELSE desk' = [desk EXCEPT ![r].stage = "creating"]
  /\ UNCHANGED <<tier, sub, withdrawals, crossed, submittedTwice>>

(* Tier 2 is not screened: its flags are the defaults.                     *)
Screened(t) == IF t = 2 THEN {FALSE} ELSE BOOLEAN

CreateSubmission(r) ==
  /\ desk[r].stage = "creating"
  /\ \E s \in Submissions, flagged \in Screened(desk[r].tier) :
       /\ sub[s].status = "none" /\ \A q \in Submissions : q < s => sub[q].status # "none"
       /\ sub' = [sub EXCEPT ![s] = [NoSubmission EXCEPT !.status = "PENDING",
                                       !.tier = desk[r].tier, !.flagged = flagged]]
  /\ submittedTwice' = (submittedTwice \/ tier >= desk[r].tier
                   \/ \E q \in Calls \ {r} :
                        desk[q].stage = "creating" /\ desk[q].tier = desk[r].tier)
  /\ End(r)
  /\ UNCHANGED <<tier, withdrawals, crossed>>

-----------------------------------------------------------------------------
(* Documents.  An upload commits the file's row even when the submission   *)
(* was decided since it was read.                                          *)
ReadForUpload(r) ==
  /\ desk[r].stage = "idle"
  /\ \E s \in Submissions, kind \in Papers :
       /\ IsOpen(s) /\ kind \in Required(sub[s].tier) \ sub[s].docs
       /\ desk' = [desk EXCEPT ![r].stage = "uploading", ![r].sub = s, ![r].what = kind]
  /\ UNCHANGED <<tier, sub, withdrawals, crossed, submittedTwice>>

AddDocument(r) ==
  /\ desk[r].stage = "uploading"
  /\ sub' = [sub EXCEPT ![desk[r].sub].docs = @ \cup {desk[r].what}]
  /\ End(r)
  /\ UNCHANGED <<tier, withdrawals, crossed, submittedTwice>>

(* A document may be withdrawn as long as the submission is open, a        *)
(* finalized one that is in review included.                               *)
ReadForRemoval(r) ==
  /\ desk[r].stage = "idle" /\ withdrawals < MaxWithdrawals
  /\ \E s \in Submissions : \E kind \in sub[s].docs :
       /\ IsOpen(s)
       /\ desk' = [desk EXCEPT ![r].stage = "removing", ![r].sub = s, ![r].what = kind]
  /\ withdrawals' = withdrawals + 1
  /\ UNCHANGED <<tier, sub, crossed, submittedTwice>>

RemoveDocument(r) ==
  /\ desk[r].stage = "removing"
  /\ sub' = [sub EXCEPT ![desk[r].sub].docs = @ \ {desk[r].what}]
  /\ crossed' = IF sub[desk[r].sub].status \in Closed
                  THEN crossed \cup {desk[r].sub} ELSE CrossedBy(r, desk[r].sub)
  /\ End(r)
  /\ UNCHANGED <<tier, withdrawals, submittedTwice>>

-----------------------------------------------------------------------------
(* approve: the row and the tier of the user in one transaction; the tier  *)
(* is the submission's, whatever the user's is.  The screening approves    *)
(* without a reviewer, as the note on the row says.                        *)
Approve(s, auto) ==
  /\ sub' = [sub EXCEPT ![s].status = "APPROVED", ![s].auto = auto]
  /\ tier' = sub[s].tier

(* As a bug would: the flags of the screening are not looked at.           *)
ReadForFinalizeUnscreened(r) ==
  /\ desk[r].stage = "idle"
  /\ \E s \in Submissions :
       /\ IsOpen(s) /\ Required(sub[s].tier) \subseteq sub[s].docs
       /\ desk' = [desk EXCEPT ![r].stage = "finalizing", ![r].sub = s, ![r].what = "approve"]
  /\ UNCHANGED <<tier, sub, withdrawals, crossed, submittedTwice>>

(* finalize: the required documents are there; the screening decides where *)
(* it goes from here.                                                      *)
ReadForFinalize(r) ==
  /\ desk[r].stage = "idle"
  /\ \E s \in Submissions :
       /\ IsOpen(s) /\ Required(sub[s].tier) \subseteq sub[s].docs
       /\ desk' = [desk EXCEPT ![r].stage = "finalizing", ![r].sub = s,
                             ![r].what = IF sub[s].flagged THEN "review" ELSE "approve"]
  /\ UNCHANGED <<tier, sub, withdrawals, crossed, submittedTwice>>

Finalize(r) ==
  LET s == desk[r].sub
  IN  /\ desk[r].stage = "finalizing"
      /\ IF desk[r].what = "approve"
           THEN Approve(s, TRUE)
           ELSE /\ sub' = [sub EXCEPT ![s].status = "IN_REVIEW"]
                /\ UNCHANGED tier
      /\ crossed' = CrossedBy(r, s)
      /\ End(r)
      /\ UNCHANGED <<withdrawals, submittedTwice>>

(* As a bug would: a submission that was decided can be decided again.     *)
ReadForReviewAgain(r) ==
  /\ desk[r].stage = "idle"
  /\ \E s \in Submissions, decision \in {"APPROVE", "REJECT", "REQUEST_INFO"} :
       /\ sub[s].status # "none"
       /\ desk' = [desk EXCEPT ![r].stage = "reviewing", ![r].sub = s, ![r].what = decision]
  /\ UNCHANGED <<tier, sub, withdrawals, crossed, submittedTwice>>

(* review: any open submission may be decided, one the user has not        *)
(* finalized and that lacks documents included.                            *)
ReadForReview(r) ==
  /\ desk[r].stage = "idle"
  /\ \E s \in Submissions, decision \in {"APPROVE", "REJECT", "REQUEST_INFO"} :
       /\ IsOpen(s)
       /\ desk' = [desk EXCEPT ![r].stage = "reviewing", ![r].sub = s, ![r].what = decision]
  /\ UNCHANGED <<tier, sub, withdrawals, crossed, submittedTwice>>

Review(r) ==
  LET s == desk[r].sub
  IN  /\ desk[r].stage = "reviewing"
      /\ IF desk[r].what = "APPROVE"
           THEN Approve(s, FALSE)
           ELSE /\ sub' = [sub EXCEPT ![s].auto = FALSE, ![s].status =
                             IF desk[r].what = "REJECT" THEN "REJECTED" ELSE "NEEDS_MORE_INFO"]
                /\ UNCHANGED tier
      /\ crossed' = CrossedBy(r, s)
      /\ End(r)
      /\ UNCHANGED <<withdrawals, submittedTwice>>

CallStep(r) ==
  \/ CheckTier(r) \/ CheckNoneOpen(r) \/ CreateSubmission(r) \/ ReadForUpload(r) \/ AddDocument(r)
  \/ ReadForRemoval(r) \/ RemoveDocument(r) \/ ReadForFinalize(r) \/ Finalize(r)
  \/ ReadForReview(r) \/ Review(r)

KycNext == \E r \in Calls : CallStep(r)

KycSpec == KycInit /\ [][KycNext]_kycVars

-----------------------------------------------------------------------------
(* The shape of the rows and of the handlers' records.                     *)
KycTypeOK ==
  /\ tier \in 0..3
  /\ sub \in [Submissions -> [status : Open \cup Closed \cup {"none"}, tier : Tiers,
                              flagged : BOOLEAN, docs : SUBSET Papers,
                              auto : BOOLEAN]]
  /\ desk \in [Calls -> [stage : Writing \cup {"idle", "submitting", "creating", "uploading",
                                               "removing"},
                         sub : Submissions \cup {None}, tier : 0..3,
                         what : Papers \cup {None, "review", "approve", "APPROVE",
                                                       "REJECT", "REQUEST_INFO"}]]
  /\ withdrawals \in Nat /\ crossed \subseteq Submissions /\ submittedTwice \in BOOLEAN

Approved(s) == sub[s].status = "APPROVED"

(* The tier of the user is the highest that was approved, one step at a    *)
(* time: tier n + 1 is approved only after tier n.  Set aside are a tier   *)
(* submitted twice, where the older approval, coming last, takes the user  *)
(* back down, and decisions that crossed.                                  *)
TierTrue ==
  submittedTwice \/ crossed # {}
    \/ /\ \A s \in Submissions : Approved(s) => sub[s].tier <= tier
       /\ \A t \in 1..tier : \E s \in Submissions : Approved(s) /\ sub[s].tier = t

(* What the screening alone approved was not flagged and had its required  *)
(* documents, which stay; a withdrawal that crossed the approval is set    *)
(* aside (finalize).                                                       *)
ApprovalEarned ==
  \A s \in Submissions \ crossed :
    Approved(s) /\ sub[s].auto =>
      ~sub[s].flagged /\ Required(sub[s].tier) \subseteq sub[s].docs

(* Every tier the user has was earned.                                     *)
TiersEarned == TierTrue /\ ApprovalEarned

(* A decision stands: an approved submission stays approved, a rejected    *)
(* one rejected, unless another handler had read it open before (review).  *)
DecisionStands ==
  [][\A s \in Submissions :
       sub[s].status \in Closed /\ s \notin crossed => sub'[s].status = sub[s].status]_kycVars
=============================================================================
