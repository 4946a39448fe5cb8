---------------------------- MODULE Verification ----------------------------
(***************************************************************************)
(* An account from its registration on: AuthService.register, the codes    *)
(* that verify it (OtpService), and the status an administrator gives it   *)
(* (UserManagementService.updateStatus).                                   *)
(*                                                                         *)
(* Every handler is a sequence of commits; Calls of them run side by side. *)
(* Codes of the one purpose EMAIL_VERIFICATION are followed; the attempts  *)
(* at a code count up to MaxAttempts before it is refused.                 *)
(***************************************************************************)
EXTENDS Actors, Naturals

CONSTANTS
  MaxAttempts,   \* otp.maxAttempts
  MaxCodes,      \* bound: codes issued
  MaxDecisions   \* bound: decisions of administrators

ASSUME VerificationAssumption ==
  /\ MaxAttempts \in Nat \ {0} /\ MaxCodes \in Nat /\ MaxDecisions \in Nat
  /\ None \notin Nat \cup {"PENDING_VERIFICATION", "ACTIVE", "SUSPENDED", "BLOCKED", "CLOSED"}

Codes == 1..MaxCodes
Statuses == {"PENDING_VERIFICATION", "ACTIVE", "SUSPENDED", "BLOCKED", "CLOSED"}

VARIABLES
  status,     \* User.status, None while there is no account
  code,       \* code[c]: the OtpCode rows, in the order they were created
  mailed,     \* the codes the user has been sent
  handler,    \* handler[r]: how far handler r is and what it has read
  decided,    \* the status the last decision gave
  decisions,  \* decisions so far
  decidedAcross,  \* a decision was committed while a verification held an older status
  issuedTwice \* two issues ran side by side

verificationVars ==
  <<status, code, mailed, handler, decided, decisions, decidedAcross, issuedTwice>>

NoCode == [state |-> "none", attempts |-> 0, stale |-> FALSE]
AtRest == [stage |-> "idle", code |-> None, saw |-> None, to |-> None]

VerificationInit ==
  /\ status = None
  /\ code = [c \in Codes |-> NoCode]
  /\ mailed = {}
  /\ handler = [r \in Calls |-> AtRest]
  /\ decided = None /\ decisions = 0
  /\ decidedAcross = FALSE /\ issuedTwice = FALSE

Unissued == {c \in Codes : code[c].state = "none"}
Live == {c \in Codes : code[c].state = "live"}
Respond(r) == handler' = [handler EXCEPT ![r] = AtRest]

-----------------------------------------------------------------------------
(* register: no account with this address is seen; the unique index on it  *)
(* decides between two that saw none.                                      *)
Register(r) ==
  /\ handler[r].stage = "idle" /\ status = None
  /\ handler' = [handler EXCEPT ![r].stage = "creating"]
  /\ UNCHANGED <<status, code, mailed, decided, decisions, decidedAcross, issuedTwice>>

CreateAccount(r) ==
  /\ handler[r].stage = "creating"
  /\ IF status = None
       THEN /\ status' = "PENDING_VERIFICATION"
            /\ handler' = [handler EXCEPT ![r].stage = "issuing"]
       ELSE /\ Respond(r)
            /\ UNCHANGED status
  /\ UNCHANGED <<code, mailed, decided, decisions, decidedAcross, issuedTwice>>

ResendOtp(r) ==
  /\ handler[r].stage = "idle" /\ status # None
  /\ handler' = [handler EXCEPT ![r].stage = "issuing"]
  /\ UNCHANGED <<status, code, mailed, decided, decisions, decidedAcross, issuedTwice>>

(* issue: the codes that are out are marked used, then one is created,     *)
(* then it is mailed; when the mail fails the handler does too.            *)
InvalidateCodes(r) ==
  /\ handler[r].stage = "issuing" /\ Unissued # {}
  /\ code' = [c \in Codes |-> IF c \in Live THEN [code[c] EXCEPT !.state = "used"] ELSE code[c]]
  /\ handler' = [handler EXCEPT ![r].stage = "invalidated"]
  /\ issuedTwice' = (issuedTwice \/ \E q \in Calls : handler[q].stage = "invalidated")
  /\ UNCHANGED <<status, mailed, decided, decisions, decidedAcross>>

CreateCode(r) ==
  /\ handler[r].stage = "invalidated"
  /\ \E c \in Unissued :
       /\ \A d \in Unissued : c <= d
       /\ code' = [code EXCEPT ![c].state = "live"]
       /\ handler' = [handler EXCEPT ![r].stage = "mailing", ![r].code = c]
  /\ UNCHANGED <<status, mailed, decided, decisions, decidedAcross, issuedTwice>>

MailCode(r) ==
  /\ handler[r].stage = "mailing"
  /\ mailed' \in {mailed, mailed \cup {handler[r].code}}
  /\ Respond(r)
  /\ UNCHANGED <<status, code, decided, decisions, decidedAcross, issuedTwice>>

-----------------------------------------------------------------------------
(* As a bug would: the attempts are counted and not looked at.             *)
ReadCodeUnbounded(r) ==
  /\ handler[r].stage = "idle"
  /\ \E c \in Live :
       /\ \A d \in Live : d <= c
       /\ ~code[c].stale /\ code[c].attempts <= MaxAttempts + Cardinality(Calls)
       /\ handler' = [handler EXCEPT ![r].stage = "checking", ![r].code = c]
  /\ UNCHANGED <<status, code, mailed, decided, decisions, decidedAcross, issuedTwice>>

(* verify: the newest live code, in time and with attempts left.           *)
ReadCode(r) ==
  /\ handler[r].stage = "idle"
  /\ \E c \in Live :
       /\ \A d \in Live : d <= c
       /\ ~code[c].stale /\ code[c].attempts < MaxAttempts
       /\ handler' = [handler EXCEPT ![r].stage = "checking", ![r].code = c]
  /\ UNCHANGED <<status, code, mailed, decided, decisions, decidedAcross, issuedTwice>>

WrongCode(r) ==
  /\ handler[r].stage = "checking"
  /\ code' = [code EXCEPT ![handler[r].code].attempts = @ + 1]
  /\ Respond(r)
  /\ UNCHANGED <<status, mailed, decided, decisions, decidedAcross, issuedTwice>>

(* The user types a code that has come by mail.                            *)
RightCode(r) ==
  /\ handler[r].stage = "checking" /\ handler[r].code \in mailed
  /\ code' = [code EXCEPT ![handler[r].code].state = "used"]
  /\ handler' = [handler EXCEPT ![r].stage = "proved"]
  /\ UNCHANGED <<status, mailed, decided, decisions, decidedAcross, issuedTwice>>

(* verifyOtp reads the user only now, and writes a status all the same     *)
(* when it has nothing to change.                                          *)
ReadUser(r) ==
  /\ handler[r].stage = "proved"
  /\ handler' = [handler EXCEPT ![r].stage = "activating", ![r].saw = status]
  /\ UNCHANGED <<status, code, mailed, decided, decisions, decidedAcross, issuedTwice>>

(* As a bug would: whoever proves the address is active.                   *)
ActivateAlways(r) ==
  /\ handler[r].stage = "activating"
  /\ status' = "ACTIVE"
  /\ Respond(r)
  /\ UNCHANGED <<code, mailed, decided, decisions, decidedAcross, issuedTwice>>

Activate(r) ==
  /\ handler[r].stage = "activating"
  /\ status' = IF handler[r].saw = "PENDING_VERIFICATION" THEN "ACTIVE" ELSE handler[r].saw
  /\ Respond(r)
  /\ UNCHANGED <<code, mailed, decided, decisions, decidedAcross, issuedTwice>>

(* A code's ttlSeconds are over.                                           *)
Expire ==
  /\ \E c \in Live : /\ ~code[c].stale
                     /\ code' = [code EXCEPT ![c].stale = TRUE]
  /\ UNCHANGED <<status, mailed, handler, decided, decisions, decidedAcross, issuedTwice>>

-----------------------------------------------------------------------------
(* updateStatus: another status than the one that is read.                 *)
ReadStatus(r) ==
  /\ handler[r].stage = "idle" /\ status # None /\ decisions < MaxDecisions
  /\ \E to \in Statuses \ {status} :
       handler' = [handler EXCEPT ![r].stage = "deciding", ![r].to = to]
  /\ decisions' = decisions + 1
  /\ UNCHANGED <<status, code, mailed, decided, decidedAcross, issuedTwice>>

Decide(r) ==
  /\ handler[r].stage = "deciding"
  /\ status' = handler[r].to
  /\ decided' = handler[r].to
  /\ decidedAcross' = (decidedAcross \/ \E q \in Calls : handler[q].stage = "activating")
  /\ Respond(r)
  /\ UNCHANGED <<code, mailed, decisions, issuedTwice>>

HandlerStep(r) ==
  \/ Register(r) \/ CreateAccount(r) \/ ResendOtp(r) \/ InvalidateCodes(r) \/ CreateCode(r)
  \/ MailCode(r) \/ ReadCode(r) \/ WrongCode(r) \/ RightCode(r) \/ ReadUser(r) \/ Activate(r)
  \/ ReadStatus(r) \/ Decide(r)

VerificationNext == (\E r \in Calls : HandlerStep(r)) \/ Expire

VerificationSpec == VerificationInit /\ [][VerificationNext]_verificationVars

-----------------------------------------------------------------------------
(* The shape of the rows and of the handlers' records.                     *)
VerificationTypeOK ==
  /\ status \in Statuses \cup {None}
  /\ code \in [Codes -> [state : {"none", "live", "used"}, attempts : Nat, stale : BOOLEAN]]
  /\ mailed \subseteq Codes
  /\ handler \in [Calls -> [stage : {"idle", "creating", "issuing", "invalidated", "mailing",
                                  "checking", "proved", "activating", "deciding"},
                         code : Codes \cup {None}, saw : Statuses \cup {None},
                         to : Statuses \cup {None}]]
  /\ decided \in Statuses \cup {None} /\ decisions \in Nat
  /\ decidedAcross \in BOOLEAN /\ issuedTwice \in BOOLEAN

(* The handlers that have passed the check of code c's attempts.           *)
Checking(c) == {r \in Calls : handler[r].stage = "checking" /\ handler[r].code = c}

(* A code is guessed at MaxAttempts times, and beyond that only by the     *)
(* requests that had read the counter before the last of these was         *)
(* written: one less than can be at work (OtpService.verify).              *)
AttemptsBounded == \A c \in Codes : code[c].attempts < MaxAttempts + Cardinality(Calls)

(* Only the newest code is good: an older one is not found again once the  *)
(* newest is used, unless two issues ran side by side (OtpService.issue).  *)
OneCodeLive == issuedTwice \/ \A c, d \in Live : c = d

(* Codes are guessed at and found as above.                                *)
CodesSound == AttemptsBounded /\ OneCodeLive

(* What an administrator decided stands: a verification leaves a suspended, *)
(* blocked or closed account as it is, unless the decision fell between    *)
(* its two statements on the user (verifyOtp).                             *)
StatusDecided ==
  decided \notin {None, "PENDING_VERIFICATION"} => status = decided \/ decidedAcross
=============================================================================
