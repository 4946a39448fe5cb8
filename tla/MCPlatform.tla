----------------------------- MODULE MCPlatform -----------------------------
(***************************************************************************)
(* The parts of the platform around the money that share no row with each  *)
(* other: the dashboard, the sessions, the verification of an account, its *)
(* credentials, its tiers.  A behaviour is one of one part; the others     *)
(* stay as they began.                                                     *)
(***************************************************************************)
EXTENDS Dashboard, Sessions, Verification, Credentials, Kyc, TLC

VARIABLE part

Parts == {"dashboard", "sessions", "verification", "credentials", "kyc"}

partVars == <<sessionVars, verificationVars, credentialVars, kycVars>>
vars == <<part, dashVars, partVars>>

(* The dashboard begins in many states; beside the other parts it rests in *)
(* one of them.                                                            *)
Init ==
  /\ part \in Parts
  /\ IF part = "dashboard" THEN DashInit ELSE DashRests
  /\ SessionsInit /\ VerificationInit /\ CredentialsInit /\ KycInit

Dash(step) == part = "dashboard" /\ step /\ UNCHANGED <<part, partVars>>
Session(step) ==
  /\ part = "sessions" /\ step
  /\ UNCHANGED <<part, dashVars, verificationVars, credentialVars, kycVars>>
Verify(step) ==
  /\ part = "verification" /\ step
  /\ UNCHANGED <<part, dashVars, sessionVars, credentialVars, kycVars>>
Credential(step) ==
  /\ part = "credentials" /\ step
  /\ UNCHANGED <<part, dashVars, sessionVars, verificationVars, kycVars>>
Tier(step) ==
  /\ part = "kyc" /\ step
  /\ UNCHANGED <<part, dashVars, sessionVars, verificationVars, credentialVars>>

(* The next-state relations of the parts, disjunct by disjunct.            *)
Next ==
  \/ Dash(Go) \/ Dash(FetchReads) \/ Dash(FetchArrives) \/ Dash(FetchFails)
  \/ Dash(GrowsOld) \/ Dash(Forget) \/ Dash(OthersMove)
  \/ \E k \in 1..MaxClicks :
       \/ Dash(Click(k)) \/ Dash(Handle(k)) \/ Dash(Answer(k)) \/ Dash(Complain(k))
  \/ Session(Login) \/ Session(LoginWithTwoFactor) \/ Session(LeaveLogin)
  \/ Session(IssueToken) \/ Session(IssueSession) \/ Session(SetSession)
  \/ Session(AccessExpires) \/ Session(Lapse) \/ Session(ResetPassword)
  \/ \E r \in Requests :
       \/ \E kind \in Kinds : Session(Send(r, kind))
       \/ Session(Served(r)) \/ Session(Rejected(r)) \/ Session(LogoutSession(r))
       \/ Session(LogoutToken(r)) \/ Session(LogoutAllSessions(r)) \/ Session(LogoutAllTokens(r))
       \/ Session(DeniedUpload(r)) \/ Session(Denied(r)) \/ Session(ReadToken(r))
       \/ Session(RevokeToken(r)) \/ Session(RevokeSession(r)) \/ Session(ReissueToken(r))
       \/ Session(ReissueSession(r)) \/ Session(Retry(r)) \/ Session(ClearTokens(r))
       \/ Session(Lose(r))
  \/ Verify(Expire)
  \/ \E r \in Calls :
       \/ Verify(Register(r)) \/ Verify(CreateAccount(r)) \/ Verify(ResendOtp(r))
       \/ Verify(InvalidateCodes(r)) \/ Verify(CreateCode(r)) \/ Verify(MailCode(r))
       \/ Verify(ReadCode(r)) \/ Verify(WrongCode(r)) \/ Verify(RightCode(r))
       \/ Verify(ReadUser(r)) \/ Verify(Activate(r)) \/ Verify(ReadStatus(r)) \/ Verify(Decide(r))
       \/ Tier(CheckTier(r)) \/ Tier(CheckNoneOpen(r)) \/ Tier(CreateSubmission(r))
       \/ Tier(ReadForUpload(r)) \/ Tier(AddDocument(r)) \/ Tier(ReadForRemoval(r))
       \/ Tier(RemoveDocument(r)) \/ Tier(ReadForFinalize(r)) \/ Tier(Finalize(r))
       \/ Tier(ReadForReview(r)) \/ Tier(Review(r))
  \/ Credential(ForgotPassword)
  \/ \E t \in Tabs :
       \/ Credential(SetupTwoFactor(t)) \/ Credential(CheckSetupCode(t))
       \/ Credential(EnableTwoFactor(t)) \/ Credential(CheckDisableCode(t))
       \/ Credential(DisableTwoFactor(t)) \/ Credential(Reload(t)) \/ Credential(ReadNoPin(t))
       \/ Credential(CheckPin(t)) \/ Credential(SavePin(t)) \/ Credential(MatchLink(t))
       \/ Credential(UseLink(t))

Spec == Init /\ [][Next]_vars

(* The shapes of the rows and records of the part at work.                 *)
TypeOK ==
  CASE part = "sessions" -> SessionsTypeOK
    [] part = "verification" -> VerificationTypeOK
    [] part = "credentials" -> CredentialsTypeOK
    [] part = "kyc" -> KycTypeOK
    [] OTHER -> view \in DOMAIN focus.page

(* Handlers, requests and tabs are alike.                                  *)
Alike == Permutations(Calls)
=============================================================================
