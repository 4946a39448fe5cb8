------------------------------ MODULE Sessions ------------------------------
(***************************************************************************)
(* Signing in and staying signed in: AuthService's session tokens, and the *)
(* browser that holds them (lib/api.ts, lib/auth-context.tsx).             *)
(*                                                                         *)
(* A pair is a refresh token row and the session row that points to it; a  *)
(* refresh revokes the pair it is given and makes another, in four commits *)
(* of their own.  The browser keeps the tokens of one pair.  Its requests  *)
(* run side by side; each that is denied refreshes on its own and tries    *)
(* once more, and whatever goes wrong on the way clears the tokens.        *)
(***************************************************************************)
EXTENDS Actors, Naturals

CONSTANTS
  Requests,    \* requests of the browser that can be in flight at a time
  MaxSignIns,  \* bound: sign-ins, each but the first after a cut
  MaxPairs,    \* bound: pairs of token and session
  MaxTroubles  \* bound: cuts (sign-outs of all devices, password resets) and faults together

ASSUME SessionsAssumption ==
  /\ MaxSignIns \in Nat \ {0} /\ MaxPairs \in Nat \ {0} /\ MaxTroubles \in Nat
  /\ IsFiniteSet(Requests) /\ None \notin Nat

Pairs == 1..MaxPairs

SignIns == 1..MaxSignIns

VARIABLES
  token,     \* token[p]: the refresh token row, "none", "live" or "revoked"
  session,   \* session[p]: the session row
  expired,   \* the pairs whose access token is past its fifteen minutes
  lapsed,    \* the pairs past expiresAt
  root,      \* root[p]: the sign-in the pair goes back to
  stored,    \* the pair in the browser's local storage
  user,      \* AuthContext: "in" or "out"
  req,       \* req[r]: what the request is for, how far it is, the pairs it holds
  login,     \* the sign-in in progress
  signIns,   \* sign-ins so far
  cuts,      \* cuts so far: sign-outs of all devices and password resets
  cutting,   \* a sign-out of all devices is between its two commits
  since,     \* since[s]: the cuts there had been when sign-in s was made
  caught,    \* the pairs made by a handler that a cut overlapped, and their heirs
  contested, \* the sign-ins one pair of which two requests refreshed at once
  disturbed, \* something the user or the network did ends the stored pair
  turnedDown,\* a request tried anew after a refresh was refused for its own reason
  faults     \* lost answers, deaths and lapses so far

sessionVars ==
  <<token, session, expired, lapsed, root, stored, user, req, login, signIns, cuts,
    cutting, since, caught, contested, disturbed, turnedDown, faults>>

(* A call may be the one for the profile, which decides over the user.     *)
Kinds == {"call", "logout", "logoutAll"}
(* The stages of a refresh inside the API, from its first read on.         *)
Issuing == {"read", "tokenRevoked", "sessionRevoked", "tokenMade"}
Stages == Issuing \cup {"idle", "sent", "half", "refreshing", "made", "retrying", "refused"}

NoRequest == [kind |-> "call", stage |-> "idle", with |-> None, using |-> None, got |-> None,
              caught |-> FALSE]
NoLogin == [stage |-> "idle", got |-> None, caught |-> FALSE]

SessionsInit ==
  /\ token = [p \in Pairs |-> "none"]
  /\ session = [p \in Pairs |-> "none"]
  /\ expired = {} /\ lapsed = {}
  /\ root = [p \in Pairs |-> 0]
  /\ stored = None
  /\ user = "out"
  /\ req = [r \in Requests |-> NoRequest]
  /\ login = NoLogin
  /\ signIns = 0 /\ cuts = 0
  /\ cutting = FALSE
  /\ since = [s \in SignIns |-> 0]
  /\ caught = {} /\ contested = {}
  /\ disturbed = FALSE /\ turnedDown = FALSE
  /\ faults = 0

Unused == {p \in Pairs : token[p] = "none"}
Next1(S) == CHOOSE p \in S : \A q \in S : p <= q

-----------------------------------------------------------------------------
(* Signing in.                                                             *)

(* login: the password is right and the account is not barred; with two    *)
(* factors a login token is given instead of a session.  A second sign-in  *)
(* is made only after a cut (a bound).                                     *)
Login ==
  /\ login.stage = "idle" /\ signIns < MaxSignIns /\ signIns <= cuts
  /\ signIns' = signIns + 1
  /\ since' = [since EXCEPT ![signIns + 1] = cuts]
  /\ \E stage \in {"issuing", "awaiting2fa"} :
       login' = [stage |-> stage, got |-> None, caught |-> FALSE]
  /\ UNCHANGED <<token, session, expired, lapsed, root, stored, user, req, cuts, cutting,
                 caught, contested, disturbed, turnedDown, faults>>

(* loginWithTwoFactor: the code is right, within the five minutes of the   *)
(* login token; the status of the account is not looked at again.          *)
LoginWithTwoFactor ==
  /\ login.stage = "awaiting2fa"
  /\ login' = [login EXCEPT !.stage = "issuing", !.caught = FALSE]
  /\ since' = [since EXCEPT ![signIns] = cuts]
  /\ UNCHANGED <<token, session, expired, lapsed, root, stored, user, req, signIns, cuts,
                 cutting, caught, contested, disturbed, turnedDown, faults>>

(* The login token expires, or the sign-in was made on another device.     *)
LeaveLogin ==
  /\ login.stage \in {"awaiting2fa", "made"}
  /\ login' = NoLogin
  /\ UNCHANGED <<token, session, expired, lapsed, root, stored, user, req, signIns, cuts, cutting,
                 since, caught, contested, disturbed, turnedDown, faults>>

(* issueSessionTokens: the token row, then the session row.                *)
IssueToken ==
  /\ login.stage = "issuing" /\ Unused # {}
  /\ LET p == Next1(Unused)
     IN  /\ token' = [token EXCEPT ![p] = "live"]
         /\ root' = [root EXCEPT ![p] = signIns]
         /\ login' = [login EXCEPT !.stage = "tokenMade", !.got = p]
  /\ UNCHANGED <<session, expired, lapsed, stored, user, req, signIns, cuts, cutting,
                 since, caught, contested, disturbed, turnedDown, faults>>

IssueSession ==
  /\ login.stage = "tokenMade"
  /\ session' = [session EXCEPT ![login.got] = "live"]
  /\ caught' = IF login.caught \/ cutting THEN caught \cup {login.got} ELSE caught
  /\ login' = [login EXCEPT !.stage = "made", !.caught = FALSE]
  /\ UNCHANGED <<token, expired, lapsed, root, stored, user, req, signIns, cuts, cutting,
                 since, contested, disturbed, turnedDown, faults>>

(* The login page stores the pair (setSession) and opens the dashboard.    *)
SetSession ==
  /\ login.stage = "made"
  /\ stored' = login.got
  /\ user' = "in"
  /\ disturbed' = (token[login.got] # "live" \/ \E r \in Requests : req[r].stage # "idle")
  /\ turnedDown' = FALSE
  /\ login' = NoLogin
  /\ UNCHANGED <<token, session, expired, lapsed, root, req, signIns, cuts, cutting, since,
                 caught, contested, faults>>

-----------------------------------------------------------------------------
(* A request of the browser.                                               *)

(* rawRequest: the access token that is stored at this moment goes along.  *)
(* The pages behind the layout are left as soon as there is no user; the   *)
(* profile is asked for when the application is opened with a token.       *)
Send(r, kind) ==
  /\ req[r].stage = "idle"
  /\ user = "in" \/ (kind = "call" /\ stored # None)
  /\ req' = [req EXCEPT ![r] = [NoRequest EXCEPT !.kind = kind, !.stage = "sent", !.with = stored]]
  /\ disturbed' = (disturbed \/ kind \in {"logout", "logoutAll"})
  /\ UNCHANGED <<token, session, expired, lapsed, root, stored, user, login, signIns, cuts,
                 cutting, since, caught, contested, turnedDown, faults>>

(* JwtStrategy.validate: the access token is in time, its session is there, *)
(* not revoked and not past expiresAt.                                     *)
Admitted(p) == p # None /\ p \notin expired \cup lapsed /\ session[p] = "live"

Finish(r) == req' = [req EXCEPT ![r] = NoRequest]

(* A request that is let through and changes no session.                   *)
Served(r) ==
  /\ req[r].stage \in {"sent", "retrying"} /\ req[r].kind = "call"
  /\ Admitted(req[r].with)
  /\ Finish(r)
  /\ user' \in {user, "in"}
  /\ UNCHANGED <<token, session, expired, lapsed, root, stored, login, signIns, cuts,
                 cutting, since, caught, contested, disturbed, turnedDown, faults>>

(* logout: the session, then its token; logoutAllDevices: all sessions,    *)
(* then all tokens.                                                        *)
LogoutSession(r) ==
  /\ req[r].stage \in {"sent", "retrying"} /\ req[r].kind = "logout"
  /\ Admitted(req[r].with)
  /\ session' = [session EXCEPT ![req[r].with] = "revoked"]
  /\ req' = [req EXCEPT ![r].stage = "half"]
  /\ UNCHANGED <<token, expired, lapsed, root, stored, user, login, signIns, cuts, cutting,
                 since, caught, contested, disturbed, turnedDown, faults>>

(* logout() of the context, whatever the API said: no tokens, no user.     *)
SignedOut(r) ==
  /\ stored' = None
  /\ user' = "out"
  /\ Finish(r)

(* As a bug would: the token row is deleted, and the session row that      *)
(* points to it stays.                                                     *)
LogoutTokenDeleted(r) ==
  /\ req[r].stage = "half" /\ req[r].kind = "logout"
  /\ token' = [token EXCEPT ![req[r].with] = "none"]
  /\ SignedOut(r)
  /\ UNCHANGED <<session, expired, lapsed, root, login, signIns, cuts, cutting, since,
                 caught, contested, disturbed, turnedDown, faults>>

LogoutToken(r) ==
  /\ req[r].stage = "half" /\ req[r].kind = "logout"
  /\ token' = [token EXCEPT ![req[r].with] = "revoked"]
  /\ SignedOut(r)
  /\ UNCHANGED <<session, expired, lapsed, root, login, signIns, cuts, cutting, since,
                 caught, contested, disturbed, turnedDown, faults>>

RevokeAll(rows) == [p \in Pairs |-> IF rows[p] = "live" THEN "revoked" ELSE rows[p]]

(* A handler that is about to make a session is overlapped by the cut.     *)
Catch ==
  [r \in Requests |-> [req[r] EXCEPT !.caught = @ \/ req[r].stage \in Issuing]]
CatchLogin == [login EXCEPT !.caught = @ \/ login.stage \in {"issuing", "tokenMade"}]

LogoutAllSessions(r) ==
  /\ req[r].stage \in {"sent", "retrying"} /\ req[r].kind = "logoutAll"
  /\ cuts + faults < MaxTroubles /\ ~cutting
  /\ Admitted(req[r].with)
  /\ session' = RevokeAll(session)
  /\ cutting' = TRUE
  /\ req' = [Catch EXCEPT ![r].stage = "half"]
  /\ login' = CatchLogin
  /\ UNCHANGED <<token, expired, lapsed, root, stored, user, signIns, cuts, since, caught,
                 contested, disturbed, turnedDown, faults>>

(* As a bug would: the tokens are left to expire.                          *)
LogoutAllTokensKept(r) ==
  /\ req[r].stage = "half" /\ req[r].kind = "logoutAll"
  /\ cuts' = cuts + 1
  /\ cutting' = FALSE
  /\ login' = CatchLogin
  /\ req' = [Catch EXCEPT ![r] = [NoRequest EXCEPT !.kind = "logout", !.stage = "sent",
                                                  !.with = stored]]
  /\ UNCHANGED <<token, session, expired, lapsed, root, stored, user, signIns, since, caught,
                 contested, disturbed, turnedDown, faults>>

(* signOutEverywhere goes on to logout().                                  *)
LogoutAllTokens(r) ==
  /\ req[r].stage = "half" /\ req[r].kind = "logoutAll"
  /\ token' = RevokeAll(token)
  /\ cuts' = cuts + 1
  /\ cutting' = FALSE
  /\ login' = CatchLogin
  /\ req' = [Catch EXCEPT ![r] = [NoRequest EXCEPT !.kind = "logout", !.stage = "sent",
                                                  !.with = stored]]
  /\ UNCHANGED <<session, expired, lapsed, root, stored, user, signIns, since, caught, contested,
                 disturbed, turnedDown, faults>>

(* apiUploadRequest knows nothing of refreshing: a denied upload just fails. *)
DeniedUpload(r) ==
  /\ req[r].stage = "sent" /\ ~Admitted(req[r].with) /\ req[r].kind = "call"
  /\ Finish(r)
  /\ UNCHANGED <<token, session, expired, lapsed, root, stored, user, login, signIns, cuts, cutting,
                 since, caught, contested, disturbed, turnedDown, faults>>

(* 401: the request refreshes with the token that is stored by now; with   *)
(* none in store it fails.                                                 *)
Denied(r) ==
  /\ req[r].stage = "sent" /\ ~Admitted(req[r].with)
  /\ IF stored # None
       THEN /\ req' = [req EXCEPT ![r].stage = "refreshing", ![r].with = None,
                                  ![r].using = stored]
            /\ contested' = contested
            /\ disturbed' = (disturbed \/ \E q \in Requests \ {r} :
                               \/ req[q].using = stored
                               \/ (req[q].stage = "retrying" /\ req[q].with = stored))
            /\ UNCHANGED <<stored, user>>
       ELSE /\ IF req[r].kind = "logout" THEN SignedOut(r)
               ELSE /\ Finish(r)
                    /\ user' \in {user, "out"}
                    /\ UNCHANGED stored
            /\ UNCHANGED <<contested, disturbed>>
  /\ UNCHANGED <<token, session, expired, lapsed, root, login, signIns, cuts, cutting,
                 since, caught, turnedDown, faults>>

(* refresh: the row is read; it must be live and in time.                  *)
ReadToken(r) ==
  LET p == req[r].using
  IN  /\ req[r].stage = "refreshing"
      /\ req' = [req EXCEPT ![r].stage =
                   IF token[p] = "live" /\ p \notin lapsed THEN "read" ELSE "refused"]
      /\ contested' = IF \E q \in Requests \ {r} : req[q].stage = "read" /\ req[q].using = p
                        THEN contested \cup {root[p]} ELSE contested
      /\ UNCHANGED <<token, session, expired, lapsed, root, stored, user, login, signIns,
                     cuts, cutting, since, caught, disturbed, turnedDown, faults>>

RevokeToken(r) ==
  /\ req[r].stage = "read"
  /\ token' = [token EXCEPT ![req[r].using] = "revoked"]
  /\ req' = [req EXCEPT ![r].stage = "tokenRevoked"]
  /\ UNCHANGED <<session, expired, lapsed, root, stored, user, login, signIns, cuts,
                 cutting, since, caught, contested, disturbed, turnedDown, faults>>

(* As a bug would: the session of the token that was used is left alive.   *)
RevokeSessionForgotten(r) ==
  /\ req[r].stage = "tokenRevoked"
  /\ req' = [req EXCEPT ![r].stage = "sessionRevoked"]
  /\ UNCHANGED <<token, session, expired, lapsed, root, stored, user, login, signIns, cuts,
                 cutting, since, caught, contested, disturbed, turnedDown, faults>>

RevokeSession(r) ==
  /\ req[r].stage = "tokenRevoked"
  /\ session' = [session EXCEPT ![req[r].using] = "revoked"]
  /\ req' = [req EXCEPT ![r].stage = "sessionRevoked"]
  /\ UNCHANGED <<token, expired, lapsed, root, stored, user, login, signIns, cuts, cutting,
                 since, caught, contested, disturbed, turnedDown, faults>>

ReissueToken(r) ==
  /\ req[r].stage = "sessionRevoked" /\ Unused # {}
  /\ LET p == Next1(Unused)
     IN  /\ token' = [token EXCEPT ![p] = "live"]
         /\ root' = [root EXCEPT ![p] = root[req[r].using]]
         /\ req' = [req EXCEPT ![r].stage = "tokenMade", ![r].got = p]
  /\ UNCHANGED <<session, expired, lapsed, stored, user, login, signIns, cuts, cutting,
                 since, caught, contested, disturbed, turnedDown, faults>>

ReissueSession(r) ==
  /\ req[r].stage = "tokenMade"
  /\ session' = [session EXCEPT ![req[r].got] = "live"]
  /\ caught' = IF req[r].caught \/ cutting \/ req[r].using \in caught
                 THEN caught \cup {req[r].got} ELSE caught
  /\ req' = [req EXCEPT ![r].stage = "made", ![r].caught = FALSE]
  /\ UNCHANGED <<token, expired, lapsed, root, stored, user, login, signIns, cuts, cutting,
                 since, contested, disturbed, turnedDown, faults>>

(* As a bug would: the new pair is used once and not stored.               *)
RetryUnstored(r) ==
  /\ req[r].stage = "made"
  /\ req' = [req EXCEPT ![r].stage = "retrying", ![r].with = req[r].got,
                        ![r].using = None, ![r].got = None]
  /\ UNCHANGED <<token, session, expired, lapsed, root, stored, user, login, signIns, cuts,
                 cutting, since, caught, contested, disturbed, turnedDown, faults>>

(* The browser has the new pair: it stores it and sends the request again. *)
Retry(r) ==
  /\ req[r].stage = "made"
  /\ stored' = req[r].got
  /\ req' = [req EXCEPT ![r].stage = "retrying", ![r].with = req[r].got,
                        ![r].using = None, ![r].got = None]
  /\ UNCHANGED <<token, session, expired, lapsed, root, user, login, signIns, cuts, cutting,
                 since, caught, contested, disturbed, turnedDown, faults>>

(* The refresh was refused, or the request was denied again: the tokens    *)
(* are cleared, whichever pair is stored by now.                           *)
ClearTokens(r) ==
  /\ \/ req[r].stage = "refused"
     \/ req[r].stage = "retrying" /\ ~Admitted(req[r].with)
  /\ stored' = None
  /\ user' \in IF req[r].kind = "logout" THEN {"out"}
                ELSE IF req[r].kind = "call" THEN {user, "out"} ELSE {user}
  /\ Finish(r)
  /\ UNCHANGED <<token, session, expired, lapsed, root, login, signIns, cuts, cutting,
                 since, caught, contested, disturbed, turnedDown, faults>>

(* An answer is lost, or the handler dies where it is: before the refresh  *)
(* the error is shown, from the refresh on the tokens are cleared.         *)
Lose(r) ==
  /\ req[r].stage \notin {"idle", "refused"} /\ cuts + faults < MaxTroubles
  /\ ~(req[r].kind = "logoutAll" /\ req[r].stage = "half")
  /\ faults' = faults + 1
  /\ disturbed' = TRUE
  /\ IF req[r].stage \in {"sent", "half"} /\ req[r].kind # "logout"
       THEN UNCHANGED stored ELSE stored' = None
  /\ user' \in IF req[r].kind = "logout" THEN {"out"}
                ELSE IF req[r].kind = "call" THEN {user, "out"} ELSE {user}
  /\ Finish(r)
  /\ UNCHANGED <<token, session, expired, lapsed, root, login, signIns, cuts, cutting,
                 since, caught, contested, turnedDown>>

(* The handler refuses the request for a reason of its own (a balance, a   *)
(* limit).  A first try just shows the error; a second one, made inside    *)
(* the try block of the refresh, clears the tokens just stored with it,    *)
(* though nothing is wrong with them.                                      *)
Rejected(r) ==
  /\ req[r].stage \in {"sent", "retrying"} /\ req[r].kind = "call"
  /\ Admitted(req[r].with)
  /\ Finish(r)
  /\ IF req[r].stage = "retrying"
       THEN stored' = None /\ turnedDown' = TRUE
       ELSE UNCHANGED <<stored, turnedDown>>
  /\ UNCHANGED <<token, session, expired, lapsed, root, user, login, signIns, cuts, cutting,
                 since, caught, contested, disturbed, faults>>

-----------------------------------------------------------------------------
(* Time, the administrator and the other device.                           *)

(* The fifteen minutes of the stored access token are over; they outlast   *)
(* the request, or the login, that fetched it, and do not matter to a      *)
(* session that is revoked.                                                *)
AccessExpires ==
  /\ stored # None /\ stored \notin expired /\ session[stored] = "live"
  /\ \A r \in Requests : ~(req[r].stage = "retrying" /\ req[r].with = stored)
  /\ expired' = expired \cup {stored}
  /\ UNCHANGED <<token, session, lapsed, root, stored, user, req, login, signIns, cuts, cutting,
                 since, caught, contested, disturbed, turnedDown, faults>>

(* The stored pair passes its expiresAt: the browser stayed away.          *)
Lapse ==
  /\ stored # None /\ stored \notin lapsed /\ cuts + faults < MaxTroubles
  /\ lapsed' = lapsed \cup {stored}
  /\ disturbed' = TRUE
  /\ faults' = faults + 1
  /\ UNCHANGED <<token, session, expired, root, stored, user, req, login, signIns, cuts, cutting,
                 since, caught, contested, turnedDown>>

(* resetPassword, by the link in a mail: one transaction.                  *)
ResetPassword ==
  /\ cuts + faults < MaxTroubles /\ ~cutting
  /\ token' = RevokeAll(token)
  /\ session' = RevokeAll(session)
  /\ cuts' = cuts + 1
  /\ req' = Catch
  /\ login' = CatchLogin
  /\ disturbed' = TRUE
  /\ UNCHANGED <<expired, lapsed, root, stored, user, signIns, cutting, since, caught,
                 contested, turnedDown, faults>>

RequestStep(r) ==
  \/ Served(r) \/ Rejected(r) \/ LogoutSession(r) \/ LogoutToken(r) \/ LogoutAllSessions(r)
  \/ LogoutAllTokens(r) \/ DeniedUpload(r) \/ Denied(r) \/ ReadToken(r) \/ RevokeToken(r)
  \/ RevokeSession(r) \/ ReissueToken(r) \/ ReissueSession(r) \/ Retry(r) \/ ClearTokens(r)

SessionsNext ==
  \/ Login \/ LoginWithTwoFactor \/ LeaveLogin \/ IssueToken \/ IssueSession \/ SetSession
  \/ \E r \in Requests : \/ \E kind \in Kinds : Send(r, kind)
                         \/ RequestStep(r) \/ Lose(r)
  \/ AccessExpires \/ Lapse \/ ResetPassword

SessionsSpec == SessionsInit /\ [][SessionsNext]_sessionVars

-----------------------------------------------------------------------------
(* The shape of the rows and records; a session points to a token row, and *)
(* so does a browser that has stored one.                                  *)
SessionsTypeOK ==
  /\ token \in [Pairs -> {"none", "live", "revoked"}]
  /\ session \in [Pairs -> {"none", "live", "revoked"}]
  /\ expired \subseteq Pairs /\ lapsed \subseteq Pairs
  /\ root \in [Pairs -> SignIns \cup {0}]
  /\ stored \in Pairs \cup {None}
  /\ user \in {"in", "out"}
  /\ req \in [Requests -> [kind : Kinds, stage : Stages, with : Pairs \cup {None},
                           using : Pairs \cup {None}, got : Pairs \cup {None}, caught : BOOLEAN]]
  /\ login \in [stage : {"idle", "awaiting2fa", "issuing", "tokenMade", "made"},
                got : Pairs \cup {None}, caught : BOOLEAN]
  /\ cutting \in BOOLEAN /\ disturbed \in BOOLEAN /\ turnedDown \in BOOLEAN
  /\ signIns \in SignIns \cup {0} /\ cuts \in 0..MaxTroubles /\ faults \in 0..MaxTroubles
  /\ since \in [SignIns -> 0..MaxTroubles]
  /\ caught \subseteq Pairs /\ contested \subseteq SignIns \cup {0}
  /\ \A p \in Pairs : /\ session[p] # "none" => token[p] # "none"
                      /\ root[p] = 0 <=> token[p] = "none"
  /\ stored # None => token[stored] # "none"

(* One sign-in is one live session, however often it was refreshed and     *)
(* wherever a refresh was cut short; two requests that refreshed one token *)
(* at once may leave two (refresh, issueSessionTokens).                    *)
OneSessionPerSignIn ==
  \A p, q \in Pairs :
    session[p] = "live" /\ session[q] = "live" /\ root[p] = root[q] /\ root[p] \notin contested
      => p = q

(* After a sign-out of all devices or a password reset the sessions alive  *)
(* come from sign-ins made since, or from a handler that was at work on a  *)
(* new pair while the rows were being revoked.                             *)
SignedOutEverywhere ==
  \A p \in Pairs : session[p] = "live" /\ ~cutting => since[root[p]] = cuts \/ p \in caught

(* A user who neither signs out, nor resets the password, nor stays away   *)
(* till the token lapses, stays signed in through every refresh: what the  *)
(* browser stores can still be refreshed, and it has nothing stored only   *)
(* when a request that was tried anew was refused for a reason of its own. *)
(* Set aside are lost answers and two requests that refresh side by side   *)
(* (apiRequest).                                                           *)
KeepsSignedIn ==
  user = "in" /\ ~disturbed =>
    IF stored = None THEN turnedDown
    ELSE \/ token[stored] = "live"
         \/ \E r \in Requests : req[r].using = stored /\ req[r].stage \in Issuing \cup {"made"}

(* What the comment of apiRequest says: the refresh is silent.  A user     *)
(* whom nothing disturbed is not signed out by it, whatever becomes of the *)
(* request that was tried anew.                                            *)
SilentRefresh == user = "in" /\ ~disturbed => stored # None
=============================================================================
