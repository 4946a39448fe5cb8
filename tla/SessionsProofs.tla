-------------------------- MODULE SessionsProofs --------------------------
(***************************************************************************)
(* Theorems about Sessions, for any number of requests in flight, of       *)
(* sign-ins, pairs, cuts and faults.                                       *)
(*                                                                         *)
(* The invariant: the rows fit what the requests hold (Shape), what is     *)
(* alive of a sign-in is one pair however far a refresh is (OneLine), a    *)
(* cut leaves only what a handler at work brings (CutOff), and what is     *)
(* stored is good while nothing disturbs it (Kept).                        *)
(***************************************************************************)
EXTENDS Sessions, SumTheorems

USE SessionsAssumption

ReqRow == [kind : Kinds, stage : Stages, with : Pairs \cup {None},
           using : Pairs \cup {None}, got : Pairs \cup {None}, caught : BOOLEAN]
LoginRow == [stage : {"idle", "awaiting2fa", "issuing", "tokenMade", "made"},
             got : Pairs \cup {None}, caught : BOOLEAN]
RowStates == {"none", "live", "revoked"}

Using == Issuing \cup {"refreshing", "refused", "made"}
Bringing == {"tokenMade", "made"}

(* A request holds the pairs its stage says, and they were made.           *)
Fits(d) ==
  /\ d.using # None <=> d.stage \in Using
  /\ d.got # None <=> d.stage \in Bringing
  /\ d.stage \in {"retrying", "half"} => d.with # None
  /\ d.stage = "half" => d.kind # "call"
  /\ d.stage = "idle" => d.kind = "call"
  /\ d.using # None => session[d.using] # "none"
  /\ d.with # None => session[d.with] # "none"
  /\ d.got # None => token[d.got] # "none" /\ root[d.got] = root[d.using]
  /\ d.stage = "tokenMade" => session[d.got] = "none"
  /\ d.stage = "made" => session[d.got] # "none"
  /\ d.stage \in {"tokenRevoked", "sessionRevoked"} => token[d.using] # "live"
  /\ d.stage = "sessionRevoked" => session[d.using] # "live"

(* A sign-in under way has its number, and one that has no token yet has   *)
(* no pair.                                                                *)
LoginFits ==
  /\ login.got # None <=> login.stage \in Bringing
  /\ login.stage # "idle" => signIns # 0
  /\ login.got # None => token[login.got] # "none"
  /\ login.stage = "tokenMade" => /\ session[login.got] = "none" /\ root[login.got] = signIns
                                  /\ \A p \in Pairs : root[p] = signIns => p = login.got
  /\ login.stage = "made" => session[login.got] # "none"
  /\ login.stage \in {"awaiting2fa", "issuing"} => \A p \in Pairs : root[p] # signIns

(* The request that is between the two commits of a cut.                   *)
Cutter(d) == d.stage = "half" /\ d.kind = "logoutAll"

RowsFit ==
  /\ stored # None => session[stored] # "none"
  /\ \A p \in Pairs : root[p] <= signIns /\ (p \in expired \cup lapsed => token[p] # "none")
  /\ \A r \in Requests : Cutter(req[r]) => cutting
  /\ \A q, r \in Requests : Cutter(req[q]) /\ Cutter(req[r]) => q = r
  /\ cutting => cuts < MaxTroubles /\ \E r \in Requests : Cutter(req[r])

(* A pair that is new is known to the one that brings it, and to nobody    *)
(* else.                                                                   *)
Unknown(p) ==
  /\ p # stored /\ p \notin expired \cup lapsed
  /\ \A r \in Requests : req[r].with # p /\ req[r].using # p
NewPairs ==
  /\ login.got # None => Unknown(login.got) /\ \A r \in Requests : req[r].got # login.got
  /\ \A r \in Requests :
       req[r].got # None => /\ Unknown(req[r].got)
                            /\ \A q \in Requests : req[q].got = req[r].got => q = r

Shape ==
  /\ SessionsTypeOK /\ (\A r \in Requests : Fits(req[r]))
  /\ LoginFits /\ RowsFit /\ NewPairs

(* What is alive of a sign-in is one pair, however far a refresh is: the   *)
(* one it uses, then none, then the one it makes.                          *)
Alive(p) == token[p] = "live" \/ session[p] = "live"
Line(d, p) ==
  \/ d.stage \in {"read", "tokenRevoked"} /\ p = d.using
  \/ d.stage = "tokenMade" /\ p = d.got
OneAlive(s) ==
  s \in contested
    \/ /\ \A p, q \in Pairs : root[p] = s /\ root[q] = s /\ Alive(p) /\ Alive(q) => p = q
       /\ \A r \in Requests : req[r].stage \in Issuing /\ root[req[r].using] = s =>
            /\ \A q \in Requests :
                 req[q].stage \in Issuing /\ root[req[q].using] = s => q = r
            /\ \A p \in Pairs : root[p] = s /\ Alive(p) => Line(req[r], p)

OneLine == \A s \in SignIns : OneAlive(s)

(* A cut leaves nothing alive of the sign-ins before it but what a handler *)
(* at work brings, and that one knows.                                     *)
Marked(d) == d.caught \/ d.using \in caught \/ since[root[d.using]] = cuts
CutOff ==
  /\ \A p \in Pairs :
       session[p] = "live" => p \in caught \/ (~cutting /\ since[root[p]] = cuts)
  /\ \A p \in Pairs :
       token[p] = "live" /\ session[p] # "none" => p \in caught \/ since[root[p]] = cuts
  /\ login.stage \in {"issuing", "tokenMade"} => login.caught \/ since[signIns] = cuts
  /\ \A r \in Requests : req[r].stage \in Issuing => Marked(req[r])

(* Undisturbed, one request at most refreshes what is stored or tries anew *)
(* with it, and what is stored is good, or what that request brings is.    *)
Engaged == (Using \cup {"retrying"}) \ {"refused"}
Good(p) == token[p] = "live" /\ p \notin lapsed
Calm(d) ==
  /\ d.kind = "call" /\ d.stage # "refused"
  /\ d.using # None => d.using = stored
  /\ d.stage = "retrying" => d.with = stored /\ session[stored] = "live" /\ stored \notin expired
  /\ d.got # None => Good(d.got)
  /\ d.stage = "made" => session[d.got] = "live"
Replacing == {"tokenRevoked", "sessionRevoked", "tokenMade", "made"}
Undisturbed ==
  /\ \A r \in Requests : Calm(req[r])
  /\ \A q, r \in Requests : req[q].stage \in Engaged /\ req[r].stage \in Engaged => q = r
  /\ Good(stored) \/ \E r \in Requests : req[r].stage \in Replacing
Untouched == user = "out" /\ \A r \in Requests : req[r].stage = "idle"

(* With nothing stored after a refusal, what is in flight changes nothing. *)
Adrift ==
  turnedDown /\ \A r \in Requests : req[r].kind = "call" /\ req[r].stage \in {"idle", "sent"}

(* retrying implies stored \notin lapsed, by Good(stored).                 *)
Kept ==
  \/ disturbed
  \/ stored = None /\ (Untouched \/ Adrift)
  \/ stored # None /\ Undisturbed

SInv == Shape /\ OneLine /\ CutOff /\ Kept

LEMMA SessionShapes ==
  ASSUME SessionsTypeOK
  PROVE  /\ token \in [Pairs -> RowStates] /\ session \in [Pairs -> RowStates]
         /\ expired \subseteq Pairs /\ lapsed \subseteq Pairs
         /\ root \in [Pairs -> SignIns \cup {0}] /\ stored \in Pairs \cup {None}
         /\ user \in {"in", "out"} /\ req \in [Requests -> ReqRow] /\ login \in LoginRow
         /\ cutting \in BOOLEAN /\ disturbed \in BOOLEAN /\ turnedDown \in BOOLEAN
         /\ signIns \in Nat /\ signIns <= MaxSignIns /\ signIns \in SignIns \cup {0}
         /\ cuts \in 0..MaxTroubles /\ faults \in 0..MaxTroubles
         /\ since \in [SignIns -> 0..MaxTroubles]
         /\ caught \subseteq Pairs /\ contested \subseteq SignIns \cup {0}
         /\ \A p \in Pairs : /\ session[p] # "none" => token[p] # "none"
                             /\ root[p] = 0 <=> token[p] = "none"
         /\ None \notin Pairs
BY DEF SessionsTypeOK, RowStates, ReqRow, LoginRow, SignIns, Pairs

LEMMA NoRequestShape ==
  /\ NoRequest \in ReqRow /\ NoRequest.stage = "idle" /\ NoRequest.kind = "call"
  /\ NoRequest.with = None /\ NoRequest.using = None /\ NoRequest.got = None
  /\ NoRequest.caught = FALSE
BY DEF NoRequest, ReqRow, Kinds, Stages

LEMMA SessionsStart == SessionsInit => SInv
<1> SUFFICES ASSUME SessionsInit PROVE SInv
  OBVIOUS
<1>1. /\ \A p \in Pairs : token[p] = "none" /\ session[p] = "none" /\ root[p] = 0
      /\ \A r \in Requests : req[r] = NoRequest
      /\ login.stage = "idle" /\ login.got = None
      /\ stored = None /\ user = "out" /\ expired = {} /\ lapsed = {} /\ signIns = 0
      /\ cutting = FALSE
  BY DEF SessionsInit, NoLogin
<1>2. SessionsTypeOK
  <2>1. /\ token \in [Pairs -> {"none", "live", "revoked"}]
        /\ session \in [Pairs -> {"none", "live", "revoked"}]
        /\ root \in [Pairs -> SignIns \cup {0}] /\ since \in [SignIns -> 0..MaxTroubles]
    BY DEF SessionsInit
  <2>2. req \in [Requests -> ReqRow] /\ login \in LoginRow
    BY NoRequestShape DEF SessionsInit, NoLogin, LoginRow
  <2>3. cutting \in BOOLEAN /\ disturbed \in BOOLEAN /\ turnedDown \in BOOLEAN
    BY Zenon DEF SessionsInit
  <2>4. /\ cuts \in 0..MaxTroubles /\ faults \in 0..MaxTroubles
        /\ caught \subseteq Pairs /\ contested \subseteq SignIns \cup {0}
    BY DEF SessionsInit
  <2> QED
    BY <1>1, <2>1, <2>2, <2>3, <2>4 DEF SessionsTypeOK, ReqRow, LoginRow
<1>3. Shape
  BY <1>1, <1>2, NoRequestShape
     DEF Shape, Fits, LoginFits, RowsFit, NewPairs, Cutter, Using, Issuing, Bringing
<1>4. OneLine
  BY <1>1, NoRequestShape DEF OneLine, OneAlive, Alive, Issuing
<1>5. CutOff
  BY <1>1, NoRequestShape DEF CutOff, Issuing
<1>6. Kept
  BY <1>1, NoRequestShape DEF Kept, Untouched
<1> QED
  BY <1>3, <1>4, <1>5, <1>6 DEF SInv

-----------------------------------------------------------------------------
(* A request takes the record d.                                           *)

(* Rows are revoked at most.                                               *)
RevokedAtMost ==
  /\ token' \in [Pairs -> RowStates] /\ session' \in [Pairs -> RowStates]
  /\ \A p \in Pairs : /\ token'[p] = "none" <=> token[p] = "none"
                      /\ session'[p] = "none" <=> session[p] = "none"
                      /\ token'[p] = "live" => token[p] = "live"
                      /\ session'[p] = "live" => session[p] = "live"

(* The request r takes d, which knows no pair it might not know.           *)
Takes(r, d) ==
  /\ d \in ReqRow /\ req' = [req EXCEPT ![r] = d]
  /\ UNCHANGED <<expired, lapsed, root, login, signIns, cuts, cutting, since, caught>>
  /\ RevokedAtMost
  /\ ~Cutter(req[r]) /\ ~Cutter(d)
  /\ faults' \in 0..MaxTroubles /\ user' \in {"in", "out"}
  /\ disturbed' \in BOOLEAN /\ turnedDown' \in BOOLEAN
  /\ contested' \subseteq SignIns \cup {0}
  /\ stored' \in {None, stored, req[r].got}
  /\ d.with \in {None, stored, req[r].with, req[r].got}
  /\ d.using \in {None, stored, req[r].using}
  /\ d.got = None \/ /\ d.got = req[r].got /\ stored' \in {None, stored}
                     /\ d.with \in {None, stored, req[r].with}

LEMMA TakenShape ==
  ASSUME Shape, NEW r \in Requests, NEW d, Takes(r, d), Fits(d)',
         stored' # None => session'[stored'] # "none"
  PROVE  Shape'
<1> USE DEF Takes
<1>0. d \in ReqRow /\ SessionsTypeOK
  BY DEF Shape
<1>1. /\ req' \in [Requests -> ReqRow] /\ req'[r] = d
      /\ \A q \in Requests \ {r} : req'[q] = req[q]
  BY <1>0, SessionShapes
<1>2. SessionsTypeOK'
  <2>1. stored' \in Pairs \cup {None}
    BY <1>0, SessionShapes DEF ReqRow
  <2>2. /\ \A p \in Pairs : /\ session'[p] # "none" => token'[p] # "none"
                            /\ root'[p] = 0 <=> token'[p] = "none"
        /\ stored' # None => token'[stored'] # "none"
    BY <1>0, <2>1, SessionShapes DEF RevokedAtMost
  <2> QED
    BY <1>0, <1>1, <2>1, <2>2 DEF SessionsTypeOK, RevokedAtMost, RowStates, ReqRow
<1>3. \A q \in Requests : req[q] \in ReqRow /\ Fits(req[q])
  BY <1>0, SessionShapes DEF Shape
<1>4. ASSUME NEW q \in Requests PROVE Fits(req[q])'
  <2>1. CASE q = r
    BY <1>1, <2>1
  <2>2. CASE q # r
    <3> DEFINE e == req[q]
    <3>1. e \in ReqRow /\ Fits(e) /\ req'[q] = e
      BY <1>1, <1>3, <2>2
    <3>2. /\ e.using \in Pairs \cup {None} /\ e.with \in Pairs \cup {None}
          /\ e.got \in Pairs \cup {None}
      BY <3>1 DEF ReqRow
    <3>3. /\ e.stage \in Bringing => e.stage \in Using
          /\ e.stage = "tokenMade" => e.stage \in Bringing
          /\ e.stage = "made" => e.stage \in Bringing
          /\ e.stage \in {"tokenRevoked", "sessionRevoked"} => e.stage \in Using
          /\ e.stage = "sessionRevoked" => e.stage \in Using
      BY DEF Bringing, Using, Issuing
    <3> QED
      BY <3>1, <3>2, <3>3 DEF Fits, RevokedAtMost
  <2> QED
    BY <2>1, <2>2
<1>5. LoginFits'
  <2>1. login.got \in Pairs \cup {None}
    BY <1>0, SessionShapes DEF LoginRow
  <2>2. /\ login.stage = "tokenMade" => login.stage \in Bringing
        /\ login.stage = "made" => login.stage \in Bringing
    BY DEF Bringing
  <2> QED
    BY <2>1, <2>2 DEF Shape, LoginFits, RevokedAtMost
<1>6. RowsFit'
  <2>1. \A q \in Requests : Cutter(req'[q]) <=> Cutter(req[q])
    BY <1>1
  <2> QED
    BY <2>1 DEF Shape, RowsFit, RevokedAtMost
<1>7. NewPairs'
  <2>1. ASSUME NEW g \in Pairs, Unknown(g), req[r].got # g \/ d.got = g
        PROVE  Unknown(g)'
    <3>0. /\ g # None /\ stored # g /\ req[r].with # g /\ req[r].using # g
          /\ req[r].got = g => d.got = g
      BY <1>0, <2>1, SessionShapes DEF Unknown
    <3>1. stored' # g /\ d.with # g /\ d.using # g
      BY <3>0
    <3> QED
      BY <1>1, <2>1, <3>1 DEF Unknown
  <2>2. login.got \in Pairs \cup {None} /\ \A q \in Requests : req[q].got \in Pairs \cup {None}
    BY <1>0, <1>3, SessionShapes DEF LoginRow, ReqRow
  <2>3. login.got # None => Unknown(login.got)' /\ \A q \in Requests : req'[q].got # login.got
    BY <1>1, <2>1, <2>2 DEF Shape, NewPairs
  <2>4. ASSUME NEW q \in Requests, req'[q].got # None
        PROVE  /\ Unknown(req[q].got)' /\ \A e \in Requests : req'[e].got = req'[q].got => e = q
    <3>1. req'[q].got = req[q].got /\ req[q].got \in Pairs
      BY <1>1, <2>2, <2>4
    <3>2. PICK g \in Pairs : g = req[q].got
      BY <3>1
    <3>3. /\ Unknown(g) /\ \A e \in Requests : req[e].got = g => e = q
          /\ req[r].got = g => d.got = g
          /\ g # None /\ (d.got = None \/ d.got = req[r].got)
      BY <1>0, <1>1, <2>4, <3>1, <3>2, SessionShapes DEF Shape, NewPairs
    <3>4. Unknown(g)'
      BY <2>1, <3>3
    <3>5. \A e \in Requests : req'[e].got = g => e = q
      BY <1>1, <3>2, <3>3
    <3> QED
      BY <3>1, <3>2, <3>4, <3>5 DEF Unknown
  <2> QED
    BY <2>3, <2>4 DEF NewPairs
<1> QED
  BY <1>2, <1>4, <1>5, <1>6, <1>7 DEF Shape

(* Unless it reads, a request goes on with the refresh it was at.          *)
LEMMA TakenLine ==
  ASSUME Shape, OneLine, NEW r \in Requests, NEW d, Takes(r, d), contested \subseteq contested',
         d.stage \in Issuing =>
           /\ req[r].stage \in Issuing /\ d.using = req[r].using
           /\ \A p \in Pairs : Alive(p)' /\ Line(req[r], p) => Line(d, p)
  PROVE  OneLine'
<1> USE DEF Takes
<1>1. /\ req'[r] = d /\ \A q \in Requests \ {r} : req'[q] = req[q]
      /\ UNCHANGED root /\ \A p \in Pairs : Alive(p)' => Alive(p)
  BY SessionShapes DEF Shape, RevokedAtMost, Alive
<1> SUFFICES ASSUME NEW s \in SignIns, s \notin contested' PROVE OneAlive(s)'
  BY DEF OneLine, OneAlive
<1>2. s \notin contested /\ OneAlive(s)
  BY DEF OneLine
<1>3. \A p, q \in Pairs : root'[p] = s /\ root'[q] = s /\ Alive(p)' /\ Alive(q)' => p = q
  BY <1>1, <1>2 DEF OneAlive
<1>4. \A q \in Requests : req'[q].stage \in Issuing =>
        req[q].stage \in Issuing /\ req'[q].using = req[q].using
  BY <1>1
<1>5. \A q \in Requests : req'[q].stage \in Issuing =>
        \A p \in Pairs : Alive(p)' /\ Line(req[q], p) => Line(req'[q], p)
  BY <1>1
<1>6. ASSUME NEW q \in Requests, req'[q].stage \in Issuing, root'[req'[q].using] = s
      PROVE  /\ \A e \in Requests : req'[e].stage \in Issuing /\ root'[req'[e].using] = s => e = q
             /\ \A p \in Pairs : root'[p] = s /\ Alive(p)' => Line(req'[q], p)
  <2>1. req[q].stage \in Issuing /\ root[req[q].using] = s
    BY <1>1, <1>4, <1>6
  <2> QED
    BY <1>1, <1>2, <1>4, <1>5, <1>6, <2>1 DEF OneAlive
<1> QED
  BY <1>3, <1>6 DEF OneAlive, Line

LEMMA TakenCut ==
  ASSUME Shape, CutOff, NEW r \in Requests, NEW d, Takes(r, d), d.stage \in Issuing => Marked(d)
  PROVE  CutOff'
<1> USE DEF Takes
<1>1. /\ req'[r] = d /\ \A q \in Requests \ {r} : req'[q] = req[q]
      /\ \A e : Marked(e)' <=> Marked(e)
  BY SessionShapes DEF Shape, Marked
<1> QED
  BY <1>1 DEF CutOff, RevokedAtMost


(* A request is finished, and nothing is made.                             *)
LEMMA Finished ==
  ASSUME SInv, NEW r \in Requests, Finish(r), ~Cutter(req[r]), RevokedAtMost,
         UNCHANGED <<expired, lapsed, root, login, signIns, cuts, cutting, since, caught,
                     contested>>,
         faults' \in 0..MaxTroubles, user' \in {"in", "out"},
         disturbed' \in BOOLEAN, turnedDown' \in BOOLEAN,
         stored' \in {None, stored}, Kept'
  PROVE  SInv'
<1>1. SessionsTypeOK /\ RowsFit /\ Shape /\ OneLine /\ CutOff
  BY DEF SInv, Shape
<1>2. NoRequest.stage \notin Issuing \cup Using \cup Bringing
  BY NoRequestShape DEF Issuing, Using, Bringing
<1>3. Takes(r, NoRequest)
  BY <1>1, NoRequestShape, SessionShapes DEF Takes, Finish, Cutter
<1>4. Fits(NoRequest)'
  BY <1>2, NoRequestShape DEF Fits
<1>5. stored' # None => session'[stored'] # "none"
  BY <1>1, SessionShapes DEF RowsFit, RevokedAtMost
<1>6. Shape'
  BY <1>1, <1>3, <1>4, <1>5, TakenShape
<1>7. OneLine' /\ CutOff'
  BY <1>1, <1>2, <1>3, TakenLine, TakenCut
<1> QED
  BY <1>6, <1>7 DEF SInv

(* A request goes on, with the refresh it was at or with none.             *)
LEMMA Advanced ==
  ASSUME SInv, NEW r \in Requests, NEW d, Takes(r, d), Fits(d)',
         stored' # None => session'[stored'] # "none", contested' = contested,
         d.stage \in Issuing =>
           /\ req[r].stage \in Issuing /\ d.using = req[r].using /\ d.caught = req[r].caught
           /\ \A p \in Pairs : Alive(p)' /\ Line(req[r], p) => Line(d, p),
         Kept'
  PROVE  SInv'
<1>1. Shape /\ OneLine /\ CutOff
  BY DEF SInv
<1>2. d.stage \in Issuing => Marked(d)
  BY <1>1 DEF CutOff, Marked
<1>3. Shape'
  BY <1>1, TakenShape
<1>4. OneLine'
  BY <1>1, TakenLine
<1>5. CutOff'
  BY <1>1, <1>2, TakenCut
<1> QED
  BY <1>3, <1>4, <1>5 DEF SInv

(* What a request that is under way knows when nothing disturbed it.       *)
LEMMA Undisturbing ==
  ASSUME SInv, ~disturbed, NEW r \in Requests, req[r].stage # "idle"
  PROVE  /\ Calm(req[r])
         /\ stored # None \/ (turnedDown /\ req[r].stage = "sent")
         /\ req[r].stage \in Engaged =>
              /\ stored # None /\ \A q \in Requests \ {r} : req[q].stage \notin Engaged
              /\ req[r].stage \in Replacing \/ Good(stored)
<1>1. CASE stored # None
  <2>1. Undisturbed
    BY <1>1 DEF SInv, Kept
  <2>2. \A q \in Requests : req[q].stage \in Replacing => req[q].stage \in Engaged
    BY DEF Replacing, Engaged, Using, Issuing
  <2> QED
    BY <1>1, <2>1, <2>2 DEF Undisturbed
<1>2. CASE stored = None
  <2>1. turnedDown /\ req[r].kind = "call" /\ req[r].stage = "sent"
    BY <1>2 DEF SInv, Kept, Untouched, Adrift
  <2>2. req[r].using = None /\ req[r].got = None /\ req[r].stage \notin Engaged
    BY <2>1 DEF SInv, Shape, Fits, Using, Issuing, Bringing, Engaged
  <2> QED
    BY <2>1, <2>2 DEF Calm
<1> QED
  BY <1>1, <1>2

(* One request is busy, and no other.                                      *)
LEMMA KeptBusy ==
  ASSUME SInv, NEW r \in Requests, NEW d, req' = [req EXCEPT ![r] = d], disturbed => disturbed',
         ~disturbed' => /\ stored # None /\ stored' # None /\ Calm(d)'
                        /\ \A q \in Requests \ {r} : req[q].stage \notin Engaged
                        /\ Good(stored)' \/ d.stage \in Replacing
  PROVE  Kept'
<1> SUFFICES ASSUME ~disturbed' PROVE Undisturbed'
  BY DEF Kept
<1>1. req'[r] = d /\ \A q \in Requests \ {r} : req'[q] = req[q]
  BY SessionShapes DEF SInv, Shape
<1>2. Undisturbed
  BY DEF SInv, Kept
<1>3. ASSUME NEW q \in Requests \ {r} PROVE Calm(req[q])'
  <2>1. Calm(req[q]) /\ Fits(req[q]) /\ req'[q] = req[q]
    BY <1>1, <1>2 DEF Undisturbed, SInv, Shape
  <2>2. req[q].stage \notin Engaged /\ req[q].stage # "refused"
    BY <2>1 DEF Calm
  <2>3. /\ req[q].stage \notin Using /\ req[q].stage \notin Bringing
        /\ req[q].stage # "made" /\ req[q].stage # "retrying"
    BY <2>2 DEF Engaged, Using, Issuing, Bringing
  <2> QED
    BY <2>1, <2>2, <2>3 DEF Calm, Fits
<1>4. \A q, e \in Requests : req'[q].stage \in Engaged /\ req'[e].stage \in Engaged => q = e
  BY <1>1
<1>5. Good(stored)' \/ \E q \in Requests : req'[q].stage \in Replacing
  BY <1>1
<1>6. Calm(d)'
  OBVIOUS
<1>7. \A q \in Requests : Calm(req[q])'
  BY <1>1, <1>3, <1>6
<1> QED
  BY <1>4, <1>5, <1>7 DEF Undisturbed

(* A request that has no pair but the one it asks with.                    *)
LEMMA KeptIdle ==
  ASSUME SInv, NEW r \in Requests, NEW d, req' = [req EXCEPT ![r] = d],
         UNCHANGED <<token, session, expired, lapsed, stored, turnedDown>>,
         d.stage \in {"idle", "sent"}, d.using = None, d.got = None, disturbed => disturbed',
         ~disturbed' => /\ stored # None \/ turnedDown
                        /\ d.kind = "call" /\ req[r].stage \notin Replacing
  PROVE  Kept'
<1> SUFFICES ASSUME ~disturbed' PROVE (stored = None /\ Adrift') \/ (stored # None /\ Undisturbed')
  BY DEF Kept
<1>1. req'[r] = d /\ \A q \in Requests \ {r} : req'[q] = req[q]
  BY SessionShapes DEF SInv, Shape
<1>2. CASE stored = None
  <2>1. turnedDown /\ \A q \in Requests : req[q].kind = "call" /\ req[q].stage \in {"idle", "sent"}
    BY <1>2, NoRequestShape DEF SInv, Kept, Adrift, Untouched, Shape, Fits
  <2> QED
    BY <1>1, <1>2, <2>1 DEF Adrift
<1>3. CASE stored # None
  <2>1. Undisturbed
    BY <1>3 DEF SInv, Kept
  <2>2. ASSUME NEW q \in Requests \ {r} PROVE Calm(req[q])'
    <3>1. Calm(req[q]) /\ req'[q] = req[q]
      BY <1>1, <2>1 DEF Undisturbed
    <3> QED
      BY <3>1 DEF Calm, Good
  <2>3. Calm(d)'
    BY DEF Calm
  <2>4. d.stage \notin Engaged
    BY DEF Engaged, Using, Issuing
  <2>5. \A q, e \in Requests : req'[q].stage \in Engaged /\ req'[e].stage \in Engaged => q = e
    BY <1>1, <2>1, <2>4 DEF Undisturbed
  <2>6. Good(stored)' \/ \E q \in Requests : req'[q].stage \in Replacing
    BY <1>1, <2>1 DEF Undisturbed, Good
  <2>7. \A q \in Requests : Calm(req[q])'
    BY <1>1, <2>2, <2>3
  <2> QED
    BY <1>3, <2>5, <2>6, <2>7 DEF Undisturbed
<1> QED
  BY <1>2, <1>3

LEMMA RowsKept ==
  ASSUME SInv, UNCHANGED <<token, session>> PROVE RevokedAtMost
BY SessionShapes DEF SInv, Shape, RevokedAtMost

-----------------------------------------------------------------------------
(* The actions of a request, one by one.                                   *)

LEMMA SendStep ==
  ASSUME SInv, NEW r \in Requests, NEW kind \in Kinds, Send(r, kind) PROVE SInv'
<1>0. SessionsTypeOK /\ RowsFit
  BY DEF SInv, Shape
<1> PICK d : d = [NoRequest EXCEPT !.kind = kind, !.stage = "sent", !.with = stored]
  OBVIOUS
<1>1. /\ d \in ReqRow /\ d.kind = kind /\ d.stage = "sent" /\ d.with = stored /\ d.using = None
      /\ d.got = None
  BY <1>0, SessionShapes DEF NoRequest, ReqRow, Stages
<1>2. req' = [req EXCEPT ![r] = d] /\ req[r].stage = "idle"
  BY DEF Send
<1>3. d.stage \notin Issuing /\ d.stage \notin Using /\ d.stage \notin Bringing
  BY <1>1 DEF Issuing, Using, Bringing
<1>4. disturbed' \in BOOLEAN /\ turnedDown' \in BOOLEAN
  BY <1>0, SessionShapes, Zenon DEF Send
<1>5. Takes(r, d)
  BY <1>0, <1>1, <1>2, <1>4, RowsKept, SessionShapes DEF Takes, Send, Cutter
<1>6. Fits(d)' /\ (stored' # None => session'[stored'] # "none")
  BY <1>0, <1>1, <1>3 DEF Fits, Send, RowsFit
<1>7. Kept'
  <2>1. disturbed => disturbed'
    BY DEF Send
  <2>2. ~disturbed' => /\ stored # None \/ turnedDown
                       /\ d.kind = "call" /\ req[r].stage \notin Replacing
    BY <1>1, <1>2 DEF Send, SInv, Kept, Untouched, Adrift, Kinds, Replacing
  <2> QED
    BY <1>1, <1>2, <2>1, <2>2, KeptIdle DEF Send
<1> QED
  BY <1>3, <1>5, <1>6, <1>7, Advanced DEF Send

LEMMA ServedStep ==
  ASSUME SInv, NEW r \in Requests, Served(r) PROVE SInv'
<1>0. SessionsTypeOK
  BY DEF SInv, Shape
<1>1. ~Cutter(req[r]) /\ RevokedAtMost
  BY RowsKept DEF Served, Cutter
<1>2. Kept'
  <2>1. ~disturbed => stored # None \/ turnedDown
    BY Undisturbing DEF Served
  <2>2. req[r].stage \notin Replacing
    BY DEF Served, Replacing
  <2> QED
    BY <2>1, <2>2, KeptIdle, NoRequestShape DEF Served, Finish
<1> QED
  BY <1>0, <1>1, <1>2, Finished, SessionShapes DEF Served

LEMMA DeniedUploadStep ==
  ASSUME SInv, NEW r \in Requests, DeniedUpload(r) PROVE SInv'
<1>0. SessionsTypeOK
  BY DEF SInv, Shape
<1>1. ~Cutter(req[r]) /\ RevokedAtMost
  BY RowsKept DEF DeniedUpload, Cutter
<1>2. Kept'
  <2>1. ~disturbed => stored # None \/ turnedDown
    BY Undisturbing DEF DeniedUpload
  <2>2. req[r].stage \notin Replacing
    BY DEF DeniedUpload, Replacing
  <2> QED
    BY <2>1, <2>2, KeptIdle, NoRequestShape DEF DeniedUpload, Finish
<1> QED
  BY <1>0, <1>1, <1>2, Finished, SessionShapes DEF DeniedUpload

LEMMA RejectedStep ==
  ASSUME SInv, NEW r \in Requests, Rejected(r) PROVE SInv'
<1>0. SessionsTypeOK
  BY DEF SInv, Shape
<1>1. ~Cutter(req[r]) /\ RevokedAtMost
  BY RowsKept DEF Rejected, Cutter
<1>2. CASE req[r].stage = "retrying"
  <2>1. stored' = None /\ turnedDown' = TRUE /\ UNCHANGED disturbed
    BY <1>2 DEF Rejected
  <2>2. ASSUME ~disturbed PROVE Adrift'
    <3>1. req[r].stage \in Engaged
      BY <1>2 DEF Engaged
    <3>2. /\ stored # None /\ Undisturbed
          /\ \A q \in Requests \ {r} : req[q].stage \notin Engaged
      BY <1>2, <2>2, <3>1, Undisturbing DEF SInv, Kept
    <3>3. \A q \in Requests \ {r} : req[q].kind = "call" /\ req[q].stage \in {"idle", "sent"}
      <4>1. \A q \in Requests \ {r} : Calm(req[q]) /\ Fits(req[q]) /\ req[q] \in ReqRow
        BY <1>0, <3>2, SessionShapes DEF Undisturbed, SInv, Shape
      <4> QED
        BY <3>2, <4>1 DEF Calm, Fits, Engaged, Using, ReqRow, Stages
    <3>4. req'[r] = NoRequest /\ \A q \in Requests \ {r} : req'[q] = req[q]
      BY <1>0, SessionShapes DEF Rejected, Finish
    <3> QED
      BY <2>1, <3>3, <3>4, NoRequestShape DEF Adrift
  <2>3. Kept'
    BY <2>1, <2>2 DEF Kept
  <2> QED
    BY <1>0, <1>1, <2>1, <2>3, Finished, SessionShapes DEF Rejected
<1>3. CASE req[r].stage # "retrying"
  <2>1. ~disturbed => stored # None \/ turnedDown
    BY Undisturbing DEF Rejected
  <2>2. req[r].stage \notin Replacing /\ UNCHANGED <<stored, turnedDown>>
    BY <1>3 DEF Rejected, Replacing
  <2>3. Kept'
    BY <2>1, <2>2, KeptIdle, NoRequestShape DEF Rejected, Finish
  <2> QED
    BY <1>0, <1>1, <2>2, <2>3, Finished, SessionShapes DEF Rejected
<1> QED
  BY <1>2, <1>3

LEMMA LoseStep ==
  ASSUME SInv, NEW r \in Requests, Lose(r) PROVE SInv'
<1>0. SessionsTypeOK
  BY DEF SInv, Shape
<1>1. ~Cutter(req[r]) /\ RevokedAtMost
  BY RowsKept DEF Lose, Cutter
<1>2. Kept' /\ disturbed' \in BOOLEAN /\ turnedDown' \in BOOLEAN
  <2>1. disturbed' = TRUE /\ turnedDown' = turnedDown
    BY DEF Lose
  <2>2. turnedDown' \in BOOLEAN
    BY <1>0, <2>1, SessionShapes, Zenon
  <2> QED
    BY <2>1, <2>2 DEF Kept
<1>3. stored' \in {None, stored} /\ user' \in {"in", "out"}
  BY <1>0, SessionShapes DEF Lose
<1>4. faults' \in 0..MaxTroubles
  BY <1>0, SessionShapes DEF Lose
<1> QED
  BY <1>1, <1>2, <1>3, <1>4, Finished DEF Lose

LEMMA ClearTokensStep ==
  ASSUME SInv, NEW r \in Requests, ClearTokens(r) PROVE SInv'
<1>0. SessionsTypeOK
  BY DEF SInv, Shape
<1>1. ~Cutter(req[r]) /\ RevokedAtMost
  BY RowsKept DEF ClearTokens, Cutter
<1>2. disturbed
  <2> SUFFICES ASSUME ~disturbed PROVE FALSE
    OBVIOUS
  <2>1. req[r].stage \in {"refused", "retrying"} /\ req[r].stage # "idle"
    BY DEF ClearTokens
  <2>2. stored # None /\ Calm(req[r])
    BY <2>1, Undisturbing
  <2>3. req[r].stage = "retrying" /\ ~Admitted(req[r].with)
    BY <2>1, <2>2 DEF ClearTokens, Calm
  <2>4. req[r].stage \in Engaged /\ req[r].stage \notin Replacing
    BY <2>3 DEF Engaged, Replacing
  <2>5. Good(stored)
    BY <2>1, <2>4, Undisturbing
  <2> QED
    BY <2>2, <2>3, <2>5 DEF Calm, Good, Admitted
<1>3. Kept'
  BY <1>2 DEF Kept, ClearTokens
<1> QED
  BY <1>0, <1>1, <1>3, Finished, SessionShapes DEF ClearTokens

LEMMA DeniedStep ==
  ASSUME SInv, NEW r \in Requests, Denied(r) PROVE SInv'
<1>0. SessionsTypeOK /\ RowsFit /\ Fits(req[r]) /\ req[r] \in ReqRow
  BY SessionShapes DEF SInv, Shape
<1>1. ~Cutter(req[r]) /\ RevokedAtMost /\ req[r].stage = "sent"
  BY RowsKept DEF Denied, Cutter
<1>2. CASE stored # None
  <2>1. PICK d : d = [req[r] EXCEPT !.stage = "refreshing", !.with = None, !.using = stored]
    OBVIOUS
  <2>2. /\ d \in ReqRow /\ d.stage = "refreshing" /\ d.with = None /\ d.using = stored
        /\ d.got = req[r].got /\ d.kind = req[r].kind
    BY <1>0, <2>1, SessionShapes DEF ReqRow, Stages
  <2>3. req' = [req EXCEPT ![r] = d] /\ UNCHANGED <<stored, user, contested, token, session, root>>
    BY <1>2, <2>1 DEF Denied
  <2>4. /\ d.stage \notin Issuing /\ d.stage \in Using /\ d.stage \notin Bringing
        /\ req[r].stage \notin Bringing /\ req[r].stage \notin Replacing
    BY <1>1, <2>2 DEF Issuing, Using, Bringing, Replacing
  <2>5. d.got = None
    BY <1>0, <2>2, <2>4 DEF Fits
  <2>6. disturbed' \in BOOLEAN
    BY <1>0, <1>2, SessionShapes, Zenon DEF Denied
  <2>7. Takes(r, d)
    BY <1>0, <1>1, <2>2, <2>3, <2>5, <2>6, SessionShapes DEF Takes, Denied, Cutter
  <2>8. Fits(d)' /\ (stored' # None => session'[stored'] # "none")
    BY <1>0, <1>2, <2>2, <2>3, <2>4, <2>5 DEF Fits, RowsFit
  <2>9. disturbed' = (disturbed \/ \E q \in Requests \ {r} :
                        \/ req[q].using = stored
                        \/ (req[q].stage = "retrying" /\ req[q].with = stored))
    BY <1>2 DEF Denied
  <2>10. ASSUME ~disturbed'
         PROVE  /\ Calm(d)' /\ \A q \in Requests \ {r} : req[q].stage \notin Engaged
                /\ Good(stored)'
    <3>1. ~disturbed
      BY <2>9, <2>10
    <3>2. Undisturbed /\ Calm(req[r])
      BY <1>2, <3>1 DEF SInv, Kept, Undisturbed
    <3>3. ASSUME NEW q \in Requests \ {r} PROVE req[q].stage \notin Engaged
      <4>1. Calm(req[q]) /\ Fits(req[q])
        BY <3>2 DEF Undisturbed, SInv, Shape
      <4>2. req[q].using # stored /\ ~(req[q].stage = "retrying" /\ req[q].with = stored)
        BY <2>9, <2>10
      <4>3. req[q].using = None /\ req[q].stage # "retrying"
        BY <4>1, <4>2 DEF Calm
      <4> QED
        BY <4>1, <4>3 DEF Fits, Engaged
    <3>4. \A q \in Requests : req[q].stage \notin Replacing
      BY <2>4, <3>3 DEF Replacing, Engaged, Using, Issuing
    <3>5. Good(stored)'
      BY <2>3, <3>2, <3>4 DEF Undisturbed, Good, Denied
    <3>6. Calm(d)'
      BY <2>2, <2>3, <2>5, <3>2 DEF Calm
    <3> QED
      BY <3>3, <3>5, <3>6
  <2>11. Kept'
    BY <1>2, <2>3, <2>9, <2>10, KeptBusy
  <2> QED
    BY <2>3, <2>4, <2>7, <2>8, <2>11, Advanced
<1>3. CASE stored = None
  <2>1. ~disturbed => stored # None \/ turnedDown
    BY <1>1, Undisturbing
  <2>2. UNCHANGED <<contested, disturbed, stored>> /\ Finish(r)
    BY <1>3 DEF Denied, SignedOut
  <2>3. Kept'
    BY <1>1, <2>1, <2>2, KeptIdle, NoRequestShape DEF Denied, Finish, Replacing
  <2>4. user' \in {"in", "out"} /\ faults' \in 0..MaxTroubles
    BY <1>0, <1>3, SessionShapes DEF Denied, SignedOut
  <2>5. disturbed' \in BOOLEAN /\ turnedDown' \in BOOLEAN
    BY <1>0, <2>2, SessionShapes, Zenon DEF Denied
  <2> QED
    BY <1>1, <2>2, <2>3, <2>4, <2>5, Finished DEF Denied
<1> QED
  BY <1>2, <1>3

LEMMA RevokeTokenStep ==
  ASSUME SInv, NEW r \in Requests, RevokeToken(r) PROVE SInv'
<1>0. SessionsTypeOK /\ RowsFit /\ Fits(req[r]) /\ req[r] \in ReqRow
  BY SessionShapes DEF SInv, Shape
<1>1. ~Cutter(req[r]) /\ req[r].stage = "read"
  BY DEF RevokeToken, Cutter
<1>2. PICK d : d = [req[r] EXCEPT !.stage = "tokenRevoked"]
  OBVIOUS
<1>3. /\ d \in ReqRow /\ d.stage = "tokenRevoked" /\ d.with = req[r].with
      /\ d.using = req[r].using /\ d.got = req[r].got /\ d.kind = req[r].kind
      /\ d.caught = req[r].caught
  BY <1>0, <1>2, SessionShapes DEF ReqRow, Stages, Issuing
<1>4. /\ req' = [req EXCEPT ![r] = d] /\ token' = [token EXCEPT ![d.using] = "revoked"]
      /\ UNCHANGED <<stored, user, contested, session, root, disturbed>>
  BY <1>2, <1>3 DEF RevokeToken
<1>5. /\ d.stage \in Issuing /\ d.stage \in Using /\ d.stage \notin Bringing
      /\ req[r].stage \in Issuing /\ req[r].stage \in Using /\ req[r].stage \notin Bringing
      /\ req[r].stage \in Engaged /\ d.stage \in Replacing
  BY <1>1, <1>3 DEF Issuing, Using, Bringing, Replacing, Engaged
<1>6. d.got = None /\ d.using # None /\ d.using \in Pairs /\ token[d.using] # "none"
  BY <1>0, <1>3, <1>5, SessionShapes DEF Fits, ReqRow
<1>7. /\ token'[d.using] = "revoked" /\ RevokedAtMost
      /\ \A p \in Pairs : p # d.using => token'[p] = token[p]
  BY <1>0, <1>4, <1>6, SessionShapes DEF RevokedAtMost, RowStates
<1>8. Takes(r, d)
  BY <1>0, <1>1, <1>3, <1>4, <1>6, <1>7, SessionShapes DEF Takes, RevokeToken, Cutter
<1>9. Fits(d)' /\ (stored' # None => session'[stored'] # "none")
  BY <1>0, <1>3, <1>4, <1>5, <1>6, <1>7 DEF Fits, RowsFit
<1>10. \A p \in Pairs : Line(req[r], p) => Line(d, p)
  BY <1>1, <1>3 DEF Line
<1>11. Kept'
  <2>1. ASSUME ~disturbed
        PROVE  /\ stored # None /\ Calm(req[r])
               /\ \A q \in Requests \ {r} : req[q].stage \notin Engaged
    BY <1>1, <1>5, <2>1, Undisturbing
  <2>2. ASSUME ~disturbed PROVE Calm(d)'
    BY <1>3, <1>4, <1>6, <2>1, <2>2 DEF Calm
  <2> QED
    BY <1>4, <1>5, <2>1, <2>2, KeptBusy
<1> QED
  BY <1>3, <1>4, <1>5, <1>8, <1>9, <1>10, <1>11, Advanced

LEMMA RevokeSessionStep ==
  ASSUME SInv, NEW r \in Requests, RevokeSession(r) PROVE SInv'
<1>0. SessionsTypeOK /\ RowsFit /\ Fits(req[r]) /\ req[r] \in ReqRow
  BY SessionShapes DEF SInv, Shape
<1>1. ~Cutter(req[r]) /\ req[r].stage = "tokenRevoked"
  BY DEF RevokeSession, Cutter
<1>2. PICK d : d = [req[r] EXCEPT !.stage = "sessionRevoked"]
  OBVIOUS
<1>3. /\ d \in ReqRow /\ d.stage = "sessionRevoked" /\ d.with = req[r].with
      /\ d.using = req[r].using /\ d.got = req[r].got /\ d.kind = req[r].kind
      /\ d.caught = req[r].caught
  BY <1>0, <1>2, SessionShapes DEF ReqRow, Stages, Issuing
<1>4. /\ req' = [req EXCEPT ![r] = d] /\ session' = [session EXCEPT ![d.using] = "revoked"]
      /\ UNCHANGED <<stored, user, contested, token, root, disturbed>>
  BY <1>2, <1>3 DEF RevokeSession
<1>5. /\ d.stage \in Issuing /\ d.stage \in Using /\ d.stage \notin Bringing
      /\ req[r].stage \in Issuing /\ req[r].stage \in Using /\ req[r].stage \notin Bringing
      /\ req[r].stage \in Engaged /\ d.stage \in Replacing
  BY <1>1, <1>3 DEF Issuing, Using, Bringing, Replacing, Engaged
<1>6. /\ d.got = None /\ d.using # None /\ d.using \in Pairs /\ session[d.using] # "none"
      /\ token[d.using] # "live"
  BY <1>0, <1>1, <1>3, <1>5, SessionShapes DEF Fits, ReqRow
<1>7. /\ session'[d.using] = "revoked" /\ RevokedAtMost
      /\ \A p \in Pairs : p # d.using => session'[p] = session[p]
  BY <1>0, <1>4, <1>6, SessionShapes DEF RevokedAtMost, RowStates
<1>8. Takes(r, d)
  BY <1>0, <1>1, <1>3, <1>4, <1>6, <1>7, SessionShapes DEF Takes, RevokeSession, Cutter
<1>9. Fits(d)' /\ (stored' # None => session'[stored'] # "none")
  BY <1>0, <1>3, <1>4, <1>5, <1>6, <1>7, SessionShapes DEF Fits, RowsFit, ReqRow
<1>10. \A p \in Pairs : Alive(p)' => ~Line(req[r], p)
  BY <1>1, <1>3, <1>4, <1>6, <1>7 DEF Line, Alive
<1>11. Kept'
  <2>1. ASSUME ~disturbed
        PROVE  /\ stored # None /\ Calm(req[r])
               /\ \A q \in Requests \ {r} : req[q].stage \notin Engaged
    BY <1>1, <1>5, <2>1, Undisturbing
  <2>2. ASSUME ~disturbed PROVE Calm(d)'
    BY <1>3, <1>4, <1>6, <2>1, <2>2 DEF Calm
  <2> QED
    BY <1>4, <1>5, <2>1, <2>2, KeptBusy
<1> QED
  BY <1>3, <1>4, <1>5, <1>8, <1>9, <1>10, <1>11, Advanced

LEMMA RetryStep ==
  ASSUME SInv, NEW r \in Requests, Retry(r) PROVE SInv'
<1>0. SessionsTypeOK /\ RowsFit /\ Fits(req[r]) /\ req[r] \in ReqRow
  BY SessionShapes DEF SInv, Shape
<1>1. ~Cutter(req[r]) /\ req[r].stage = "made" /\ RevokedAtMost
  BY RowsKept DEF Retry, Cutter
<1>2. PICK d : d = [req[r] EXCEPT !.stage = "retrying", !.with = req[r].got, !.using = None,
                                  !.got = None]
  OBVIOUS
<1>3. /\ d \in ReqRow /\ d.stage = "retrying" /\ d.with = req[r].got
      /\ d.using = None /\ d.got = None /\ d.kind = req[r].kind
  BY <1>0, <1>2, SessionShapes DEF ReqRow, Stages, Issuing
<1>4. /\ req' = [req EXCEPT ![r] = d] /\ stored' = req[r].got
      /\ UNCHANGED <<user, contested, token, session, root, disturbed, expired, lapsed>>
  BY <1>2 DEF Retry
<1>5. /\ d.stage \notin Issuing /\ d.stage \notin Using /\ d.stage \notin Bringing
      /\ req[r].stage \in Bringing /\ req[r].stage \in Engaged
  BY <1>1, <1>3 DEF Issuing, Using, Bringing, Engaged
<1>6. PICK g : g = req[r].got
  OBVIOUS
<1>7. g # None /\ g \in Pairs /\ session[g] # "none" /\ g \notin expired
  BY <1>0, <1>1, <1>5, <1>6 DEF Fits, ReqRow, SInv, Shape, NewPairs, Unknown
<1>8. Takes(r, d)
  BY <1>0, <1>1, <1>3, <1>4, SessionShapes DEF Takes, Retry, Cutter
<1>9. Fits(d)' /\ (stored' # None => session'[stored'] # "none")
  BY <1>0, <1>3, <1>4, <1>5, <1>6, <1>7 DEF Fits
<1>10. Kept'
  <2>1. ASSUME ~disturbed
        PROVE  /\ stored # None /\ Calm(req[r])
               /\ \A q \in Requests \ {r} : req[q].stage \notin Engaged
    BY <1>1, <1>5, <2>1, Undisturbing
  <2>2. ASSUME ~disturbed PROVE Calm(d)' /\ Good(stored)'
    <3>1. Good(g) /\ session[g] = "live" /\ req[r].kind = "call"
      BY <1>1, <1>6, <1>7, <2>1, <2>2 DEF Calm
    <3> QED
      BY <1>3, <1>4, <1>6, <1>7, <3>1 DEF Calm, Good
  <2> QED
    BY <1>4, <1>6, <1>7, <2>1, <2>2, KeptBusy
<1> QED
  BY <1>4, <1>5, <1>8, <1>9, <1>10, Advanced

LEMMA LogoutSessionStep ==
  ASSUME SInv, NEW r \in Requests, LogoutSession(r) PROVE SInv'
<1>0. SessionsTypeOK /\ RowsFit /\ Fits(req[r]) /\ req[r] \in ReqRow
  BY SessionShapes DEF SInv, Shape
<1>1. /\ ~Cutter(req[r]) /\ req[r].stage \in {"sent", "retrying"} /\ req[r].kind = "logout"
      /\ req[r].with # None
  BY DEF LogoutSession, Cutter, Admitted
<1>2. PICK d : d = [req[r] EXCEPT !.stage = "half"]
  OBVIOUS
<1>3. /\ d \in ReqRow /\ d.stage = "half" /\ d.with = req[r].with /\ d.kind = "logout"
      /\ d.using = req[r].using /\ d.got = req[r].got
  BY <1>0, <1>1, <1>2, SessionShapes DEF ReqRow, Stages
<1>4. /\ req' = [req EXCEPT ![r] = d] /\ session' = [session EXCEPT ![d.with] = "revoked"]
      /\ UNCHANGED <<stored, user, contested, token, root, disturbed>>
  BY <1>2, <1>3 DEF LogoutSession
<1>5. /\ d.stage \notin Issuing /\ d.stage \notin Using /\ d.stage \notin Bringing
      /\ req[r].stage \notin Using /\ req[r].stage \notin Bringing
  BY <1>1, <1>3 DEF Issuing, Using, Bringing
<1>6. /\ d.got = None /\ d.using = None /\ d.with \in Pairs /\ session[d.with] # "none"
      /\ d.with # None
  BY <1>0, <1>1, <1>3, <1>5 DEF Fits, ReqRow
<1>7. RevokedAtMost /\ session'[d.with] = "revoked"
  BY <1>0, <1>4, <1>6, SessionShapes DEF RevokedAtMost, RowStates
<1>8. Takes(r, d)
  BY <1>0, <1>1, <1>3, <1>4, <1>6, <1>7, SessionShapes DEF Takes, LogoutSession, Cutter
<1>9. Fits(d)' /\ (stored' # None => session'[stored'] # "none")
  BY <1>0, <1>3, <1>4, <1>5, <1>6, <1>7, SessionShapes DEF Fits, RowsFit, RevokedAtMost
<1>10. Kept'
  BY <1>1, <1>4, Undisturbing DEF Calm, Kept
<1> QED
  BY <1>4, <1>5, <1>8, <1>9, <1>10, Advanced

LEMMA LogoutTokenStep ==
  ASSUME SInv, NEW r \in Requests, LogoutToken(r) PROVE SInv'
<1>0. SessionsTypeOK /\ Fits(req[r]) /\ req[r] \in ReqRow
  BY SessionShapes DEF SInv, Shape
<1>1. ~Cutter(req[r]) /\ req[r].stage = "half" /\ req[r].kind = "logout"
  BY DEF LogoutToken, Cutter
<1>2. req[r].with \in Pairs /\ token[req[r].with] # "none"
  BY <1>0, <1>1, SessionShapes DEF Fits, ReqRow
<1>3. RevokedAtMost
  BY <1>0, <1>2, SessionShapes DEF RevokedAtMost, RowStates, LogoutToken
<1>4. Kept'
  BY <1>1, Undisturbing DEF Calm, Kept, LogoutToken
<1>5. stored' = None /\ user' = "out" /\ Finish(r)
  BY DEF LogoutToken, SignedOut
<1>6. disturbed' \in BOOLEAN /\ turnedDown' \in BOOLEAN /\ faults' \in 0..MaxTroubles
  BY <1>0, SessionShapes, Zenon DEF LogoutToken
<1> QED
  BY <1>1, <1>3, <1>4, <1>5, <1>6, Finished DEF LogoutToken

(* A refresh that reads a live token is the only one of its sign-in, or    *)
(* contests it.                                                            *)
LEMMA ReadTokenStep ==
  ASSUME SInv, NEW r \in Requests, ReadToken(r) PROVE SInv'
<1>0. SessionsTypeOK /\ RowsFit /\ Fits(req[r]) /\ req[r] \in ReqRow
  BY SessionShapes DEF SInv, Shape
<1>1. ~Cutter(req[r]) /\ req[r].stage = "refreshing" /\ RevokedAtMost
  BY RowsKept DEF ReadToken, Cutter
<1>2. PICK u : u = req[r].using
  OBVIOUS
<1>3. u \in Pairs /\ u # None /\ session[u] # "none" /\ req[r].got = None
  BY <1>0, <1>1, <1>2, SessionShapes DEF Fits, ReqRow, Using, Bringing
<1>4. /\ UNCHANGED <<stored, user, token, session, root, disturbed>>
      /\ contested' \subseteq SignIns \cup {0} /\ contested \subseteq contested'
  BY <1>0, <1>3, <1>2, SessionShapes DEF ReadToken
<1>5. CASE token[u] = "live" /\ u \notin lapsed
  <2>1. PICK d : d = [req[r] EXCEPT !.stage = "read"]
    OBVIOUS
  <2>2. /\ d \in ReqRow /\ d.stage = "read" /\ d.with = req[r].with
        /\ d.using = u /\ d.got = None /\ d.kind = req[r].kind
    BY <1>0, <1>2, <1>3, <2>1, SessionShapes DEF ReqRow, Stages, Issuing
  <2>3. req' = [req EXCEPT ![r] = d]
    BY <1>2, <1>5, <2>1 DEF ReadToken
  <2>4. /\ d.stage \in Issuing /\ d.stage \in Using /\ d.stage \notin Bringing
        /\ req[r].stage \in Engaged /\ req[r].stage \notin Replacing /\ req[r].stage \notin Issuing
    BY <1>1, <2>2 DEF Issuing, Using, Bringing, Replacing, Engaged
  <2>5. Takes(r, d)
    BY <1>0, <1>1, <1>4, <2>2, <2>3, <1>3, <1>2, SessionShapes DEF Takes, ReadToken, Cutter
  <2>6. Fits(d)' /\ (stored' # None => session'[stored'] # "none")
    BY <1>0, <1>2, <1>3, <1>4, <2>2, <2>4 DEF Fits, RowsFit
  <2>7. Shape'
    BY <2>5, <2>6, TakenShape DEF SInv
  <2>8. Marked(d)
    BY <1>3, <1>5, <2>2 DEF SInv, CutOff, Marked
  <2>9. CutOff'
    BY <2>5, <2>8, TakenCut DEF SInv
  <2>10. Kept'
    <3>1. ASSUME ~disturbed
          PROVE  /\ stored # None /\ Calm(req[r]) /\ Good(stored)
                 /\ \A q \in Requests \ {r} : req[q].stage \notin Engaged
      BY <1>1, <2>4, <3>1, Undisturbing
    <3>2. ASSUME ~disturbed PROVE Calm(d)' /\ Good(stored)'
      BY <1>2, <1>3, <1>4, <2>2, <3>1, <3>2 DEF Calm, Good, ReadToken
    <3> QED
      BY <1>4, <2>3, <3>1, <3>2, KeptBusy
  <2>11. ASSUME NEW s \in SignIns, s \notin contested' PROVE OneAlive(s)'
    <3>1. /\ OneAlive(s) /\ s \notin contested
          /\ \A p : Alive(p)' <=> Alive(p)
          /\ req'[r] = d /\ \A q \in Requests \ {r} : req'[q] = req[q]
      BY <1>0, <1>4, <2>3, <2>11, SessionShapes DEF SInv, OneLine, Alive
    <3>2. \A p, q \in Pairs : root[p] = s /\ root[q] = s /\ Alive(p) /\ Alive(q) => p = q
      BY <3>1 DEF OneAlive
    <3>3. CASE root[u] # s
      <4>1. \A q \in Requests : req'[q].stage \in Issuing /\ root[req'[q].using] = s =>
              q # r /\ req[q].stage \in Issuing /\ root[req[q].using] = s /\ req'[q] = req[q]
        BY <2>2, <3>1, <3>3
      <4> QED
        BY <1>4, <3>1, <3>2, <4>1 DEF OneAlive, Line
    <3>4. CASE root[u] = s
      <4>1. ASSUME NEW q \in Requests \ {r}, req[q].stage \in Issuing, root[req[q].using] = s
            PROVE  FALSE
        <5>1. Line(req[q], u)
          BY <1>3, <1>5, <3>1, <3>4, <4>1 DEF OneAlive, Alive
        <5>2. Fits(req[q])
          BY DEF SInv, Shape
        <5>3. req[q].stage = "read" => req[q].using # u
          BY <1>1, <1>2, <2>11, <3>4 DEF ReadToken
        <5>4. req[q].stage = "tokenRevoked" => req[q].using # u
          BY <1>5, <5>2 DEF Fits
        <5>5. req[q].stage = "tokenMade" /\ u = req[q].got
          BY <5>1, <5>3, <5>4 DEF Line
        <5> QED
          BY <1>2, <1>3, <5>5 DEF SInv, Shape, NewPairs, Unknown
      <4>2. \A q \in Requests : req'[q].stage \in Issuing /\ root[req'[q].using] = s => q = r
        BY <3>1, <4>1
      <4>3. \A p \in Pairs : root[p] = s /\ Alive(p) => Line(d, p)
        BY <1>3, <1>5, <2>2, <3>2, <3>4 DEF Alive, Line
      <4> QED
        BY <1>4, <3>1, <3>2, <4>2, <4>3 DEF OneAlive, Line
    <3> QED
      BY <3>3, <3>4
  <2> QED
    BY <2>7, <2>9, <2>10, <2>11 DEF SInv, OneLine, OneAlive
<1>6. CASE ~(token[u] = "live" /\ u \notin lapsed)
  <2>1. PICK d : d = [req[r] EXCEPT !.stage = "refused"]
    OBVIOUS
  <2>2. /\ d \in ReqRow /\ d.stage = "refused" /\ d.with = req[r].with
        /\ d.using = u /\ d.got = None /\ d.kind = req[r].kind
    BY <1>0, <1>2, <1>3, <2>1, SessionShapes DEF ReqRow, Stages
  <2>3. req' = [req EXCEPT ![r] = d]
    BY <1>2, <1>6, <2>1 DEF ReadToken
  <2>4. /\ d.stage \notin Issuing /\ d.stage \in Using /\ d.stage \notin Bringing
        /\ req[r].stage \in Engaged /\ req[r].stage \notin Replacing
    BY <1>1, <2>2 DEF Issuing, Using, Bringing, Replacing, Engaged
  <2>5. Takes(r, d)
    BY <1>0, <1>1, <1>4, <2>2, <2>3, <1>3, <1>2, SessionShapes DEF Takes, ReadToken, Cutter
  <2>6. Fits(d)' /\ (stored' # None => session'[stored'] # "none")
    BY <1>0, <1>2, <1>3, <1>4, <2>2, <2>4 DEF Fits, RowsFit
  <2>7. disturbed
    BY <1>1, <1>2, <1>3, <1>6, <2>4, Undisturbing DEF Calm, Good
  <2>8. Shape' /\ CutOff'
    BY <2>4, <2>5, <2>6, TakenShape, TakenCut DEF SInv
  <2>9. OneLine'
    BY <1>4, <2>4, <2>5, TakenLine DEF SInv
  <2> QED
    BY <1>4, <2>7, <2>8, <2>9 DEF SInv, Kept
<1> QED
  BY <1>5, <1>6

(* The pair that is taken next.                                            *)
LEMMA NewPair ==
  ASSUME SInv, Unused # {}, NEW p, p = Next1(Unused)
  PROVE  /\ p \in Pairs /\ token[p] = "none" /\ session[p] = "none" /\ root[p] = 0
         /\ Unknown(p) /\ p # None /\ login.got # p /\ \A r \in Requests : req[r].got # p
<1>1. SessionsTypeOK
  BY DEF SInv, Shape
<1>2. p \in Unused
  <2>1. Unused \subseteq Nat
    BY DEF Unused, Pairs
  <2>2. \E n \in Unused : \A m \in Unused : n <= m
    BY <2>1, LeastNatural
  <2> QED
    BY <2>2 DEF Next1
<1>3. p \in Pairs /\ token[p] = "none" /\ session[p] = "none" /\ root[p] = 0 /\ p # None
  BY <1>1, <1>2, SessionShapes DEF Unused
<1>4. p # stored /\ p \notin expired \cup lapsed /\ login.got # p
  BY <1>3 DEF SInv, Shape, RowsFit, LoginFits
<1>5. ASSUME NEW r \in Requests
      PROVE  req[r].with # p /\ req[r].using # p /\ req[r].got # p
  BY <1>3 DEF SInv, Shape, Fits
<1> QED
  BY <1>3, <1>4, <1>5 DEF Unknown

(* The refresh makes a token: the one pair that is alive of its sign-in.   *)
LEMMA ReissueTokenStep ==
  ASSUME SInv, NEW r \in Requests, ReissueToken(r) PROVE SInv'
<1>0. SessionsTypeOK /\ RowsFit /\ Fits(req[r]) /\ req[r] \in ReqRow /\ LoginFits /\ NewPairs
  BY SessionShapes DEF SInv, Shape
<1>1. ~Cutter(req[r]) /\ req[r].stage = "sessionRevoked"
  BY DEF ReissueToken, Cutter
<1>2. PICK u : u = req[r].using
  OBVIOUS
<1>3. PICK p : p = Next1(Unused)
  OBVIOUS
<1>4. /\ p \in Pairs /\ token[p] = "none" /\ session[p] = "none" /\ root[p] = 0
      /\ Unknown(p) /\ p # None /\ login.got # p /\ \A q \in Requests : req[q].got # p
  BY <1>3, NewPair DEF ReissueToken
<1>5. u \in Pairs /\ u # None /\ session[u] # "none" /\ token[u] # "none" /\ u # p
  BY <1>0, <1>1, <1>2, <1>4, SessionShapes DEF Fits, ReqRow, Using, Issuing
<1>6. PICK d : d = [req[r] EXCEPT !.stage = "tokenMade", !.got = p]
  OBVIOUS
<1>7. /\ d \in ReqRow /\ d.stage = "tokenMade" /\ d.with = req[r].with
      /\ d.using = u /\ d.got = p /\ d.kind = req[r].kind /\ d.caught = req[r].caught
  BY <1>0, <1>2, <1>4, <1>6 DEF ReqRow, Stages, Issuing
<1>8. /\ req' = [req EXCEPT ![r] = d] /\ token' = [token EXCEPT ![p] = "live"]
      /\ root' = [root EXCEPT ![p] = root[u]]
      /\ UNCHANGED <<session, expired, lapsed, stored, user, login, signIns, cuts, cutting,
                     since, caught, contested, disturbed, turnedDown, faults>>
  BY <1>2, <1>3, <1>6 DEF ReissueToken
<1>9. /\ req' \in [Requests -> ReqRow] /\ req'[r] = d
      /\ \A q \in Requests \ {r} : req'[q] = req[q]
  BY <1>0, <1>7, <1>8, SessionShapes
<1>10. /\ token'[p] = "live" /\ root'[p] = root[u] /\ root[u] \in SignIns
       /\ \A q \in Pairs : q # p => token'[q] = token[q] /\ root'[q] = root[q]
       /\ token' \in [Pairs -> RowStates] /\ root' \in [Pairs -> SignIns \cup {0}]
  BY <1>0, <1>4, <1>5, <1>8, SessionShapes DEF RowStates, SignIns
<1>11. /\ d.stage \in Issuing /\ d.stage \in Using /\ d.stage \in Bringing
       /\ req[r].stage \in Issuing /\ req[r].stage \in Engaged /\ d.stage \in Replacing
  BY <1>1, <1>7 DEF Issuing, Using, Bringing, Replacing, Engaged
<1>12. SessionsTypeOK'
  <2>1. \A q \in Pairs : /\ session'[q] # "none" => token'[q] # "none"
                         /\ root'[q] = 0 <=> token'[q] = "none"
    BY <1>0, <1>4, <1>8, <1>10, SessionShapes DEF SignIns
  <2>2. stored' # None => token'[stored'] # "none"
    BY <1>0, <1>8, <2>1, SessionShapes DEF RowsFit
  <2> QED
    BY <1>0, <1>8, <1>9, <1>10, <2>1, <2>2 DEF SessionsTypeOK, ReqRow, RowStates
<1>13. ASSUME NEW q \in Requests PROVE Fits(req[q])'
  <2>1. CASE q = r
    BY <1>0, <1>4, <1>5, <1>7, <1>8, <1>9, <1>10, <1>11, <2>1, SessionShapes
       DEF Fits, ReqRow
  <2>2. CASE q # r
    <3>1. PICK e : e = req[q]
      OBVIOUS
    <3>2. e \in ReqRow /\ Fits(e) /\ req'[q] = e /\ e.got # p /\ e.using # p /\ e.with # p
      BY <1>0, <1>4, <1>9, <2>2, <3>1, SessionShapes DEF SInv, Shape, Unknown
    <3>3. /\ e.using \in Pairs \cup {None} /\ e.with \in Pairs \cup {None}
          /\ e.got \in Pairs \cup {None}
      BY <3>2 DEF ReqRow
    <3>4. /\ e.stage \in Bringing => e.stage \in Using
          /\ e.stage \in {"tokenMade", "made"} => e.stage \in Bringing
          /\ e.stage \in {"tokenRevoked", "sessionRevoked"} => e.stage \in Using
      BY DEF Bringing, Using, Issuing
    <3> QED
      BY <1>8, <1>10, <3>2, <3>3, <3>4 DEF Fits
  <2> QED
    BY <2>1, <2>2
<1>14. login.got \in Pairs \cup {None} /\ login.got # u
  BY <1>0, <1>2, <1>5, SessionShapes DEF LoginRow, NewPairs, Unknown
<1>15. LoginFits'
  <2>1. /\ login.stage = "tokenMade" => login.stage \in Bringing
        /\ login.stage = "made" => login.stage \in Bringing
    BY DEF Bringing
  <2> QED
    BY <1>0, <1>4, <1>5, <1>8, <1>10, <1>14, <2>1 DEF LoginFits
<1>16. RowsFit'
  <2>1. \A q \in Requests : Cutter(req'[q]) <=> Cutter(req[q])
    BY <1>1, <1>7, <1>9 DEF Cutter
  <2>2. \A q \in Pairs : root'[q] <= signIns /\ (q \in expired \cup lapsed => token'[q] # "none")
    BY <1>0, <1>5, <1>10 DEF RowsFit
  <2> QED
    BY <1>0, <1>8, <2>1, <2>2 DEF RowsFit
<1>17. NewPairs'
  <2>1. \A g : Unknown(g) => Unknown(g)'
    BY <1>2, <1>7, <1>8, <1>9 DEF Unknown
  <2>2. login'.got # None => Unknown(login.got)' /\ \A q \in Requests : req'[q].got # login.got
    BY <1>0, <1>4, <1>7, <1>8, <1>9, <2>1 DEF NewPairs
  <2>3. ASSUME NEW q \in Requests, req'[q].got # None, NEW g, g = req'[q].got
        PROVE  Unknown(g)' /\ \A e \in Requests : req'[e].got = g => e = q
    BY <1>0, <1>4, <1>7, <1>9, <2>1, <2>3 DEF NewPairs
  <2>4. ASSUME NEW q \in Requests, req'[q].got # None
        PROVE  Unknown(req[q].got)' /\ \A e \in Requests : req'[e].got = req'[q].got => e = q
    <3>1. PICK g : g = req'[q].got
      OBVIOUS
    <3>2. Unknown(g)' /\ \A e \in Requests : req'[e].got = g => e = q
      BY <2>3, <2>4, <3>1
    <3> QED
      BY <3>1, <3>2 DEF Unknown
  <2> QED
    BY <1>8, <2>2, <2>4 DEF NewPairs, Unknown
<1>18. Shape'
  BY <1>12, <1>13, <1>15, <1>16, <1>17 DEF Shape
<1>19. \A q \in Requests : req[q].using # p /\ (req[q].stage \in Issuing => req[q].using \in Pairs)
  <2>1. \A q \in Requests : req[q] \in ReqRow /\ Fits(req[q])
    BY <1>0, SessionShapes DEF SInv, Shape
  <2> QED
    BY <1>4, <2>1 DEF Unknown, Fits, ReqRow, Using
<1>20. ASSUME NEW s \in SignIns, s \notin contested PROVE OneAlive(s)'
  <2>1. OneAlive(s) /\ \A q \in Pairs : q # p => (Alive(q)' <=> Alive(q)) /\ root'[q] = root[q]
    BY <1>8, <1>10 DEF SInv, OneLine, Alive
  <2>2. \A q \in Requests : req'[q].stage \in Issuing /\ root'[req'[q].using] = s =>
          /\ req[q].stage \in Issuing /\ root[req[q].using] = s /\ req'[q].using \in Pairs
          /\ q # r => req'[q] = req[q]
    BY <1>2, <1>5, <1>7, <1>9, <1>10, <1>11, <1>19
  <2>3. CASE root[u] # s
    <3>1. \A q \in Pairs : root'[q] = s => q # p
      BY <1>10, <2>3
    <3>2. \A q \in Requests : req'[q].stage \in Issuing /\ root'[req'[q].using] = s => q # r
      BY <1>5, <1>7, <1>9, <1>10, <2>3
    <3> QED
      BY <1>8, <2>1, <2>2, <3>1, <3>2 DEF OneAlive, Line
  <2>4. CASE root[u] = s
    <3>1. \A q \in Pairs : root[q] = s => ~Alive(q)
      BY <1>1, <1>2, <1>11, <1>20, <2>1, <2>4 DEF OneAlive, Line
    <3>2. \A q \in Pairs : root'[q] = s /\ Alive(q)' => q = p
      BY <2>1, <3>1
    <3>3. \A q \in Requests : req'[q].stage \in Issuing /\ root'[req'[q].using] = s => q = r
      BY <1>2, <1>11, <1>20, <2>1, <2>2, <2>4 DEF OneAlive
    <3> QED
      BY <1>7, <1>9, <3>2, <3>3 DEF OneAlive, Line
  <2> QED
    BY <2>3, <2>4
<1>21. OneLine'
  BY <1>8, <1>20 DEF OneLine, OneAlive
<1>22. CutOff'
  <2>1. \A q \in Pairs : session[q] # "none" => q # p
    BY <1>4
  <2>2. ASSUME NEW q \in Requests, req'[q].stage \in Issuing PROVE Marked(req[q])'
    <3>1. /\ req[q].stage \in Issuing /\ req'[q].using = req[q].using
          /\ req'[q].caught = req[q].caught
      BY <1>2, <1>7, <1>9, <1>11, <2>2
    <3>2. Marked(req[q]) /\ root'[req[q].using] = root[req[q].using]
      BY <1>10, <1>19, <3>1 DEF SInv, CutOff
    <3> QED
      BY <1>8, <3>1, <3>2 DEF Marked
  <2> QED
    BY <1>8, <1>10, <2>1, <2>2 DEF SInv, CutOff
<1>23. Kept'
  <2>1. ASSUME ~disturbed
        PROVE  /\ stored # None /\ Calm(req[r])
               /\ \A q \in Requests \ {r} : req[q].stage \notin Engaged
    BY <1>1, <1>11, <2>1, Undisturbing
  <2>2. ASSUME ~disturbed PROVE Calm(d)'
    <3>1. p \notin lapsed /\ u = stored /\ d.kind = "call"
      BY <1>2, <1>4, <1>5, <1>7, <2>1, <2>2 DEF Calm, Unknown
    <3> QED
      BY <1>7, <1>8, <1>10, <3>1 DEF Calm, Good
  <2> QED
    BY <1>8, <1>11, <2>1, <2>2, KeptBusy
<1> QED
  BY <1>18, <1>21, <1>22, <1>23 DEF SInv

LEMMA ReissueSessionStep ==
  ASSUME SInv, NEW r \in Requests, ReissueSession(r) PROVE SInv'
<1>0. SessionsTypeOK /\ RowsFit /\ Fits(req[r]) /\ req[r] \in ReqRow /\ LoginFits /\ NewPairs
  BY SessionShapes DEF SInv, Shape
<1>1. ~Cutter(req[r]) /\ req[r].stage = "tokenMade"
  BY DEF ReissueSession, Cutter
<1>2. PICK u : u = req[r].using
  OBVIOUS
<1>3. PICK p : p = req[r].got
  OBVIOUS
<1>4. /\ p \in Pairs /\ token[p] # "none" /\ session[p] = "none" /\ root[p] = root[u]
      /\ Unknown(p) /\ p # None /\ login.got # p /\ \A q \in Requests \ {r} : req[q].got # p
  BY <1>0, <1>1, <1>2, <1>3 DEF Fits, ReqRow, Bringing, NewPairs
<1>5. u \in Pairs /\ u # None /\ u # p
  BY <1>0, <1>1, <1>2, <1>4, SessionShapes DEF Fits, ReqRow, Using, Issuing
<1>6. PICK d : d = [req[r] EXCEPT !.stage = "made", !.caught = FALSE]
  OBVIOUS
<1>7. /\ d \in ReqRow /\ d.stage = "made" /\ d.with = req[r].with
      /\ d.using = u /\ d.got = p /\ d.kind = req[r].kind
  BY <1>0, <1>2, <1>3, <1>6 DEF ReqRow, Stages
<1>8. /\ req' = [req EXCEPT ![r] = d] /\ session' = [session EXCEPT ![p] = "live"]
      /\ caught' = IF req[r].caught \/ cutting \/ u \in caught THEN caught \cup {p} ELSE caught
      /\ UNCHANGED <<token, expired, lapsed, root, stored, user, login, signIns, cuts, cutting,
                     since, contested, disturbed, turnedDown, faults>>
  BY <1>2, <1>3, <1>6 DEF ReissueSession
<1>9. /\ req' \in [Requests -> ReqRow] /\ req'[r] = d
      /\ \A q \in Requests \ {r} : req'[q] = req[q]
  BY <1>0, <1>7, <1>8, SessionShapes
<1>10. /\ session'[p] = "live" /\ \A q \in Pairs : q # p => session'[q] = session[q]
       /\ session' \in [Pairs -> RowStates]
       /\ caught \subseteq caught' /\ caught' \subseteq Pairs
  BY <1>0, <1>4, <1>8, SessionShapes DEF RowStates
<1>11. /\ d.stage \notin Issuing /\ d.stage \in Using /\ d.stage \in Bringing
       /\ req[r].stage \in Issuing /\ req[r].stage \in Engaged /\ d.stage \in Replacing
  BY <1>1, <1>7 DEF Issuing, Using, Bringing, Replacing, Engaged
<1>12. SessionsTypeOK'
  BY <1>0, <1>4, <1>8, <1>9, <1>10 DEF SessionsTypeOK, ReqRow, RowStates
<1>13. ASSUME NEW q \in Requests PROVE Fits(req[q])'
  <2>1. CASE q = r
    <3>1. d.with # None => session'[d.with] # "none"
      BY <1>0, <1>7, <1>8, <1>10 DEF Fits, ReqRow
    <3>2. session'[u] # "none"
      BY <1>0, <1>2, <1>5, <1>10 DEF Fits
    <3> QED
      BY <1>4, <1>5, <1>7, <1>8, <1>9, <1>10, <1>11, <2>1, <3>1, <3>2 DEF Fits
  <2>2. CASE q # r
    <3>1. PICK e : e = req[q]
      OBVIOUS
    <3>2. e \in ReqRow /\ Fits(e) /\ req'[q] = e /\ e.got # p /\ e.using # p /\ e.with # p
      BY <1>0, <1>4, <1>9, <2>2, <3>1, SessionShapes DEF SInv, Shape, Unknown
    <3>3. /\ e.using \in Pairs \cup {None} /\ e.with \in Pairs \cup {None}
          /\ e.got \in Pairs \cup {None}
      BY <3>2 DEF ReqRow
    <3>4. /\ e.stage \in Bringing => e.stage \in Using
          /\ e.stage \in {"tokenMade", "made"} => e.stage \in Bringing
          /\ e.stage \in {"tokenRevoked", "sessionRevoked"} => e.stage \in Using
      BY DEF Bringing, Using, Issuing
    <3> QED
      BY <1>8, <1>10, <3>2, <3>3, <3>4 DEF Fits
  <2> QED
    BY <2>1, <2>2
<1>14. LoginFits'
  <2>1. login.got \in Pairs \cup {None}
    BY <1>0, SessionShapes DEF LoginRow
  <2>2. /\ login.stage = "tokenMade" => login.stage \in Bringing
        /\ login.stage = "made" => login.stage \in Bringing
    BY DEF Bringing
  <2> QED
    BY <1>0, <1>4, <1>8, <1>10, <2>1, <2>2 DEF LoginFits
<1>15. RowsFit'
  <2>1. \A q \in Requests : Cutter(req'[q]) <=> Cutter(req[q])
    BY <1>1, <1>7, <1>9 DEF Cutter
  <2>2. stored # None => session'[stored] # "none"
    BY <1>0, <1>10, SessionShapes DEF RowsFit
  <2> QED
    BY <1>0, <1>8, <2>1, <2>2 DEF RowsFit
<1>16. NewPairs'
  <2>1. \A g : Unknown(g) => Unknown(g)'
    BY <1>2, <1>7, <1>8, <1>9 DEF Unknown
  <2>2. \A q \in Requests : req'[q].got = req[q].got
    BY <1>3, <1>7, <1>9
  <2>3. ASSUME NEW q \in Requests, req'[q].got # None
        PROVE  Unknown(req[q].got)' /\ \A e \in Requests : req'[e].got = req'[q].got => e = q
    <3>1. PICK g : g = req[q].got
      OBVIOUS
    <3>2. Unknown(g)' /\ \A e \in Requests : req'[e].got = g => e = q
      BY <1>0, <2>1, <2>2, <2>3, <3>1 DEF NewPairs
    <3> QED
      BY <2>2, <3>1, <3>2 DEF Unknown
  <2> QED
    BY <1>0, <1>8, <2>1, <2>2, <2>3 DEF NewPairs, Unknown
<1>17. Shape'
  BY <1>12, <1>13, <1>14, <1>15, <1>16 DEF Shape
<1>18. ASSUME NEW s \in SignIns, s \notin contested PROVE OneAlive(s)'
  <2>1. OneAlive(s) /\ \A q \in Pairs : q # p => (Alive(q)' <=> Alive(q))
    BY <1>8, <1>10 DEF SInv, OneLine, Alive
  <2>2. \A q \in Requests : req'[q].stage \in Issuing =>
          q # r /\ req[q].stage \in Issuing /\ req'[q] = req[q]
    BY <1>7, <1>9, <1>11
  <2>3. CASE root[p] # s
    BY <1>8, <2>1, <2>2, <2>3, <1>18 DEF OneAlive, Line
  <2>4. CASE root[p] = s
    <3>1. \A q \in Pairs : root[q] = s /\ Alive(q) => q = p
      BY <1>1, <1>2, <1>3, <1>4, <1>11, <1>18, <2>1, <2>4 DEF OneAlive, Line
    <3>2. \A q \in Requests : req[q].stage \in Issuing /\ root[req[q].using] = s => q = r
      BY <1>2, <1>4, <1>11, <1>18, <2>1, <2>4 DEF OneAlive
    <3> QED
      BY <1>8, <2>1, <2>2, <3>1, <3>2 DEF OneAlive
  <2> QED
    BY <2>3, <2>4
<1>19. OneLine'
  BY <1>8, <1>18 DEF OneLine, OneAlive
<1>20. CutOff'
  <2>1. Marked(req[r])
    BY <1>11 DEF SInv, CutOff
  <2>2. p \in caught' \/ (~cutting /\ since[root[p]] = cuts)
    BY <1>2, <1>4, <1>8, <2>1 DEF Marked
  <2>3. ASSUME NEW q \in Requests, req'[q].stage \in Issuing PROVE Marked(req[q])'
    <3>1. req[q].stage \in Issuing /\ req'[q] = req[q]
      BY <1>7, <1>9, <1>11, <2>3
    <3>2. Marked(req[q])
      BY <3>1 DEF SInv, CutOff
    <3> QED
      BY <1>8, <1>10, <3>1, <3>2 DEF Marked
  <2>4. \A q \in Pairs : session'[q] = "live" =>
                            q \in caught' \/ (~cutting' /\ since'[root'[q]] = cuts')
    BY <1>8, <1>10, <2>2 DEF SInv, CutOff
  <2>5. \A q \in Pairs :
          token'[q] = "live" /\ session'[q] # "none" => q \in caught' \/ since'[root'[q]] = cuts'
    BY <1>8, <1>10, <2>2 DEF SInv, CutOff
  <2>6. login'.stage \in {"issuing", "tokenMade"} => login'.caught \/ since'[signIns'] = cuts'
    BY <1>8 DEF SInv, CutOff
  <2> QED
    BY <2>3, <2>4, <2>5, <2>6 DEF CutOff
<1>21. Kept'
  <2>1. ASSUME ~disturbed
        PROVE  /\ stored # None /\ Calm(req[r])
               /\ \A q \in Requests \ {r} : req[q].stage \notin Engaged
    BY <1>1, <1>11, <2>1, Undisturbing
  <2>2. ASSUME ~disturbed PROVE Calm(d)'
    <3>1. Good(p) /\ u = stored /\ d.kind = "call"
      BY <1>2, <1>3, <1>4, <1>5, <1>7, <2>1, <2>2 DEF Calm
    <3> QED
      BY <1>7, <1>8, <1>10, <3>1 DEF Calm, Good
  <2> QED
    BY <1>8, <1>11, <2>1, <2>2, KeptBusy
<1> QED
  BY <1>17, <1>19, <1>20, <1>21 DEF SInv

-----------------------------------------------------------------------------
(* The actions of a sign-in, of time and of a cut, one by one.             *)

LEMMA KeptSame ==
  ASSUME SInv, UNCHANGED <<stored, user, req, disturbed, turnedDown, expired, lapsed>>,
         \A p \in Pairs : /\ token[p] = "live" => token'[p] = "live"
                          /\ session[p] = "live" => session'[p] = "live"
  PROVE  Kept'
<1>1. SessionsTypeOK
  BY DEF SInv, Shape
<1>2. CASE disturbed \/ (stored = None /\ (Untouched \/ Adrift))
  BY <1>2 DEF Kept, Untouched, Adrift
<1>3. CASE stored # None /\ Undisturbed
  <2>1. Good(stored) => Good(stored)'
    BY <1>1, <1>3, SessionShapes DEF Good
  <2>2. ASSUME NEW r \in Requests PROVE Calm(req[r])'
    <3>1. PICK d : d = req[r]
      OBVIOUS
    <3>2. Calm(d) /\ d.got \in Pairs \cup {None} /\ req'[r] = d
      BY <1>1, <1>3, <3>1, SessionShapes DEF Undisturbed, ReqRow
    <3>3. /\ stored \in Pairs
          /\ session[stored] = "live" => session'[stored] = "live"
          /\ d.got # None /\ Good(d.got) => Good(d.got)'
          /\ d.got # None /\ session[d.got] = "live" => session'[d.got] = "live"
      BY <1>1, <1>3, <3>2, SessionShapes DEF Good
    <3>4. d.stage = "made" /\ Calm(d) => session'[d.got] = "live"
      <4>1. d.stage = "made" => d.got # None
        BY <3>1, <1>1 DEF SInv, Shape, Fits, Bringing
      <4> QED
        BY <3>3, <4>1 DEF Calm
    <3>5. Calm(d)'
      BY <3>2, <3>3, <3>4 DEF Calm
    <3> QED
      BY <3>2, <3>5 DEF Calm
  <2> QED
    BY <1>3, <2>1, <2>2 DEF Undisturbed, Kept
<1> QED
  BY <1>2, <1>3 DEF SInv, Kept

(* Nothing but the sign-in goes on.                                        *)
LEMMA LoginGoesOn ==
  ASSUME SInv, login' \in LoginRow, signIns' \in SignIns \cup {0}, signIns <= signIns',
         since' \in [SignIns -> 0..MaxTroubles],
         UNCHANGED <<token, session, expired, lapsed, root, stored, user, req, cuts, cutting,
                     caught, contested, disturbed, turnedDown, faults>>,
         login'.got = None, LoginFits',
         \A p \in Pairs : token[p] # "none" => since'[root[p]] = since[root[p]],
         login'.stage \in {"issuing", "tokenMade"} => since'[signIns'] = cuts
  PROVE  SInv'
<1>1. SessionsTypeOK /\ RowsFit /\ NewPairs
  BY DEF SInv, Shape
<1>2. \A p \in Pairs : root'[p] <= signIns'
  <2>1. \A p \in Pairs : root[p] \in Nat /\ root[p] <= signIns
    BY <1>1, SessionShapes DEF RowsFit, SignIns
  <2>2. signIns \in Nat /\ signIns' \in Nat
    BY <1>1, SessionShapes DEF SignIns
  <2> QED
    BY <2>1, <2>2
<1>3. SessionsTypeOK'
  BY <1>1 DEF SessionsTypeOK, LoginRow
<1>4. \A r \in Requests : Fits(req[r])'
  BY DEF SInv, Shape, Fits
<1>5. RowsFit'
  BY <1>1, <1>2 DEF RowsFit, Cutter
<1>6. NewPairs'
  BY <1>1 DEF NewPairs, Unknown
<1>7. OneLine'
  BY DEF SInv, OneLine, OneAlive, Alive, Line
<1>8. CutOff'
  <2>1. \A p \in Pairs : session[p] # "none" => token[p] # "none"
    BY <1>1, SessionShapes
  <2>2. ASSUME NEW r \in Requests, req[r].stage \in Issuing PROVE Marked(req[r])'
    <3>1. Fits(req[r]) /\ req[r] \in ReqRow /\ Marked(req[r])
      BY <1>1, <2>2, SessionShapes DEF SInv, Shape, CutOff
    <3>2. req[r].using \in Pairs /\ session[req[r].using] # "none"
      BY <1>1, <2>2, <3>1, SessionShapes DEF Fits, ReqRow, Using
    <3> QED
      BY <2>1, <3>1, <3>2 DEF Marked
  <2> QED
    BY <2>1, <2>2 DEF SInv, CutOff
<1>9. Kept'
  BY KeptSame
<1> QED
  BY <1>3, <1>4, <1>5, <1>6, <1>7, <1>8, <1>9 DEF SInv, Shape

LEMMA LoginStep ==
  ASSUME SInv, Login PROVE SInv'
<1>0. SessionsTypeOK /\ RowsFit
  BY DEF SInv, Shape
<1>1. PICK stage \in {"issuing", "awaiting2fa"} :
        login' = [stage |-> stage, got |-> None, caught |-> FALSE]
  BY DEF Login
<1>2. login' \in LoginRow /\ login'.stage = stage /\ login'.got = None
  BY <1>1 DEF LoginRow
<1>3. /\ signIns' = signIns + 1 /\ signIns \in Nat /\ signIns' \in SignIns
      /\ since' = [since EXCEPT ![signIns'] = cuts] /\ cuts \in 0..MaxTroubles
      /\ since \in [SignIns -> 0..MaxTroubles]
  BY <1>0, SessionShapes DEF Login, SignIns
<1>4. /\ since' \in [SignIns -> 0..MaxTroubles] /\ since'[signIns'] = cuts
      /\ \A s \in SignIns : s # signIns' => since'[s] = since[s]
  BY <1>3
<1>5. \A p \in Pairs : /\ root[p] # signIns'
                       /\ token[p] # "none" => root[p] \in SignIns
  <2>1. \A p \in Pairs : root[p] \in Nat /\ root[p] <= signIns
    BY <1>0, SessionShapes DEF RowsFit, SignIns
  <2>2. \A p \in Pairs : token[p] # "none" => root[p] \in SignIns
    BY <1>0, SessionShapes DEF SignIns
  <2> QED
    BY <1>3, <2>1, <2>2
<1>6. LoginFits'
  <2>1. stage \notin Bringing
    BY DEF Bringing
  <2> QED
    BY <1>2, <1>3, <1>5, <2>1 DEF LoginFits, Login, SignIns
<1>7. signIns <= signIns' /\ \A p \in Pairs : token[p] # "none" => since'[root[p]] = since[root[p]]
  BY <1>3, <1>4, <1>5
<1> QED
  BY <1>2, <1>3, <1>4, <1>6, <1>7, LoginGoesOn DEF Login

LEMMA LoginWithTwoFactorStep ==
  ASSUME SInv, LoginWithTwoFactor PROVE SInv'
<1>0. SessionsTypeOK /\ LoginFits
  BY DEF SInv, Shape
<1>1. login \in LoginRow /\ login.stage = "awaiting2fa" /\ login.got = None
  BY <1>0, SessionShapes DEF LoginWithTwoFactor, LoginFits, Bringing
<1>2. login' \in LoginRow /\ login'.stage = "issuing" /\ login'.got = None
  BY <1>1 DEF LoginRow, LoginWithTwoFactor
<1>3. /\ signIns' = signIns /\ signIns \in SignIns /\ signIns \in Nat
      /\ since' = [since EXCEPT ![signIns] = cuts] /\ cuts \in 0..MaxTroubles
      /\ since \in [SignIns -> 0..MaxTroubles]
  BY <1>0, <1>1, SessionShapes DEF LoginWithTwoFactor, LoginFits, SignIns
<1>4. /\ since' \in [SignIns -> 0..MaxTroubles] /\ since'[signIns'] = cuts
      /\ \A s \in SignIns : s # signIns => since'[s] = since[s]
  BY <1>3
<1>5. \A p \in Pairs : root[p] # signIns /\ (token[p] # "none" => root[p] \in SignIns)
  BY <1>0, <1>1, SessionShapes DEF LoginFits, SignIns
<1>6. LoginFits'
  <2>1. "issuing" \notin Bringing
    BY DEF Bringing
  <2> QED
    BY <1>0, <1>1, <1>2, <1>3, <1>5, <2>1 DEF LoginFits, LoginWithTwoFactor
<1>7. signIns <= signIns' /\ \A p \in Pairs : token[p] # "none" => since'[root[p]] = since[root[p]]
  BY <1>3, <1>4, <1>5
<1> QED
  BY <1>2, <1>3, <1>4, <1>6, <1>7, LoginGoesOn DEF LoginWithTwoFactor

LEMMA LeaveLoginStep ==
  ASSUME SInv, LeaveLogin PROVE SInv'
<1>0. SessionsTypeOK
  BY DEF SInv, Shape
<1>1. login' \in LoginRow /\ login'.stage = "idle" /\ login'.got = None
  BY DEF LoginRow, LeaveLogin, NoLogin
<1>2. LoginFits'
  <2>1. "idle" \notin Bringing
    BY DEF Bringing
  <2> QED
    BY <1>1, <2>1 DEF LoginFits
<1>3. signIns' = signIns /\ signIns \in SignIns \cup {0} /\ signIns <= signIns'
  BY <1>0, SessionShapes DEF LeaveLogin, SignIns
<1>4. since' \in [SignIns -> 0..MaxTroubles] /\ since' = since
  BY <1>0, SessionShapes DEF LeaveLogin
<1> QED
  BY <1>1, <1>2, <1>3, <1>4, LoginGoesOn DEF LeaveLogin

LEMMA IssueTokenStep ==
  ASSUME SInv, IssueToken PROVE SInv'
<1>0. SessionsTypeOK /\ RowsFit /\ LoginFits /\ NewPairs /\ login \in LoginRow
  BY SessionShapes DEF SInv, Shape
<1>1. login.stage = "issuing"
  BY DEF IssueToken
<1>2. PICK p : p = Next1(Unused)
  OBVIOUS
<1>3. /\ p \in Pairs /\ token[p] = "none" /\ session[p] = "none" /\ root[p] = 0
      /\ Unknown(p) /\ p # None /\ \A q \in Requests : req[q].got # p
  BY <1>2, NewPair DEF IssueToken
<1>4. PICK e : e = [login EXCEPT !.stage = "tokenMade", !.got = p]
  OBVIOUS
<1>5. e \in LoginRow /\ e.stage = "tokenMade" /\ e.got = p /\ e.caught = login.caught
  BY <1>0, <1>3, <1>4 DEF LoginRow
<1>6. /\ login' = e /\ token' = [token EXCEPT ![p] = "live"]
      /\ root' = [root EXCEPT ![p] = signIns]
      /\ UNCHANGED <<session, expired, lapsed, stored, user, req, signIns, cuts, cutting,
                     since, caught, contested, disturbed, turnedDown, faults>>
  BY <1>2, <1>4 DEF IssueToken
<1>7. signIns \in SignIns /\ signIns \in Nat /\ \A q \in Pairs : root[q] # signIns
  BY <1>0, <1>1, SessionShapes DEF LoginFits, SignIns
<1>8. /\ token'[p] = "live" /\ root'[p] = signIns
      /\ \A q \in Pairs : q # p => token'[q] = token[q] /\ root'[q] = root[q]
      /\ token' \in [Pairs -> RowStates] /\ root' \in [Pairs -> SignIns \cup {0}]
  BY <1>0, <1>3, <1>6, <1>7, SessionShapes DEF RowStates
<1>9. e.stage \in Bringing
  BY <1>5 DEF Bringing
<1>10. SessionsTypeOK'
  <2>1. \A q \in Pairs : /\ session'[q] # "none" => token'[q] # "none"
                         /\ root'[q] = 0 <=> token'[q] = "none"
    BY <1>0, <1>3, <1>6, <1>7, <1>8, SessionShapes DEF SignIns
  <2>2. stored' # None => token'[stored'] # "none"
    BY <1>0, <1>6, <2>1, SessionShapes DEF RowsFit
  <2> QED
    BY <1>0, <1>5, <1>6, <1>8, <2>1, <2>2 DEF SessionsTypeOK, LoginRow, RowStates
<1>11. ASSUME NEW q \in Requests PROVE Fits(req[q])'
  <2>1. PICK d : d = req[q]
    OBVIOUS
  <2>2. d \in ReqRow /\ Fits(d) /\ req'[q] = d /\ d.got # p /\ d.using # p /\ d.with # p
    BY <1>0, <1>3, <1>6, <2>1, SessionShapes DEF SInv, Shape, Unknown
  <2>3. /\ d.using \in Pairs \cup {None} /\ d.with \in Pairs \cup {None}
        /\ d.got \in Pairs \cup {None}
    BY <2>2 DEF ReqRow
  <2>4. /\ d.stage \in Bringing => d.stage \in Using
        /\ d.stage \in {"tokenMade", "made"} => d.stage \in Bringing
        /\ d.stage \in {"tokenRevoked", "sessionRevoked"} => d.stage \in Using
    BY DEF Bringing, Using, Issuing
  <2> QED
    BY <1>6, <1>8, <2>2, <2>3, <2>4 DEF Fits
<1>12. LoginFits'
  BY <1>3, <1>5, <1>6, <1>7, <1>8, <1>9, SessionShapes DEF LoginFits, SignIns
<1>13. RowsFit'
  BY <1>0, <1>3, <1>6, <1>7, <1>8 DEF RowsFit, Unknown, Cutter
<1>14. NewPairs'
  <2>1. \A g : Unknown(g) => Unknown(g)'
    BY <1>6 DEF Unknown
  <2>2. ASSUME NEW q \in Requests, req'[q].got # None
        PROVE  Unknown(req[q].got)' /\ \A f \in Requests : req'[f].got = req'[q].got => f = q
    <3>1. PICK g : g = req[q].got
      OBVIOUS
    <3>2. Unknown(g)' /\ \A f \in Requests : req'[f].got = g => f = q
      BY <1>0, <1>6, <2>1, <2>2, <3>1 DEF NewPairs
    <3> QED
      BY <1>6, <3>1, <3>2 DEF Unknown
  <2>3. login'.got = p /\ Unknown(p)' /\ \A q \in Requests : req'[q].got # p
    BY <1>3, <1>5, <1>6, <2>1
  <2> QED
    BY <2>2, <2>3 DEF NewPairs, Unknown
<1>15. \A q \in Requests : req[q].using # p /\ (req[q].stage \in Issuing => req[q].using \in Pairs)
  <2>1. \A q \in Requests : req[q] \in ReqRow /\ Fits(req[q])
    BY <1>0, SessionShapes DEF SInv, Shape
  <2> QED
    BY <1>3, <2>1 DEF Unknown, Fits, ReqRow, Using
<1>16. ASSUME NEW s \in SignIns, s \notin contested PROVE OneAlive(s)'
  <2>1. OneAlive(s) /\ \A q \in Pairs : q # p => (Alive(q)' <=> Alive(q)) /\ root'[q] = root[q]
    BY <1>6, <1>8 DEF SInv, OneLine, Alive
  <2>2. \A q \in Requests : req'[q].stage \in Issuing /\ root'[req'[q].using] = s =>
          /\ req[q].stage \in Issuing /\ root[req[q].using] = s /\ s # signIns
    BY <1>6, <1>7, <1>8, <1>15
  <2>3. CASE s # signIns
    <3>1. \A q \in Pairs : root'[q] = s => q # p
      BY <1>8, <2>3
    <3> QED
      BY <1>6, <1>16, <2>1, <2>2, <3>1 DEF OneAlive, Line
  <2>4. CASE s = signIns
    <3>1. \A q \in Pairs : root'[q] = s => q = p
      BY <1>7, <1>8, <2>4
    <3> QED
      BY <2>2, <2>4, <3>1 DEF OneAlive
  <2> QED
    BY <2>3, <2>4
<1>17. OneLine'
  BY <1>6, <1>16 DEF OneLine, OneAlive
<1>18. CutOff'
  <2>1. \A q \in Pairs : session[q] # "none" => q # p
    BY <1>3
  <2>2. ASSUME NEW q \in Requests, req'[q].stage \in Issuing PROVE Marked(req[q])'
    <3>1. req[q].stage \in Issuing /\ req'[q] = req[q] /\ Marked(req[q])
      BY <1>6, <2>2 DEF SInv, CutOff
    <3>2. root'[req[q].using] = root[req[q].using]
      BY <1>8, <1>15, <3>1
    <3> QED
      BY <1>6, <3>1, <3>2 DEF Marked
  <2>3. login'.caught \/ since'[signIns'] = cuts'
    BY <1>1, <1>5, <1>6 DEF SInv, CutOff
  <2> QED
    BY <1>6, <1>8, <2>1, <2>2, <2>3 DEF SInv, CutOff
<1>19. Kept'
  BY <1>3, <1>6, <1>8, KeptSame
<1> QED
  BY <1>10, <1>11, <1>12, <1>13, <1>14, <1>17, <1>18, <1>19 DEF SInv, Shape

LEMMA IssueSessionStep ==
  ASSUME SInv, IssueSession PROVE SInv'
<1>0. SessionsTypeOK /\ RowsFit /\ LoginFits /\ NewPairs /\ login \in LoginRow
  BY SessionShapes DEF SInv, Shape
<1>1. login.stage = "tokenMade"
  BY DEF IssueSession
<1>2. PICK p : p = login.got
  OBVIOUS
<1>3. /\ p \in Pairs /\ token[p] # "none" /\ session[p] = "none" /\ root[p] = signIns
      /\ Unknown(p) /\ p # None /\ \A q \in Requests : req[q].got # p
      /\ \A q \in Pairs : root[q] = signIns => q = p
  BY <1>0, <1>1, <1>2 DEF LoginFits, LoginRow, Bringing, NewPairs
<1>4. PICK e : e = [login EXCEPT !.stage = "made", !.caught = FALSE]
  OBVIOUS
<1>5. e \in LoginRow /\ e.stage = "made" /\ e.got = p
  BY <1>0, <1>2, <1>4 DEF LoginRow
<1>6. /\ login' = e /\ session' = [session EXCEPT ![p] = "live"]
      /\ caught' = IF login.caught \/ cutting THEN caught \cup {p} ELSE caught
      /\ UNCHANGED <<token, root, expired, lapsed, stored, user, req, signIns, cuts, cutting,
                     since, contested, disturbed, turnedDown, faults>>
  BY <1>2, <1>4 DEF IssueSession
<1>7. /\ session'[p] = "live" /\ \A q \in Pairs : q # p => session'[q] = session[q]
      /\ session' \in [Pairs -> RowStates]
      /\ caught \subseteq caught' /\ caught' \subseteq Pairs
  BY <1>0, <1>3, <1>6, SessionShapes DEF RowStates
<1>8. e.stage \in Bringing /\ signIns # 0
  BY <1>0, <1>1, <1>5 DEF Bringing, LoginFits
<1>9. SessionsTypeOK'
  BY <1>0, <1>3, <1>5, <1>6, <1>7 DEF SessionsTypeOK, LoginRow, RowStates
<1>10. ASSUME NEW q \in Requests PROVE Fits(req[q])'
  <2>1. PICK d : d = req[q]
    OBVIOUS
  <2>2. d \in ReqRow /\ Fits(d) /\ req'[q] = d /\ d.got # p /\ d.using # p /\ d.with # p
    BY <1>0, <1>3, <1>6, <2>1, SessionShapes DEF SInv, Shape, Unknown
  <2>3. /\ d.using \in Pairs \cup {None} /\ d.with \in Pairs \cup {None}
        /\ d.got \in Pairs \cup {None}
    BY <2>2 DEF ReqRow
  <2>4. /\ d.stage \in Bringing => d.stage \in Using
        /\ d.stage \in {"tokenMade", "made"} => d.stage \in Bringing
        /\ d.stage \in {"tokenRevoked", "sessionRevoked"} => d.stage \in Using
    BY DEF Bringing, Using, Issuing
  <2> QED
    BY <1>6, <1>7, <2>2, <2>3, <2>4 DEF Fits
<1>11. LoginFits'
  BY <1>3, <1>5, <1>6, <1>7, <1>8 DEF LoginFits
<1>12. RowsFit'
  <2>1. stored # None => session'[stored] # "none"
    BY <1>0, <1>7, SessionShapes DEF RowsFit
  <2> QED
    BY <1>0, <1>6, <2>1 DEF RowsFit, Cutter
<1>13. NewPairs'
  BY <1>0, <1>2, <1>3, <1>5, <1>6 DEF NewPairs, Unknown
<1>14. ASSUME NEW s \in SignIns, s \notin contested PROVE OneAlive(s)'
  <2>1. OneAlive(s) /\ \A q \in Pairs : q # p => (Alive(q)' <=> Alive(q))
    BY <1>6, <1>7 DEF SInv, OneLine, Alive
  <2>2. CASE s # signIns
    BY <1>3, <1>6, <1>14, <2>1, <2>2 DEF OneAlive, Line
  <2>3. CASE s = signIns
    <3>1. \A q \in Requests : req[q] \in ReqRow /\ Fits(req[q])
      BY <1>0, SessionShapes DEF SInv, Shape
    <3>2. \A q \in Requests : req[q].stage \in Issuing => req[q].using \in Pairs \ {p}
      BY <1>3, <3>1 DEF Unknown, Fits, ReqRow, Using
    <3>3. \A q \in Requests : req[q].stage \in Issuing => root[req[q].using] # s
      BY <1>3, <2>3, <3>2
    <3> QED
      BY <1>3, <1>6, <2>3, <3>3 DEF OneAlive
  <2> QED
    BY <2>2, <2>3
<1>15. OneLine'
  BY <1>6, <1>14 DEF OneLine, OneAlive
<1>16. CutOff'
  <2>1. login.caught \/ since[signIns] = cuts
    BY <1>1 DEF SInv, CutOff
  <2>2. p \in caught' \/ (~cutting /\ since[root[p]] = cuts)
    BY <1>3, <1>6, <2>1
  <2>3. ASSUME NEW q \in Requests, req'[q].stage \in Issuing PROVE Marked(req[q])'
    BY <1>6, <1>7, <2>3 DEF Marked, SInv, CutOff
  <2>4. \A q \in Pairs : session'[q] = "live" =>
                            q \in caught' \/ (~cutting' /\ since'[root'[q]] = cuts')
    BY <1>6, <1>7, <2>2 DEF SInv, CutOff
  <2>5. \A q \in Pairs :
          token'[q] = "live" /\ session'[q] # "none" => q \in caught' \/ since'[root'[q]] = cuts'
    BY <1>6, <1>7, <2>2 DEF SInv, CutOff
  <2>6. login'.stage \notin {"issuing", "tokenMade"}
    BY <1>5, <1>6
  <2> QED
    BY <2>3, <2>4, <2>5, <2>6 DEF CutOff
<1>17. Kept'
  BY <1>3, <1>6, <1>7, KeptSame
<1> QED
  BY <1>9, <1>10, <1>11, <1>12, <1>13, <1>15, <1>16, <1>17 DEF SInv, Shape

LEMMA SetSessionStep ==
  ASSUME SInv, SetSession PROVE SInv'
<1>0. SessionsTypeOK /\ RowsFit /\ LoginFits /\ NewPairs /\ login \in LoginRow
  BY SessionShapes DEF SInv, Shape
<1>1. PICK p : p = login.got
  OBVIOUS
<1>2. /\ p \in Pairs /\ token[p] # "none" /\ session[p] # "none" /\ Unknown(p) /\ p # None
      /\ \A q \in Requests : req[q].got # p
  BY <1>0, <1>1 DEF LoginFits, LoginRow, Bringing, NewPairs, SetSession
<1>3. /\ stored' = p /\ user' = "in" /\ login' = NoLogin
      /\ disturbed' = (token[p] # "live" \/ \E r \in Requests : req[r].stage # "idle")
      /\ UNCHANGED <<token, session, expired, lapsed, root, req, signIns, cuts, cutting, since,
                     caught, contested, faults>>
      /\ turnedDown' = FALSE
  BY <1>1 DEF SetSession
<1>4. NoLogin \in LoginRow /\ NoLogin.stage = "idle" /\ NoLogin.got = None
  BY DEF NoLogin, LoginRow
<1>5. disturbed' \in BOOLEAN
  BY <1>3, Zenon
<1>6. SessionsTypeOK'
  BY <1>0, <1>2, <1>3, <1>4, <1>5 DEF SessionsTypeOK, LoginRow
<1>7. \A r \in Requests : Fits(req[r])'
  BY <1>3 DEF SInv, Shape, Fits
<1>8. LoginFits'
  BY <1>3, <1>4 DEF LoginFits, Bringing
<1>9. RowsFit'
  BY <1>0, <1>2, <1>3 DEF RowsFit, Cutter
<1>10. NewPairs'
  <2>1. ASSUME NEW g, Unknown(g), g # p PROVE Unknown(g)'
    BY <1>3, <2>1 DEF Unknown
  <2>2. ASSUME NEW q \in Requests, req'[q].got # None
        PROVE  Unknown(req[q].got)' /\ \A f \in Requests : req'[f].got = req'[q].got => f = q
    <3>1. PICK g : g = req[q].got
      OBVIOUS
    <3>2. Unknown(g)' /\ \A f \in Requests : req'[f].got = g => f = q
      BY <1>0, <1>2, <1>3, <2>1, <2>2, <3>1 DEF NewPairs
    <3> QED
      BY <1>3, <3>1, <3>2 DEF Unknown
  <2> QED
    BY <1>3, <1>4, <2>2 DEF NewPairs
<1>11. OneLine'
  BY <1>3 DEF SInv, OneLine, OneAlive, Alive, Line
<1>12. CutOff'
  BY <1>3, <1>4 DEF SInv, CutOff, Marked
<1>13. Kept'
  <2> SUFFICES ASSUME ~disturbed' PROVE Undisturbed'
    BY <1>2, <1>3 DEF Kept
  <2>1. token[p] = "live" /\ \A r \in Requests : req[r].stage = "idle"
    BY <1>3
  <2>2. Good(stored)'
    BY <1>2, <1>3, <2>1 DEF Good, Unknown
  <2>3. ASSUME NEW r \in Requests PROVE Calm(req[r])'
    <3>1. Fits(req[r]) /\ req'[r] = req[r] /\ req[r].stage = "idle"
      BY <1>3, <2>1 DEF SInv, Shape
    <3>2. req[r].kind = "call" /\ req[r].using = None /\ req[r].got = None
      BY <3>1 DEF Fits, Using, Issuing, Bringing
    <3> QED
      BY <3>1, <3>2 DEF Calm
  <2>4. \A r \in Requests : req'[r].stage \notin Engaged
    BY <1>3, <2>1 DEF Engaged, Using, Issuing
  <2> QED
    BY <2>2, <2>3, <2>4 DEF Undisturbed
<1> QED
  BY <1>6, <1>7, <1>8, <1>9, <1>10, <1>11, <1>12, <1>13 DEF SInv, Shape

LEMMA AccessExpiresStep ==
  ASSUME SInv, AccessExpires PROVE SInv'
<1>0. SessionsTypeOK /\ RowsFit /\ LoginFits /\ NewPairs /\ stored \in Pairs
      /\ token[stored] # "none" /\ stored # None
  BY SessionShapes DEF SInv, Shape, AccessExpires, RowsFit
<1>1. /\ expired' = expired \cup {stored}
      /\ \A r \in Requests : ~(req[r].stage = "retrying" /\ req[r].with = stored)
      /\ UNCHANGED <<token, session, lapsed, root, stored, user, req, login, signIns, cuts,
                     cutting, since, caught, contested, disturbed, turnedDown, faults>>
  BY DEF AccessExpires
<1>2. SessionsTypeOK'
  BY <1>0, <1>1 DEF SessionsTypeOK
<1>3. (\A r \in Requests : Fits(req[r])') /\ LoginFits'
  BY <1>1 DEF SInv, Shape, Fits, LoginFits
<1>4. RowsFit'
  BY <1>0, <1>1 DEF RowsFit, Cutter
<1>5. NewPairs'
  BY <1>0, <1>1 DEF NewPairs, Unknown
<1>6. OneLine' /\ CutOff'
  BY <1>1 DEF SInv, OneLine, OneAlive, Alive, Line, CutOff, Marked
<1>7. Kept'
  <2> SUFFICES ASSUME ~disturbed PROVE Undisturbed'
    BY <1>0, <1>1 DEF Kept
  <2>1. Undisturbed
    BY <1>0 DEF SInv, Kept
  <2>2. ASSUME NEW r \in Requests PROVE Calm(req[r])'
    <3>1. Calm(req[r]) /\ req[r].stage # "retrying"
      BY <1>1, <2>1 DEF Undisturbed, Calm
    <3> QED
      BY <1>1, <3>1 DEF Calm, Good
  <2> QED
    BY <1>1, <2>1, <2>2 DEF Undisturbed, Good
<1> QED
  BY <1>2, <1>3, <1>4, <1>5, <1>6, <1>7 DEF SInv, Shape

LEMMA LapseStep ==
  ASSUME SInv, Lapse PROVE SInv'
<1>0. SessionsTypeOK /\ RowsFit /\ LoginFits /\ NewPairs /\ stored \in Pairs
      /\ token[stored] # "none" /\ stored # None
  BY SessionShapes DEF SInv, Shape, Lapse, RowsFit
<1>1. /\ lapsed' = lapsed \cup {stored} /\ disturbed' = TRUE
      /\ UNCHANGED <<token, session, expired, root, stored, user, req, login, signIns, cuts,
                     cutting, since, caught, contested, turnedDown>>
  BY DEF Lapse
<1>2. SessionsTypeOK'
  <2>1. faults' \in 0..MaxTroubles
    BY <1>0, SessionShapes DEF Lapse
  <2> QED
    BY <1>0, <1>1, <2>1 DEF SessionsTypeOK
<1>3. (\A r \in Requests : Fits(req[r])') /\ LoginFits'
  BY <1>1 DEF SInv, Shape, Fits, LoginFits
<1>4. RowsFit'
  BY <1>0, <1>1 DEF RowsFit, Cutter
<1>5. NewPairs'
  BY <1>0, <1>1 DEF NewPairs, Unknown
<1>6. OneLine' /\ CutOff'
  BY <1>1 DEF SInv, OneLine, OneAlive, Alive, Line, CutOff, Marked
<1>7. Kept'
  BY <1>1 DEF Kept
<1> QED
  BY <1>2, <1>3, <1>4, <1>5, <1>6, <1>7 DEF SInv, Shape

-----------------------------------------------------------------------------
(* The cuts.                                                               *)

LEMMA CatchRow ==
  ASSUME SInv, NEW q \in Requests, NEW c, c = Catch[q]
  PROVE  /\ c \in ReqRow /\ c.kind = req[q].kind /\ c.stage = req[q].stage
         /\ c.with = req[q].with /\ c.using = req[q].using /\ c.got = req[q].got
         /\ c.stage \in Issuing => c.caught
<1>1. req[q] \in ReqRow
  BY SessionShapes DEF SInv, Shape
<1>2. c = [req[q] EXCEPT !.caught = req[q].caught \/ req[q].stage \in Issuing]
  BY DEF Catch
<1>3. c.caught = (req[q].caught \/ req[q].stage \in Issuing)
  BY <1>1, <1>2 DEF ReqRow
<1>4. c.caught \in BOOLEAN
  BY <1>3, Zenon
<1>5. /\ c.kind = req[q].kind /\ c.stage = req[q].stage
      /\ c.with = req[q].with /\ c.using = req[q].using /\ c.got = req[q].got
  BY <1>1, <1>2 DEF ReqRow
<1>6. c \in ReqRow
  BY <1>1, <1>2, <1>4 DEF ReqRow
<1>7. c.stage \in Issuing => c.caught
  BY <1>3, <1>5, Zenon
<1> QED
  BY <1>5, <1>6, <1>7

LEMMA CatchLoginRow ==
  ASSUME SInv, login' = CatchLogin
  PROVE  /\ login' \in LoginRow /\ login'.stage = login.stage /\ login'.got = login.got
         /\ login'.stage \in {"issuing", "tokenMade"} => login'.caught
<1>1. login \in LoginRow
  BY SessionShapes DEF SInv, Shape
<1>2. login' = [login EXCEPT !.caught = login.caught \/ login.stage \in {"issuing", "tokenMade"}]
  BY DEF CatchLogin
<1>3. login'.caught = (login.caught \/ login.stage \in {"issuing", "tokenMade"})
  BY <1>1, <1>2 DEF LoginRow
<1>4. login'.caught \in BOOLEAN
  BY <1>3, Zenon
<1>5. login'.stage = login.stage /\ login'.got = login.got
  BY <1>1, <1>2 DEF LoginRow
<1>6. login' \in LoginRow
  BY <1>1, <1>2, <1>4 DEF LoginRow
<1>7. login'.stage \in {"issuing", "tokenMade"} => login'.caught
  BY <1>3, <1>5, Zenon
<1> QED
  BY <1>5, <1>6, <1>7

(* A cut revokes rows and is told to every handler that is about to make   *)
(* one; the request that cuts holds no pair but the one it asks with.      *)
Told(q) ==
  /\ req'[q].kind = req[q].kind /\ req'[q].stage = req[q].stage
  /\ req'[q].with = req[q].with /\ req'[q].using = req[q].using /\ req'[q].got = req[q].got
  /\ req'[q].stage \in Issuing => req'[q].caught
Cutting(q) ==
  /\ req'[q].using = None /\ req'[q].got = None /\ req'[q].kind # "call"
  /\ \/ req'[q].stage = "sent" /\ req'[q].with = stored
     \/ req'[q].stage = "half" /\ req'[q].with = req[q].with /\ req[q].with # None

LEMMA CutStep ==
  ASSUME SInv, req' \in [Requests -> ReqRow], RevokedAtMost,
         \A q \in Requests : Told(q) \/ Cutting(q),
         login' = CatchLogin, cuts' \in 0..MaxTroubles, cutting' \in BOOLEAN,
         disturbed' \in BOOLEAN, disturbed', RowsFit',
         UNCHANGED <<expired, lapsed, root, stored, user, signIns, since, caught, contested,
                     turnedDown, faults>>,
         \A p \in Pairs : session'[p] = "live" =>
                            p \in caught \/ (~cutting' /\ since[root[p]] = cuts'),
         \A p \in Pairs : token'[p] = "live" /\ session'[p] # "none" =>
                            p \in caught \/ since[root[p]] = cuts'
  PROVE  SInv'
<1>0. SessionsTypeOK /\ RowsFit /\ LoginFits /\ NewPairs /\ login \in LoginRow
  BY SessionShapes DEF SInv, Shape
<1>1. /\ login' \in LoginRow /\ login'.stage = login.stage /\ login'.got = login.got
      /\ login'.stage \in {"issuing", "tokenMade"} => login'.caught
  BY CatchLoginRow
<1>2. SessionsTypeOK'
  <2>1. /\ \A p \in Pairs : /\ session'[p] # "none" => token'[p] # "none"
                            /\ root'[p] = 0 <=> token'[p] = "none"
        /\ stored' # None => token'[stored'] # "none"
    BY <1>0, SessionShapes DEF RevokedAtMost, RowsFit
  <2> QED
    BY <1>0, <1>1, <2>1 DEF SessionsTypeOK, RevokedAtMost, RowStates, ReqRow, LoginRow
<1>3. ASSUME NEW q \in Requests PROVE Fits(req[q])'
  <2>1. PICK d, e : d = req'[q] /\ e = req[q]
    OBVIOUS
  <2>2. e \in ReqRow /\ Fits(e)
    BY <1>0, <2>1, SessionShapes DEF SInv, Shape
  <2>3. /\ e.using \in Pairs \cup {None} /\ e.with \in Pairs \cup {None}
        /\ e.got \in Pairs \cup {None} /\ stored \in Pairs \cup {None}
    BY <1>0, <2>2, SessionShapes DEF ReqRow
  <2>4. CASE Told(q)
    <3>1. /\ d.kind = e.kind /\ d.stage = e.stage /\ d.with = e.with /\ d.using = e.using
          /\ d.got = e.got
      BY <2>1, <2>4 DEF Told
    <3>2. /\ d.stage \in Bringing => d.stage \in Using
          /\ d.stage \in {"tokenMade", "made"} => d.stage \in Bringing
          /\ d.stage \in {"tokenRevoked", "sessionRevoked"} => d.stage \in Using
      BY DEF Bringing, Using, Issuing
    <3>3. Fits(d)'
      BY <2>2, <2>3, <3>1, <3>2 DEF Fits, RevokedAtMost
    <3> QED
      BY <2>1, <3>3 DEF Fits
  <2>5. CASE Cutting(q)
    <3>1. /\ d.using = None /\ d.got = None /\ d.kind # "call" /\ d.stage \in {"sent", "half"}
          /\ d.with \in Pairs \cup {None} /\ (d.stage = "half" => d.with # None)
          /\ d.with # None => session[d.with] # "none"
      BY <1>0, <2>1, <2>2, <2>3, <2>5 DEF Cutting, Fits, RowsFit
    <3>2. d.stage \notin Using /\ d.stage \notin Bringing
      BY <3>1 DEF Using, Issuing, Bringing
    <3>3. Fits(d)'
      BY <3>1, <3>2 DEF Fits, RevokedAtMost
    <3> QED
      BY <2>1, <3>3 DEF Fits
  <2> QED
    BY <2>4, <2>5
<1>4. LoginFits'
  <2>1. login.got \in Pairs \cup {None}
    BY <1>0 DEF LoginRow
  <2>2. /\ login.stage = "tokenMade" => login.stage \in Bringing
        /\ login.stage = "made" => login.stage \in Bringing
    BY DEF Bringing
  <2> QED
    BY <1>0, <1>1, <2>1, <2>2 DEF LoginFits, RevokedAtMost
<1>5. \A q \in Requests :
        /\ req'[q].using \in {None, req[q].using} /\ req'[q].with \in {None, stored, req[q].with}
        /\ req'[q].got \in {None, req[q].got}
        /\ req'[q].stage \in Issuing => Told(q)
  <2>1. "sent" \notin Issuing /\ "half" \notin Issuing
    BY DEF Issuing
  <2> QED
    BY <2>1 DEF Told, Cutting
<1>6. NewPairs'
  <2>1. \A g \in Pairs : Unknown(g) => Unknown(g)'
    BY <1>0, <1>5, SessionShapes DEF Unknown
  <2>2. login.got \in Pairs \cup {None} /\ \A q \in Requests : req[q].got \in Pairs \cup {None}
    BY <1>0, SessionShapes DEF LoginRow, ReqRow
  <2>3. ASSUME login'.got # None
        PROVE  Unknown(login.got)' /\ \A q \in Requests : req'[q].got # login'.got
    <3>1. PICK g : g = login.got
      OBVIOUS
    <3>2. g \in Pairs /\ g # None /\ Unknown(g) /\ \A q \in Requests : req[q].got # g
      BY <1>0, <1>1, <2>2, <2>3, <3>1 DEF NewPairs
    <3>3. Unknown(g)' /\ \A q \in Requests : req'[q].got # g
      BY <1>5, <2>1, <3>2
    <3> QED
      BY <1>1, <3>1, <3>3 DEF Unknown
  <2>4. ASSUME NEW q \in Requests, req'[q].got # None
        PROVE  Unknown(req[q].got)' /\ \A f \in Requests : req'[f].got = req'[q].got => f = q
    <3>1. PICK g : g = req'[q].got
      OBVIOUS
    <3>2. g = req[q].got /\ g # None /\ g \in Pairs
      BY <1>5, <2>2, <2>4, <3>1
    <3>3. Unknown(g) /\ \A f \in Requests : req[f].got = g => f = q
      BY <1>0, <3>2 DEF NewPairs
    <3>4. Unknown(g)' /\ \A f \in Requests : req'[f].got = g => f = q
      BY <1>5, <2>1, <3>2, <3>3
    <3> QED
      BY <3>1, <3>4 DEF Unknown
  <2> QED
    BY <2>3, <2>4 DEF NewPairs
<1>7. ASSUME NEW s \in SignIns, s \notin contested PROVE OneAlive(s)'
  <2>1. OneAlive(s) /\ UNCHANGED root /\ \A p \in Pairs : Alive(p)' => Alive(p)
    BY DEF SInv, OneLine, Alive, RevokedAtMost
  <2>2. \A q \in Requests : req'[q].stage \in Issuing =>
          req[q].stage \in Issuing /\ req'[q].using = req[q].using
    BY <1>5 DEF Told
  <2>3. \A q \in Requests : req'[q].stage \in Issuing =>
          \A p : Line(req[q], p) <=> Line(req'[q], p)
    BY <1>5 DEF Told, Line
  <2>4. \A p, q \in Pairs : root'[p] = s /\ root'[q] = s /\ Alive(p)' /\ Alive(q)' => p = q
    BY <1>7, <2>1 DEF OneAlive
  <2>5. ASSUME NEW q \in Requests, req'[q].stage \in Issuing, root'[req'[q].using] = s
        PROVE  /\ \A e \in Requests : req'[e].stage \in Issuing /\ root'[req'[e].using] = s => e = q
               /\ \A p \in Pairs : root'[p] = s /\ Alive(p)' => Line(req'[q], p)
    <3>1. req[q].stage \in Issuing /\ root[req[q].using] = s
      BY <2>1, <2>2, <2>5
    <3> QED
      BY <1>7, <2>1, <2>2, <2>3, <2>5, <3>1 DEF OneAlive
  <2> QED
    BY <2>4, <2>5 DEF OneAlive, Line
<1>8. OneLine'
  BY <1>7 DEF OneLine, OneAlive
<1>9. CutOff'
  <2>1. \A q \in Requests : req'[q].stage \in Issuing => req'[q].caught
    BY <1>5 DEF Told
  <2> QED
    BY <1>1, <2>1 DEF CutOff, Marked
<1>10. Kept'
  BY DEF Kept
<1> QED
  BY <1>2, <1>3, <1>4, <1>6, <1>8, <1>9, <1>10 DEF SInv, Shape

LEMMA RevokeAllRows ==
  ASSUME NEW rows \in [Pairs -> RowStates], NEW new, new = RevokeAll(rows)
  PROVE  /\ new \in [Pairs -> RowStates]
         /\ \A p \in Pairs : new[p] # "live" /\ (new[p] = "none" <=> rows[p] = "none")
BY DEF RevokeAll, RowStates

LEMMA ResetPasswordStep ==
  ASSUME SInv, ResetPassword PROVE SInv'
<1>0. SessionsTypeOK /\ RowsFit
  BY DEF SInv, Shape
<1>1. /\ token' \in [Pairs -> RowStates] /\ session' \in [Pairs -> RowStates]
      /\ \A p \in Pairs : /\ token'[p] # "live" /\ (token'[p] = "none" <=> token[p] = "none")
                          /\ session'[p] # "live" /\ (session'[p] = "none" <=> session[p] = "none")
  BY <1>0, RevokeAllRows, SessionShapes DEF ResetPassword
<1>2. \A q \in Requests : req'[q] \in ReqRow /\ Told(q)
  BY CatchRow DEF ResetPassword, Told
<1>3. req' \in [Requests -> ReqRow]
  BY <1>2 DEF ResetPassword, Catch
<1>4. /\ ~cutting /\ cuts' \in 0..MaxTroubles /\ disturbed' = TRUE /\ login' = CatchLogin
      /\ UNCHANGED <<expired, lapsed, root, stored, user, signIns, cutting, since, caught,
                     contested, turnedDown, faults>>
  BY <1>0, SessionShapes DEF ResetPassword
<1>5. RowsFit'
  <2>1. \A q \in Requests : Cutter(req'[q]) <=> Cutter(req[q])
    BY <1>2 DEF Told, Cutter
  <2>2. stored \in Pairs \cup {None}
    BY <1>0, SessionShapes
  <2> QED
    BY <1>0, <1>1, <1>4, <2>1, <2>2 DEF RowsFit
<1>6. cutting' \in BOOLEAN /\ disturbed' \in BOOLEAN
  BY <1>0, <1>4, SessionShapes
<1> QED
  BY <1>1, <1>2, <1>3, <1>4, <1>5, <1>6, CutStep DEF RevokedAtMost

(* The first commit: no session is alive while the second is awaited.      *)
LEMMA LogoutAllSessionsStep ==
  ASSUME SInv, NEW r \in Requests, LogoutAllSessions(r) PROVE SInv'
<1>0. SessionsTypeOK /\ RowsFit /\ Fits(req[r])
  BY DEF SInv, Shape
<1>1. /\ session' \in [Pairs -> RowStates] /\ token' = token /\ token \in [Pairs -> RowStates]
      /\ \A p \in Pairs :
           session'[p] # "live" /\ (session'[p] = "none" <=> session[p] = "none")
  BY <1>0, RevokeAllRows, SessionShapes DEF LogoutAllSessions
<1>2. PICK c : c = Catch[r]
  OBVIOUS
<1>3. c \in ReqRow /\ c.kind = "logoutAll" /\ c.with = req[r].with /\ c.using = req[r].using
      /\ c.got = req[r].got
  BY <1>2, CatchRow DEF LogoutAllSessions
<1>4. PICK d : d = [c EXCEPT !.stage = "half"]
  OBVIOUS
<1>5. /\ d \in ReqRow /\ d.kind = "logoutAll" /\ d.stage = "half" /\ d.with = req[r].with
      /\ d.using = req[r].using /\ d.got = req[r].got
  BY <1>3, <1>4 DEF ReqRow, Stages
<1>6. req[r].using = None /\ req[r].got = None /\ req[r].with # None
  BY <1>0 DEF Fits, Using, Issuing, Bringing, LogoutAllSessions, Admitted
<1>7. req'[r] = d /\ \A q \in Requests \ {r} : req'[q] = Catch[q]
  BY <1>2, <1>4 DEF LogoutAllSessions, Catch
<1>8. \A q \in Requests \ {r} : req'[q] \in ReqRow /\ Told(q)
  BY <1>7, CatchRow DEF Told
<1>9. Cutting(r)
  BY <1>5, <1>6, <1>7 DEF Cutting
<1>10. req' \in [Requests -> ReqRow]
  BY <1>5, <1>7, <1>8 DEF LogoutAllSessions, Catch
<1>11. /\ cuts + faults < MaxTroubles /\ ~cutting /\ cutting' = TRUE /\ login' = CatchLogin
       /\ cuts \in 0..MaxTroubles /\ faults \in 0..MaxTroubles
       /\ UNCHANGED <<expired, lapsed, root, stored, user, signIns, cuts, since, caught,
                      contested, turnedDown, faults, disturbed>>
  BY <1>0, SessionShapes DEF LogoutAllSessions
<1>12. disturbed
  BY Undisturbing DEF LogoutAllSessions, Calm
<1>13. RowsFit'
  <2>1. \A q \in Requests : ~Cutter(req[q])
    BY <1>0, <1>11 DEF RowsFit
  <2>2. \A q \in Requests : Cutter(req'[q]) <=> q = r
    BY <1>5, <1>7, <1>8, <2>1 DEF Told, Cutter
  <2>3. cuts < MaxTroubles
    BY <1>11
  <2>4. stored \in Pairs \cup {None}
    BY <1>0, SessionShapes
  <2> QED
    BY <1>0, <1>1, <1>11, <2>2, <2>3, <2>4 DEF RowsFit
<1>14. cutting' \in BOOLEAN /\ disturbed' \in BOOLEAN /\ RevokedAtMost
  BY <1>0, <1>1, <1>11, SessionShapes DEF RevokedAtMost
<1>15. \A p \in Pairs : token'[p] = "live" /\ session'[p] # "none" =>
                          p \in caught \/ since[root[p]] = cuts'
  BY <1>1, <1>11 DEF SInv, CutOff
<1> QED
  BY <1>1, <1>8, <1>9, <1>10, <1>11, <1>12, <1>13, <1>14, <1>15, CutStep

(* The second commit: what is alive now was made in between, and marked.   *)
LEMMA LogoutAllTokensStep ==
  ASSUME SInv, NEW r \in Requests, LogoutAllTokens(r) PROVE SInv'
<1>0. SessionsTypeOK /\ RowsFit /\ Fits(req[r])
  BY DEF SInv, Shape
<1>1. /\ token' \in [Pairs -> RowStates] /\ session' = session /\ session \in [Pairs -> RowStates]
      /\ \A p \in Pairs : token'[p] # "live" /\ (token'[p] = "none" <=> token[p] = "none")
  BY <1>0, RevokeAllRows, SessionShapes DEF LogoutAllTokens
<1>2. PICK d : d = [NoRequest EXCEPT !.kind = "logout", !.stage = "sent", !.with = stored]
  OBVIOUS
<1>3. /\ d \in ReqRow /\ d.kind = "logout" /\ d.stage = "sent" /\ d.with = stored
      /\ d.using = None /\ d.got = None
  BY <1>0, <1>2, SessionShapes DEF NoRequest, ReqRow, Stages, Kinds
<1>4. req'[r] = d /\ \A q \in Requests \ {r} : req'[q] = Catch[q]
  BY <1>2 DEF LogoutAllTokens, Catch
<1>5. \A q \in Requests \ {r} : req'[q] \in ReqRow /\ Told(q)
  BY <1>4, CatchRow DEF Told
<1>6. Cutting(r)
  BY <1>3, <1>4 DEF Cutting
<1>7. req' \in [Requests -> ReqRow]
  BY <1>3, <1>4, <1>5 DEF LogoutAllTokens, Catch
<1>8. Cutter(req[r]) /\ cutting /\ cuts < MaxTroubles
  BY <1>0 DEF LogoutAllTokens, Cutter, RowsFit
<1>9. /\ cutting' = FALSE /\ login' = CatchLogin /\ cuts' = cuts + 1
      /\ UNCHANGED <<expired, lapsed, root, stored, user, signIns, since, caught,
                     contested, turnedDown, faults, disturbed>>
  BY DEF LogoutAllTokens
<1>10. disturbed
  BY <1>8, Undisturbing DEF LogoutAllTokens, Calm
<1>11. RowsFit'
  <2>1. \A q \in Requests : ~Cutter(req'[q])
    BY <1>0, <1>3, <1>4, <1>5, <1>8 DEF RowsFit, Told, Cutter
  <2>2. stored \in Pairs \cup {None}
    BY <1>0, SessionShapes
  <2> QED
    BY <1>0, <1>1, <1>9, <2>1, <2>2 DEF RowsFit
<1>12. cutting' \in BOOLEAN /\ disturbed' \in BOOLEAN /\ RevokedAtMost
  BY <1>0, <1>1, <1>9, SessionShapes DEF RevokedAtMost
<1>13. cuts' \in 0..MaxTroubles
  BY <1>0, <1>8, <1>9, SessionShapes
<1>14. \A p \in Pairs : session'[p] = "live" => p \in caught
  BY <1>1, <1>8 DEF SInv, CutOff
<1> QED
  BY <1>1, <1>5, <1>6, <1>7, <1>9, <1>10, <1>11, <1>12, <1>13, <1>14, CutStep

-----------------------------------------------------------------------------
LEMMA SessionsStep ==
  ASSUME SInv, [SessionsNext]_sessionVars PROVE SInv'
<1>1. CASE UNCHANGED sessionVars
  <2>1. Shape'
    BY <1>1 DEF sessionVars, SInv, Shape, SessionsTypeOK, Fits, LoginFits, RowsFit, Cutter,
                NewPairs, Unknown
  <2>2. OneLine' /\ CutOff'
    BY <1>1 DEF sessionVars, SInv, OneLine, OneAlive, Alive, Line, CutOff, Marked
  <2>3. Kept'
    BY <1>1 DEF sessionVars, SInv, Kept, Untouched, Adrift, Undisturbed, Calm, Good
  <2> QED
    BY <2>1, <2>2, <2>3 DEF SInv
<1>2. ASSUME NEW r \in Requests, RequestStep(r) PROVE SInv'
  BY <1>2, ServedStep, RejectedStep, LogoutSessionStep, LogoutTokenStep, LogoutAllSessionsStep,
     LogoutAllTokensStep, DeniedUploadStep, DeniedStep, ReadTokenStep, RevokeTokenStep,
     RevokeSessionStep, ReissueTokenStep, ReissueSessionStep, RetryStep, ClearTokensStep
  DEF RequestStep
<1>3. CASE SessionsNext
  BY <1>2, <1>3, LoginStep, LoginWithTwoFactorStep, LeaveLoginStep, IssueTokenStep,
     IssueSessionStep, SetSessionStep, SendStep, LoseStep, AccessExpiresStep, LapseStep,
     ResetPasswordStep
  DEF SessionsNext
<1> QED
  BY <1>1, <1>3

LEMMA SInvHolds == SessionsSpec => []SInv
BY SessionsStart, SessionsStep, PTL DEF SessionsSpec

(* For any number of requests in flight, sign-ins and refreshes: one       *)
(* sign-in is one live session, unless two requests refreshed one token at *)
(* once (AuthService.refresh, issueSessionTokens).                         *)
THEOREM OneLiveSession == SessionsSpec => []OneSessionPerSignIn
<1>1. SInv => OneSessionPerSignIn
  <2> SUFFICES ASSUME SInv, NEW p \in Pairs, NEW q \in Pairs, session[p] = "live",
                      session[q] = "live", root[p] = root[q], root[p] \notin contested
               PROVE  p = q
    BY DEF OneSessionPerSignIn
  <2>1. root[p] \in SignIns
    BY SessionShapes DEF SInv, Shape
  <2> QED
    BY <2>1 DEF SInv, OneLine, OneAlive, Alive
<1> QED
  BY <1>1, SInvHolds, PTL

(* However a sign-out of all devices or a password reset overlaps other    *)
(* requests, only what a handler at work brought survives it               *)
(* (logoutAllDevices, resetPassword).                                      *)
THEOREM CutsReachAll == SessionsSpec => []SignedOutEverywhere
<1>1. SInv => SignedOutEverywhere
  BY DEF SInv, CutOff, SignedOutEverywhere
<1> QED
  BY <1>1, SInvHolds, PTL

(* For any number of requests in flight, an undisturbed user stays signed  *)
(* in: the stored pair can be refreshed, or the request that refreshes it  *)
(* is about to store another; nothing is stored only when a request tried  *)
(* anew was refused for a reason of its own (apiRequest, AuthService.refresh). *)
THEOREM StaysSignedIn == SessionsSpec => []KeepsSignedIn
<1>1. SInv => KeepsSignedIn
  <2> SUFFICES ASSUME SInv, user = "in", ~disturbed
               PROVE  IF stored = None THEN turnedDown
                      ELSE \/ token[stored] = "live"
                           \/ \E r \in Requests :
                                req[r].using = stored /\ req[r].stage \in Issuing \cup {"made"}
    BY DEF KeepsSignedIn
  <2>1. CASE stored = None
    BY <2>1 DEF SInv, Kept, Untouched, Adrift
  <2>2. CASE stored # None
    <3>1. Undisturbed
      BY <2>2 DEF SInv, Kept
    <3>2. ASSUME NEW r \in Requests, req[r].stage \in Replacing
          PROVE  req[r].using = stored /\ req[r].stage \in Issuing \cup {"made"}
      <4>1. Fits(req[r]) /\ Calm(req[r])
        BY <3>1 DEF SInv, Shape, Undisturbed
      <4>2. req[r].stage \in Using /\ req[r].stage \in Issuing \cup {"made"}
        BY <3>2 DEF Replacing, Using, Issuing
      <4> QED
        BY <4>1, <4>2 DEF Fits, Calm
    <3> QED
      BY <2>2, <3>1, <3>2 DEF Undisturbed, Good
  <2> QED
    BY <2>1, <2>2
<1> QED
  BY <1>1, SInvHolds, PTL
==============================================================================
