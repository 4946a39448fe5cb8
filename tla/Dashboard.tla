------------------------------ MODULE Dashboard ------------------------------
(***************************************************************************)
(* The dashboard as one user works with it: pages that are opened and      *)
(* left, the cache of the queries they mount, the requests their buttons   *)
(* send, and the API behind them.  One behaviour follows one button and    *)
(* one query, chosen at the start: every button of every page, with every  *)
(* query its request changes.                                              *)
(*                                                                         *)
(* The cache is react-query's.  A query is fetched when a page that mounts *)
(* it is entered and the answer is missing, older than staleTime or        *)
(* invalidated.  Invalidating a mounted query drops the fetch in flight    *)
(* and fetches anew, unless nothing was ever fetched: then the fetch in    *)
(* flight is kept.  An answer that is not mounted is only marked.          *)
(***************************************************************************)
EXTENDS DashboardPages, Naturals

CONSTANTS
  MaxClicks,  \* bound: clicks on the button
  MaxMoves    \* bound: changes made by others, and fetches that fail

ASSUME DashboardAssumption == MaxClicks \in Nat /\ MaxMoves \in Nat

VARIABLES
  focus,      \* the button and the query that are followed, and what is to know of them
  row,        \* the status of the row the button acts on
  made,       \* the clicks whose change is in the answer of the query by now
  moves,      \* changes made by others, and fetches that failed
  view,       \* what is on the screen
  cache,      \* the cached answer: the status it shows, the changes it has
  age,        \* "fresh": younger than staleTime and not invalidated
  fetch,      \* the fetch in flight: "idle", "asked", or "read" with the answer
  sent,       \* the requests of the clicks
  told,       \* the changes this user was told of
  excuse      \* "failed": the last fetch ended in an error; "overtaken": it was
              \* kept though older than a change told of; "none"

dashVars ==
  <<focus, row, made, moves, view, cache, age, fetch, sent, told, excuse>>

Elsewhere == "elsewhere"
Reads(v) == IF v = Elsewhere THEN {} ELSE {q.key : q \in Views[v].reads}
Page(v) == IF v = Elsewhere THEN Elsewhere ELSE Views[v].page
Buttons(v) == IF v = Elsewhere THEN {} ELSE Views[v].buttons
AllQueries == UNION {Views[v].reads : v \in DOMAIN Views}

(* Every request is sent by one button, wherever that is shown.            *)
ButtonOf ==
  LET all == UNION {Buttons(v) : v \in DOMAIN Views}
  IN  [a \in {b.act : b \in all} |-> CHOOSE b \in all : b.act = a]

(* Answers computed from other tables: refreshed by the hooks of their own *)
(* data only, or by none; what they show is not followed for other buttons. *)
Derived ==
  {"health-score", "spending-by-category", "platform-summary", "audit-log", "merchant-dashboard",
   "crypto-portfolio", "budgets"}

(* The queries a button is about: those its request changes the answer of, *)
(* and the list it is shown on; no query for a request no page shows.      *)
NoQuery == "no query"
Written(a) ==
  {q.key : q \in {x \in AllQueries : x.tables \cap Services[a].writes # {}}}
    \ (Derived \ ButtonOf[a].tells)
About(a) ==
  LET keys == Written(a) \cup ({ButtonOf[a].list} \cap {q.key : q \in AllQueries})
  IN  IF keys = {} THEN {NoQuery} ELSE keys

(* What is to know of a button and a query: the views with the one and     *)
(* those that mount the other, the pages these belong to, and the views a  *)
(* behaviour goes through: those with the button, those of its page that   *)
(* mount the query, and one of another page that does (the other pages are *)
(* alike).                                                                 *)
Focus(a, key) ==
  LET homes   == {v \in DOMAIN Views : ButtonOf[a] \in Buttons(v)}
      readers == {v \in DOMAIN Views : key \in Reads(v)}
      local   == {v \in readers : \E h \in homes : Page(v) = Page(h)}
      away    == readers \ local
  IN  [act |-> a, query |-> key, button |-> ButtonOf[a], service |-> Services[a],
       changes |-> key \in Written(a), homes |-> homes, readers |-> readers,
       near |-> {Elsewhere} \cup homes \cup local
                  \cup IF away = {} THEN {} ELSE {CHOOSE v \in away : TRUE},
       page |-> [v \in {Elsewhere} \cup homes \cup readers |-> Page(v)]]

act == focus.act
Clicked == focus.button
Service == focus.service
(* The request changes the answer of the query that is followed.           *)
Changes == focus.changes
Mounts(v) == v \in focus.readers
Shown == Mounts(view)
HasButton(v) == v \in focus.homes
(* The query that is followed is the list the button is shown on.          *)
Listed == Clicked.list = focus.query

Nothing == [row |-> "?", has |-> {}]
NoFetch == [stage |-> "idle", row |-> "?", has |-> {}]
Asked == [stage |-> "asked", row |-> "?", has |-> {}]
Unsent == [stage |-> "unsent", here |-> FALSE, over |-> "no", effect |-> FALSE]

DashInit ==
  /\ \E a \in DOMAIN ButtonOf : \E key \in About(a) : focus = Focus(a, key)
  /\ row \in IF Listed THEN Service.rows ELSE Service.rows \cap Clicked.shownIn
  /\ made = {}
  /\ moves = 0
  /\ view = Elsewhere
  /\ cache = Nothing
  /\ age = "fresh"
  /\ fetch = NoFetch
  /\ sent = [k \in 1..MaxClicks |-> Unsent]
  /\ told = {}
  /\ excuse = "none"

(* One of those states, for a dashboard on which nothing is done.          *)
DashRests ==
  /\ focus = Focus("pause", UseMyOffers.key)
  /\ row = "ACTIVE" /\ made = {} /\ moves = 0
  /\ view = Elsewhere /\ cache = Nothing /\ age = "fresh" /\ fetch = NoFetch
  /\ sent = [k \in 1..MaxClicks |-> Unsent]
  /\ told = {} /\ excuse = "none"

-----------------------------------------------------------------------------
(* The cache of queries.                                                   *)

(* A view that mounts the query anew fetches it when the answer is missing *)
(* or not fresh and no fetch is in flight.                                 *)
Enter(v, oldAge, oldFetch) ==
  IF /\ Mounts(v)
     /\ focus.page[v] = focus.page[view] => ~Shown
     /\ oldFetch.stage = "idle"
     /\ cache = Nothing \/ oldAge = "stale"
    THEN Asked ELSE oldFetch

(* The user opens a page, a tab or a form; a button's pending state is     *)
(* gone with the component that showed it.                                 *)
Go ==
  /\ \E v \in focus.near :
       /\ v # view
       /\ view' = v
       /\ fetch' = Enter(v, age, fetch)
       /\ excuse' = IF fetch' = fetch THEN excuse ELSE "none"
       /\ sent' = [k \in DOMAIN sent |->
                     [sent[k] EXCEPT !.here = @ /\ HasButton(v)]]
  /\ UNCHANGED <<focus, row, made, moves, cache, age, told>>

(* The server answers a GET, and the answer reaches the cache; or the GET  *)
(* and its one retry fail.                                                 *)
FetchReads ==
  /\ fetch.stage = "asked"
  /\ fetch' = [stage |-> "read", row |-> row, has |-> made]
  /\ UNCHANGED <<focus, row, made, moves, view, cache, age, sent, told, excuse>>

FetchArrives ==
  /\ fetch.stage = "read"
  /\ cache' = [row |-> fetch.row, has |-> fetch.has]
  /\ age' = "fresh"
  /\ fetch' = NoFetch
  /\ UNCHANGED <<focus, row, made, moves, view, sent, told, excuse>>

FetchFails ==
  /\ fetch.stage = "asked" /\ moves < MaxMoves
  /\ moves' = moves + 1
  /\ excuse' = "failed"
  /\ fetch' = NoFetch
  /\ UNCHANGED <<focus, row, made, view, cache, age, sent, told>>

(* staleTime passes; a query nobody has mounted is dropped in the end; the *)
(* prices are fetched again every thirty seconds while they are mounted.   *)
GrowsOld ==
  /\ cache # Nothing /\ age = "fresh"
  /\ age' = "stale"
  /\ fetch' = IF focus.query = UseCryptoPrices.key /\ Shown /\ fetch = NoFetch THEN Asked ELSE fetch
  /\ excuse' = IF fetch' = fetch THEN excuse ELSE "none"
  /\ UNCHANGED <<focus, row, made, moves, view, cache, sent, told>>

Forget ==
  /\ ~Shown /\ fetch = NoFetch /\ cache # Nothing
  /\ cache' = Nothing
  /\ age' = "fresh"
  /\ excuse' = "none"
  /\ UNCHANGED <<focus, row, made, moves, view, fetch, sent, told>>

-----------------------------------------------------------------------------
(* Buttons and requests.                                                   *)

Pending(k) == sent[k].stage \in {"asked", "done", "refused"}

(* The status the page shows: that of the cached list, or, when another    *)
(* query is followed, the status the row has.                              *)
ShownRow == IF Listed THEN cache.row ELSE row

(* A bound: the clicks followed are those into a request still unanswered. *)
Click(k) ==
  /\ sent[k].stage = "unsent" /\ (k > 1 => Pending(k - 1))
  /\ HasButton(view)
  /\ ShownRow \in Clicked.shownIn
  /\ Clicked.guarded => \A j \in DOMAIN sent : ~(Pending(j) /\ sent[j].here)
  /\ sent' = [sent EXCEPT ![k] =
       [stage |-> "asked", here |-> TRUE, effect |-> FALSE,
        over |-> CASE \E j \in DOMAIN sent : Pending(j) /\ sent[j].here -> "same"
                   [] \E j \in DOMAIN sent : Pending(j) /\ ~sent[j].here -> "other"
                   [] OTHER -> "no"]]
  /\ UNCHANGED <<focus, row, made, moves, view, cache, age, fetch, told, excuse>>

(* The service: accepts in some statuses, and leaves the row in one.       *)
Handle(k) ==
  LET next == IF Service.to = "same" THEN row ELSE Service.to
      effect == Service.again \/ next # row
  IN  /\ sent[k].stage = "asked"
      /\ IF row \in Service.from
           THEN /\ row' = next
                /\ made' = IF Changes THEN made \cup {k} ELSE made
                /\ sent' = [sent EXCEPT ![k].stage = "done", ![k].effect = effect]
           ELSE /\ sent' = [sent EXCEPT ![k].stage = "refused"]
                /\ UNCHANGED <<row, made>>
      /\ UNCHANGED <<focus, moves, view, cache, age, fetch, told, excuse>>

Over(k) == [sent[k] EXCEPT !.stage = "over", !.here = FALSE]

(* The good answer arrives: the hook invalidates, the form closes.         *)
Answer(k) ==
  LET tells  == focus.query \in Clicked.tells
      kept   == IF cache = Nothing THEN fetch.stage # "idle" ELSE ~Shown
      age1   == IF tells /\ ~(cache = Nothing) THEN "stale" ELSE age
      fetch1 == IF tells /\ Shown /\ ~kept THEN Asked ELSE fetch
      view1  == IF sent[k].here /\ Clicked.done # Stay THEN Clicked.done ELSE view
  IN  /\ sent[k].stage = "done"
      /\ told' = told \cup ({k} \cap made)
      /\ age' = age1
      /\ view' = IF Mounts(view1) \/ HasButton(view1)
                   THEN view1 ELSE Elsewhere
      /\ fetch' = Enter(view', age1, fetch1)
      /\ excuse' = IF fetch' # fetch THEN "none"
                   ELSE IF tells /\ fetch.stage = "read" /\ ~(told' \subseteq fetch.has) THEN "overtaken"
                   ELSE excuse
      /\ sent' = [j \in DOMAIN sent |->
                    IF j = k THEN Over(k) ELSE [sent[j] EXCEPT !.here = @ /\ HasButton(view')]]
      /\ UNCHANGED <<focus, row, made, moves, cache>>

(* A refusal, or an answer that is lost: the form shows an error and stays. *)
Complain(k) ==
  /\ sent[k].stage \in {"refused", "done"}
  /\ sent' = [sent EXCEPT ![k] = Over(k)]
  /\ UNCHANGED <<focus, row, made, moves, view, cache, age, fetch, told, excuse>>

(* The other party, a job, an administrator or another window.             *)
OthersMove ==
  /\ moves < MaxMoves /\ Listed
  /\ \E m \in Service.others : m[1] = row /\ row' = m[2]
  /\ moves' = moves + 1
  /\ UNCHANGED <<focus, made, view, cache, age, fetch, sent, told, excuse>>

DashNext ==
  \/ Go \/ FetchReads \/ FetchArrives \/ FetchFails \/ GrowsOld \/ Forget \/ OthersMove
  \/ \E k \in 1..MaxClicks : Click(k) \/ Handle(k) \/ Answer(k) \/ Complain(k)

DashSpec == DashInit /\ [][DashNext]_dashVars

-----------------------------------------------------------------------------
(* Changes of one's own that the code leaves on the screen as they were.   *)

(* The lists that a hook beside them does not tell: the marketplace when   *)
(* an offer of one's own changes, the code check after a delivery, the     *)
(* wallets after a checkout, the alerts after a transfer is screened, the  *)
(* users' list after a verification, whose two sides are two users, or     *)
(* after a change of one's own name, and the sessions after signing in     *)
(* anew: the cache outlives the sign-out.                                  *)
Gaps ==
  ({"createOffer", "pause", "resume", "close"} \X {"p2p-offers"})
    \cup {<<"deliverCode", "p2p-validation">>, <<"deliverCode", "p2p-code">>}
    \cup {<<"paySession", "wallets">>}
    \cup ({"walletToWallet", "bankTransfer"} \X {"fraud-alerts"})
    \cup ({"submitTier", "addDocument", "removeDocument", "finalize"} \X {"compliance-queue"})
    \cup ({"approve", "askMore", "reject"} \X {"kyc-status"}) \cup {<<"approve", "admin-users">>}
    \cup ({"register", "verifyOtp", "updateProfile"} \X {"admin-users"})
    \cup ({"login", "loginWithTwoFactor", "resetPassword"} \X {"sessions"})

(* Once the user was told that a request of theirs succeeded and no fetch  *)
(* is in flight, what a page shows contains the change: the invalidation   *)
(* of the hook reaches every list that changes, wherever it was mounted,   *)
(* left or fetched meanwhile.  Set aside are the Gaps above, a fetch that  *)
(* failed, and a fetch older than the change that react-query kept.        *)
OwnChangesShown ==
  \/ ~Shown \/ fetch # NoFetch \/ cache = Nothing
  \/ excuse # "none"
  \/ <<act, focus.query>> \in Gaps
  \/ told \subseteq cache.has

(* The requests whose button can be clicked again while they make a row.   *)
MayDouble == {"startSession", "addDocument"}

(* Of two clicks on one button with the first still unanswered, at most    *)
(* one has an effect, whatever the API does with the second: the button    *)
(* was disabled, or the second request finds the row moved.  Set aside are *)
(* MayDouble and a button that was left and shown anew.                    *)
OneClickOneEffect ==
  \A j, k \in 1..MaxClicks :
    j < k /\ sent[j].effect /\ sent[k].effect /\ sent[k].over = "same" => act \in MayDouble
=============================================================================
