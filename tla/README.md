# GlobaPay: a TLA+ model of the platform

GlobaPay is a NestJS backend over PostgreSQL (through Prisma) and Redis
(BullMQ), with a Next.js frontend.  Every service is a set of stateless request
handlers and a few scheduled jobs; the state is in the tables, and in what the
browser keeps of them.  There are no tests, and every handler has the same
shape: read rows, check them, and later write - sometimes in a
`prisma.$transaction`, always by primary key, never with the checked condition
repeated in the `WHERE`.  No call chooses an isolation level, so everything runs
at READ COMMITTED.  What can go wrong is therefore in the interleavings, the
crashes between two commits, the jobs that overlap with requests or with
themselves, and the pages that show something older than what they act on.
That is what these modules are for.

All source paths are relative to `src/`; `backend/src` is left out where the
service's name is enough.

## 1. Inventory

| Component | State | Operations | Talks to | What is hard | What makes it correct |
|---|---|---|---|---|---|
| Wallet ledger (`wallets.service.ts`) | `Wallet.balance`, `frozenBalance`; `LedgerEntry` with unique `reference` | `applyLedgerMovementInTx`, `holdInFrozenInTx`, `releaseFrozenOnlyInTx`, `releaseFrozenToBalanceInTx`, `getOrCreateWallet` | called by every money service, inside their transactions | read-compute-write without a lock, lock order, unique references in concurrent transactions, rollback | no overdraft; both legs or none; one entry per reference; the journal explains the balance |
| Transfers (`transfers.service.ts`, `transfers/queue`) | `Transfer.status`, `providerReference`; the job in Redis | wallet-to-wallet, conversion, bank transfer, `settleExternalTransfer`, `cancelScheduled` | ledger, fees, FX, BullMQ queue, mock bank | three commits per request, at-least-once settlement jobs | debited before in flight; settled once; refunded exactly when it failed |
| Scheduled transfers (`runDueRecurrences`) | template `Transfer`, `RecurrenceRule.nextRunAt`, `isActive` | creation, cancellation, a tick every minute | transfers | ticks overlap or die, cancellation against a tick | every occurrence once, none late, none after cancellation |
| P2P and escrow (`p2p.service.ts`) | `P2POffer.availableQuantity`, `P2POrder.status`, the seller's `frozenBalance` | offer, order, deliver, confirm, dispute, resolve, hourly expiry, review | ledger | stale status checks; buyer, seller, staff and the job acting on one order | the hold leaves once, for its reason; no overselling; a silent seller's buyer is refunded |
| Crypto orders (`orders.service.ts`, `crypto-prices.service.ts`) | `Order.status`, `ExchangeRate` | place, cancel, fill, expire, price tick | FX, ledger | price read twice, cancel against fill, overlapping ticks, the `catch` that cancels | money moves at most once and not before the trigger is reached; a final status is final and true |
| Watchlist, alerts (`watchlist.service.ts`) | `PriceAlert.isTriggered` | create, delete, check every 30 seconds | FX, mail | flag and mail are two steps, rounds overlap and die | an alert is told once, where there is an address to tell it to |
| Cards (`cards.service.ts`) | `VirtualCard.status`, limits, `CardTransaction` | issue, freeze, unfreeze, terminate, limits, purchase | ledger | limit summed before the purchase; status transitions without guard | terminated is final (it is not); spending stays within the limit |
| Merchant, checkout (`merchant.service.ts`) | `Invoice.status`, `PaymentLink.isActive`, `CheckoutSession.status` | links, invoices, sessions, pay, void, webhook | ledger, HTTP | two sessions of one invoice, void against pay, two debits of one payer at once, lost webhook | an invoice is paid once, and a void one not, while no two requests are at work on it |
| KYC (`kyc.service.ts`, `screening.service.ts`) | `KycSubmission.status`, documents, `User.kycTier` | submit, upload, remove, finalize, review | screening, audit | duplicate submissions, review against finalize, withdrawal against approval | the tier a user has was approved, on documents that are there |
| Sessions (`auth.service.ts`, `jwt.strategy.ts`; `lib/api.ts`, `lib/auth-context.tsx`) | `RefreshToken`, `Session.revokedAt`; the tokens in local storage | sign-in, second factor, refresh, sign-out, sign-out everywhere, password reset | JWT | a refresh is four commits, two requests refresh at once, refresh against sign-out everywhere | one session per sign-in; a cut ends all; nobody is signed out by a refresh (one is, when the second try is refused) |
| Registration, verification (`auth.service.ts`, `otp.service.ts`) | `User.status`, `OtpCode` | register, resend, verify, `updateStatus` | mail | attempts counted after they are read; the status written from an older read | a code is guessed at a bounded number of times; a suspension stands |
| Credentials (`auth.service.ts`, the security page) | `twoFactorSecret`, `twoFactorEnabled`, PIN, reset tokens | setup, confirm, disable, set and change PIN, forgot and reset password | mail | several tabs, each showing the profile of another time | two factors only with a proven secret; a PIN set once; a link used once |
| FX, fees (`fx.service.ts`, `fees.service.ts`, `platform-settings.service.ts`) | `ExchangeRate`, `FeeRule` | `getRate`, `calculateFee`, the settings | - | inverse and bridge, precedence of rules, clamps, fallback | the closest rule that fits, within that rule's bounds; nothing where none fits (it is not so); there and back is where one was, to the last digit |
| Dashboard (`frontend/hooks`, `frontend/app`, `lib/query-provider.tsx`) | react-query's cache, what a page shows, requests in flight | every page, tab, form, button and query | every service | invalidation against fetches in flight, pages left and opened, double clicks | one's own change is on the screen; one click, one effect |
| Gift-card checks, beneficiaries, AI, audit log, analytics, settings | advisory or independent rows | requests and queries of the dashboard | - | little | the page shows them |
| Mail, configuration, HTTP layer, landing page, deposit addresses | none that anything above reads | - | - | - | - |

PROJECT.json lists each of them with its status, and every hazard with its line
and the property that would catch it.

## 2. Plan

Done, in this order: the ledger and its proofs; the escrow; bank transfers;
recurrences; crypto orders; cards and checkout on one wallet; the dashboard;
sessions, verification, credentials and KYC; alerts, fees and rates; proofs
about bank transfers, verification and credentials; proofs about the ownership
of references and the holds of the ledger, its refinement, the escrow and its
refinement, the orders, the payments, recurrences, alerts, prices, tiers and
sessions; proofs about the dashboard, its tables included.

Left: the figures of the reports (health score, categories, fraud rules) as
operators against reference definitions, and the calendar of `addInterval`.

## 3. The modules

`Actors` holds what the account modules share: `None` and the set `Calls` of
handlers at work at a time.

Proofs are kept in modules of their own: `WalletLedgerProofs`,
`P2PEscrowProofs`, `CryptoOrdersProofs`, `PaymentsDeskProofs` and `SessionsProofs`
each for the module they are named after, `PlatformProofs` for the dashboard,
`Verification`, `Credentials`, `Kyc` and the types of `MCPlatform`, `JobsProofs`
for `BankTransfers`, `Recurrence`, `PriceAlerts` and `Pricing`, and `SumTheorems`
for the facts about sums and induction that several of them need.  Section 5
describes them.

### WalletLedger, AtomicLedger, WalletPrograms

A transaction `t` is a *program*: a sequence of movements with their wallet,
amount and ledger reference.  `WalletPrograms` writes the transaction of each
money service as such a sequence, in the order of its calls.  A credit or debit
is three statements - `ReadWallet` (line 164, with the check of line 173),
`UpdateBalance` (177), `CreateLedgerEntry` (182) - between which other
transactions run; `MoveFrozen` is one, because `increment` and `decrement` are
computed by the database.

| Variable | Code |
|---|---|
| `committed[w]` | the last committed version of the wallet row with its ledger entries (`journal`) |
| `draft[w]`, `holder[w]` | the version an unfinished transaction has written, and that transaction: PostgreSQL's row lock |
| `index[r]` | the unique index on `LedgerEntry.reference`: who inserted `r` |
| `prog`, `pc`, `step`, `target` | the callback of each transaction: its calls, the next statement, the call it is at, `newBalance` |

`Rollback`, `CanLock`, `View`, `WaitsFor` and `DeadlockVictim` are PostgreSQL's
READ COMMITTED (marked external in the map).  `Expire` is Prisma's transaction
timeout or a lost connection, possible at any point.

`AtomicLedger` is what callers assume: a whole program applied in one step,
if every debit is covered and every reference new, or nothing.

### P2PEscrow, EscrowPromise

Each handler is two actions: the read with its status check (`ReadOffer`,
`ReadOrder`, into `job[k]`) and the later write (`SettleCryptoOrderInstantly`,
`HoldGiftCardOrderInEscrow`, `DeliverGiftCardCode`, `ConfirmDelivery`,
`RaiseDispute`, `ResolveDispute`).  The write does not look at the status again,
as in the code.  The hourly job is `FindOverdue` (its `findMany`, into `sweep`)
and one `ExpireOrder` per row; `SweepFails` is the exception that leaves its
loop.  A wallet movement is represented by its ledger reference `<<order, leg>>`
in `refs`: the unique index refuses a leg that is already there, and that is
the only thing that stands between a stale check and a second payout of the
same kind.  The price of a unit is one.  PAUSED stands for CLOSED too.

`EscrowPromise` says that an order's money is held, and then leaves the hold
once, for the seller or the buyer.

### BankTransfers

`Debit`, `Initiate` and `Enqueue` are the three commits of `createBankTransfer`
(and of `executeRecurrenceInstance`), with `HandlerDies` in between.  The queue
delivers a job at least once: `Throw` repeats it up to `attempts: 3`,
`AttemptFails` is an error before or *after* the attempt's own commit, and
`Stall` gives the job of a worker that has lost its lock to another one while
the first may go on.  `AskProvider` may answer differently each time, as the
mock provider does.

### Recurrence

A tick (`tick[k]`) is `StartTick` (the `findMany` of due rules), then
`SpawnInstance` and `AdvanceRule` per rule.  `AdvanceRule` writes the values
computed from what the tick read.  Nothing keeps two ticks from overlapping.
`tried`, `spawned` and `twice` record what happened to each occurrence,
`overlap` and `deaths` what went wrong.  One unit of time is one interval.

### CryptoOrders

A sweep (`sweep[k]`) is `FindOpenOrders` (the `findMany`) and then, per order,
`ExpireOrder`, `SkipOrder`, or `TriggerOrder` followed by `FillOrder` or by
`RejectFill` and `CancelRejected`, the `catch` that cancels.  `ReadOwned` and
`CancelOrder` are the two halves of a cancellation.  A fill's money is its
ledger reference (`paid`): a second fill of the same order is refused by the
unique index and ends in the `catch`.  A fill may also be refused at any time
for want of balance.  `raced` records the orders that two actors held at once,
`met` the orders whose trigger a price has reached.  An error of a fill's
transaction means that it rolled back: the loss of the answer to a commit is
not modelled here.  A pair without a rate, which a sweep skips, is not either.

### PriceAlerts, Pricing

`checkAlerts` in rounds: `ReadPending` (its `findMany`), then per alert
`CheckPrice`, `MarkTriggered` and `SendMail`, while `MovePrice` moves the price,
`DeleteAlert` takes an alert away and `Die` ends every round at once.  An alert
is made by a user with an e-mail or by one who registered with a phone number
(`email`): `SendMail` tries no mail for the second, whose row is marked all the
same.  `lost` holds the alerts whose mail failed or whose round died after the
mark, `shared` that two rounds had read one alert.

`Pricing` has no handlers of its own: `SetFeeRuleActive`, `UpdateFeeRule` and
`UpsertExchangeRate` (the settings of the administrator) run through the tables,
and `CalculateFee` and `GetRate` are the pure functions of the services on them,
written as the code computes them (`Preferred`, `Candidates`, `Leg`).  Each rule
has its own `bounds`; `updateFeeRule` can set a bound, to zero too, and never
take a maximum away.  Where no rule fits, the code takes `candidates[0]`, which is
any of them in no stated order: `Applied` is the set of rules it can be.  A rate
is a fraction of two integers, and `Rounded` is what a `Decimal` division or
product does to it: half up to a fixed number of digits.  `Least` is the least
number of so many digits (ten for two digits in the runs, 10^19 in the program),
and `Powers` the powers of ten by which a rate is brought to that many digits.
`PowersSuffice` is checked of the runs' constants; a `Decimal` has every exponent
the program's rates need.

### PayerWallet, VirtualCards, Checkout, PaymentsDesk

`PayerWallet` is the payer's balance and the number of requests that have
arrived.  A debit is two steps, as in the ledger: `ReadBalance` reads the balance
without a lock, into `seen`, and makes the check (lines 164 and 173), and `Debit`
writes the balance computed from what was read (177) and commits.  The UPDATE and
the commit are one step because the row stays locked between them and nobody reads
what has not been committed.  `overlapped` records that two transactions had the
balance read and not written at a time: the one that writes last then undoes the
other's debit.  `VirtualCards` and `Checkout` extend this module; `PaymentsDesk` lets
either take a step.

In `VirtualCards` a purchase is `ReadCard`, `CheckLimit`, `BeginPurchase` (the
debit's read) and then `Approve` or `Decline`.  `ReadUnfreeze` and `Unfreeze` are
the two halves of an unfreeze; the other operations are one update by id
(`UpdateCard`).  `disturbed` records the purchases whose card another request used
or changed meanwhile, `gone` the cards terminated while no unfreeze was in
progress.

In `Checkout`, `ReadPayable` / `CreateCheckoutSession`, `ReadInvoice` /
`VoidInvoice` and `ReadSession` / `BeginPayment` / `PayCheckoutSession` are the
reads and the write of three handlers.  A payment's ledger references are its
session's (`posted`).  `proceeds` is what the merchant's ledger entries add up to.
The merchant's balance is not kept: its credits overlap as the debits do.
`DispatchWebhook` is the one attempt after the commit, for a merchant that has
given a `webhookUrl` (without one, `merchant.service.ts:291` returns at once).
`contested` records the invoices for which two open sessions, or a void and a
payment, overlapped.  The payer is not the merchant.

### Sessions

A *pair* is a `RefreshToken` row and the `Session` row that points to it.
`refresh` is five actions (`ReadToken`, `RevokeToken`, `RevokeSession`,
`ReissueToken`, `ReissueSession`), because it is a read and four commits without
a transaction; a sign-in ends in two of them.  The browser half is `apiRequest`:
`Send` takes the access token that is stored, `Denied` starts a refresh with the
refresh token that is stored *by then*, `Retry` stores the new pair and tries
again, `ClearTokens` and `Rejected` are its `catch` and its errors.  A request that
is tried anew and refused for a reason of its own ends in that same `catch`:
`Rejected` then clears the tokens that the refresh has just stored, and records it
in `turnedDown`, which excuses it in `KeepsSignedIn` and in nothing else.  `Lose` is
an answer that does not arrive or a handler that dies.  `AccessExpires` and `Lapse`
are the two expiries.

`caught` records the pairs made by a handler that a cut (a sign-out of all
devices, a password reset) overlapped, `contested` the sign-ins one of whose
pairs two requests refreshed at a time, `disturbed` that the user or the network
ended the pair that is stored.

### Verification

`Register` / `CreateAccount` meet at the unique address; `InvalidateCodes`,
`CreateCode` and `MailCode` are the steps of `OtpService.issue`, `ReadCode` and
`WrongCode` or `RightCode` those of `verify`, `ReadUser` and `Activate` the two
statements of `verifyOtp` after it.  `ReadStatus` and `Decide` are
`updateStatus`.  `issuedTwice` and `decidedAcross` record the two overlaps the
properties set aside.

### Credentials

`tab[t]` is a tab of the security page: its call in progress, and what its panel
shows, which decides what the user can do next (`Offered`).  A call is a read
with its check, and a write; hashing and code checking lie between them.
`tabsCrossed` and `doneTwice` record calls of two tabs that overlapped, or a tab
that still offered what another had done.

### Kyc

`CheckTier`, `CheckNoneOpen` and `CreateSubmission` are the three statements of a
submission, `ReadForUpload` / `AddDocument`, `ReadForRemoval` /
`RemoveDocument`, `ReadForFinalize` / `Finalize` and `ReadForReview` / `Review`
read and write of the others; `Approve` is the one transaction.  A document is
told apart by the requirement of the tier it meets.

### DashboardServices, DashboardHooks, DashboardPages, Dashboard

The first three are data, and are long for that reason: one definition per
service request (the statuses it accepts, the one it leaves, the tables it
writes), per hook (the key, the tables of the answer, the keys it invalidates)
and per page, tab or form (the queries it mounts, the buttons it shows, for
which status, and whether they wait for their answer).  `Dashboard` is the
machine that runs them: react-query's cache and fetches (`FetchReads`,
`FetchArrives`, `FetchFails`, `GrowsOld`, `Forget`), the user who opens and
leaves pages (`Go`) and clicks (`Click`), the service (`Handle`), the answer with
its invalidations (`Answer`), and everybody else (`OthersMove`).  A behaviour
follows one button and one query its request changes (`focus`, computed once),
which is exact for the two properties, each about one button and one query.
The services and the pages are put together from their tables by `Together`,
which keeps each entry as it is; no two tables have one in common.

### MCPeers, MCExchange, MCJobs, MCPlatform

These four put parts side by side so that a run asks the questions of all of them
at once: each behaviour is one of one part (`part`), chosen at its beginning, and
the others stay as they began.  They are harnesses and make no claim that the parts
do not interact; what a part needs of another (the unique references and holds of
the ledger, the request before a job) is in the part's own module.  They list the
next-state relations disjunct by disjunct and add nothing to them, and the fairness
of each part is that of its own specification: a part that rests has nothing
enabled, or nothing that a property of it speaks of.

## 4. What the runs show

| Run | Specification, bounds | Properties | What it shows |
|---|---|---|---|
| `peers` | the ledger's `FairSpec`: 3 transactions of 2 to 4 programs each, 2 wallets, balances up to 4 | `TypeOK`, `NeverNegative`, `EntriesSound`, `AllOrNothing`, `FrozenExact`, `EveryTxEnds` | what *every* interleaving keeps, lost updates included; opposite lock orders, a shared reference ("order") and self-payments occur |
| | the escrow's `SerialSpec`: 1 request or sweep at a time, 2 orders, gift cards and crypto | `NotOversold`, `KeepsPromise`, `SilenceEnds` | the promise is kept when nothing overlaps, and a silent seller's order ends |
| `ledger_audit` (violation) | `Spec`, as in `peers` | `Auditable` | with overlap, an update is lost and the entries no longer add up |
| `escrow` | `EscrowSpec`; 2 workers, 2 orders, a gift-card offer (stock 2) and one for crypto (stock 1), order size 1 to 2, symmetric | `AccountsTrue`, `PayoutsJustified` | all interleavings of two handlers and the sweep on shared orders and two offers |
| `jobs` | `JobsSpec`; 2 transfers, 2 workers, 1 death, 3 errors, 2 stalls; 2 rules, 2 ticks, 1 death, 4 instants; 2 alerts, 2 rounds, 2 price moves; all tables of 4 fee rules, each with its own bounds, and of 6 rates of 2 values, rounded to 2 digits | `SettlementSound`, `SettledForGood`, `Settles`; `OccurrencesTrue`, `CancelledStaysOut`, `RulesFire`; `AlertsSound`; `PricingTrue` | settlement under every combination of the faults; ticks and rounds that overlap and die; fee and rate on every table |
| `bank_death` (violation) | `FairSpec`; 1 transfer, 1 death | `AlwaysSettles` | a request that dies after the debit strands the money |
| `recurrence_once` (violation) | `FairRecurrence`; 1 template without a rule | `ScheduledFires` | a one-off scheduled transfer never fires |
| `exchange` | the ledger's `ExclusiveSpec`: 3 transactions, 4 wallets, up to 4 legs | `Auditable`, `AtomicSpec` | without overlap on a wallet, the ledger is the atomic one |
| | the orders' `FairOrders`: a limit, a stop and a market order, 2 sweeps, 2 prices, 1 death | `OrdersSound`, `FilledOnTrigger`, `ClosedForGood`, `NeverStuck` | cancellation, expiry, fill and a second sweep on the same orders while the price moves |
| `payments` | `Spec`; 1 card, 2 purchases, 1 invoice, 1 link, 2 sessions, 2 payments in progress; any 4 requests | `CheckoutSound`, `BalanceExplained`, `WithinLimit`, `WebhookTried` | cards and checkout interleaved on one wallet, debits that overlap included |
| `cards_terminated` (violation) | as `payments` | `TerminatedForGood` | terminate, freeze, unfreeze: the card is active again |
| `fee_fallback` (violation) | `PricingSpec`; 2 currencies, 1 rail | `ZeroFeeWithoutRule` | a transfer in dollars pays by the rule for naira |
| `signed_out` (violation) | `SessionsSpec`; 2 requests, 1 sign-in, 3 pairs, 1 fault | `SilentRefresh` | the refresh succeeds, the second try is refused, and the user is signed out |
| `platform` | `Spec` of `MCPlatform`; every button with every query it changes, 2 clicks, 1 move or failed fetch; 2 requests, 1 sign-in, 3 pairs, 1 fault; 2 handlers, 2 codes, 1 attempt, 1 decision; 2 tabs, 2 secrets, 2 PINs, 2 links; 2 submissions, 1 withdrawal | `TypeOK`; `OwnChangesShown`, `OneClickOneEffect`; `OneSessionPerSignIn`, `SignedOutEverywhere`, `KeepsSignedIn`; `CodesSound`, `StatusDecided`; `CredentialsSound`; `TiersEarned`, `DecisionStands` | the account and the screen it is seen on |

A property named `...Sound` or `...True` is the conjunction of the named parts
above it in its module, with the shapes of the module's variables where no
`TypeOK` is listed.

Deadlock is not checked: transactions, transfers, templates, orders, clicks and
requests are finite in number, and the system stops when all are done.  The
handlers of `platform` are interchangeable, as are the workers and orders of
`escrow`; no other run uses symmetry, and none with a liveness property does.

**Why the bounds are enough.**  The ledger's hazards need two transactions on
one wallet, and a third to hold a lock or a reference the two want; deadlock
cycles of length two and three occur.  An escrow race needs two actors on one
order, a wrong sum needs two orders on one seller.  A job that fails three
times needs three errors, a job that is given up as stalled needs two stalls,
and two transfers on two workers let a job wait.  A rule with two occurrences,
one whose end precedes its start, and one more instant than the last occurrence
exercise each branch of `AdvanceRule`.  Two prices put each trigger on either
side, two sweeps and a cancellation are the three actors that can hold an order.
Four requests suffice for two sessions of an invoice and their payments, or one
session, its payment and a void, or a limit, two purchases and a termination, or a
purchase beside a payment whose debits overlap; records are created (issued,
invoiced) without counting as one of them.  Three pairs are a
sign-in refreshed twice, or by two requests at once and then again; with two
handlers one is always between the statements of the other, and three claim
nothing new of two rows.  One permitted attempt and two handlers already pass
the limit by one, which is what `AttemptsBounded` counts.  Two clicks are the
first and the one that comes before its answer; since a behaviour follows one
button and one query, more of either would only repeat it.  A fee table with a
rule for each of rail, currency, both and neither has every precedence, and
three currencies have every direct, inverse and bridged rate.  Minimum and maximum
can each be left, set to zero, or set to a value that bites, the minimum above the
maximum among them.  Two digits and the rates 3 and 6 round both ways: a third up
and down again is not one, and a bridge rounds four times.

**Fairness.**  `EveryTxEnds` assumes that a running callback goes on and that
PostgreSQL's deadlock detector runs; nothing makes requests arrive or timeouts
fire.  `SilenceEnds` assumes that requests end (the process answers or dies),
that the hourly cron job fires, and that the refund of one order does not fail
for ever.  `Settles` assumes that a live request goes on and that BullMQ's
workers take jobs; no fairness is put on errors, deaths or stalls, which are
bounded.  `RulesFire` assumes time and the minute tick, `NeverStuck` the
sweep every 30 seconds, `WebhookTried` that a handler that lives goes on.  The
properties of `platform` are safety properties and assume none.

**Disagreements found while modelling.**

- *Audit* (`ledger_audit`): the ledger "so every movement is auditable"
  (`wallets.service.ts:133-134`, README.md:15-18) is exact only when requests
  on a wallet do not overlap.  The absolute write of a value computed from an
  unlocked read loses the movement in between; its entry stays.
  `LastEntryAgrees` shows why `balanceAfter` cannot reveal it.
- *Stranded transfers* (`bank_death`): README.md:33-36 promises success or
  refund; nothing looks for rows left PENDING or PROCESSING.
- *One-off schedules* (`recurrence_once`): only rules are ever looked at, and
  only recurring templates have one.
- *Terminated cards* (`cards_terminated`): `unfreeze` refuses a terminated card
  ("A terminated card cannot be reactivated", `cards.service.ts:58`), `freeze`
  does not, so freezing first opens the way.
- *Fees without a rule* (`fee_fallback`): `calculateFee` "falls back to zero fee if
  nothing matches" (`fees.service.ts:9-12`), but it takes `candidates[0]` (line 38),
  a rule made for another currency, with that rule's fee and bounds.
- *Signed out by a form* (`signed_out`): the `catch` of `apiRequest`
  (`api.ts:81-84`) covers the second try as well as the refresh.  A request that
  came with an expired access token and is refused for a reason of its own - a
  balance that does not suffice, a form that does not validate - clears tokens
  that are good, signs the user out and reports the 401 in place of the reason.
  The comment at lines 63-66 calls the refresh silent, "so components don't need to
  think about token expiry".

Known and described by the conditions of the properties rather than by a run of
their own:

- A stalled settlement job can complete *and* refund a transfer (`Calm` in
  `SettledExactly`); overlapping ticks can pay an occurrence twice (`PaidOnce`);
  overlapping requests can pay an escrow out twice (`KeepsPromise` holds of
  `SerialSpec` only); an order that a second sweep or a cancellation held can
  end CANCELLED with its money moved (`raced`).  A fill reads the price again, so
  it may be worse than a limit by then; what holds is that the trigger was
  reached (`FilledOnTrigger`).
- Two sessions opened for one invoice before either is paid can both be paid
  (`contested`), and two purchases at once can exceed a card's limit
  (`disturbed`).  Two debits that overlap cost the payer only one of them
  (`overlapped`), the lost update of `ledger_audit` where users meet it: two
  sessions paid at once, or a purchase beside a payment.  A void invoice can still
  be paid, which makes it PAID: no text of the repository says otherwise.
- A refresh or a sign-in at work during a sign-out of all devices leaves a live
  session (`caught`); two requests that refresh side by side leave two sessions,
  or sign the user out (`contested`, `disturbed`).
- `setupTwoFactor` called from a tab that shows an older profile replaces a
  proven secret while two factors stay on, against the comment at
  `auth.service.ts:463-464` (`tabsCrossed`).  Two tiers' or one tier's approvals
  that cross leave a tier below the highest that was approved
  (`submittedTwice`, `crossed`).
- Two rounds on one alert mail twice; an alert whose mail failed is marked all the
  same (`shared`, `lost`).  The alert of a user who registered with a phone number
  is marked with nobody told (`watchlist.service.ts:109`), though README.md:47-49
  promises "price alerts that email when a target is crossed"; `ToldOnce` speaks
  of users with an e-mail.
- The comment at `fees.service.ts:32` names the rule of the rail and the currency,
  then of the rail, then of the type; the code also tries the rule of the currency
  alone before that of the type (line 36).  A maximum below the minimum wins, because
  it is applied last; `FeeOfClosestRule` says so.
- An inverse rate is rounded (`fx.service.ts:37`, `63`), so a rate and the rate back
  do not multiply to one.  `RoundTrip` says how far off they can be: half of the last
  digit, and five halves over the bridge.
- `Gaps` in `Dashboard` lists the pages that go on showing what the user has
  changed, the cache outliving a sign-out among them; `MayDouble` the buttons
  that make two rows of two clicks.  The merchant page promises to show an API
  key once (`merchant/page.tsx:50`), and the refetch of `use-merchant.ts:58` takes
  the form that would show it away; the key is not part of the model.

## 5. What is proved

Every invariant, action property and refinement that a passing run checks is a
theorem about the part it belongs to, for every value of the constants; only the
liveness properties, named at the end of this section, are not.  The runs check
the same formulas on their instances, and the inductive invariants were checked
as invariants of the small instances before they were proved.

Each proof has the same outline: an inductive invariant, one lemma for what the
actions have in common, one for each action or group of actions that disturbs
the same part of it, one for the step, and a theorem whose temporal steps are by
PTL from `Init => Inv`, `Inv /\ [Next]_vars => Inv'` and `Inv => property` (or
`Inv /\ [Next]_vars => A`).

**Assumptions.**  The `ASSUME` of a module says what its constants are: bounds
are any numbers, sets are any sets, `None` is none of what it stands beside.  A
few say more: the offers are not empty; stock, the largest order, a rate
and the permitted attempts are positive; invoices and links are different
things; a template is first due at an instant of the model.  The handlers of the
account modules, the requests, the rounds and the tabs at work at a time are
finite in number.  None mentions how many there are of anything.  That a set
which is not bounded beforehand - the orders placed, the purchases made, the
transactions that have run - is finite is proved of every reachable state where a
sum ranges over it.

**Sums and induction.**  The provers cannot instantiate the library's induction
theorems, which take an operator.  `SumTheorems` states induction over *sets*
instead: a property of numbers is the set of the numbers that have it, and
`LeastNatural`, from the well-foundedness of `<`, says that a non-empty set of
them has a least (`SetInduction`, `SubsetInduction`).  From these follow the
facts about `SumFunctionOnSet` that books need: the sum over a finite set is an
integer, changes by what is added or removed, and is the same for functions that
agree (`SumAdd`, `SumRemove`, `SumSame`, `SumPart`).

### The ledger (`WalletLedgerProofs`)

For every set of transactions, wallets, references, opening balances and
programs:

- `TypeCorrect`: `Spec => []TypeOK`.  `TypeOK` alone is not inductive: that a
  transaction in the middle of a movement has a reference to insert needs its
  step to be in range and at a CREDIT or DEBIT, and every such call of its
  program to have a reference (`ProgramsOK`); `Typed` is the conjunction.
- `BalancesSound`: `Spec => [](NeverNegative /\ LastEntryAgrees)`.  The check
  at line 173 is made on a value that may be stale, so the argument is not that
  the balance read was current.  It is that the value *written* is the value
  *checked*: `RowsOK` says that a row nobody has locked is its committed
  version, that between its UPDATE and its INSERT a transaction has the row
  locked at the balance it is about to enter (`InsertOK`), and that outside
  that interval the last entry of the newest version states its balance
  (`RowOK`).  A commit is outside it, so the committed version inherits both.
- `LedgerSound`: `Spec => []EntriesSound`, and `TransactionsAtomic`:
  `Spec => []AllOrNothing`.  `JournalsOK` says who owns what: the committed
  journal of a row is the beginning of its newest one and holds only references
  of transactions that committed (`CommittedPart`); an entry above that is of
  the transaction that has the row locked (`Owned`); no reference is in two
  places (`DraftUnique`); and every leg a transaction has got past is in the
  index under its name and in a row, in one it has locked while it runs, in the
  ledger once it committed (`LegsOK`).  A rollback gives up the index rows and
  the drafts together, which is why it leaves nothing.
- `HoldsExact`: `Spec => []FrozenExact`.  `increment` and `decrement` lose no
  update because the row they are computed from is locked: the version a
  transaction has locked is ahead of the committed one by the holds and releases
  it has made so far (`SoFar`), and on a wallet it has not locked it has made
  none (`HoldsOK`).  A commit moves that sum from one side of the equation to
  the other.
- `ExclusiveAuditable`: `ExclusiveSpec => []Auditable`.  `ChainsOK` adds that
  two running transactions touch different wallets (`Separate`), so the row a
  transaction has read is the row it writes (`WriteOK`), and its entry
  continues the chain (`EntryOK`).
- `ExclusiveImplementsAtomic`: `ExclusiveSpec => AtomicSpec`, the refinement.
  The atomic ledger's state is the committed rows, the references of committed
  transactions and who committed or was rolled back (`Account`, `Used`,
  `Outcome`).  A commit is `Apply`, a rollback of any cause is `Refuse`, all else a
  stutter.  `AloneOK` makes a commit `Apply`: what an unfinished transaction
  sees of its wallets is what the first movements of its program make of the
  committed ones, each of its debits so far covered; `RefsOK` adds that its
  references so far are different and are all it has in the index.

### The escrow (`P2PEscrowProofs`)

For any handlers, orders, offers and sizes:

- `BooksTrue`: `EscrowSpec => []AccountsTrue`, for *every* interleaving.  The books
  (`FrozenAccounted`, `StockAccounted`) are sums over the orders placed, so a step
  is right when the sum changes by what the row changes by.  `OrdersExist` is
  what makes it so: a handler that creates an order has one nobody else has, all
  other work is on an order that is there, and a leg in `refs` is of such an
  order.  A payout adds one leg that was not there - the unique index - and
  takes that order's size from the hold.
- `PayoutsHaveReasons`: `EscrowSpec => []PayoutsJustified`.  The status a handler has
  read may be stale, but the *reason* it read does not go away: `LegReason` is
  stable under every step, and whoever has an order in hand, handler or sweep,
  has the reason of the leg it is about to write (`Reasons`).
- `NeverOversold`: `SerialSpec => []NotOversold`, and the refinement
  `PromiseKept`: `SerialSpec => KeepsPromise`.  With one request or sweep at a
  time what was checked still holds at the write (`JobFits`), and the hold of a
  seller is that of the orders whose money is held, none of which has been paid
  out (`HeldAccounted`, in `Serial`).  Then each write is the step of
  `EscrowPromise` its name says.  Neither uses the fairness of `SerialSpec`.

### Crypto orders (`CryptoOrdersProofs`)

For any orders, sweeps, prices and deaths: `FilledMeansPaid` (`OrdersSpec =>
[]OrdersSound`), `FillsWaitForTrigger` (`OrdersSpec => []FilledOnTrigger`) and
`ClosedStaysClosed` (`OrdersSpec => ClosedForGood`).  The writes of a sweep are
blind; what stands in for a lock is `HeldOnce`: an order that two actors never
held at once (`raced`) has at most one holder and is OPEN as long as it has one.
Hence the one that writes finds it open, and FILLED and paid say the same.
`MetTrue` ties a sweep between trigger and fill to a price that was there: the
rate may have moved since, which is why the theorem is about `met` and not about
the price of the fill.

### Cards and checkout (`PaymentsDeskProofs`)

For any cards, purchases, sessions, payments, amounts and limits, interleaved on
one wallet:

- `BalanceAlwaysExplained`: `Spec => []BalanceExplained`.  The approved
  purchases and the paid sessions are finite sets, and each commit adds the amount to
  one of the sums and writes a balance computed from one read before.  The wallet's
  invariant says that a balance that was read is no less than the balance of now
  and, while no two debits have been open at a time, the same.  What is written is
  then never below what the records leave, and equal to it without overlap.
- `CheckoutHolds`: `Spec => []CheckoutSound`.  That a session is paid once is the
  unique index; that an invoice is, needs `Uncontested`: one session at most, no
  payment while a void has the invoice in hand, and PAID exactly when its
  session is.
- `PurchasesWithinLimit`: `Spec => WithinLimit`.  `Undisturbed` carries what
  `CheckLimit` saw to `Approve`: the purchase is alone on its card, the card is
  as it read it, and there is still room.

### The account (`PlatformProofs`, `SessionsProofs`)

For any number of requests, codes, permitted attempts, decisions, tabs, secrets,
PINs, links, submissions, sign-ins, pairs, cuts and faults:

- `GuessesBounded`: `VerificationSpec => []CodesSound`.  The attempts are
  compared before they are counted, so the limit itself is not an invariant.
  What is kept is that the attempts counted and the requests between check and
  count are together fewer than `MaxAttempts` and the number of requests
  (`RoomForGuesses`), by the cardinalities of the sets `Checking(c)`.  That
  only one code is good comes from `IssuesAlone`: between the two commits of an
  issue no code is live and no other issue is there.
- `DecisionsStand`: `VerificationSpec => []StatusDecided`, from `DecisionHeld`: a
  verification about to write has read the status that was decided.
- `CredentialsKept`: `CredentialsSpec => []CredentialsSound`.  `Proved`: a
  confirmation about to switch two factors on has proven the secret of now;
  `PinOnce`: whoever is about to set a PIN is alone, and there is none;
  `LinkOnce`: a link that is out has reset nothing, and one tab resets by it.
- `TiersTrulyEarned`: `KycSpec => []TiersEarned`, and `DecisionsAreFinal`:
  `KycSpec => DecisionStands`.  A submission is checked against the tier and
  against other open ones in two statements, neither under a lock: `Orderly`
  says what that leaves while nothing was submitted twice or crossed - one open
  submission, for the tier that is due, and whoever is about to make another has
  seen none.  `ReadsHold` says that a handler about to write has a submission
  that is still open, or another crossed it, and that an approval by the
  screening is of a clean and complete one.
- `OneLiveSession`: `SessionsSpec => []OneSessionPerSignIn`.  A refresh is four
  commits, between which its sign-in may have no live row at all.  `OneLine` says
  that what is alive of a sign-in is one pair at each of them: the one the
  refresh uses, then none, then the one it makes.
- `CutsReachAll`: `SessionsSpec => []SignedOutEverywhere`.  `CutOff` follows the
  cut's two commits: between that of the sessions and that of the tokens, only a
  session that a handler brought meanwhile is live, and a handler that will still
  bring one knows that it was caught (`Marked`).
- `StaysSignedIn`: `SessionsSpec => []KeepsSignedIn`.  `Kept` is the browser's
  side: undisturbed, at most one request refreshes what is stored or tries anew
  with it, and what is stored is good, or what that request brings is.  Only a
  refusal of the second try leaves nothing stored, and then it was turned down.

The three about sessions rest on `Shape`: a request holds the pairs its stage
says, and a pair that is new is known only to the one that brings it (`NewPairs`).

### The jobs (`JobsProofs`)

For any transfers, workers, templates, ticks, alerts and rounds, and any number
of deaths, errors, stalls and price moves:

- `SettledSoundly`: `Spec => []SettlementSound`, and `SettledOnce`:
  `Spec => SettledForGood`.  A settled row is never written by its request,
  because the request is past its writes when a job exists (`Progress`, which
  says it of each transfer by its `Stage`).  Among
  the workers the code has no lock, only the queue: `Alone` says that while no
  job of a transfer has stalled, the worker on it is the owner of the job, hence
  the only one, and finds the row as it read it.  That a waiting job has
  attempts left needs the same of an active one (`Queued`).  The five ways an
  attempt ends share one lemma (`AttemptKeeps`): one of the outcomes of the row
  and the ledger (`Outcome`), then `Release`, even where the worker has lost the
  job.
- `OccurrencesPaid`: `RecurrenceSpec => []OccurrencesTrue`, and
  `CancelledForGood`: `RecurrenceSpec => CancelledStaysOut`.  `AdvanceRule`
  writes what the tick computed from an old reading, and another tick may have
  advanced the rule meanwhile, so a rule can go *back*.  What holds of rule and
  reading alike is that all occurrences before it were tried (`AtOccurrence`, in
  `ReadsTrue`), and that gives `NoneSkipped` whichever of them is written.
  `OneAtATime` is what remains while ticks neither overlap nor die, and gives
  that none is paid twice.
- `AlertsTold`: `AlertsSpec => []AlertsSound`.  A mail is sent by a round that
  marked its alert (`RoundHolds`), an alert marked for a user with an e-mail is
  mailed, lost or about to be mailed, and while no two rounds had one alert before
  them an alert that was mailed is before none (`Unshared`).
- `PricesTrue`: `PricingSpec => []PricingTrue`, over any tables.  The operators
  carry this one: whatever rule `Preferred` picks is the closest that fits
  (`ClosestFirst`), and the clamps are that rule's own (`FeesTrue`).  For the rates,
  what is rounded is off by at most one part in `2 * Least` (`HalfUpNear`,
  `RoundedNear`), a leg and the leg back are off by as much (`LegBack`), and the
  four roundings of a bridge there and back add up to five halves above and four
  below (`BridgeBack`).

### The dashboard (`PlatformProofs`)

For any number of clicks, of failed fetches and of moves by others, every button
and every query:

- `HooksComplete` is about the code's tables alone: whatever a request changes and
  a page shows, the hook of the button that sends it invalidates, or it is one of
  the `Gaps`.  It is proved as one would review it.  `Shows` lists which query
  shows a table, `Tells` which queries the hook of a request invalidates,
  `Unguarded` which buttons can be clicked again at once.  Each service fits them
  (`ServiceFits`: every query that shows what it writes is told or a gap), each
  hook does (`QueryFits`, `HookFits`), each panel and page (`PanelFits`), and
  `Together` keeps what holds of each table.  A hook that forgets a query, a
  service that writes one table more or a page that shows one more query breaks
  the lemma named after it.
- `ChangesAreShown`: `DashSpec => []OwnChangesShown`.  The property is about an
  answer at rest on the screen, and is not inductive: a fetch may have read the
  service before the change, and an answer may lie in the cache while nothing
  shows it.  `Caught` says it of all three - the fetch that has read brings what
  the user was told of, the answer that is shown has it, and one that is not shown
  has it or is stale, so that whatever mounts it fetches it anew.
- `ClicksTakeOneEffect`: `DashSpec => []OneClickOneEffect`.  `DoneOnce` has two
  reasons.  A guarded button is not clicked over its own pending request.  For an
  unguarded one the service must end it: its request leaves the row in the status
  that it leaves it in, no other actor moves it out of that status, and so a
  second one changes nothing.  That none of the twenty-two unguarded requests
  fails that, but for the two of `MayDouble`, is part of `ServiceFits`.

`FocusFits` carries what the tables say into the machine, and `DashTyped` that an
answer, a fetch and what was told never hold a change that was not made.

### The parts put together

Only the types of `MCPlatform` are proved of a composition (`PlatformTyped`): the
initial states of five parts and the steps of each keep the shapes of all.  The
dashboard begins in `DashRests` beside another part, where it is enough that nothing
is clicked or told (`DashBeside`).  The compositions run one part at a time, so that
they implement their parts says nothing about the code and is not listed as a
result; what is proved of a part is proved of its own specification, with all its
interleavings.

### What is only model-checked

Liveness: `EveryTxEnds`, `SilenceEnds`, `Settles`, `RulesFire`, `NeverStuck`,
`WebhookTried`.  Fairness is about ENABLED, which this prover does not handle.

## 6. What is not modelled

- Creation of wallets (`getOrCreateWallet`; its race ends in an error of one
  request), deposit addresses, reviews and reputation, the content of gift-card
  codes, notes and narrations.
- `changePassword`, which no page calls: it writes one column and ends no session.
  The device row of a sign-in, the audit log as a table, the mails other than as
  sent or failed.
- The figures of analytics, insights, budgets and portfolio, the rules of the
  fraud detection and the calls of the external model: written after the fact and
  never read by a path that moves money.  Which queries show them, and that they
  are told, is part of the dashboard.
- Who approved a submission beside whether a person did: a screening that passes
  leaves the reviewer of an earlier decision in the row.
- Calendar arithmetic (`addInterval`), and layout, wording and the validation of
  forms.  Amounts are small naturals, on which sums are exact in `Decimal(36,18)`;
  where digits are lost, in rates, `Pricing` rounds as `Decimal` does.  What an
  amount times a rate loses when it is stored with 18 decimals is left out.
- A merchant without a `webhookUrl`: nothing is sent, and nothing is promised.
