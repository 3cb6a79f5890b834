# Cadencia: a verification development in TLA+

Cadencia is a marketplace for trade between small enterprises. A buyer publishes
a request for quotation (RFQ), software agents negotiate a price with several
sellers, the buyer selects one agreed deal, and the deal is settled through an
escrow contract on the Algorand chain. The backend is a Python service (FastAPI,
SQLAlchemy, PostgreSQL, Redis) that runs as two worker processes
(`src/backend/Dockerfile`, `--workers 2`), each with many requests in flight. The
frontend is a Next.js application in the browser.

This directory models that path from the RFQ to the paid deal: the sellers' matching
data, the RFQ and its matches, the negotiation of a price and the page that shows
it, the escrow and its contract, the audit trail; and beside it the parts of the
platform where overlapping requests decide the outcome. Sections 1 to 6 give the
inventory, the modules and how they correspond to the code, the runs, the proofs,
what is left out, and the plan. Paths are relative to `src/backend/src/` unless they
name another root.

## 1. Inventory of the system

| Component | State | Operations | Interacts with | Hard part | Must hold | Model |
|---|---|---|---|---|---|---|
| **Escrow aggregate and row** `settlement/domain/escrow.py`, `infrastructure/repositories.py` | status, frozen, application id; one row per session | `record_approval` .. `record_refund`, `mark_dispatched`; insert, `merge` | service, ORM session per request | guards look at a copy; a stale copy merged over a newer row | the book is never ahead of the chain | `Escrow` |
| **Settlement service, endpoints, gateway** `settlement/application/services.py`, `api/router.py`, `infrastructure/algorand_gateway.py`; `src/frontend/src/context/WalletContext.tsx` | none of their own | select-deal, approve, reject, dispatch, deploy, fund, release, refund; platform-signed and wallet-signed ("Pera") | contract, repository, event publisher | a chain call between a read and a write; lost replies; retries | settle once; release only after dispatch; one funded contract | `Settlement`, `EscrowLedger` |
| **Settlement jobs** `settlement/application/background_jobs.py` | - | reject after the approval deadline, freeze after the dispatch timeout | the row, by direct UPDATE | races with requests; failed runs | nothing waits forever | `Settlement` |
| **Escrow contract** `src/backend/contracts`, `artifacts` | status, frozen, parties, amount, balance | `initialize`, `fund`, `release`, `refund`, `freeze`, `unfreeze` | platform, buyer, seller | any caller, any order | pays once, to the right party; solvent | `CadenciaEscrow`, `CadenciaEscrowApp` |
| **Negotiation session** `negotiation/domain/session.py`, `application/services.py` | status, rounds, offers, stall counter | turn, automatic loop, override, terminate, resume, close, expire | engine, Redis lock, event publisher | a language-model call between read and write; restart | finished sessions stay; an agreed price was offered; the loop ends | `NegotiationSession` |
| **Negotiation engine** `negotiation/infrastructure/neutral_engine.py`, `domain/strategy.py`, `valuation.py`, `guardrails.py` | counters in the session | next offer | session, language model | numeric heuristics in sequence | no offer beyond the reservation price; round and stall limits | `Strategy`, `NegotiationEngine` |
| **Opponent model** `neutral_engine.py`, column `opponent_beliefs` | a cache per engine, a column per session | update with the prices seen | session | two copies, restarts, retried turns | a price counts once; what was learnt stays | `OpponentBeliefs` |
| **Grounding of a turn** `negotiation/application/services.py`, `domain/valuation.py` | RFQ fields, matches, catalogue items | overlay, item selection, valuation | RFQ, matching, catalogue | all of it may change between two turns | priced by the session's product | `Grounding` |
| **Negotiation records** `shared/infrastructure/events/handlers.py`, `src/backend/scripts/backfill_negotiation_records.py` | a pair of records per session | write, backfill | sessions | an event before its commit; handler and script | no record of an agreement that is none; one pair | `NegotiationMemory` |
| **Live page** `negotiation/api/router.py`, `src/frontend/src/hooks/useSSE.ts`, `app/negotiations/[session_id]/page.tsx` | list of events in Redis, state of the page | publish, replay, follow, fetch | session, browser | reconnection replays; stale fetches | an offer is shown once; an agreement is seen | `LiveStream` |
| **RFQ and deal** `marketplace/domain/rfq.py`, `application/services.py`, `settlement/api/router.py` | RFQ status, confirmed match, match rows | upload, parse, edit, start, confirm, select | sessions, escrows, events | background task, row locks, best-effort second transaction | confirmed for an agreement, settled for a payment | `Deal` |
| **Matchmaking** `marketplace/application/services.py`, `infrastructure/rfq_parser.py`, matching engines | match rows of one parse | build variants, search, score, merge | profiles, catalogues | two channels and a fallback over several variants | a seller once, with its best score | `Matchmaking` |
| **Seller embeddings** `marketplace/application/services.py` | profile, vector, catalogue, Redis key | edit, recompute, register | background tasks | debouncing; whole-profile writes | the vector belongs to its text and catalogue | `CapabilityEmbedding` |
| **Domain events** `shared/infrastructure/events/` | handler table | publish, subscribe | all services | in process, after the commit, errors only logged | effects follow the commit | `Deal`, `AuditChain`, `NegotiationMemory` |
| **Audit chain** `compliance/` | hash-chained entries; FEMA and GST records | append, verify, generate records | event handlers, trigger of migration 025 | concurrent appends under an advisory lock | one chain, no fork | `AuditLog`, `AuditChain` |
| **x402 payments** `shared/middleware/x402_payment.py` | nonces in Redis, payment rows | challenge, validate, broadcast, record | chain, Redis, database | three stores, no common transaction | one access per payment | `X402` |
| **Enterprises** `identity/application/services.py` | one row: KYC, agent configuration, wallet | register, submit KYC, configure, link, unlink | overlapping requests | whole-row writes of what was read | a request changes its own columns | `Enterprises` |
| **Sign-in** `identity/`, `src/frontend/src/context/AuthContext.tsx`, `lib/api.ts` | access tokens in tabs, a shared refresh cookie, a blacklist | sign in (code, wallet, form), call, refresh, sign out | tabs, server, Magic | late and lost answers, tabs that share a cookie | a sign-out reaches every tab | `SignIn` |
| **Purchase orders** `procurement/application/services.py` | numbered documents | generate | event handler and endpoint | number from a count | 1, 2, 3, .. without a gap | `PurchaseOrders` |
| **Parsing and embedding of texts** | - | extract fields, make vectors | language model | - | - | as choices in `Deal`, `Matchmaking`, `CapabilityEmbedding` |
| **Messaging** `messaging/` | threads, messages | create, post, close | - | - | - | none |
| **Treasury, wallet ledger** | balances, rows | read; append by handlers | - | - | - | none |
| **Rate limiter, caches, admin, health, forms and lists of the frontend, deployment** | single keys or rows | create, read, update | - | - | - | none |

`PROJECT.json` lists the components with their status, and under "hazards"
every place where this code can go wrong in a way a test would hardly reach, at
its line.

## 2. Modules

```
CadenciaEscrow      methods of the contract as operators         (no state)
Escrow              aggregate, row, merge as operators           (no state)
   |        \
   |         Settlement ------ MCSettlement           TLC instances
   |             |  \--------- Settlement_proofs      inductive invariants
   |             |                  |
   |        EscrowLedger  <--- Settlement_refinement  implements the ledger
   |        EscrowLife    <---------/                 and Deal's view of an escrow
   |
   +-- CadenciaEscrowApp --- MCPlatform, MCCadenciaEscrowApp
                 \---------- CadenciaEscrowApp_proofs

Strategy            valuations and strategies as operators       (no state)
   |
NegotiationEngine   one turn of the engine as operators          (no state)
   |
NegotiationSession -\
LiveStream ----------+- MCNegotiationSession, NegotiationSession_proofs
SessionLife <- NegotiationSession, LiveStream     Deal's view of a session

Deal ---------------\
Matchmaking ---------+- Deal_proofs --\
NegotiationMemory --/                  \
OpponentBeliefs ----\                   +- MCDeal   (MCOpponentBeliefs: restarts)
Grounding -----------+- Strategy_proofs/
Strategy -----------/
EscrowLife, SessionLife <- Deal;  SessionLife <- NegotiationMemory

AuditLog  <- AuditChain
AuditChain, SignIn ---- MCProgress, AuditChain_proofs

X402 ------------------\
Enterprises ------------\
PurchaseOrders ----------+-- MCPlatform, Platform_proofs
CapabilityEmbedding ----/
```

Modules that share no state and are run together (`MCDeal`, `MCProgress`,
`MCPlatform`, `MCNegotiationSession`) are kept apart by a variable `area`: a behaviour
is about one of them, and the others rest.

`NegotiationSession`, `Deal` and `Settlement` are the three stages of one deal.
They meet in single facts: a session is committed as AGREED, an escrow is stored
for it, an escrow is booked as released. `Deal` sees sessions and escrows from
outside and lets them do whatever `SessionLife` and `EscrowLife` allow: a session
agrees or ends, an agreement may be dropped, an escrow is stored and may be
released. These two little specifications are the contract between the modules, and
it is proved on both sides: `Deal` keeps to them (`LivesAreKept`), `Settlement`
implements the escrow whatever overlaps, is lost or dies (`EscrowLives`, and
`ReleasedHasPaid` for what a release means), and `NegotiationSession` implements the
session as long as its operations do not overlap (`SessionLives`). Where they do, a
stale turn can reopen a finished session, and `Deal` does not follow it there; it can
only do so while an operation begun before the end is under way (`DrainedForGood`).
The smaller views that `NegotiationMemory` and `LiveStream` have of a session live
alike (`TalksLive`, `BookedLives`), so that all four modules speak of one thing. Of an
escrow that is rejected or refunded `Deal` sees nothing, as a stale write may undo
such an end (`settlement_rejected`): it stays open, and a contract of it may still pay.

### CadenciaEscrow and CadenciaEscrowApp: the contract

`CadenciaEscrow` has one guard and one effect per method. A guard also contains
what the virtual machine asks: an inner payment reaches an account only if the
call makes it *available* (`Available`), as its sender or in the foreign accounts
array. `CadenciaEscrowApp` puts these operators to work on one application with
its amount and the balance of its account, where every account may call every
method in any order. `Initialize` follows the compiled program, whose router
accepts the method after creation as well; the constant `MaxInits` bounds those
calls, and `MaxInits = 1` is the contract as its Python source declares it
(`create="require"`). `Pay` keeps the minimum balance in the account.

### Escrow: the aggregate and its row

An aggregate is `[status, frozen, app]`; `can_record_funding(e)` is "the method
does not raise" and `record_funding(e)` its effect, and so on under the source's
names. `EntityOf` and `ColumnsOf` are the two conversions of the repository;
FROZEN exists only in the aggregate and is stored as FUNDED with the frozen flag.
`Merged` is `session.merge()`: it writes the columns that differ from the row
*as this ORM session last loaded it*, so an update based on an old copy can mix
with a newer row.

### Settlement: workers, chain and jobs

One deal: its row, the applications created for it, the requests in flight, the
two jobs. A request is a record with a program counter; **every read, chain call
and commit is a step of its own**, since another worker may run between any two.

| pc | the code is about to | actions |
|---|---|---|
| idle | start an endpoint: read the row and check it | `SelectDeal` .. `BuildRefund` |
| sign | wait for the wallet's signature, then broadcast what it signed | `SubmitSignedFund`, `SubmitSignedRelease`, `SubmitSignedRefund` |
| hold | load the row object that it keeps in its ORM session | `HoldRow` |
| insert | `repository.save()` and commit | `InsertRow`, `InsertConflict` |
| call | call the chain | `CallDeploy`, `CallFund`, `CallRelease`, `CallRefund` |
| record | ask the aggregate to record what happened | `RecordDeployment` .. `RecordRefund` |
| save | `repository.update()` and commit | `SaveRow` |

Points that decide what can go wrong, as the code has them:

* *What a re-read sees.* Sessions are created with `expire_on_commit=False`. An
  endpoint that keeps the ORM object in a local variable (platform-deploy,
  buyer-confirm, platform-release, the seller's endpoints) gets that same object
  back when the service "re-reads" the row after the chain call: `Seen` returns
  `snap`. The others read the row afresh. `deploy_escrow`, `fund_escrow` and
  `refund_escrow` do not re-read at all (`KeepsAggregate`).
* *Rows.* `deal` distinguishes the row that select-deal makes (enterprise ids and
  an approval deadline) from the rows of the ADMIN deployment and of a signed
  deployment without an escrow. Only the former has a seller who may answer and a
  deadline that may pass.
* *Replies.* A chain call takes effect and then the reply may be lost (`Called`):
  no confirmation in ten rounds, a worker that dies, or a failing minimum-balance
  payment after a deployment.
* *Who signs.* `Signer` and the contract's creator: wallet-signed deployments make
  the buyer the creator, so only the buyer's wallet can release or refund them.
* *How long signing takes.* `BuildFund`, `BuildRelease` and `BuildRefund` check the
  status when the transaction is built (build-...-txn); the user may take any time to
  sign. Of the endpoints that submit, only submit-signed-fund looks at the status again.
* *Wallets.* `StandIns`: in seller-approve the platform stands in for a buyer
  without a linked wallet, in platform-deploy for either party.
* *Refund accounts.* No refund path names the buyer's account, so the platform
  can refund only a contract in which the platform itself stands in as buyer, and
  the buyer's wallet only one that it created.
* *Two endpoints of one kind*: `ReleaseToSeller` is platform-release, and
  `BuyerConfirm` the same for the buyer, whom only a selected deal names.

### EscrowLedger: what the settlement promises

An abstract specification with three variables: where the money of each
application is, what the book claims, and the settlement rows of each release.
Money moves absent -> empty -> held -> released or refunded; a claim may be
entered only when it is already true; a release gets one settlement row, together
with its claim. `Settlement` states the refinement mapping (`Ledger`, `Place`,
`Claim`) and the property `LedgerSpec`.

### Strategy and NegotiationEngine: one turn

`Strategy` is layers 1 and 2 of the engine: the valuation of each side (a
reservation price, a target, and the aspirational price in between) and the
strategies with the routing between them. Prices are integers, in hundredths of
a rupee; the code's Decimal fractions and floats are exact fractions here,
numerator over denominator, and the two roundings of the code (`HalfUp`,
`HalfEven`) are modelled. What the routing reads of the opponent model (the
type, a concession ramp, the flexibility) is an input.

`NegotiationEngine` is `process_turn`, in the order of the code: guardrail veto
(`Vetoed`), the guarded price, the clamps to the reservation and to the own
earlier offers (`ClampedPrice`), the test for crossing offers, the rounding to a
quantum that depends on round and urgency (`RoundedPrice`), the concession
tracker, convergence, hard gap, stall recovery (`UnfreezePrice`) and the round
limit (`EndTests`, `Move`). Prices here are in units of Rs 2,500, the finest
quantum. The strategy's answer is any price of `Suggestions`: the range that
`WithinReservation` and `WithinPositions` prove of every strategy, so no strategy
is missing and none is repeated. The language model's answer (`generate_offer`)
is any price of `Prices` with at most one of `Marks` in its text, or a failure.

### NegotiationSession: the row and those who work on it

| Variable | Code |
|---|---|
| `market` | what the two valuations come to, recomputed alike at every turn |
| `row` | status, round count, stall counter, recovery flag, schema failures, agreed price |
| `offers` | the rows of offers |
| `expired` | whether `expires_at` has passed |
| `proc[p]` | operation in flight with the session it read (`snap`), and whether `p` runs a loop |
| `lock` | the Redis key of run-auto |

Every operation is a read with its checks (`ReadTurn`, `ReadOverride`,
`ReadTerminate`, `ReadResume`, `ReadClose`) and a later write of all columns of
what it read (`WriteTurn`, ..). A turn waits for the language model in between. An
automatic loop is started by `RunAuto` under the lock, or by `ResumeOnStartup`
of every worker without it; it makes turns until the session takes no more
(`LoopEnds`), an offer is refused (`TurnRefused`) or something raises
(`GivesUp`). `EndOfTurn` is the service's reading of a terminal turn, by the words of
its text. `Expire`, `LockExpires` and `Crash` are the environment.

The constant `Overlapping` says whether an operation may start while another one
is in flight. The code has nothing that prevents it, and then a stale write can
reopen a finished session or repeat a round number. The properties about sequences
are stated for one operation at a time; `TypeOK`, `NoStallBetweenTurns` and
`OffersKeepReservation` are proved for any overlap, and so is how far a stale write
can go (`OnlyStaleUndoes`, `Drained`).

### OpponentBeliefs: what a session has learnt

What an engine believes of an opponent is the result of Bayesian updates, one per turn,
each on all the opponent's prices so far. A belief is represented by the lengths of the
price histories it was made from, in order; the prior is the empty sequence. It lives in
the memory of the engine (`engine[e].cache`) and in the column of the session
(`beliefs`); a loop keeps its engine, a request has one of its own. A turn reads
(`AskModel`), updates its cache (`AnswerTurn`) and stores (`SaveTurn`); it may be refused,
fail before or after the update, run out of models, or end early; people interrupt,
workers die (`DropEngine`).

### Grounding: what a turn argues about

Every turn reads the RFQ's fields and lays the session's product over them (`Overlay`),
looks a match and an item up (`SelectItem`: the match's item, else the cheapest of the
name, else of the tariff code, else the one nearest to the budget of a unit), takes the
price of the tier, and values the order for both sides through `Strategy`. Parses,
catalogue edits and turns interleave; a failing query leaves the turn with fewer data
(`Loaded`). The zone of agreement is looked for in round 0 and remembered.

### NegotiationMemory: the records of past sessions

A worker ends a session, its event is published (after the commit of an agreement,
before that of a failed turn), and a handler with a database session of its own checks
for records, loads the session, and writes a pair. A script checks the same for all
sessions and commits at its end. `met` is history: the sessions on which script and
handler worked at the same time.

### LiveStream: the page of a negotiation

The writers of the session push events onto a list in Redis, the offer before the commit
and the agreement after it; the endpoint replays the list to each connection and then
follows it (`connect`, `Deliver`). The page merges events (`OnEvent`), fetched sessions
(`ShowSession`) and answers of run-auto (`ShowAuto`), and its hook reconnects after a loss
(`BreakOff`) until it is disabled. What a request brings is what the server read when it
served it, however late it is shown.

### AuditLog and AuditChain: the trail

`AuditLog` is the promise: one log per escrow or session, to which an event that
some handler holds is appended at the end at most once. `AuditChain` is the code:
handlers with sessions of their own take the advisory lock, read the latest entry,
insert the next one and commit. The hash is ideal: an entry's hash is the sequence of
contents it commits to. `Accepts` is the database: UNIQUE constraints, and the
trigger of migration 025 when it has been applied (`Migrate` may happen at any
moment). The handler of a release then generates the FEMA and GST records. `LogSpec`
is the refinement.

### Deal, EscrowLife, SessionLife: one RFQ

The row of the RFQ, its match rows, the status of each match's session and escrow,
and processes: the buyer's requests, the parse task, the event handlers. Every
row is stored whole, from what its writer read (`snap`); `rowlock` is the row lock
of a transaction that has flushed and not yet committed (start and confirm hold it
while other sessions of the database commit). `confirm_rfq` never commits its
own change, and closes the other sessions in a transaction of its own.
`select_deal` creates the escrow and fails the losing sessions in a second, best
effort, transaction. `SessionAgrees` and `EscrowReleases` commit and then publish;
the handlers read and write. `LivesSpec` says that sessions and escrows live as
`SessionLife` and `EscrowLife` allow; `LifeSpec` of `NegotiationSession` and of
`Settlement` is the other side of it.

### Matchmaking: from parsed fields to matches

`MatchInit` has the normalised fields, one variant per line item, the suppliers'
profiles and catalogues, and the sellers an earlier parse has matched. `SearchVariant`
does for one variant what the service does: vector search with hard filters and composite
score, or the keyword search, and merges the results into the tables of best scores. Then
the rows are made: per product if the RFQ has several (`MatchPerProduct`), else per
seller (`MatchEnhanced`, `MatchRaw`), else by declared commodities (`MatchFallback`).
Scores are thousandths. The module is written without the sorting and folding operators
of the community modules, which are recursive: an order is given by ranks (`Ranked`).

### SignIn: the tabs of one browser

Access tokens live in the memory of a tab; the refresh cookie, the stored method and the
session with Magic are shared by all tabs. A request is sent, served and answered in
separate steps and may fail at each. A call that is refused asks for a new access token
and is sent again; tokens expire (`TokenExpires`).

### X402, Enterprises, PurchaseOrders, CapabilityEmbedding

* `X402`: a call goes through the replay mark, the pending nonce, the broadcast,
  the confirmation, the consumption of the nonce, the mark, the table and the
  answer, each a step. Nonces and marks expire; `Fail` is a refusal, an error or
  a crash at any step, also after the broadcast.
* `Enterprises`: a request reads the enterprise, changes its own columns and gives
  the whole aggregate to `update()`, which selects the row again (`Reselect`) and
  writes the columns that differ from that second reading (`Merged`).
* `PurchaseOrders`: the test for an existing order, the count, the insert with the
  UNIQUE number.
* `CapabilityEmbedding`: an edit stores the whole profile and schedules a recompute,
  which asks for the Redis key, reads profile and catalogue, computes, and stores
  the whole profile. The key expires after 60 seconds (`ExpireLock`), and Redis may
  not answer, in which case the recompute goes on without it; `lapses` counts
  both. `dropped` is history: something debounced, failed or dead since the last
  reading of the catalogue.

## 3. Runs

| Run | Instance | Result |
|---|---|---|
| `settlement_overlap` | 2 requests, 2 applications, buyer maybe without wallet, faults; symmetry | holds: `BookBacked`, `OneSettlementPerRelease`, `PlatformReleasesDispatched`, `LedgerSpec` (1.24 million distinct states) |
| `settlement_one_at_a_time` | 1 request, 3 applications, faults, fairness; no symmetry | holds: `OneFundedApp`, `AppRecordedOnce`, and the liveness properties `ApprovalResolved`, `DispatchResolved` |
| `settlement_mirror` | 1 request, no faults | **violated**: `MirrorsChain` |
| `settlement_rejected` | 1 request, no faults | **violated**: `RejectedIsTerminal` |
| `settlement_double_deploy` | 2 requests, no faults | **violated**: `AppRecordedOnce` |
| `settlement_payee` | 1 request, seller maybe without wallet, no faults | **violated**: `SellerIsPaid` |
| `escrow_app_initialize` | amounts 2 and 5, minimum balance 1, 2 seeding payments, 2 initialize calls | **violated**: `StatusOnlyAdvances` |
| `negotiation_turns` | 4 rounds, 2 markets, 2 processes, one operation at a time, crashes, fairness; a page with 1 offer, 2 events, 1 lost connection | holds: `AgreedIsOffered`, `NoStallBetweenTurns`, `RoundsAlternate`, `LastRoundDecides`, `FinishedStays`, `OffersKeepReservation`, `OfferShownOnce`, and the liveness properties `LoopComesToEnd`, `AgreementIsSeen` (115,562 states); the strategies on small prices (`StrategiesChecked`) |
| `audit_and_sign_in` | 2 chains, 2 handlers, 2 entries per chain, crashes, the migration; 2 tabs, a member and the administrator, 1 refresh token; fairness | holds: `ChainVerifies`, `RecordsFollowRelease`, `LogSpec`, and the liveness properties `HandlersEnd`, `SignOutReachesAll` |
| `deal_handlers` | see the bounds below; symmetry | holds: `ConfirmedHasAgreed`, `SettledIsPaid`, `RejectedForADeal`, `NoWayBack`, `EvidenceCountsOnce`, `AgreedRecordsHaveAgreement`, `OnePairUnlessBackfilled`, `MatchesAreBest`, `PricedByItsProduct` (838,081 states) |
| `platform_requests` | see the bounds below; symmetry | holds: `OneAccessPerPayment`, `NoChargeOnceServed`, `OnlyStaleWritesUndo`, `OrdersNumbered`, `OverlapNeedsLapse`, `VectorsCurrent`, `SolventWhenFunded`, `PaysOutOnce`, `FrozenPaysNothing` (2 million states) |
| `beliefs_restart` | 1 engine, 6 offers, shift at 7 | **violated**: `BeliefsSurvive` |

The type invariants (`TypeOK`, `AppTypeOK`, ..) are in no run, as proofs establish them.

What the violated runs show (each quotes the sentence of the code it is about
under "findings"):

* *A refund of a dispatched deal* pays the buyer on chain, and then
  `record_refund` raises, since it accepts only FUNDED or FROZEN. The row stays
  DISPATCHED. No overlap and no fault is needed.
* *REJECTED is not terminal.* An approval that read PENDING_APPROVAL before the
  deadline job rejected the row merges APPROVED over it.
* *The double-deploy guard guards one aggregate.* Two overlapping deployments
  create two contracts, and the second replaces the first in the row. With one
  request at a time `AppRecordedOnce` and `OneFundedApp` hold, also when requests
  die half-way, which is how far the guard goes.
* *platform-deploy* uses the platform as the seller of a contract when the seller
  has no linked wallet, which the comment in seller-approve rules out.
* *initialize() after creation* takes a FUNDED contract back to DEPLOYED.
* *Beliefs do not survive a restart*, though the column was added so that they do: the
  prior of the next update is the new engine's empty memory, and the row is overwritten.
  A request for a single turn has the same effect.

What the properties say that one would not see by reading:

* `AgreedIsOffered`: the engine computes a midpoint, but the agreed price is the
  offer itself; since a bid is rounded after the test for crossing, it may be
  agreed up to the convergence threshold above the seller's last price.
* `LastRoundDecides`: the one way out of the last round with a session still active is
  the stall recovery (or a person's offer); that session then refuses every turn and
  waits for an administrator.
* `OffersKeepReservation` holds only *while the talks go on*: an ACCEPT of the
  model, or a person, may settle beyond the reservation price.
* `LockedInsertAccepted`, a theorem, has one exception: under the trigger of migration 025
  the first entry of a chain is refused, as the code writes a genesis hash where the
  trigger expects none.
* `NoWayBack` excludes edits: a slow parse task started before an edit can drag a
  negotiating RFQ back to PARSED. It also admits a confirmation of a settled RFQ by a
  slow handler.
* `OnlyStaleWritesUndo` says when an enterprise's row is safe: a request whose second
  reading is what it loaded. A stale one can undo a KYC submission or a link.
* `VectorsCurrent` has to exclude a debounced change: a change that arrives
  while a recompute is past its reading of the catalogue never reaches the vector.
* `OnePairUnlessBackfilled`: no constraint of the database keeps two pairs of records
  apart; one operation per session does, except against the backfill script.
* `PricedByItsProduct` has to admit the item of *any* match of RFQ and seller, since the
  turn does not look for the session's own match.
* `MatchesAreBest` excludes the rows of the fallback, which takes no notice of scores.
* `SignOutReachesAll` asks that Magic has no session and the cookie is worth nothing: a
  sign-out whose request is lost leaves a live cookie, and another tab may use it.
* `AgreementIsSeen` excludes a page that has given its stream up, which a session under
  review makes it do.

### Bounds, and why they are enough

* *Requests (Settlement).* The hazards are pairs: a request and another one (or a
  job) between its read and its write. Two requests and two jobs give every pair,
  and each request slot is reused, so every sequence of operations is explored too.
  The proofs remove the bound for the safety properties of `settlement_overlap`, and
  that on applications for those of `settlement_one_at_a_time`.
* *Apps* bounds the contracts created for one deal. Two are needed for an
  orphaned contract beside the recorded one; the sequential run uses three, since
  lost deployments leave orphans behind one after another.
* *Unlinked* chooses which party may lack a wallet. The payee run has its own
  value so that its counterexample is about nothing else.
* *Faults* switches lost replies, crashes, and aborted job runs. The runs
  that show a disagreement switch them off: they need no fault.
* *Amounts* are two different values, so that paying the wrong one is visible;
  `MaxSeeds` and `MaxInits` are 2, the smallest numbers for which "again" happens.
* *Negotiation.* `MaxRounds` 4, `StallRounds` 1, `MaxSchemaFailures` 2 and
  `HardGapRound` 3 instead of 15, 3, 3 and 4: every limit is reached, each before and
  after the others. Prices {40, 46, 50} lie below, inside and at the end of the zone of
  agreement of the first market (45..50, an urgent delivery); the second market has no
  such zone. One mark (REJECT) ends a turn by its text; a person types 47. Two processes
  give a loop and a request. Strategies are checked on contexts with 7 rounds,
  three horizons, small prices and all opponent types; the proofs cover all of them.
* *Page.* One offer, two events and one lost connection: an offer that is replayed, an
  agreement that is published while the page waits to reconnect, a fetch overtaken by
  either. The theorem about it has no bound.
* *Audit.* Two handlers contend for one chain, or work on two; two entries are a first
  one (which the trigger treats apart) and a linked one.
* *Sign-in.* Two tabs share what a browser shares; one refresh token is granted, which
  is what a refresh under way and a sign-out race about.
* *Deal.* Three processes: a request of the buyer, who does one thing at a time, with
  a task and a handler beside it. Two sellers, so that one can lose; one edit, which
  starts the second parse.
* *Beliefs.* 2 engines, 5 offers, 2 errors in a row, and a shift of strategy detected
  at 3 prices, instead of 15, 3 and 8; the violated run keeps the shift out
  of reach, as the code's talks do.
* *Records.* 2 workers, 2 sessions, 2 prices and the script.
* *Matching.* 2 suppliers, 2 products, 3 parsed RFQs (one line, a delivery window,
  several lines), 2 stocks, 3 ways a profile looks; `TopN` 2, so that the cut does not
  bite: that it leaves out nobody better is for the theorem.
* *Grounding.* 2 items, each with 2 offerings, 2 sets of RFQ fields, 1 variant, 2 parses
  and 2 turns, between which everything may change.
* *Platform.* 2 calls, 2 payments (one with the nonce in its note), 2 nonces; 2
  requests, 2 firms, 2 wallets, 2 configurations, 1 set of files; 3 clerks, 2 deals,
  3 orders; 2 recomputes, 1 request at a time that edits, 2 goods, 2 texts (one blank),
  1 lapse. Each is a pair plus the slot reuse that makes sequences. With three
  requests on one enterprise, status and files of KYC may come apart; the theorem
  holds for any number.

Symmetry is used where only safety is checked, and only over values the
specification does not tell apart. Deadlock checking is on in the settlement,
contract, negotiation and beliefs runs. It is off in `audit_and_sign_in`,
`deal_handlers` and `platform_requests`, where the model may stop: chains that are
full take no event, a settled RFQ asks nothing more, a matching is over when its rows are
made, a platform in the area "orders" rests once every deal has its order.

### Fairness

* *Settlement.* `FairSpec` asks: a handler that can take its next step does (workers
  run; with `Faults` it may instead die); the jobs' selects are weakly fair, as
  the scheduler starts each job again and again (`scheduler.py` `_run_loop` catches
  every error and sleeps) and a deadline that has passed stays passed; the jobs'
  updates are strongly fair, as a run of a job may fail but not every run does. Signing
  is not fair: a user may never sign.
* *Negotiation.* A loop that runs takes its next turn (`LoopStep`) and a turn gets its
  answer or an error (`Write`): the code awaits both, with a timeout on the model.
  Strong fairness of `LoopStep` only offsets the guard of `Overlapping = FALSE`, under
  which other requests may come first again and again.
* *Page.* The timer of the hook fires (`connect`), and the server looks at its list
  twice a second (`Deliver`). Connections are lost a bounded number of times.
* *Audit.* A handler runs on, and PostgreSQL queues the waiters for a lock in order
  (strong fairness of `acquire_advisory_lock`).
* *Sign-in.* Open pages poll, so a tab calls the API again (`SendCall`); its call is
  answered or fails (`CallStep`); an access token expires. Nothing is asked of requests
  to sign in or out.

Nothing is asked of users: no endpoint is fair, and no agreement is assumed.
`deal_handlers` and `platform_requests` state no liveness: handlers are best effort
and tasks may die, so nothing is promised there.

## 4. Proofs

The theorems hold for every value of the constants that the named assumptions
admit: any set of requests, applications, processes, chains, matches, firms,
suppliers, prices; any positive limits. The assumptions say that markers such as `NoApp`
are not members of what they mark, that bounds are naturals, that prices are
positive, that suppliers and tasks are finitely many, and of what comes from outside
only its form: that fields of an RFQ, stocks and sightings are records of numbers and
names (`FieldsAssumption`, `InputsAssumption`), and that an item of the catalogue has a
name (`OfferingsAssumption`; `product_name` of `marketplace/infrastructure/models.py` is
NOT NULL).

**Every safety property that a passing run checks is a theorem**, for any value of the
constants instead of those of the runs. The type invariants are theorems too, or the
first conjunct of the inductive invariant.

**Settlement_proofs** proves `Spec => []IInv` and from it `TypeCorrect`,
`BookNeverAhead`, `SettledOnce` and `DispatchBeforeRelease`. `BookBacked` is not
inductive: what makes it true is that a request carries, in the row object it
keeps and in its aggregate, only statuses that the chain already bears out, so
that merging them at any later time is safe. `IInv` says this of every request:

* `NeedsRow`: a request past its first read finds the row there (rows are never
  deleted);
* `CarriesBacked`: what it may write back is backed by the chain;
* `CallDone`: past its chain call, the chain shows the call's effect;
* `ReleasesOwedOnce`: at most one request owes the settlement row of a release,
  and none is written yet. This is the contract's guard "FUNDED to release",
  carried across the gap between the chain and the database.

The chain only moves forward (`Grows` in the proofs), so what is backed stays
backed; that is the lemma most steps rest on. Each endpoint starts through
`BeginStep`, each continuation through `RequestStep` or `HandlerStep`, and there
is one lemma per action.

`RecordedForGood` (`AppRecordedOnce`) and `FundedOnce` (`OneFundedApp`) need a
condition, and the run `settlement_double_deploy` shows that they do: while a
deployment is in flight no other request is (`DeploysAlone`, the hypothesis
`[]DeploysAlone`). All other requests may overlap, and any may die half-way. The
invariant `AppIInv` says that every request that names an application names the row's,
in the object it keeps, in its aggregate and in its chain call, but for a deployment
about to save its own; and that a contract with money is the recorded one.
`OneRequestSuffices` discharges the condition for an API with one request at a time,
which is the run `settlement_one_at_a_time`.

**Settlement_refinement** proves `Spec => LedgerSpec` from `IInv`: chain calls map
to one move of money, saves to `Enter` or `Settle`, job updates to `Enter`, and
everything else to a stuttering step. `EscrowLives` proves `Spec => LifeSpec`: the row of
an escrow is never deleted (`RowStays`), nor is the settlement row of a release
(`ReceiptsStay`), and there is none for an escrow that is not stored (`BookedIsStored`).
The stage is read off the settlement rows, not off the status, which a stale write may
still change. `ReleasedHasPaid` adds what a release means: a contract of the deal that
the chain shows RELEASED.

**CadenciaEscrowApp_proofs** proves types, solvency, that a frozen contract pays
nothing, that a contract initialized once pays once and to the right party, and,
for `MaxInits = 1`, that the status never goes back: the sentence that
`escrow_app_initialize` refutes for the compiled program is true of the program
its source describes.

**Strategy_proofs** proves that roundings keep whole bounds, that valuations are
ordered (`ValuationsOrdered`), and, strategy by strategy, that the advice stays
within the side's reservation (`AdviceKeepsReservation`) and within the range its
own and its opponent's last offers leave (`AdviceKeepsPositions`). These two are
what `Suggestions` of the engine rests on. `GroundedValuationsOrdered` connects them to
`Grounding`: the valuations made of an RFQ and an item are ordered whenever the RFQ has a
budget, or a price or rate for its quantity; without one the fallback valuation applies
the seller's formula to the buyer and promises nothing. `PricedByOwnProduct`: a turn goes
by an item of the session's product if one is listed, or by the item of a match.
`BeliefsCountOnce` (`EvidenceCountsOnce`): its invariant `BeliefInv` says that the row
holds increasing sequences bounded by the prices made (`Honest`), that one engine at a
time is in a turn, which saw the prices there are now, and that caches are honest for as
long as another offer can be made; after the last one a loop that is refused again
and again counts in its cache what it never stores.

**NegotiationSession_proofs** first proves `GoodTurn` of the engine: every price of a
turn that goes on keeps the reservation, counters stay below their limits, and the
last round is decided. The invariant for any overlap (`IInv`) says that also what a
process read and will write back is well-formed and has no stall (`MayGoOn`):
`SessionTypeCorrect`, `NoStallIsStored`, `ReservationKept`. Under `~Overlapping` the
invariant `SoloInv` adds that what the one process in flight has read is the row as
it is: `AgreementsAreOffered`, `RoundsInOrder`, `FinishedForGood`, `LastRoundSettles`,
and `SessionLives`, the refinement of `SessionLife`. For any overlap it follows from
`MayGoOn` that of the operations that have read a finished session only the one that
drops an agreement goes on (`OnlyCloseGoesOn`). So the end of a session is undone by
stale operations only (`FinishedUnlessStale`), and once those under way have all read
its end (`Drained`) it is final: `DrainedForGood`, `DrainedTakesNothing`. TLC agrees for
two overlapping processes and three rounds. The last offer of a role exists by
the well-foundedness of strict inclusion among finite sets. `OffersShownOnce` of the page
rests on its types and on `RoomForOffer`: the events of offers carry numbers that the
session can still take, a merge appends only what is missing, and a fetched list is the
numbers in order, each once (`CanBeOrdered`). `BookedLives` needs that a turn which has
published and not yet committed is of an active session (`TurnOfActive`).

**AuditChain_proofs**: the invariant says that entries are numbered from zero and
each commits to all before it, that whoever is between read and insert holds its
chain's lock and has read the latest entry, and that a handler past its commit has
its entry in the chain. From it `ChainsVerify`, `LockedInsertsAccepted`,
`RecordsHaveRelease`, and the refinement `LogRefined`.

The same module proves of sign-in `SignTypeCorrect` and `SignedOutForGood`. Types need
`SignInv`: a cookie in the browser or in any request under way is of a refresh token
that has been issued, only issued tokens are revoked, and nothing is posted on the
strength of the cookie alone. Hence a token once refused is refused for ever
(`RefusedForGood`): what is issued later is neither among the revoked nor known to an
old request. `SignedOutForGood` is the safety half of `SignOutReachesAll`: as soon as
neither the browser nor a request or an answer under way can sign anybody in
(`SignedOut`), it stays so until a form is sent, and meanwhile no tab comes by a good
token or a user to show. That the tabs also lose what they have is liveness and TLC's.
Every action moves one tab, and `Handled` says of it what both theorems need.

**Deal_proofs**: a process carries in `snap` only statuses that sessions and escrows
bear out, and these facts are stable (an agreement or a release is never
undone). From it `ConfirmedAgreed`, `SettledPaid`, `RejectedOnlyForADeal`. `NeverBack`
needs more: while there was no edit there is one parse task, which is over before
anything else can happen, and start-negotiations holds the row locked (`Unedited`).
`LivesAreKept` closes the circle with `EscrowLives` and `SessionLives`: what
`SettledPaid` takes for a paid deal is an escrow that has paid.

The same module proves the records' `AgreedRecordsBacked` and `OnePair`: `MemoryInv` says
what a handler and the script have seen of the sessions they are about to write of; and
the matches' `BestMatches`: `MatchIInv` says that the tables of best scores hold, for each
product, channel and seller, a result that was found, and none better was (`SearchInv`).
`TalksLive` follows from `MemoryInv`: a worker that has yet to commit a failure holds
a session that is still open.
That a ranking cut at `TopN` leaves out nobody better than whom it keeps is an induction
over the ranks.

**Platform_proofs**:

* payments: a call past the broadcast holds its payment alone, since the chain takes
  a transaction once, and a call past the consumption holds its nonce alone;
* orders: a number in hand is at most the count plus one, and orders are never
  deleted, so the UNIQUE constraint leaves only the next number;
* enterprises: what a request will write is lawful with respect to what it loaded,
  and a merged column is the row's or the aggregate's;
* embeddings: there is a lapse for every worker while nobody has the key
  (`OneRecomputePerLapse`); a stored vector is of the profile stored with it; the one
  recompute that read the catalogue has it as it is, unless something is to come
  (`VectorsAreCurrent`).

Induction over numbers is done in set form: the set of counterexamples has a least
member, by the well-foundedness of `<` (`LeastExists`). The induction theorems of the
library, which take a predicate, cannot be instantiated here.

*Only model-checked:* the liveness properties `ApprovalResolved`, `DispatchResolved`,
`LoopComesToEnd`, `AgreementIsSeen`, `HandlersEnd` and `SignOutReachesAll`, as liveness
under fairness is out of the prover's reach.

## 5. What the models leave out

* *Data.* In `Settlement` a deal has one amount, so amounts do not appear (the
  contract asserts the exact payment; `CadenciaEscrowApp` has them). Merkle roots,
  transaction ids, notes, texts, INR conversion, metrics and authorisation are left
  out: no property here is about them. Floats of the engine are exact fractions.
* *The ADMIN routes release, freeze and unfreeze* send the bare word as the first
  application argument (`_send_app_noop`) and not a method selector. The contract
  rejects it, so these handlers raise before they change anything and are not
  actions. It follows that a row frozen by the dispatch timeout is only ever
  refunded in the book.
* *Time.* Deadlines and expiries are "may have passed". A row that is dispatched may
  be frozen at any time, which covers every real schedule. Purchase orders are those of
  one year, as the number contains the year and the count does not.
* *Overlap in one session.* `OpponentBeliefs`, `NegotiationMemory` and the page let one
  operation at a time write a session, as `NegotiationSession` does without `Overlapping`.
* *Code nothing calls*, found by search for callers: `close_out_app` of the gateway,
  the circuit breaker (constructed only), `cleanup_expired_sessions`,
  `mark_expired` and `mark_closed_by_buyer` of the session, `verify_kyc`,
  `handle_session_agreed_deploy`, `handle_session_agreed_create_thread`,
  `release_milestone`, `amend_escrow_amount`, the Merkle `generate_proof` and
  `verify_proof`, `deactivate_expired_catalogue_items`, the task queue, the weekly
  report, the limits on event streams, and `record_deposit` and `record_withdrawal` of
  the treasury.
* *Uint64 overflow* cannot occur: the only arithmetic of the contract is the
  transfer of one amount.

### Not modelled

* *The probabilities of the opponent model, confidence, analytics.* Beliefs are floats
  updated by heuristics. Which prices they were made from is `OpponentBeliefs`; the type
  and the few numbers the engine reads from them are inputs of `Strategy`.
* *Extraction and embedding of texts.* What a parser finds in a document and how a
  profile resembles a product are choices in `Matchmaking` and `CapabilityEmbedding`.
* *Identity beyond row and sign-in*: API keys, challenges, the wizard of the
  registration. Which address a wallet proves, and whether the proof is accepted, is a
  choice.
* *Messaging, wallet ledger*: rows that are appended and read, with no
  law between them that the code would keep.
* *Treasury, admin, health*: they read, or flush a change that is never committed.
* *Rate limiter, caches*: single Redis commands.
* *Forms and lists of the frontend, deployment, migrations* (except the trigger of
  migration 025).

These parts are most of the repository's lines: API schemas, queries, the user
interface, prompts and text handling. A state machine of them would restate
single assignments; this is why the map covers about a quarter of the
source, although every operation that changes state on the way from the RFQ to
the payment is an action.

### Seen in the code, and not the subject of a run

*Negotiation.* A stale turn can reopen a session that was terminated. Words such as
REJECT in a model's text decide how a terminal turn ends. The override of a STALLED
session is unreachable, and so are the strategies for three rounds without
concession. The round limit per urgency ("CRITICAL: 3 rounds") shapes rounding and
time pressure but ends nothing. On expiry the status TIMEOUT is set and not committed.
Failed sessions are normalised by a handler from the row as it was before.

*Beliefs and records.* A detected shift of strategy resets the key of the other side, and
it needs eight prices of the opponent, which a talk of fifteen offers does not give
before its last turn. A session that timed out or is under review leaves no record. Once a
session has a pair of records, `get_by_session_id` (`scalar_one_or_none`) raises, and no
constraint makes `source_session_id` unique. The insights of a profile are updated by a
read and a write, so that one of two updates may be lost. The endpoints of the agents'
memory do not work.

*Page.* The server looks for a header `Last-Event-ID` and the client sends a parameter
`last_event_id`: every reconnection replays everything. `useSSE` reconnects also after it
was aborted, against its comment "if still enabled". Offers and failures are published
before the commit they report. The page does not handle `round_timeout` or the override.
A fetched session may overwrite a newer state, and one under review turns the stream off.
An agreement is not published when the worker dies between the commit and its event.

*Matching.* The keyword search admits again sellers whom the hard filters have rejected.
Two lines of one product use up the three places of a product, which are taken before
lines without a product are dropped. The fallback scores 0.3 per term for every
seller without an industry. One table of best variants serves both channels. The score
of a price compares the price of a unit with the middle of the total budget. A line with a
price per unit and no quantity inherits the budget of the whole RFQ, against the docstring
of `build_parsed_variants`. A second parse that finds a seller matched before dies
(`MultipleResultsFound`) with all it found.

*Grounding.* The match is looked up by RFQ and seller, not by the session's `match_id`.
To rename the matched item reprices a session under way. Valuations are computed at each
turn, the zone of agreement once. The market's prices are never supplied. A quantity with
words in it ("45 cameras") is read for one side and refused for the other.

*RFQ.* The text of an edit is never stored: the second parse reads the old one.
`confirm_rfq` answers with success and commits nothing, but the other sessions it closes,
also agreed ones, stay closed. After select-deal a
session that is still open may agree and be selected as well, for a second escrow.
The RFQ is confirmed by the first agreement, not by the selection.

*Accounts.* Linking does not look for a wallet that is linked already when its copy is
old, against its docstring. Nothing enforces one enterprise per address, and the
login by address then raises. A signed challenge can be spent twice, as it is read and
then deleted. Of the two ways to unlink, one looks for deployed and funded escrows only,
and they look at different columns. A registration by wallet whose link fails leaves an
account with a random password. The page's link sends a body that the endpoint refuses.

*Sign-in.* The administrator's session can never be refreshed, though
`src/frontend/src/context/AuthContext.tsx:139` speaks of a silent refresh. A lost request to
sign out leaves a live cookie. A sign-out of a wallet user leaves a session with Magic, and
so does a registration that fails. The answer of a stale refresh may sign a newer user
off, and a sign-out deletes whichever cookie is there.

*Wallet-signed releases.* The page builds a release that names no foreign account, so that
the inner payment cannot go through. The answer of build-refund-txn drops two fields that
the page needs.

*Payments and orders.* A payment whose confirmation is not seen in time is charged and not
served, and its retry is refused. Two payments can race on one nonce. Two orders for
one deal are possible; `seller_accept` never succeeds, as orders are created ACTIVE.

*Embeddings.* Storing the whole profile can revert an edit made while the vector was
computed. The status COMPUTING stays for ever after a blank text or a crash, and an
edit leaves ACTIVE with no vector. A vector of the registration can be stored over a
newer text.

*Others.* The limiter counts in fixed windows though a comment says sliding, and a crash
between its two commands leaves a counter that never expires. The
Merkle root is computed again after a wallet-signed release. The wallet history lists an
escrow movement twice. Threads are opened without an escrow's id, so that closing those of
an escrow closes none.

## 6. Plan

Done, in this order: contract, aggregate, settlement with its jobs, the ledger it
implements; the negotiation session with its engine and strategies; the audit trail
with its abstract log; the RFQ and the deal; payments, enterprises, purchase orders
and seller embeddings; the records of negotiations, the beliefs of engines, sign-in and
the live page; matching and grounding; proofs of every safety property; the lives of
sessions and escrows that tie `Deal` to the modules that detail it; the session under
overlap, and the safety half of signing out.

What is left, in order of worth:

1. The escrow's row under overlap, as for the session: which stale write may undo a
   rejection or a freeze, and that a row is final once none is under way.
2. An abstract specification of paid access (a nonce is bought once and used once),
   implemented by `X402`.
3. Safety companions of `ApprovalResolved`, `DispatchResolved` and `AgreementIsSeen`:
   that what remains to be done is never forgotten.
3. The opponent model's probabilities as operators over fractions, in place of the inputs
   of `Strategy`.
4. The linking of wallets and the wizard of the registration as endpoint steps.
