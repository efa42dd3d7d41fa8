# UserPlatform in TLA+

A verification development for UserPlatform: one account, one credit balance and one session
store shared by several mini apps. It models the parts of the code in which concurrent
requests, retries, crashes and operators meet: the credit engine and its sweeper, the platform
exchange that opens accounts, the way of a request through the checks of the API, the account
page with its session, and the repositories, whose fakes the unit tests rely on. TLC
checks the models on small instances; TLAPS proves every safety property that the passing runs
check, the three refinements among them, for every value of the constants; liveness stays with
TLC. Paths below are relative to the repository.

## 1. The system

| part | source | state | operations |
|---|---|---|---|
| credit engine | `packages/credits/src/engine.ts` | `credit_wallets`, `reservations`, `credit_ledger`, `usage_events` | `reserve`, `commit`, `release`, `getBalance` |
| stale sweep | `engine.ts:366` `releaseStale` | the same tables | list the oldest reserved rows, release them one by one |
| repositories | `packages/db/src/repos.ts`, `postgres.ts`, `supabase/migrations` | all tables | one SQL statement per method, under the keys, CHECKs and references of the schema |
| transactions, pool | `postgres.ts:90` `createPgDb` | connections, row locks | `withTransaction`: connect, BEGIN, callback, COMMIT or ROLLBACK |
| platform exchange | `apps/api/src/services/exchange.ts` | `users`, `user_identities`, `profiles`, wallets, ledger, `user_acquisitions`, `sessions` | `exchangeIdentity`: sign up or log in, mint a session |
| request authentication | `apps/api/src/auth.ts` | `sessions`, `service_credentials`, `apps`, `users` | `resolveSessionUser`, `resolveServicePrincipal` |
| routes | `apps/api/src/routes/*.ts` | none of their own | credit routes, service exchange, browser exchange, logout, `/v1/me` |
| operator CLI | `apps/api/src/scripts/service.ts` | `service_credentials` | create, list, revoke, rotate |
| initData validators | `packages/auth-core/src/telegram.ts`, `max.ts` | none (pure) | validate a signed payload and its time |
| in-memory repositories | `packages/db/src/memory.ts` | a map per table | the same methods with hand-written checks, for unit tests |
| account UI, clients, contracts | `apps/account`, `packages/platform-client`, `packages/contracts` | screen, session cookie | boot, persona login, logout, reload; one fetch per call; schemas |

**Interaction.** An app's backend calls the service exchange with its service credential and gets
an app session; it calls the credit routes with credential and session; the route checks both,
then calls the engine, which runs one database transaction. The browser calls the platform
exchange for an account session (a cookie). A worker calls `releaseStale`. Operators change
credentials by the CLI, and apps, operations and users by SQL. Everything shared is in
PostgreSQL: API instances share no memory, so all concurrency is between transactions and between
the single statements that routes run outside one.

**What is hard.** (1) Statements of concurrent transactions interleave at READ COMMITTED: what a
call has read may be out of date at its next statement. (2) Retries: the same request id arrives
again while the first is running, after it failed, or after its answer was lost. (3) Two rows
(wallet, reservation) are locked in different orders. (4) A failure between two statements, or
between COMMIT and its answer. (5) The pool is finite. (6) Checks made before the engine's
transaction may be stale when it runs. (7) The sweep works from a list read earlier. (8) The
account page changes its cookie and its screen at answers that arrive late, fail or are dropped;
in a development build a cancelled run of its boot effect goes on next to the real one. (9) The unit
tests trust fakes whose checks are written apart from the schema's constraints.

**What makes each part correct.**

- *Engine*: every call is one atomic step of an account; credit is never lost, created or spent
  twice; a request has one reservation; a settlement is final, moves what was reserved and is told
  truthfully; every call returns.
- *Sweep*: what callers leave behind is given back; what is counted was released.
- *Exchange*: one whole account and one bonus per identity whatever races; a session of the right
  user and application; every exchange returns.
- *Launch data and account page*: a session is opened only for the user a messenger vouched for, in
  time; the page shows one user's account and history, that of its session, and never hangs.
- *Repositories*: the fakes accept, refuse and answer as the statements and constraints do; a user's
  deletion leaves nothing that refers to it; what is recorded stays as it was first recorded.
- *Routes*: nothing is granted on what ended before the request came; credits move only within
  one user and one application, and an answer names the caller's own reservation.

## 2. Modules

| module | models | builds on |
|---|---|---|
| `CreditTables` | the committed credit tables, the effect of each SQL statement on a row, what must hold between tables | |
| `CreditAccount` | **abstract**: reserve, commit, release, each in one step | `CreditTables` |
| `CreditEngine` | `engine.ts` over `postgres.ts`: concurrent calls, one action per awaited statement | `CreditTables`; instantiates `CreditAccount` |
| `StaleSweeper` | `releaseStale` next to the calls | `CreditEngine` |
| `AccountTables` | the committed account and session tables, and what must hold between them | |
| `AccountOpening` | **abstract**: sign-up and log-in, each in one step | `AccountTables` |
| `PlatformExchange` | `exchangeIdentity`: concurrent exchanges, one action per statement that can wait, conflict or fail | `AccountTables`; instantiates `AccountOpening` |
| `ServiceBridge` | credit routes and service exchange: one action per query of `auth.ts` and `credits.ts`, with operators and time between them, and a history of what each request could rely on | `CreditTables`; uses the steps of `CreditAccount` |
| `InitData` | the checks of the two launch data validators, in their order | |
| `AccountApp` | `App.tsx`, its cookie and client, and the routes it calls | `InitData` |
| `RepositoryCalls` | the rows and calls of `types.ts` and `repos.ts` | |
| `SchemaRepositories` | **abstract**: the statements of `postgres.ts` on the migrated tables, one call at a time | `RepositoryCalls` |
| `MemoryRepositories` | `memory.ts`: the same calls on maps | `RepositoryCalls`; instantiates `SchemaRepositories` |
| `CreditEngineProofs`, `CreditBooksProofs`, `CreditOutcomeProofs` | proofs about `CreditEngine` | `CreditEngine`, and each on the one before |
| `SweeperProofs` | proofs about `StaleSweeper` | `StaleSweeper`, `CreditOutcomeProofs` |
| `ExchangeProofs`, `BridgeProofs`, `AccountAppProofs`, `RepositoryProofs` | proofs about `PlatformExchange`, `ServiceBridge`, `AccountApp`, `MemoryRepositories` | the module they are about |
| `MC...` | instances for TLC | |

The composition is by refinement: `CreditEngine` is shown (and proved) to implement
`CreditAccount`, so `ServiceBridge` takes the engine's transactions as steps of `CreditAccount`.
`CreditTables` starts from the rows a sign-up leaves (`TablesInit`: the wallet with the welcome
credit, its one ledger row), which is what `AccountsAreWhole` says every sign-up leaves.

`AccountApp` takes a browser exchange as one step, which is what `ImplementsOpening` says of it.
Every instance of an abstract module names its substitution: `CreditEngine` and `PlatformExchange`
map the committed tables to themselves and the buffers of open transactions to nothing;
`MemoryRepositories` maps each map to the set of its values (`tables <- AsTables`).

### How transactions are modelled (`CreditEngine`, `PlatformExchange`)

The code uses the default isolation level, READ COMMITTED. What the transaction of a caller has
written is in `buf[p]`; the tables hold committed rows only. A statement reads the tables as they
are when it runs. A row in some other caller's `buf` is locked: an UPDATE of it is not enabled
until that caller commits or rolls back, and then looks at its WHERE clause again; an INSERT waits
for an uncommitted row with the same unique key, inserted or updated, and conflicts with a
committed one. COMMIT moves `buf[p]` to the tables. A throw rolls back and answers in one step:
`withTransaction` runs nothing between them that another transaction could see. When two
transactions wait for each other, `BreakDeadlock` aborts one (40P01). `LoseAcknowledgement` is a
COMMIT whose answer is lost; `Crash` is any failure of an instance, connection or statement.

`pc[p]` is the await a call has reached. `CreditEngine`'s actions are, in the order of `reserve`:
`Connect`, `AdmitReserve` (or `RejectSuspended`), `LoadOperation`, `LookupRequest`, `TryReserve`,
`InsertReservation` (with `RetryAsRead`), `CommitTransaction`; of `commit` and `release`:
`Connect`, `LookupReservation`, `AdmitSettle`, `Transition`, `Reread` (the lost race), `Adjust`,
`AppendLedger`, `CommitTransaction`. Statements that never wait and whose rows nobody else can see
before COMMIT are merged with the statement before them (`usage.record`; in the exchange the
profile, wallet, bonus and acquisition of a user nobody knows yet, `OpenAccount`). A conflict of
`AppendLedger` reads the winner's state in a second transaction (`engine.ts:294-305`); the model ends
the call with that answer at once. `DefencesUnused`, which is proved, says that no such conflict
happens, so an action for the second transaction would never be taken.

### How a request is modelled (`ServiceBridge`)

`pc[p]` is the query a request is at, in the order of the code: credential, app, session, user; for a
reserve the operation and its app, then in the engine the user again (`RequireActiveSpender`), the
operation again (`LoadOperation`), the seen request (`Lookup`), and the step that decides (`Spend`);
for a settlement the owner (`CheckOwnership`), the reservation (`FindReservation`), the user, `Settle`.
A COMMIT may answer 500 (`Committed`). A credential or reservation `None` is one that no row matches.
A key is looked up without an application, twice, and either lookup may give any row of the key.
`held` collects, at every step, what the request could rely on then; the user's status and the
operation count for the engine's own checks only once the engine has been called.

### How the page is modelled (`AccountApp`)

`flow` holds the asynchronous functions of the page: the run of the boot effect and the handlers of
clicks. Each waits for one request at a time, which carries the cookie of the moment it was sent;
`Handle` is the API, `Break` a failed fetch or a 500, before or after the handler wrote, and the
actions under `Proceed` are what the page does at the answer, one per await: `Probed` (the first
`/me`), `Exchanged`, `Met` (`/me` after a login), `Used` (`/me/usage`, whose failure is swallowed),
`LoggedOut`. `Store` comes before the last of these: the browser stores the cookie, or clears it, when
the headers of an answer are there, and the page goes on later, so that after a logout the dashboard is
still there for a moment without its cookie (`LoggedOff`). A body that is lost behind the headers of a
200 is taken for `{}` (`client.ts:75`): rendering an account or a history `{}` throws, nothing catches
it, and React takes the page off (`blank`). A reload drops the functions; requests of theirs that write
may still be handled (`HandleOrphan`). `Relaunch` is the same browser started by the messenger again, maybe by another
of its users. `cookie` is the last one given: the browser drops it when its session expires, and the
API answers a missing and an expired session alike. `strict` chooses the build. A development build
runs the boot effect, cleans it up at once and runs it again (`StrictMode`, `main.tsx:9`), before any
answer can come; so the first run, `Cancelled`, starts cancelled. It sends its probe, and its exchange
too if the probe finds no session, since nothing is asked before that (`App.tsx:67-83`), and the
answer sets the cookie; but it never paints (`Paint`), and goes no further (`GoOn`).

`InitData!Checks` lists what a validator looks at in its order, and the error of each; a piece of
launch data is the record of the answers. Whether the HMAC matches is one bit of it.

Left out of the data: display names, balances in answers, timestamps, latency, metadata of ledger
rows, lengths of input strings. A session row, a credential and a token are model values; "deleted
or expired" is one flag `live` in `ServiceBridge`, since the code answers both alike.

### How the repositories are modelled

A step of `SchemaRepositories` or `MemoryRepositories` is one call with its answer: rows, or the
error thrown. `Violated` is what PostgreSQL would find wrong with a new row; the schema's keys
(`Unique`), CHECKs (`Checked`) and references (`Referenced`) are written once, from the migrations.
`MemoryRepositories` has instead what each `create` of `memory.ts` looks at, in its order
(`IdentityGuards` and so on). The id of a new row is part of the call, so that both draw the same
one. Answers are sets of rows: an update returns one row or null, a list the rows it may choose
from. Rows have the columns that a later call can depend on; an `operationId` and the `appId` of
ledger and usage are left out (they are the registry's), and so are both touches of timestamps.

## 3. Runs

| run | checks | instance | time |
|---|---|---|---|
| `engine_retries` | `TypeOK`, `LedgerExplainsWallet`, `OneReservationPerRequest`, `PendingWritesAreCurrent`, `DefencesUnused`, `DeadlockNeedsDuplicate`, `ImplementsAccount`, `ReusedMeansUntouched` | 3 callers, 2 requests, 1 credit, 3 connections | 1 min |
| `engine_users` | `ReservedIsHeld`, `TrailMatchesStatus`, `OutcomeIsTrue`, `SettledIsFinal` | 2 callers, 2 users, an unknown and a known operation whose price changes | 35 s |
| `engine_returns` | `EveryCallReturns` | 3 callers, 2 connections, fairness | 45 s |
| `sweep_recovers` | `SweeperTypeOK`, `CountedIsReleased`, `LeftBehindIsRecovered` | a worker, a sweeper, 2 reservations, batch of 2, 1 fault, fairness | 1 min |
| `exchange_logins` | `ExchangeTypeOK`, `AccountsAreWhole`, `NothingVanishes`, `AnswerOpensSession`, `ImplementsOpening`, `NewMeansOpened`, `EveryExchangeReturns` | 3 exchanges of one identity, an app, 2 instances with 1 connection each, fairness | 30 s |
| `bridge_routes` | `BridgeTypeOK`, `GrantedWereAllowed`, `AnsweredWithOwn`, `CreditsStayInScope` | 2 apps with a key and request ids in common, 2 users, 1 credit each; either 2 requests at once with 3 sessions, or 1 request and 3 changes (2 where a credential is yet to be made) by operators or time | 3 min |
| `account_app` | `AppTypeOK`, `SessionsAreVouchedFor`, `DashboardIsOfTheSession`, `PersonaMeansSignedOut`, `BootingEnds` | 2 users, both builds, the boot effect and 2 clicks at once, 3 acts (1 in a development build) of which 1 loads the page, 1 failure, 3 instants, fairness | 160 s |
| `repositories` | `StoreTypeOK`, `ReferencesHold`, `ImplementsSchema`, `WrittenStays` | every call, 2 users, 2 values of each column, 4 rows, amounts -1 to 1, wallet versions to 2 | 130 s |
| `bridge_requests` | violates `AnsweredCanBeSettled` | 2 requests at once, only request ids are shared | |
| `engine_insufficient` | violates `DuplicateIsNotInsufficient` | 2 callers, 1 credit | |
| `engine_collision` | violates `CollisionReturnsWinner` | 3 callers | |
| `sweep_starves` | violates `LeftBehindIsRecovered` | 2 users, batch of 1 | |

**What they show.** `ImplementsAccount`, `ImplementsOpening` and `ImplementsSchema` are the
strongest: every step of the detailed model changes the committed tables as one abstract step or not
at all, and a fake gives the answer of the schema, error code included.
`ReservedIsHeld` and `LedgerExplainsWallet` relate the wallet to the sums of its open reservations
and of its ledger. `TrailMatchesStatus` relates the status of a reservation to its usage events
and its debit. `PendingWritesAreCurrent` says no update is lost: what a transaction will commit is
computed from the rows as they are at COMMIT, though it read them earlier. `ReusedMeansUntouched`
is what a backend relies on to start paid work once. `DeadlockNeedsDuplicate` says which calls can
deadlock at all. `NewMeansOpened` says exactly one of the racing exchanges reports a new user.
`GrantedWereAllowed` says a granted request could rely on each of its authorities at some moment
while it was served, a reserve also on an open operation; it does not say at one common moment, which
the code does not promise. `CreditsStayInScope` and `AnsweredWithOwn` are what is left of one user and
one application when the registry and the backends do their worst; `AnsweredCanBeSettled` is what
README.md promises, and fails then (section 4).
`SessionsAreVouchedFor` is the accepted window at both ends, for a Telegram clock that may be ahead
and a MAX clock that may not. `DashboardIsOfTheSession` and `PersonaMeansSignedOut` relate what is
shown to the cookie; the second holds while no request failed, and both for a user who does not
click on logout a second time while the first is under way (section 4).

**Bounds, and why they suffice.** A race in this code is between two transactions about one row or one
unique key; a third caller is needed for a settlement to collide with two duplicates, or for a call to
wait for a connection. Two requests and one credit make reserves compete; two reservation ids are as
many as two requests can leave. One credit is the smallest amount that separates having credit from not
having it; `engine_users` adds an operation that becomes free. One identity is enough for the exchange:
a user is fresh and a token random, so exchanges of two identities have no row and no unique key in
common, only the pool. Three exchanges are a winner, a loser and a later login; two fresh users make a
lost race visible. Each exchange draws one token, and `Start` admits no more exchanges than tokens are
left (so `CHECK_DEADLOCK FALSE`: the run ends when the tokens do). `account_app` ends too, when the acts
are used up: `MaxActs` admits three of a login, a logout, a reload or relaunch, in any order and
overlapping, and in a development build, which has a function more, one of them: a login that overtakes
the cancelled run, or a relaunch by another user; both are what it takes (`PaintCancelled` breaks
`PersonaMeansSignedOut` so). Three instants are before, at and after the expiry of both launch data and
session, with clocks a tick fast or slow. `bridge_routes` has three starts, and the most that two
applications can have in common: each offers the key and draws every request id. Three changes suffice:
each check of a request reads one authority, and the interesting case is one change before the request
comes, one in the middle, one back. In `repositories` four rows of all tables are a user, what belongs
to it, what conflicts or refers to that, and another user or row; conditions compare two rows at most.
Its `VIEW` leaves call and answer out of a state: no guard or effect depends on them, and the properties
of a step are checked on every transition that TLC generates, from states of the same store too.
`MaxFaults` bounds failures where fairness could not bound them. `SteadySpec` of `engine_returns` leaves
out changes of users and operations, which no liveness depends on. In the other engine runs users and
operations change without bound.

**Symmetry** is used in safety runs only.

**Fairness.** `Proceed` and `Deliver` are weakly fair: a Node process runs the continuation of an
answered query. The steps that may wait (`Acquire`) are strongly fair: PostgreSQL's lock queues
and the queue of the `pg` pool serve waiters in order, so a waiter to whom the row or connection
becomes free again and again gets it. The deadlock detector runs (`BreakDeadlock` is in `Proceed`).
Nothing is assumed of callers (a caller may never call again), failures, or operators. The sweeper
adds weak fairness of its own steps: it is started periodically. In `AccountApp` a fetch settles,
with an answer or an error (browsers time out), and the page's promise continuations run; of the
cancelled run nothing is assumed.

## 4. Where code and words differ

Each of these runs checks what a comment or document says, and TLC shows a behaviour of the code
that contradicts it.

- `engine_insufficient`: a retry that races its original for the last credit gets
  `INSUFFICIENT_CREDITS` though its reservation exists (`engine.ts:154-169`; the words: `:5-6`).
- `engine_collision`: a duplicate reserve and a settlement of the original lock wallet and
  reservation in opposite orders; PostgreSQL aborts one with 40P01, which nothing maps or retries
  (`engine.ts:163-171`, `248-261`; the words: `:136-138`).
- `sweep_starves`: as many stale rows of suspended users as the limit hide all others for ever
  (`engine.ts:379-386`; the words: `:367`).
- `bridge_requests`: request ids are unique per user and not per application, so a backend may be
  answered with the reservation of another application, which it may not settle
  (`engine.ts:154`, `credits.ts:109-117`; the words: `README.md:42`).

A shared operation key breaks the promise of `bridge_requests` too, and has no run of its own: a key
is unique per application (`20260919143000_platform_core.sql:62`) but looked up without one
(`postgres.ts:436`), by the route and again by the engine. Where two applications have a key in
common, a reserve may be charged for the other application's operation, and the caller may not settle
it (`credits.ts:96`, `engine.ts:86`): TLC violates `AnsweredCanBeSettled` with `KeyOf <- OneKey` and
`RequestsOf <- OwnRequests` as well. The seed gives each key to one application.

`ImplementsSchema` holds of the fakes for the calls that `Expected` describes. "Enforces the SAME
constraint semantics as the real schema" (`memory.ts:3`) is not so of the others:

- `ledger.append` does not look up `reservation_id`, nor any fake the app or operation of a ledger,
  reservation or usage row; the schema's references refuse what does not exist.
- When a new row violates two constraints the errors differ: the fakes look for the user first, then
  mostly for the conflict, then the CHECK; PostgreSQL for the CHECK, the key, then the references.
- Deleting a user whose reservation is named by another user's ledger row is refused by
  `credit_ledger.reservation_id` (no cascade); the fake deletes it. No code writes such a row.

A smaller observation has no run: the sweep counts a reservation that another worker released
first (`engine.ts:384-385`, `reused` is not looked at).

Observations on the account page, in no run of their own:

- A first `/me` whose fetch fails (no `PlatformApiError`) goes on as after a 401, though the comment
  there speaks of a 401 only (`App.tsx:67-72`); in a browser the persona screen is then shown to a
  user who is signed in. This is why `PersonaMeansSignedOut` says `failures = 0`. The same is true
  of a logout that fails (`App.tsx:121-123`, "Session already gone").
- Logout may be clicked twice while the first click waits. A late second answer clears the cookie
  of a login made in between, or replaces its screen (`App.tsx:118-128`). `impatient` remembers that
  this happened; without `~impatient` both properties of the screen fail with `MaxActs` of 4.
- An answer 200 whose body is lost leaves the page blank (`client.ts:75`, `App.tsx:182`, `193`): the
  `catch` around the fetches does not cover rendering, and there is no error boundary.
- After launch data has expired, "try again" loads the page with the same data and fails again.
- In a development build the cancelled run may log in the user the page was opened by while the other
  run, whose probe still found the previous user's session, reads and shows that user's account, and
  even the new user's history next to it: it takes a relaunch by another user, and a probe that
  fails or a session that expires between the two probes. The `strict` disjunct of
  `DashboardIsOfTheSession` admits just this.
- The `hashCount !== 1` check of the validators is never reached by two hashes: they are duplicate
  keys, refused before (`telegram.ts:57-60`).

## 5. Proofs

Checked by `tlapm` for any sets of users, requests, operations, callers, applications, identities,
rows and clicks, any pool size, catalogue, credit, time window and clock skew. Assumed: the named
`ASSUME`s of the modules, which give the types of the constants, say that `None` is not a row, and
that the ids of the functions of the page differ. Every run evaluates those of its modules.

Each module proves an inductive invariant (`Init => Inv` and `Inv /\ [Next]_vars => Inv'`), which
TLC had checked on the runs before, one lemma per action; its theorems follow from the invariant, or
from the invariant and one step. The type invariant alone is never enough: what COMMIT or an answer
does depends on what the same call read or wrote several steps ago, while others went on. So each
invariant says, for each place a call can be at, what it holds **in terms of the tables as they are
now**, and the work of the proof is that a step of somebody else keeps this.

| module | invariant | theorems (property of a run) |
|---|---|---|
| `CreditEngineProofs` | `EngineInv` | `TypeCorrect` (`TypeOK`), `NoLostUpdate` (`PendingWritesAreCurrent`), `EngineImplementsAccount` (`ImplementsAccount`), `RequestsReservedOnce` (`OneReservationPerRequest`), `DeadlocksNeedDuplicates` (`DeadlockNeedsDuplicate`), `SettlementIsFinal` (`SettledIsFinal`) |
| `CreditBooksProofs` | `BooksInv` | `ReservedBalanceIsHeld` (`ReservedIsHeld`), `LedgerIsTheTruth` (`LedgerExplainsWallet`), `TrailAgrees` (`TrailMatchesStatus`) |
| `CreditOutcomeProofs` | `OutcomeInv` | `OutcomesAreTrue` (`OutcomeIsTrue`), `ReusedIsTrue` (`ReusedMeansUntouched`), `DefencesAreUnused` (`DefencesUnused`) |
| `SweeperProofs` | `SweepInv` | `SweepersUseTheEngine`, `SweeperTypeCorrect` (`SweeperTypeOK`), `CountsAreReleases` (`CountedIsReleased`) |
| `ExchangeProofs` | `ExchangeInv` | `ExchangeTypeCorrect` (`ExchangeTypeOK`), `OneAccountPerIdentity` (`AccountsAreWhole`), `RetryFindsTheWinner` (`NothingVanishes`), `AnswersAreTrue` (`AnswerOpensSession`), `NewUserIsToldOnce` (`NewMeansOpened`), `ExchangeImplementsOpening` (`ImplementsOpening`) |
| `BridgeProofs` | `BridgeInv` | `BridgeTypeCorrect` (`BridgeTypeOK`), `GrantsAreBacked` (`GrantedWereAllowed`), `ScopeIsKept` (`CreditsStayInScope`), `AnswersAreOwn` (`AnsweredWithOwn`) |
| `AccountAppProofs` | `AppInv` | `AcceptedIs`, `AppTypeCorrect` (`AppTypeOK`), `SessionsVouched` (`SessionsAreVouchedFor`), `SessionsOnlyEnd`, `DashboardIsOwn` (`DashboardIsOfTheSession`), `PersonaIsSignedOut` (`PersonaMeansSignedOut`) |
| `RepositoryProofs` | `StoreInv` | `StoreTypeCorrect` (`StoreTypeOK`), `ReferencesAreKept` (`ReferencesHold`), `RecordsStay` (`WrittenStays`), `FakesImplementSchema` (`ImplementsSchema`) |

- **Engine.** `EngineInv` says what the buffer of a call holds (`WritesFit`); that the row it read
  earlier differs from the committed one in its status at most (`SnapshotFits`); that no row or
  unique key is pending in two buffers (`Exclusive`, which is what the locks are for); that only
  committed reservations have ledger rows (`LedgerFits`); that requests are unique
  (`RequestsUnique`). A step of one caller keeps the others' `WritesFit` because COMMIT changes only
  rows in its own buffer, which `Exclusive` keeps out of theirs. COMMIT is the only step that
  changes tables, and `EngineInv` makes it a `Reserve`, `Commit` or `Release`.
- **Books.** `BooksInv` relates the wallet to sums over reservations and over ledger rows. A sum is
  the cardinality of a set of credits (`CreditTables!Total`), so one row more or less is a union or
  difference of sets (`TotalGrows`, `TotalShrinks`) and no induction over the rows is needed; TLC
  compares `Total` with the folded sum (`TotalIsSum`). Only COMMIT changes the books, and by the
  refinement it does so as one abstract step.
- **Outcomes.** Before COMMIT an outcome is a promise that the pending writes keep (`OutcomeFits`); a
  second attempt of `reserve` finds the reservation that beat the first (`RetryFits`, since none is
  ever deleted); a row read when settled is as it was read (`FinalFits`).
- **Sweep.** Every step of a system with sweepers is a step of `CreditEngine`
  (`SweepersUseTheEngine`): a sweeper is a caller whose `release` calls come from its list. So all
  theorems about the engine hold next to any number of sweepers. `SweepInv` adds that listed rows
  exist, that a sweeper in a call releases the head of its list, and that counted and listed rows
  together are within the limit.
- **Exchange.** `ExchangeInv`: the committed accounts are whole, said without counting
  (`TablesWhole`); a transaction has found or written just what its place says, and what a sign-up
  relied on not being there is still not there (`Fits`); no two hold the same identity, user or token
  (`Apart`). A lost race leads to a second look, which finds a committed identity, because the
  conflict was with one and none is ever deleted.
- **Bridge.** `BridgeInv` says what each check has established at every step after it: in `held`
  (`AuthorityFits`), for the rows of the request (`ScopeFits`), for its answer (`AnswerFits`); and that
  each reservation was made by an application that draws its request id and has an operation of its
  key (`RowsOfApps`). Nothing is assumed of the registry or of the request ids; so the theorems say
  what holds when applications share them, and `Ambiguous` names the cases in which a reserve may be
  answered with another application's reservation.
- **Account page.** An answer is true of the cookie or launch data its request was sent with, and stays
  so, however late it comes (`AnswerFits`): the user of a session never changes, and a session that has
  ended stays so (`SessionsOnlyEnd`); a stored one has left its mark on the cookie. Unless logout is
  clicked twice, one function of the page runs at a time, and what it was asked with is the browser's
  cookie, or the cancelled run of a development build has logged in since (`Follows`, `Overtaken`).
  `DashboardIsOfOne` keeps account and history of one user while the cookie is gone and may come back by
  the cancelled run. The theorem shows that the exceptions named in `DashboardIsOfTheSession` are the
  only ones. `AcceptedIs` says what an accepted verdict of the validators vouches for.
- **Repositories.** `StoreInv`: owners and applications of all rows exist, a ledger row names a
  reservation of its own user (so that deleting the user takes both), one credential per key id. Then
  each call is taken by itself: what the hand-written guards of the fake find, in their order, is
  what `Violated` finds in the tables, and the maps change as the tables do. This covers the calls
  that `Expected` describes, and no others (section 4).

Model-checked only:

- liveness: `EveryCallReturns`, `LeftBehindIsRecovered`, `EveryExchangeReturns`, `BootingEnds`. They
  rest on fairness, that is on `ENABLED`, which is out of the prover's reach.
- that the sum by cardinality is the sum (`TotalIsSum`, an `ASSUME` that TLC evaluates on functions
  of four values): this is induction over data.
- the violations of section 4, which are counterexamples on an instance.

`SelectSeq` and recursion are out of its reach too; this is why `StaleSweeper` says
what a list of the oldest rows **is** (`OldestOf`) and does not compute one.

## 6. Not modelled

The HMAC over launch data, `parseStartParam` (telemetry), parsing and hashing of tokens and cookies
(pure); rendering and host adapters' buttons; contracts; balance, and the order and limits of
listings (they only read); the registry's reads, and the touches of timestamps. Entitlements,
`sessions.deleteExpired` and `users.deleteById` have no caller outside tests: they are modelled as
repository calls, not next to the engine. How an app's backend shares a `ServerPlatformClient`,
which keeps one session token for all its calls (`server.ts:40-59`), is not in this repository. The
development exchanges differ from the real ones
only in where the identity comes from.

## 7. Plan

1. Done: credit engine, sweep, exchange, request authority, launch data, account page of both builds,
   repositories and their fakes; for each of them an inductive invariant, and from it every safety
   property that its runs check; the refinements of engine, exchange and fakes.
2. Next models: `ServiceBridge` for the browser's account sessions.
3. Next proofs: the tables of `ServiceBridge` change as `CreditAccount` says, which carries the books
   over to it; that an idle engine holds no connection or lock; the abstract `CreditAccount` keeps
   the books by itself, without the engine.
