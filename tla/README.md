# Fernbank: a TLA+ development

Specifications, model-checking runs and machine-checked proofs for *fernbank*, a
banking application made of a Spring Boot backend (`backend/`), a NestJS
backend-for-frontend (`bff/`) and a Next.js frontend (`frontend/`). Money is kept
in a double-entry ledger in PostgreSQL.

`PROJECT.json` is the index: components, runs, mutants, the map from definitions
to source lines, findings, hazards and theorems.

## 1. Inventory of the system

| Part | State it keeps | Operations | What makes it correct |
|---|---|---|---|
| Ledger core (`banking/*Executor`, `OptimisticRetryTemplate`, `Money`, `AccountBalance`, triggers) | `account`, `account_balance` (with `@Version`), `transaction`, append-only `ledger_entry` | transfer, deposit, withdraw, retry | balances are the sums of entries; entries of a currency sum to zero; nobody overdrawn; a request moves its money once or not at all; every request ends |
| Account administration (`OpenAccountService`, `AdminAccountService`) | `account.status` | open, freeze | a freeze stops later debits |
| Idempotency guard (`IdempotencyGuard` and its callers) | `idempotency_record`, unique per (user, key), TTL of 24 h | execute: look up, operate, audit, save | one effect per key; a replay stands for a real effect |
| Audit log | `audit_event` | record, paged queries | every movement leaves an event |
| Payees | `payee` | add, delete, list | added once per key |
| Scheduled transfers | `scheduled_transfer` (status, attempts, reason) | schedule; the job, every 60 s | posted once; settled for good; eventually settled |
| Refresh tokens and sessions | `refresh_token` (family, revoked_at, expires_at) | login, refresh, logout, revoke session | rotation is a chain; reuse revokes the family; logout ends the session |
| Login, lockout, rate limit | `app_user.failed_login_attempts`, `locked_until`; in-memory buckets | login | repeated failures lock |
| MFA and step-up | `mfa_secret`, `recovery_code` | enrol, confirm, verify, step up | a recovery code works once |
| Reconciliation | none | hourly check | reports real discrepancies only |
| Statements, exports, account queries | none | keyset-paged reads | every entry on exactly one page |
| Money codec, account numbers, IBAN check | none | pure functions | inverse of each other, check digits valid |
| Authorization | keys | filters, ownership guard | - |
| BFF session cache and cookie (`session/`, `auth/`, `backend-client/`, `proxy/`, `csrf/`) | in-memory cache session -> (access, refresh token), refresh locks; the browser's encrypted session cookie and its CSRF cookie | login, proxied call, refresh, forced refresh, step-up, logout, sweep | a rotated token is presented only after a loss; one refresh at a time; a call applied once; logout is final; no request waits for ever |
| BFF notifications (`notifications/`) | poller per session: reference count, interval, last-seen entry per account | subscribe, seed, poll, teardown | one loop per session; no entry passed over, or announced twice |
| BFF dashboard, warm-up, throttling | none; counters | fan-out read, health probe | feed and chart complete for the accounts read |
| Frontend session (`lib/auth`, `hooks/use-idle-logout`, `components/auth`, `proxy.ts`) | user, route, forms, timers | bootstrap, sign in, MFA, register, sign out | a user is shown exactly with a live session; idle users are signed out |
| Frontend queries (`hooks/queries`, dashboard and account pages) | query cache | fetch, invalidate, next page | what is shown follows the notifications |
| Frontend pages that write (transfer, payees, profile) | wizard step and form, dialogs, enrolment | the mutations | one transfer per visit, the one reviewed; answers fit the screen |

**How they interact.** The browser holds an encrypted cookie with a refresh token.
The BFF turns it into access tokens (`POST /auth/refresh`) and forwards calls with
the browser's `Idempotency-Key`. In the backend a write endpoint calls the guard,
which calls a service; a money movement runs in the retry template, each attempt a
`REQUIRES_NEW` transaction. The scheduled-transfer job calls the same
`TransferService` from inside its own batch transaction. Everything in the backend
shares one PostgreSQL database at READ COMMITTED; exceptions roll back the
transaction of the method that throws.

**What is hard.** Concurrent transactions over the same balance rows (stale reads, lock
order, retries); transaction boundaries that split an operation from its record and its
audit event; crashes between two commits; several processes running the job; writes made
in a transaction that the method's own exception rolls back; tokens read before and
rotated after another call; answers that are lost, or arrive after the session, the page
or the dialog they were asked for has gone. `PROJECT.json` lists each hazard at its
line.

## 2. Modules

| Module | Role |
|---|---|
| `LedgerBase` | accounts, commands and the two legs of a command; constants and their assumptions |
| `AtomicLedger` | abstract specification: one-step movements |
| `Ledger` | the ledger core as the code runs it; refines `AtomicLedger` |
| `LedgerProofs` | its inductive invariant, safety theorems and the refinement |
| `SumTheorems` | what sums over finite sets do, for `LedgerProofs` and `ViewsProofs` |
| `MCLedger` | TLC instances |
| `Idempotency`, `MCIdempotency` | the guard around the write endpoints |
| `TransferRows` | the rows of scheduled transfers, and what is promised of them |
| `ScheduledTransfers` | scheduling and the batch job, which write them |
| `RetriesProofs` | the proofs about `Idempotency` and `ScheduledTransfers` |
| `TokenRows` | the refresh token rows, and what is promised of them |
| `RefreshTokens`, `MCRefreshTokens` | the transactions that write them |
| `BffSession`, `BffSessionProofs`, `MCBffSession` | the BFF's session cache, handlers and cookies, with the backend's tokens as they see them |
| `Notifications`, `NotificationsProofs`, `MCNotifications` | the notification poller and the tabs that listen to it |
| `Views`, `ViewsProofs`, `MCViews` | the dashboard and a statement, from the backend's pages to what is shown |
| `Pages`, `PagesProofs` | the transfer wizard, the payees' dialogs, the MFA tab |
| `WebSession` | being signed in, as one tab sees it |
| `SessionProofs` | the proofs about `RefreshTokens` and `WebSession` |

Operators that carry a comment beginning with "Mutant:" are deliberately wrong
variants of the definition below them. No specification uses them; putting one in
the place of its definition must break the property that `PROJECT.json` pairs it with.

### Ledger

Each request is a thread inside `OptimisticRetryTemplate.execute`. `phase[r]` is the
next statement of its current attempt, `snap[r]` the balance rows the attempt's
persistence context holds, `failures[r]` the attempts that ended in a stale version.

| Code | Action |
|---|---|
| the checks at the start of `transfer`, `deposit`, `withdraw`, in their order, on the `account` rows | `LoadAccount` |
| `getOrCreateCashClearing` | `FindClearing` |
| first / second `accountBalanceRepository.findById` with the arithmetic and the funds check | `LoadDebit`, `LoadCredit` |
| flush: `INSERT` of a new clearing account, balance `UPDATE`s in the order the rows were loaded | `InsertClearing`, `UpdateDebit`, `UpdateCredit` |
| commit | `Commit`, in the step of `UpdateCredit` |
| stale version caught, backoff, next attempt / last one | `Retry`, `GiveUp` |
| any other exception | `Refuse` |
| PostgreSQL's deadlock detector | `AbortDeadlocked` |
| `openAccount`, `freeze` | `OpenAccount`, `Freeze` |
| the process dies | `Crash` |

`ledger_entry` is kept as the sums the reconciliation queries form, per account and
per currency of the entries (an entry's currency is the amount's, and need not be the
account's). `MaxLong` stands for `Long.MAX_VALUE`; Java's `Math.*Exact` makes
overflow a refusal. A system account is named by its currency, because the unique
index `uk_account_system_currency` allows one; the INSERT that would violate the
index is modelled where it happens, at the flush, outside of the `try` block that
means to catch it. Commands debit customer accounts only (`AccountOwnershipGuard`,
or the clearing leg of a deposit). `CLOSED` is an account status that no code sets.

Left out of `Ledger`: descriptions, timestamps and ids; the `transaction` row (one
per commit); the foreign-key share locks on `account`, which conflict with neither a
freeze nor a movement; freezes that conflict with each other on `Account.version`.

### Idempotency

A call is an execution of `IdempotencyGuard.execute`. What commits together depends
on the caller, hence three endpoint classes: `movement` (movement, audit event and
record are three transactions), `service` (operation with audit event, then the
record) and `payee` (`addPayee` is itself `@Transactional`, so all in one). Calls may
overlap, be cut off between any two transactions and come after the record's
expiry. `overlaps` is a history variable: the keys of which a call was let through
while another one was in progress.

### ScheduledTransfers

`executeDueTransfers` in any number of processes. `Select` is the query's snapshot,
`LockRows` the `FOR UPDATE` that waits for the other process and re-evaluates the
predicate on the rows it waited for, `Execute`/`Fail` the body of the loop, whose
money movement commits at once, `Commit` the batch transaction with statuses,
attempts and idempotency records. Row locks are acquired in one step: a process that
waits while it holds some of its rows is not distinguished from one that waits
before it takes any. Loop order is any order. Whether the ledger accepts a movement
is left open, except for the step-up check, which depends on the amount alone.

### RefreshTokens

A worker reads a token and commits later what it decided on that read; there is no
lock and no version. `detected`, `ended` and `raced` are history variables: families
for which a call was answered as reuse, families a logout has ended, and tokens that
were read while another transaction worked on the same read. A family is named by its
first token. Access tokens are stateless and not modelled.

### BffSession

The BFF is one Node.js process, so the code between two `await`s is one step, and each
`await` is a place where the other requests run. A request is `wait`ing for a refresh
(its own, or the one in flight that `refreshWithLock` hands it), at the backend
(`call`), back from it (`answered`), or its response is on its way (`respond`).

| Code | Action |
|---|---|
| middleware, guards, `requestRaw` up to its first await (`resolveAccessToken`) | `StartCall`; `StartAuth` for login and logout |
| `callRefresh` at the backend, and its failure or lost answer | `RefreshAtBackend`, `RefreshFails` |
| `then`/`finally` of the refresh, and everyone who awaits it | `SettleRefresh` |
| the call itself, applied or not, heard of or not | `CallAtBackend`, `LoginAtBackend`, `LogoutAtBackend` |
| 401: `forceRefresh` and the second try | `ForceRefresh` |
| the handlers' ends with the cookie interceptor | `FinishCall`, `FinishLogin`, `FinishLogout`, `FailCall` |
| `sweep`, expiry, a new process | `Sweep`, `Expire`, `Restart` |
| the response in the browser | `Deliver`, `LoseResponse` |

The proxied calls stand for every route of `proxy.controller.ts`; those handlers send
their response themselves, so the interceptor's cookie comes too late. The dashboard
stands for the handlers that return a value, login for `mfaVerify` too. The backend is
that of `RefreshTokens` without its races: a refresh rotates an active token and
refuses any other. `lost`, `out`, `raced` and `crossed` are history variables.

### Notifications

A poller is the `PollerState` of a session; `task` holds the seeds and polls that run,
one `await` per account. The interval does not wait for the last poll, so tasks
overlap. A tab reconnects after its connection breaks, before or after the server
tears the old one down. Entries are numbered by `createdAt` and may commit out of that
order. `owed` collects what a tab should be told: entries posted while it was connected
and their account had been seen; `excused` those that committed behind a newer one,
were pushed off the page, or were overtaken by the seed.

### Views

The dashboard and one statement are two queries of one cache; one page is mounted at a
time. Of TanStack Query (external) the model has what the pages rely on, stated at the
head of the module. `ReadDashboard` is one statement of the fan-out, `ShowDashboard`
its answer, in which `mergeRecentActivity` and `dailySpend` are operators;
`ReadStatement` is one keyset page. `since` remembers what was posted when the data
shown was asked for, `unseen` the entries whose refetch did not happen.

### Pages

A mutation is a record in `calls`, with the visit it was sent in, whether its details
were edited since, what the backend has done with it and how its promise ended. The
call's number is its `Idempotency-Key`, since `apiFetch` makes a new key for every
call; that one key has one effect is `Idempotency`'s subject. Fields are valid or not
(`None`), as the zod schemas decide. Executing a call and settling it are separate
steps, so an answer may be lost on its way, and a call may be executed after its
sender has given up.

### WebSession

One tab, at most `MaxOpen` calls of the user under way besides the bootstrap. `Show`
changes the route with all that mounting and unmounting does: forms lose their state,
`AuthGate` starts or clears the idle timers, `proxy.ts` redirects by the cookie. The
BFF is the set of sessions it accepts. `crossed` says that a sign-in overlapped a
sign-out or the bootstrap, `strayed` that the user went from the application to a
public page, where no idle timer runs.

## 3. Runs

The backend's runs without liveness, and `bff_session`, use symmetry over
interchangeable requests, calls, sessions, tokens or threads; no run with liveness does.

| Run | Result | What it shows |
|---|---|---|
| `ledger_contention` | pass, 105k states | three requests of four kinds over the same rows, 2 attempts each, freezes, crashes: reconciliation's two checks, no overdraft, freezes hold, stale failures are paid for by other requests' commits |
| `ledger_requests` | pass, 135k | two requests over every refusal, two currencies, account opening, a long of -4..3, two creations of one clearing account, a deposit in deadlock with a withdrawal: types, refinement of `AtomicLedger` (proved for every instance, section 5), and every request is answered |
| `idempotency` | pass, 260k | three calls, two keys, two payloads, everything may overlap, be cut off and expire: what the guard still promises, and what a second effect needs |
| `idempotency_overlap` | violation | two overlapping calls of one key move the money twice |
| `scheduled_crashes` | pass, 246k | three transfers, two processes, one crash |
| `tokens` | pass, 230k | four tokens, two threads: revocation is final under any interleaving; a fork of the rotation, or a session that survives its logout, needs two simultaneous readers of one token |
| `tokens_reuse` | violation | reuse detection is rolled back |
| `bff_session` | pass, 1.7M | two requests, two sessions, two tokens, everything that can be lost or overtaken: reuse needs a loss, single flight, calls applied once, logout final, CSRF cookie kept, nobody waits for a refresh that is over |
| `notifications` | pass, 770k | one tab, two pollers in a row, two tasks at a time, three entries, pages of one, two faults |
| `views` | pass, 3.7M | three entries of two accounts, pages of one and two, in any order of commits, fetches, invalidations and navigation |
| `pages` | pass, 1.5M | three calls over two visits, one lost answer |
| `web_session` | pass, 580k | two sessions, two calls of the user and the bootstrap, one fault |

**Bounds.** Three requests are the fewest for which a request can fail twice because of
two others, and for which a wait cycle can coexist with a third writer. Balances of 2
with amounts 1 and 2 make every pair of debits compete for funds. Two attempts let both
a successful retry and an exhausted one happen with three requests. Two requests suffice
for the refusals, which depend on one request and the rows. In `Idempotency` three calls
cover a first call, a call that overlaps it and a later resend, and two keys and two
payloads the confusion of either. In `ScheduledTransfers` the three attempts are the
code's; three transfers make batches of which one is settled, one fails and one stays
open; one crash is enough to separate money from status, and `MaxCrashes` also states
what the liveness needs: a job that crashes for ever settles nothing. Four tokens allow
two families, a rotation chain of four, and two successors of one token next to a third.

`BffSession`: two requests are the one that refreshes and the one that joins, overtakes
or logs out; two tokens are a rotation, or a second login over the first session's
cookie (a rotation *and* a second login need three, which take longer than the run may;
the proofs cover them). `Notifications`: a page of one entry makes a burst of two enough
to push an entry off; two tasks are an overlap, two faults a broken connection and a
failing call, two pollers a reconnection that finds the old one gone. The run has one tab
and one account, so it is the theorems (section 5) that cover pollers shared by several
tabs, and several accounts; liveness (`OwedIsAnnounced`) is checked for the one tab only. `Views`: pages of
one entry give a statement of two pages with three entries, a dashboard page of two is
full or not. `Pages`: three calls are a transfer, its step-up and the transfer sent
again, or enrol, confirm, enrol again; the second visit receives the answers of the
first. `WebSession`: two sessions are the one a late answer belongs to and the one it
hits.

**Fairness.** `Ledger`: weak fairness of each request thread (a servlet thread runs)
and of the abort of a deadlocked transaction (`deadlock_timeout` fires). It is not
assumed that a particular request wins a race: the bound on attempts ends it. No
fairness for clients, freezes, openings or crashes. `ScheduledTransfers`: weak
fairness of each job thread, which `@Scheduled(fixedDelay = 60_000)` starts again
and again. `Notifications`: weak fairness of each task's steps, of the interval as long as it
is not cleared, and of the teardown of a closed connection. `WebSession`: of timers,
effects and answers together (`SystemStep`); the user owes nothing, and `IdleSignsOut`
is about behaviours in which the user stops. The other modules state no liveness.

**Deadlock** is checked except in the runs of `Idempotency`, `Notifications`, `Pages`
and `WebSession`, where a finite set of calls, entries, visits or sessions simply ends.
In `Ledger` an existing account may always be frozen again, so stuck requests are found
by `EveryRequestAnswered` and not by TLC's deadlock check.

## 4. Findings

Two runs show, by a violated property, that a document or a comment says something
else than the code does; `PROJECT.json` quotes both.

1. Two overlapping calls with one `Idempotency-Key` both take effect
   (`idempotency_overlap`). `SecondEffectNeedsFault` names the only other ways: a resend
   after a call was cut off between its commit and its record, and one after the record
   has expired. A call cut off there may also leave its movement without an audit event
   (`EffectIsRecorded` excepts lost calls for this reason).
2. Refresh-token reuse does not revoke the family: the exception rolls it back
   (`tokens_reuse`).

Other places where the models say less than a document does. Each is an exception that
a property names, and dropping the exception makes TLC show the case:

- Opposite transfers deadlock, and the victim fails: only optimistic failures are
  retried (`AbortDeadlocked`; `EveryRequestAnswered` allows the error).
- A scheduled transfer is posted again after a crash: its idempotency record is rolled
  back with the batch, although the money is not (`ExtraPostingsNeedCrashes`). The
  proof's invariant `Recorded` says more: a committed record exists exactly for
  `EXECUTED` transfers, which the job never selects, so the key protects nothing.
- Step-up *is* enforced on scheduled transfers, so large ones always end `FAILED`.
- A token rotated during a proxied call never reaches the cookie: after a restart, a
  sweep or a failed forced refresh the session's next refresh is a reuse
  (`ReuseNeedsLoss`).
- A logout presents the cookie's token, which may have been rotated: the backend's
  session then survives it, and a request or poll under way puts it back into the
  cache (`LogoutIsFinal`).
- A response that arrives after a logout's leaves a session cookie without a CSRF
  cookie (`CsrfFollowsSession`).
- `docs/architecture.md:196-197` promises reconnection with "no data loss"; the new
  poller is seeded afresh, and what was posted in between is not announced. Bursts of
  more than a page and entries that commit late are not announced either
  (`NothingPassedOver`), and overlapping polls announce twice
  (`ToldTwiceNeedsOverlap`).
- A notification during a query's first fetch, or during one that "load more" cancels,
  is not followed by a fetch (`DashboardFollowsNotifications`,
  `StatementFollowsNotifications`).
- A transfer confirmed again after a lost answer goes out under a new key and moves the
  money twice, where the landing page says "safe to retry, never double-applied"
  (`OneTransferPerVisit`); and one edited while its first attempt is under way is sent
  after the step-up without having been reviewed (`SentWasReviewed`).
- The answer to a payee call closes the dialog that has been opened since for another
  payee (`AnswerFitsScreen`). Of this case and of the edit under way no document says
  anything: the two properties do not exclude them, they show that there is no other.
- Starting an MFA enrolment replaces the secret in use at once, where the API description
  (`docs/openapi.json:461`) says "not yet active until confirmed": whoever begins one and
  leaves it is locked out of their authenticator. `LockedOutNeedsEnrolment` does not
  exclude that; it shows that there is no other way. Enrol, confirm, `Done`, enrol again
  is the case, on one visit with no answer lost.
- A late sign-out or bootstrap answer clears the user or the cookie of a newer sign-in
  (`UserMeansSession`), and no idle timer runs on public pages (`IdleSignsOut`;
  `README.md:106`: "Auto-logout after 5 minutes of inactivity").

Not a finding of its own: two concurrent refreshes of one token both succeed and leave
two active successors, and a refresh that races a logout keeps the session alive.
`TwoSuccessorsNeedRace` and `LogoutEndsUnlessRaced` state that this is the only way to
either.

## 5. Proofs

All invariants and action properties of the passing runs are proved, for every value of
the constants that satisfies the named assumptions (`LedgerConstants`, `LedgerBounds`,
`BalancedOpening`, `IdempotencyConstants`, `ScheduledTransfersConstants`,
`RefreshTokensConstants`, `BffConstants`, `NotificationConstants`, `ViewConstants`,
`PageConstants`, `WebSessionConstants`, `NoneIsNoCall`), which TLC evaluates in the runs.
Bounds such as `MaxCalls`, `MaxFaults` or the set `Entries` are constants as well: a
theorem is about every one of them. The assumptions say that constants have their types,
that there is at least one attempt, call, session and entry on a page, that the dashboard
asks for at least as many entries as it lists (50 and 10 in the code), that `None` is none
of the values it stands in for, and that the books the ledger starts with are balanced
(`BalancedOpening`: finitely many accounts, whose opening balances of each currency sum to
zero). `RetriesProofs` and `SessionProofs` extend the rows of the batch job and of the refresh
tokens and reach what writes them by INSTANCE (`Job`, `Tok`); there the assumption is a
hypothesis of each theorem.

**Ledger** (`LedgerProofs`). `BalanceMatchesEntries` is not inductive: a commit
writes balances computed from `snap`, so one must know that what was read is still
there. `IInv` adds, for each request, what its phase has established: the checks it
passed (`Accepted`), what it knows of the clearing account (`ClearingKnown`), the
rows it read and that *equal versions mean equal balances* (`DebitRead`,
`CreditRead`), and that the locks it holds protect them (`HoldsInsert`,
`HoldsDebit`). The difficult case is `Commit`: its own two rows are current because
of the version check and the held lock (`CommitEffect`), and every other request
that read one of them is left with an older version (`CommitKeepsOthers`). From
`IInv` follow `TypeCorrect`, `Reconciled`, `NeverOverdrawn`, `FreezeDrains`, and
`LedgerIsAtomic`: a commit is an `AtomicLedger!Move`, an ending without commit or a
crash a `Refuse`, an opening an `Open`, everything else a stutter.

`BooksBalance` (`ZeroSumByCurrency`) starts from `BalancedOpening` and uses that a commit
takes from one row of a currency what it adds to another (`SumOfMoved`).
`FailuresAreCommits` strengthens its property to `FailuresInv`: a request whose read is
out of date (`Outdated`) has been passed by one commit more than it has failures, so a
failure for a stale version is paid for when it comes. `NobodyHangs` is the safety half of
`EveryRequestAnswered`, without `ENABLED`: a lock is held by a request in the middle of
its flush (`LockInv`), and finitely many requests that wait for one another contain a
cycle (`WaitersCycle`: the smallest set that holds whoever its members wait for), so among
whom an unanswered request waits for, directly or through others, one can take its next
step (`GoesOn`) or is in a cycle that PostgreSQL breaks (`InCycle`).

**Sums** (`SumTheorems`, lemmas only, for `BooksBalance` and `ChartIsComplete`). The
community modules' `SumFunctionOnSet` folds over a set in an order of its own. That it is
the same whichever element is taken first (`SumTakesAny`), stays what it was when an
amount moves (`SumOfMoved`) and grows with the set if no term is negative (`SumGrows`)
would be inductions over a set; they are proved by the smallest counterexample instead,
since the subsets of a finite set are well-founded.

**Idempotency** (`RetriesProofs`). `IInv` ties each call's phase and answer to its
effect, and each record to an audited effect of its key (`RecordOfEffect`); the unique
key makes the call that saved a record the only one answered "ok".
`SecondEffectNeedsFault` needs a second invariant, `AloneInv`: while calls of a key have
not overlapped and its record has not expired, a call in progress is the only one and
finds no record, so no effect of the key can be both finished and unrecorded unless its
call was lost.

**ScheduledTransfers** (`RetriesProofs`). `JobInv` says that a working runner holds the
locks of its batch (`Holds`), counts a transfer's postings as those of its status, the
one in flight, and at most one for each crash (`Postings`), and that a pending transfer
has attempts left (`Attempts`).

**RefreshTokens** (`SessionProofs`). `TokenInv`: jobs are about issued tokens, unissued
tokens have no parent, and a rotated token is revoked; that a job may commit on a stale
read does not matter to revocation, because both writers write the same value. `RaceInv`
adds what holds where no token was read twice at once: the reader finds the row as it
was (`SoleReader`), a family has at most one active token (`OneActive`), and none once
it is logged out (`EndedIsRevoked`).

**BffSession.** All six properties of the run are proved, for any number of sessions,
requests and tokens. The assumption `BffConstants` only keeps `None` apart from the
values it is the absence of.

`Sane` ties the other fields of a handler and of a refresh to where
it stands; a call that may be repeated has had no effect, hence `AppliedOnce`.
`Flights` says that who has started a refresh waits for it (`Owned`), that a lock is
held for a refresh of its session (`Locked`), and that before a logout every refresh
holds the lock (`Single`). With them `WaitersAreResumed` is inductive: a settled refresh
resumes all who awaited it, whosever lock it drops. `Guarded` strengthens
`CsrfFollowsSession` by the requests that may still write a cookie.

The second half of the module follows the tokens. `Held(s, t)` says that a cookie, a handler, a
response, the cache or a refresh has `t` for `s`; only a finished login and a rotation
take hold of a new token (`HeldKept`). `Lineage` says that a token is held for its own
family (`Families`), that a family has one active token, and none after its revocation
(`Rows`), that nobody knows the session of a login that has not finished (`Newcomers`),
and that a logout answered "ok" has revoked its token (`Revoking`). On it rest two
arguments:

- `Kept`, for a session that is alive and has lost nothing: its cached token is the
  active one unless a refresh has rotated it and not settled (`Newest`); a refresh
  presents the active token (`Presents`); and whoever holds a token of the session, the
  cache or a refresh in flight has the newest (`Knows`). A new refresh starts when none
  is in flight, by `Single`, so from the cache, so with the active token. This gives
  `ReuseNeedsLoss`.
- `Gone`: a logout that revoked the token while nobody else used the session leaves no
  active token, no entry, no successful refresh and no authenticated call (`Emptied`),
  and each of these could only come back from one of the others. This gives
  `LogoutIsFinal`.

**Notifications** (`NotificationsProofs`). All three invariants of the run. None is
inductive. That the interval and the reference count agree with the connections needs to
know what a poller that was never started has (`NewIsFresh`) and that tasks belong to
pollers (`TasksOwned`). `ToldTwiceNeedsOverlap` is about announcements, but what prevents
a second one is what the poller has seen: `ToldIsSeen` says that nothing a tab was told
of is newer than the poller's last entry, or than a page that is about to become it, and
`PageFits` that the page of a poller's only task still reaches back to that entry or lies
beyond it, so `takeUntilId` stops where it should. `NothingPassedOver` needs `PageHasAll`:
a page that came back before an entry committed may still be handled after it; it then
lacks only entries that are newer than all of it, that were excused, or that a full page
pushed off. Counting entries on a page is reduced to `RankIsOnto`: the entries of a
finite set have the ranks 0, 1, ..., each one of them, so `newest n` has n entries if
there are as many, and all it leaves out are older.

**Pages** (`PagesProofs`). All four properties of the run, `AnswerFitsScreen` an action
property. The wizard's invariant is `OneAfterTheOther`: of the wizard's calls on one visit
all but the latest have settled, and no transfer among them has succeeded as far as the
page knows. It holds because a pending mutation disables the button and a receipt has
none (`StepFits`). `SentWasReviewed` also needs where the details of a retry come from:
while a call is awaited, its order is the last reviewed (`SeenIsReviewed`), and a form
that differs from it at the step-up step was edited under an attempt (`ReviewAtStepUp`).
For the answers, `FitsScreen` says that the screen shows what an awaited call was sent
for unless it was changed since, with at most one awaited call of a kind (`OneAwaited`).

**Views** (`ViewsProofs`). All five invariants of the run. `DashboardOK` and
`StatementOK` say of each query what its data and the fetch under way have of what was
posted when they were asked for (`since`, `start`), and that whoever is fresh was asked
for after every notification that caused a fetch. For the statement this is `Chain`: the
pages read so far descend, each ends at the cursor of the next, and nothing that was
posted at the start is missing above the last cursor. `ChainGrows` extends it by the page
of the next request, whatever has committed meanwhile, and serves a fetch that starts
afresh as well as `fetchNextPage`, whose page is joined to older data (`since` is then
the older one). `FetchesAreShown` (a fetch belongs to the page that is mounted) is what
makes a notification restart it. `RecentActivityIsNewest` then compares counts: an entry
that its account's full page left out is older than `DashboardPage >= Limit` others.
`ChartIsComplete` (`SpendIsTotal`): no account's page is degraded or full, so the pages
together have every debit of the day, and the sums are over the same set.

**WebSession** (`SessionProofs`). `TabInv` says of an undisturbed tab (no fault, nothing
crossed) that sign-outs are not under way together with what sets the user or the cookie,
nor the bootstrap with a sign-in (`Apart`); that what is on its way is true of the sessions
(`CallOK`: a `/me` of the cookie's session that answered "ok" is about a live one, a
sign-in's new session is live); and that, unless a sign-out is under way, the user is tied
to the cookie (`Tied`). A step that breaks one of them counts as a fault or a crossing, so
`UserMeansSession` is what is left when no call is under way. `PagesAreWatched` is the
safety half of `IdleSignsOut`: on a page of the application the idle timers run for its
user, or the redirect to the sign-in form is due, or the bootstrap is under way.

The inductive invariants were model-checked before they were proved (of `Kept`, `Knows`
for what the browser and the handlers carry only; the proof has it for all that is held).

**Only model-checked:** liveness (`EveryRequestAnswered`, `DueIsSettled`,
`OwedIsAnnounced`, `IdleSignsOut`), which needs ENABLED and fairness and is beyond the
prover.

## 6. Not modelled, and what is left

- Login, lockout and rate limit of the backend, recovery codes and TOTP: counters and
  rows of one user, each changed in one transaction. The rollback of the failed-login
  counter has the cause that `tokens_reuse` shows for the token family.
- The reconciliation job: its checks are invariants of `Ledger`; that its queries see
  different snapshots can make a report wrong, not a balance.
- Money codec, account numbers, IBAN digits, search, date filters, exports: pure
  functions, or reads with another key.
- The password, sessions and login-history tabs: single calls whose answers change one
  message. Throttling: a throttled call is one that fails.
- Mixed currencies in the spend chart (`lib/spend.ts` adds minor units of all accounts)
  and the query cache that a logout does not clear: no two steps are needed to see
  them.
- Rendering and the UI kit, generated types (`schema.d.ts`), CSV/PDF layout,
  cryptography and key material, configuration, deployment.

Left to do: a refinement of an abstract session by `BffSession` composed with
`RefreshTokens` and its races; a bound on effects per key and cut-off call for
`Idempotency`; `Reconciliation` over `Ledger`.
