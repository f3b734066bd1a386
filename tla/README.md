# go-lab: a TLA+ verification project

go-lab is a Go API (gin, MySQL, optional Redis) with an Angular admin client. The API
keeps accounts, browser sessions, desktop tokens and the privileged operator
workflows: support cases, operator invites and backup restores. Many goroutines, and
several replicas, run the same handlers against one database, and most handlers are a
chain of separate SQL statements. Its unit tests run one request at a time. These
modules ask what happens when the statements of several requests interleave, fail half
way or come twice.

Paths below are relative to the repository root (`api/...` is `src/api/...` here).

## 1. Inventory

| Component | State | Operations | What makes it correct |
|---|---|---|---|
| Backup restore workflow (`api/authstore/backup_restore.go`, `api/myhandlers/platform_backup_restore_handlers.go`) | `backup_restore_requests`: status, requester, two approval slots | request, approve (transaction with row lock), reject, cancel, fulfil (conditional UPDATEs), audit | two distinct approvers who are not the requester; no lost approval; closed requests stay closed; 200 and audit tell the truth; no row lock is left behind |
| Platform RBAC (`api/platformrbac`, `api/middleware/rbac.go`, `api/authstore/platform_rbac.go`) | role table in code; roles of active accounts of live users | permission check before each route | duties of roles stay apart; a deleted user has no role |
| Browser sessions (`api/authstore/store.go`, `auth_session_handlers.go`, `change_password.go`, `sqlhandlers.go`) | `auth_sessions`: sliding and absolute expiry, revoked | login, validate and slide, refresh, logout, change password, delete user | both time bounds hold; a revoked row is never touched again; revocation reaches requests in flight |
| Desktop auth bridge (`store.go`, `auth_handlers.go`) | `auth_desktop_exchange_codes` | start, redeem (transaction), PKCE check, mint | one token per code; one guess per code; consumed durably before anything is signed |
| Login throttle (`login_throttle.go`) | per-email failure count and lock, in a `sync.Map` or in Redis | check, record failure, clear | bounded guesses per block; a running block is left alone; a count in Redis expires |
| Platform tokens (`api/auth/token.go`, `api/config`) | two secrets per process | mint access, desktop and join tokens; verify with either secret | a rotation goes unnoticed for as long as the runbook waits; a retired secret is worth no more than the difference of the lifetimes |
| Operator invites (`operator_identity.go`) | `operator_invites`, `operator_accounts`, `operator_account_roles` | create; accept (transaction of reads and five writes) | an invite is used up exactly when it gave one account; deleting a user suspends the account, committed or about to be |
| Operator cases (`operator_cases.go`, `cases_handlers.go`) | `operator_cases`, notes, actions | create, patch, note, sanction, recovery, appeal | the audit never names what did not happen and misses only what its own INSERT lost; roles stay apart |
| Admin audit (`admin_audit.go`) | `admin_audit_events`, append-only | one INSERT after each mutation, its error dropped | part of the restore and case workflows; the audit rows of other handlers are not modelled |
| Rate limiter (`api/middleware/ratelimit*.go`) | per-IP windows under a mutex, Redis counters per minute | allow, sweep, fall back | at most rpm per window or per minute and counter; nobody is refused for requests long past |
| OIDC identities (`api/auth/oidc.go`, `api/authstore/identity.go`) | `user_identities` | ensure user on first sight (transaction) | one user per subject; the loser of a race leaves no user behind |
| Admin SPA, sign-in (`auth.service.ts`, interceptors, `app.component.ts`) and the CSRF double submit (`api/middleware/csrf.go`) | per tab: signed in, refresh timer, menu; per browser: session and CSRF cookie | probe, login, logout, refresh timer, 401 handling | timer and menu follow the sign-in; a dead session is noticed; the double submit never refuses the page itself |
| Admin SPA, pages (`cases`, `dataops`) | open case, forms, reason | asynchronous requests | answers belong to what is on screen; not modelled, section 8 |
| Economy ledger, CORS, headers, password hashing, formatting, migrations, CLI tools | none of their own, or read-only | | see section 8 |

**How they interact.** Every privileged route runs the session or bearer middleware,
then the role lookup (which needs an active account *and* a live user), then the
handler, then the audit INSERT. `DeleteUser` cuts across all of them: one transaction
sets `deleted_at`, revokes sessions and suspends the operator account, while requests
of that user are in flight. Components share state only through MySQL, except the
throttle, the limiter and the signing secrets, which live in each process.

**What is hard.** State read by one statement and used by the next (login reads the
hash and inserts the session later; validation reads the row and writes the slide
later; case handlers look the subject up and insert later); transactions that wait for
each other's row locks; snapshots against unique keys (invites, first sights); commits whose answer is
lost; two Redis commands that are meant to be one; errors that are dropped (audit, logout); processes with different configurations
side by side (rotation); the pointer to a throttle state that outlives its map entry;
answers that reach the browser in another order than they were given.
`PROJECT.json` lists these as hazards, each at its line.

## 2. Modules

A *worker* is a goroutine serving one request at a time; `work[w]` is its program
counter and its local variables. One action is one SQL statement, one transaction
boundary, or one critical section, with all the assignments that go with it. `Abort`
stands for any error, expired context or crash between two statements: an open
transaction is rolled back, what was committed stays.

| Module | Models | State and actions |
|---|---|---|
| `PlatformRbac` | `permissions.go` | pure: `rolePermissions`, `HasPermission`; extended by the modules of privileged routes |
| `DualControl` | the promise of the restore workflow | `Open`, `Endorse`, `Veto`, `Withdraw`, `CarryOut` on `phase`, `requester`, `endorsers` |
| `BackupRestore` | the restore store methods and handlers | `Begin` (route and RBAC), `Create`, `ApproveSelectForUpdate` → `ApproveRefuse` or `ApproveCommit` → `ApproveReread`, `Reject`, `Cancel`, `Fulfill` with `Classify` after an UPDATE that matched nothing, `WriteAudit`, `DeleteUser` |
| `Sessions` | sessions, login, change password, logout, delete | `LoginVerify` → `LoginCreate`; `ValidateSelect` → `ValidateCheck` → `ValidateSlide` → `Served`; `PasswordVerify` → `PasswordUpdate` → `PasswordRevoke`; `LogoutUser` (whose UPDATE may be lost); `DeleteUser` |
| `DesktopExchange` | one-time codes with PKCE | `Start`; `RedeemSelect` → `RedeemRefuse` or `RedeemConsume` → `RedeemCommit` (whose answer may be lost) → `Mismatch` or `Mint` |
| `LoginThrottle` | both throttles around the password check | in the process: `CheckLoad` → `CheckLock` → `VerifyWrong`/`VerifyRight` → `RecordLoad` → `RecordUpdate`, or `Clear`; states sit on a `heap`, the map entry is an index, so a request may lock a state that was already removed. In Redis: `RedisCheck` → the same verification → `RedisIncr` → `RedisExpire` → `RedisSet` → `RedisDel`, or `RedisClear`; every command may fail before or after it took effect, and INCR and DEL may be sent again after it (`RedisDelAgain`). `Restart`, `Crash` |
| `RateLimiter` | the fixed windows of one client | `LocalAllow` (one critical section: sweep, window, count), `OtherClient` (a request of another address sweeps), `RedisAllow` → `Expire`, `Fallback` (Redis failed, the local window decides), `LimiterRestart`, `LimiterTick` |
| `TokenRotation` | secrets, minting, verification, rolling restarts | `Mint`, `Deploy`, `StartRotation`, `FinishRotation`; verification is the operator `ParseAccessToken` |
| `OperatorInvites` | invites and acceptance | `CreateOperatorInvite`; `AcceptSelect` → `AcceptRefuse`, or `AcceptRole` → `AcceptUser` → `AcceptCheck` or `AcceptConflict` → `AcceptInsert` or `AcceptDuplicate` → `AcceptCommit`; uncommitted rows are kept in the worker's record, the snapshot of REPEATABLE READ too |
| `OidcIdentities` | `EnsureOIDCUser` and `CreateUser`, composed with `OperatorInvites` over the table `users` | `EnsureSelect` → `EnsureInsertUser` → `EnsureInsertIdentity` → `EnsureCommit`, or `EnsureAbort`; `CreateUser`; `InviteStep` is a step of the invites |
| `Directory` | the promise of the two together | `Create`, `Enroll`, `Offer`, `Join`, `Remove`, each one indivisible step |
| `OperatorCases` | cases and what is done in them | `Begin`, `CreateCheck` → `CreateRefuse` or `CreateInsert`, `PatchUpdate` → `PatchReread`, `LoadCase` → the four record INSERTs, `WriteAudit`, `DeleteUser` |
| `AdminClient` | the SPA's sign-in state in several tabs, their cookie jar, and the API's side of it | a request is sent (`Click`, `Reload`, `RefreshTick`), served (`LoginUser`, `LogoutUser`, `GetAuthCSRF`, `RefreshSession`, `BearerOrSession`, after `CsrfRefuses`) and answered (`Arrive`, `Fail` or, for an aborted one, `Abandon`) in steps of their own; `AnswerSignOut`, `AnswerSignIn`, `AnswerMe` and `AnswerOther` are the callbacks |
| `*Proofs` | theorems, section 6 | |
| `MC*` | symmetry sets and constant functions for TLC | |

Conventions. A table is a function from keys to rows or to a value for "no row". A
variable marked *history* in its module is not program state; it records what a
property has to compare with and guards nothing. Operators whose comment begins with
"Mutant" are plausible bugs in the operator that follows; no specification uses them.
They are what the properties are tested against (`mutants` in `PROJECT.json`): with the
mutant in place of the original, TLC finds the property violated.

What is abstracted: ids, emails, codes, secrets and hashes are values that can only be
compared; SHA-256 is taken to be injective; a password matches or does not; the text of
notes, reasons and user agents is absent. Times are small integers in the unit of the
TTL that matters; MySQL rounds the stored times of a session to the second, so the bounds
of `SessionLifetime` may be off by about a second in the program. Checks of a request's shape, which answer 400 before any state is
read, are left out except where a property depends on them (`Valid` in
`OperatorCases`). In `AdminClient` a CSRF token is present or absent, not a value: header
and cookie of one request are read from the jar at the same instant, so they can differ
only when one of them is missing. The window of the browser between reading
`document.cookie` and attaching the cookies is not modelled.

What is taken from the environment (marked external in the map): the clock only moves
forward; InnoDB row locks last to the end of the transaction; the default isolation is
REPEATABLE READ; a unique key makes the second INSERT wait for the first transaction and
then fail; AUTO_INCREMENT never gives a key twice to transactions that are open; a Redis
command is atomic, a key disappears when its time to live is over, and go-redis, which is
configured with its default retries, may send a command again after it took effect; the MySQL driver counts changed rows, not matched ones, since the DSN does not
ask for `clientFoundRows`; random numbers never fail (Go 1.25), so a login or a refresh
never ends between its two Set-Cookie headers; a cookie that arrives is stored before the
page's callback runs.

## 3. Runs

| Run | Instance | What it shows |
|---|---|---|
| `backup_restore` | 3 operators (operator, and two security_admin), 1 request row, 2 workers; about 575 000 states | `FourEyes`, `ApprovalsStand`, `AcknowledgedIsDone`, `PendingMeansFirst`, `NoOrphanedLock`; `ImplementsDualControl`: every step of the detailed specification is a step of `DualControl` or a stutter |
| `sessions` | 1 user, 2 sessions, 2 workers, idle 2, absolute 3, clock to 2, 1 password change; about 402 000 states | `SessionLifetime`, `SessionsPredatingChangeDie`, `RevokedRowsFrozen`; under fairness `DeletionTakesEffect`, `RevocationTakesEffect` |
| `desktop_exchange` | 2 codes, 2 verifiers, 3 workers, TTL 2, clock to 3; about 235 000 states | `SingleUse`, `OneGuess`, `DurableBeforeToken`, and `LocksReleased` under fairness |
| `login_throttle` | 3 workers, 3 failures, lockout 2, count TTL 3, clock to 4, 2 events (restarts, crashes, failed commands); about 2 090 000 states | `GuessesBounded`, `FailCountExpires`, `BlocksNotExtended` |
| `rate_limiter` | 2 requests per window of 3, counters kept for 4, sweep age 4, lag 1, clock to 9; about 1 209 000 states | `LocalRate`, `SharedRate`, `RefusalsJustified` |
| `token_rotation` | 2 instances, access tokens live 2, join tokens 3, clock to 8, 4 configuration changes (two rotations), 2 tokens; about 581 000 states | `RotationUnnoticed`, `RetiredSecretUnused` |
| `token_wait_claim` | the same, clock to 6 | *violated*: `OldTokensExpired`, section 5 |
| `accounts` | 1 subject, 3 users, 2 invites, 2 emails, 2 transactions at a time; about 397 000 states | `AcceptanceAtomic`, `DeletionSuspends`, `SubjectHasOneUser`, `NoStrayUsers`; `ImplementsDirectory`: every step is a step of `Directory` or a stutter |
| `operator_cases` | a support agent and a security administrator, 1 case, 3 patches, 2 requests at a time, 2 records; about 1 450 000 states | `BooksFaithful`, `BooksComplete`, `CaseDutiesSeparated` |
| `case_not_found_claim` | the same | *violated*: `NotFoundMeansAbsent`, section 5 |
| `admin_client` | 2 tabs, 2 logins, user actions while fewer than 2 requests are in flight; about 2 950 000 states | `NoCsrfRefusal`, `TimerFollowsSignIn`, `NoMenuWhenSignedOut` |
| `admin_client_live` | 2 tabs, 2 logins, user actions while nothing is in flight; about 123 000 states | `DeadSessionNoticed` |

The runs of `LoginThrottle`, `RateLimiter`, `OidcIdentities` (`IdentityTypeOK`, which
includes the types of the invites), `OperatorCases` and `AdminClient` also check the
type invariant. Those of the other modules, and `SlotsNeverOverfilled` of
`BackupRestore`, are theorems (section 6), and no run repeats them. Deadlock checking is
on for `login_throttle`, `rate_limiter` and the two `admin_client` runs. In the other
runs the bounds on rows, time or records let the system come to rest: all codes used up,
all requests settled, the last tick gone.

**Why the bounds are enough.** The races of this code are between two requests on one
row, and every run has two; where a third changes the outcome (a success that deletes
the entry while one request counts on the old state and another makes a new one; two
redemptions that queue behind a third) there are three. The restore workflow needs three
people: a requester and two approvers; with three, the same person can also be tried in
any two of the roles. Clocks run past the TTLs of the instance, so that each record is
met before, at and after its expiry; in `sessions` the clock ends with the idle TTL, and the
absolute one is checked on the expiry every slide stores (and for every clock by the theorem). Two rotations are needed for a secret to be current,
previous and gone while tokens of the first configuration may still exist. Two invites
cover one email twice, one user twice, and both at once; the instance has one role and
none that is unknown, which `AcceptRefuse` would answer like an expired invite. One
subject suffices for its own race. Two tabs are one to act and one
to be surprised; the bound on requests in flight holds back the user only, ticks of the
refresh timers and the requests that follow a sign-in come on top of it. In `RateLimiter`
the clock passes three windows, so that a window is opened, filled, reset and swept and a
late request meets each of them; only the replica at hand has its memory modelled, the
others are seen through Redis, and counters of slots nobody can ask for any more are
forgotten. Its `ASSUME` that `KeyTTL` and `SweepAge` are at least `Win + Lag` is the
code's 75 seconds and ten minutes against one minute: requests may be late, and clocks
apart, by 15 seconds; beyond that a counter could expire and start anew. In
`LoginThrottle` the bound on guesses is stated per variant: in the process
`MaxFailures - 1` plus the requests in flight, in Redis, where the count is erased by a
separate DEL, `MaxFailures` for each of them; TLC reaches that bound. Symmetry is used
only for sets whose members no definition tells apart, and never in a run with a liveness
property.

## 4. Fairness

* `Sessions` and `DesktopExchange`: weak fairness of each worker's next step, `Abort`
  included, because these handlers run under deadlines (`context.WithTimeout`, 10 or 15
  seconds), so that a request in flight is answered or aborted in the end.
* `AdminClient`: per tab, weak fairness of the timer's tick, strong fairness of serving a
  refresh and of its answer's arrival. The interval fires every 14 minutes for as long as
  the tab is signed in, and the assumption on the network is only that of infinitely
  many refreshes some gets through. A tab in which requests are lost, aborted or answered
  by a 500 any number of times is covered. Nothing is assumed of other requests.
* No fairness is assumed of users, of the clock, of operators or of deletions.

## 5. Where the code and its documentation disagree

**404 for a case that exists** (`case_not_found_claim`, which TLC ends with a
counterexample). `UpdateOperatorCase` takes 0 affected rows for a missing case; the driver
reports 0 too when the UPDATE changes nothing, so a PATCH sent again is answered "case not
found". `UpdateUser` answers the same way for the same reason; it is not modelled.

**Join tokens that outlive the wait** (`token_wait_claim`, which TLC ends with a
counterexample). `docs/jwt-rotation.md:10` waits `JWT_ACCESS_TTL_SECONDS` for the old tokens
to expire and then clears the previous secret, but `config.go:176` takes a
`JOIN_TOKEN_TTL_SECONDS` of up to 1800 whatever the access lifetime is, and join tokens are
signed with the same secret. A join token signed before the last instance had the new pair
is then alive, and refused by every instance, after the secret was cleared
(`OldTokensExpired`). What holds for any two lifetimes, and is checked with the join token
the longer-lived one, is `RotationUnnoticed`, for live tokens younger than the wait, and
`RetiredSecretUnused`: a join token outlives the clearing by `JoinTTL - AccessTTL` at most,
and no instance signs with the old secret again.

The models also contain behaviour that is worth knowing though no run is devoted to it:

* `change_password.go:20` says a change "Revokes all sessions". A login that has verified
  the old password inserts its session after the revocation, and it lives; what holds is
  `SessionsPredatingChangeDie`: every session that existed at the 200 is dead.
* Two validations of a session may write their slides in the opposite order, and the
  expiry moves back a little (`ValidateSlide` writes what was computed at `ValidateCheck`).
* A login that passed the lock check before the fifth failure, with the right password,
  deletes the throttle's entry and the block with it (`Clear` in `LoginThrottle`).
* With Redis, a DEL that comes late erases the failures counted since (`RedisDel`), a SET
  that comes late prolongs a running block (`RedisSet`), which is why `BlocksNotExtended`
  speaks of the in-process variant only, and a lost EXPIRE, or an INCR repeated by the
  client before anybody saw the count at 1, leaves a count that stays until the next block
  (`FailCountExpires` says that nothing else does).
* `docs/oidc-auth0.md:48` says that Redis errors fail open; that is so for the throttle
  (`FailOpen`), while the rate limiter falls back to the windows of the process.
* The loser of two first requests of an OIDC subject is answered 401 (`EnsureInsertIdentity`)
  and succeeds when it asks again; a known subject is mapped to its user even when that
  user is deleted (`EnsureSelect`), it is the role lookup of the privileged routes that refuses.
* `LogoutUser` answers 200 though its UPDATE failed (`LogoutUser` in `Sessions`).
* During a rolling restart, a token of a restarted instance is refused by one that still
  runs the old configuration; `RotationUnnoticed` therefore speaks of instances at least
  as new as the signer.
* The acceptance of an invite that names a deleted user makes an active account
  for it (`Inserted` in `OperatorInvites`, with `late`); only the join with
  `users.deleted_at` in the role lookup keeps it without effect. `DeletionSuspends` says
  that this is the only way: an account inserted before the deletion is suspended by it,
  also when its transaction commits afterwards, because the deletion's UPDATE waits for
  the shared lock that the foreign key of the inserted account holds on the user's row. A
  deletion that did not wait is its mutant.
* A case may be opened about a user who was deleted between the lookup of the subject and
  the INSERT (`CreateCheck`, `CreateInsert`); nothing in the code says otherwise.
* An audit INSERT that fails leaves a mutation, answered 200, without its event
  (`WriteAudit`). `BooksComplete` says that nothing else does: each row, opened case and
  edited case has its event, written or about to be, or that very event is among those that
  were lost to a failed INSERT or a request that ended before it (the history `lost`).
* PATCH of a case answers a database error with 400 (`Abort` in `OperatorCases`), though
  the UPDATE may have taken effect.
* A 401 that belongs to an old session signs out a tab that has signed in since, and a
  database error during validation is a 401, too (`Validated` in `AdminClient`).
* A logout that fails signs the tab out but leaves cookies and session alive; the next
  reload is signed in again (`AnswerSignOut` with "error", then `Reload`).
* Signing in again without signing out keeps the old menu: `distinctUntilChanged` sees no
  change (`AnswerSignIn`).

## 6. Theorems

Proved with TLAPS for every value of the constants that satisfies the `ASSUME`s of the
module: any number of users, rows, workers, any TTL, any bound.

| Module | Theorems | Inductive invariant |
|---|---|---|
| `BackupRestoreProofs` | `TypeCorrect`, `FourEyesHolds`, `SlotsNeverOverfilledHolds`, `ApprovalsStandHolds`, `NoOrphanedLockHolds`, `ImplementsDualControlHolds`; `AcknowledgedIsDoneHolds`, `PendingMeansFirstHolds` | `TypeOK`, `RowsCoherent` (slot two is filled only after slot one, by another user, neither the requester; status and slots agree), `LocksGuard` (the snapshot of a worker that holds the lock equals the row, and the lock has that one holder), `KeysFresh` (a key about to be inserted is unused), `SlotsNeverOverfilled`; for the last two theorems also `BooksInv` (what a handler past its commit is about to report, and what every audit row says, is on record) |
| `SessionsProofs` | `TypeCorrect`, `SessionLifetimeHolds`, `RevokedRowsFrozenHolds`; `SessionsPredatingChangeDieHolds` | `TypeOK`, `TableBounded` (a row's expiry lies within both TTLs), `CopiesCovered` (what a worker read earlier is no later than what the table says now); `ChangeInv` (the property itself, and no change lies in the future) |
| `DesktopExchangeProofs` | `TypeCorrect`, `SingleUseHolds`, `OneGuessHolds`, `DurableBeforeTokenHolds` | `TypeOK`, `LockHeld`, `LiveCopy` (the row a redeemer copied is still what the table holds), `FreshCode`, `FirstRedeemer`, `Spent` (past the commit the code is consumed) |
| `TokenRotationProofs` | `TypeCorrect`, `RotationUnnoticedHolds`, `RetiredSecretUnusedHolds`, for any two lifetimes; `OldTokensExpiredIfJoinIsShort`, the claim of the runbook for `JoinTTL <= AccessTTL` | `TypeOK`, `Lagging` and `Consecutive` (an instance runs the configuration of the moment or the one before, never older), `Lifetimes`, `KnownKeys`, `OldKeyRests` (no token is signed with the old key once every instance has the pair), `RetiredSecretUnused` |
| `LoginThrottleProofs` | `TypeCorrect`, `GuessesBoundedHolds`, `FailCountExpiresHolds`, `BlocksNotExtendedHolds` | `TypeOK`, `FailCountExpires`, `Backend` (a request records where it was checked), `LocalInv` and `RedisInv`, the two accounts of guesses described below |
| `LoginThrottleProofs`, about `RateLimiter` | `LimiterTypeCorrect`, `LocalRateHolds`, `SharedRateHolds`, `RefusalsAreJustified` | `LimiterInv`: `LimiterTypeOK`, `WindowInv` and `CounterInv`, described below |
| `OidcIdentitiesProofs` | `IdentityTypeCorrect`, `AcceptanceAtomicHolds`, `SubjectHasOneUserHolds`, `NoStrayUsersHolds`, `DeletionSuspendsHolds`, `ImplementsDirectoryHolds` | `IdentityTypeOK`, `AcceptInv` (an invite gives one account or none; an open acceptance holds the lock of its invite, and the key it has inserted is nobody's), `Reserved` and `Claimed` (the id an open first sight has drawn, and the subject it has inserted, are in no other hands), `AnswersOnRecord`, `NoStrayUsers`; for `DeletionSuspends` also `SuspendInv` (the user an open acceptance works for is the one its invite names, or one it has made and no other request knows) |
| `OperatorCasesProofs` | `TypeCorrect`, `BooksFaithfulHolds`, `BooksCompleteHolds`, `CaseDutiesSeparatedHolds` | `TypeOK`, `Grounded` (the key, subject and row a request in flight relies on), `RowsApart` (no two requests are about to name one row), `RecordGrounded`, `EventGrounded`, `OneEventEach`, `BooksComplete` |
| `AdminClientProofs` | `TypeCorrect`, `NoCsrfRefusalHolds`, `TimerFollowsSignInHolds`, `NoMenuWhenSignedOutHolds` | `TypeOK`, `Paired` (a session cookie never stands without the CSRF cookie), `Honest` (no request on its way will be refused), `MenuAwaited` (only a signed-in tab waits for its menu), and the two properties |

The strengthenings are needed because the properties speak of the table, while a step
depends on what a worker read some steps before. `FourEyes` alone is not inductive:
from a state in which a worker holds a stale snapshot, its commit would fill a slot a
second time; `LocksGuard` excludes such a snapshot because the row lock is held from
SELECT to COMMIT and every other UPDATE waits for it. The same holds of
`AcceptanceAtomic` (an acceptance that has passed its check relies on the lock of its
invite and on the unique keys) and of `BooksFaithful` (an audit INSERT names a row some
other statement inserted). The proofs of `ImplementsDualControlHolds` and
`ImplementsDirectoryHolds` take these invariants and show, action by action, which
abstract step or stutter it is.

`GuessesBounded` is a number, and its invariant an account of where each guess has gone.
In the process a guess since the last block is counted in the entry's state, which stays
below the limit, or its request is still on the way to it; that takes two more facts, that
such a request has loaded the state which is the entry now (`FreshAtEntry`), and that
while the entry is locked none has got past the check (`LockStops`), since a failure
during a block is dropped. In Redis a guess is in the count, or its request has yet to
send INCR or SET; a DEL that comes late takes with it a count below the limit, so the
account is kept against the requests that have no DEL to send: `guesses` is at most
`MaxFailures - 1` for each of them but one, plus the count (up to the limit less one),
plus the requests that are pending. Each late DEL raises the first term by what it takes
from the second. The bound in `GuessesBounded` follows because pending requests have no
DEL to send either.

The rates of `RateLimiter` are about stretches of time, while the code keeps one window.
`since[a]` is a running count of what was let in at most `a` ago, so the invariant can tie
it to the window: what came later than its start (by more than the delay) is in its count
(`CountedSince`), what came in the window's length before that was in the count of the
window before, at most `Rpm` (`CountedBefore`), and what it counted came since its start
(`CountIsRecent`). `LocalRate` is the second of these, `RefusalsJustified` the third; the
first is what the second needs when a window starts anew. A dropped window leaves no start
to compare with, hence `DroppedLate`, for which `SweepAge >= Win + Lag` is needed. In Redis
what a slot let in is at most what its counter counted (`CountedShared`), and that the
counter does not start again takes `KeysOutlive`: EXPIRE is sent after the slot has begun
(`SlotsBegun`), so with `KeyTTL >= Win + Lag` the key outlives the last request that counts
in it. The code's values (windows of 60 s, keys for 75 s, a sweep at 10 min) satisfy both
assumptions for delays up to 15 s.

The assumptions behind the theorems are the named `ASSUME`s of the modules, which TLC
evaluates on every run. Besides the signs of the parameters they are: the requests in
flight are finitely many (`WorkersAssumption`, for the cardinalities above); "no invite"
is not an invite (`InvitesAssumption`); a patch of a case names known fields and assigns
it to a user or to nobody (`PatchesAssumption`: the foreign key
`fk_operator_cases_assigned_to` of migration 000008 holds for every stored row).
The bounds on clocks, faults, rows and requests in the guards are constants without an
upper limit, so the theorems are not about small instances.

## 7. Only model-checked

* Liveness, with its fairness (`DeadSessionNoticed`, `LocksReleased`,
  `DeletionTakesEffect`, `RevocationTakesEffect`): out of the prover's reach.
* `NotFoundMeansAbsent` and `OldTokensExpired` are violated, section 5.

## 8. Not modelled

* *The pages of the admin SPA* (`cases`, `dataops`): one request per click, whose answer is
  shown when it comes. An answer that belongs to a case left behind replaces the one on
  screen (`cases.component.ts:158`); the page has no guard against it, and no document
  promises one, so there is nothing a property could hold it to.
* *Token verification of the identity provider*, and the subjects of machine clients
  (`sub` ending in `@clients`), which map to a name without any state.
* *Economy ledger*: the API only reads it.
* *CORS, security headers, reason header*: decided per request from headers and
  cookies, no state.
* *Password hashing*: a wrapper of Argon2id; *response formatting, request ids*: no
  state; *command line tools*: test helpers; *migrations*: the models take keys and
  constraints from them.
* The fallback of the role lookup to the legacy table (MySQL error 1146), read-only lists
  and counts, the bootstrap mode of the SPA, `last_login_at`, audit rows of the authentication events,
  `UpdateUser` (one statement on columns nothing else reads), searches.

## 9. Plan

1. A composition of roles and deletion with the privileged routes: who was deleted cannot
   act on any of them again, whichever request was under way.
2. The limiter in front of the login throttle, as the routes have it.
