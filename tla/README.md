# Verification of the authentication backend

TLA+ models of the authentication service (`src/src/`), their TLC runs, and
theorems checked by TLAPS. `PROJECT.json` maps every definition to the source
lines it stands for.

## 1. The system

| Component | State | Operations | Hard behaviour | Correct when |
|---|---|---|---|---|
| AuthService, sessions (`auth.service.ts`, `auth.repository.ts`, `schema.prisma`) | table `sessions`, unique index on `refreshToken` | `login`, `rotateTokens`, `logout`, `revokeSession` | every statement is an await: handlers race on one row, crash between two writes, work with rows read earlier | rows and families never collide, an ended session never comes back, row and token expire within a second of each other, a half-done termination finishes or has a cause |
| Redis (`lib/redis.ts`) | `session:<id>`, `blacklist:<token>` with PX expiry | `get`, `set`, `del`, a pipeline | errors are swallowed; keys vanish in time | a blacklisted token stays so until its refresh lifetime has run, unless a rotation's grace entry overwrites it; a cached pair is a later one of the same session |
| Guard (`middleware/auth.ts`) | none of its own | `authenticate`, then `getActiveSessions` or `revokeSession` | cache hit, miss, failed read | who is admitted is decided by the session's row (it is not: divergence 2, observation 2) |
| Password reset | columns of `users` | `forgotPassword`, `resetPassword` | races logins, refreshes and itself; a statement on many rows fails as a whole | a reset ends what it listed; a spent link stays spent |
| Registration, verification | tables `users`, `profiles`; mails under way | `register`, `verifyEmail` | find/create race, interactive transaction on a small pool, lost mail, lost acknowledgement | one account per address, user and profile together, verified only by the mailed token |
| Rate limiter (`middleware/rateLimiter.ts`) | a Redis sorted set, a map in memory | one hit; the collector | non-atomic pipeline, late timestamps, expiry under the pipeline, failure after counting | at most `max` hits per window and store; refusals have a cause; both stores forget |
| Express application (`app.ts`, routes, `middleware/`) | the stack of layers | a request walks down it | errors take another way, extensions add layers late | one answer each, from the core's layers |
| Boot and shutdown (`app.ts`, `lib/plugins.ts`) | process state | `startServer`, `initializeAll`, `gracefulShutdown` | requests in flight, two signals, throwing plugins, a taken port | ready before serving, drained before exit |
| Event bus, audit plugin (`lib/events.ts`, `plugins/auditLogs.ts`) | listeners, events for the next tick | `emit`, `on` | deferred delivery, throwing listener | no event missed or overtaken, no request broken |
| Configuration (`config/`) | settings | `parseExpiryToMs`, `parseEnv` | two readers of one string | rows, keys and tokens live equally long |

Requests pass the layers of the application, the limiter first, and reach
AuthService through the controller. The guard shares the `session:` keys and
the table with it. The reset shares the sessions table with login and refresh.
Verification shares `users` with registration. Controllers emit events that
extensions hear on the next tick.

## 2. Modules

    SessionRegistry                       abstract: open, rotate, end
    AuthState                             tables, Redis, clock, continuations
      LoginFlow RefreshFlow TerminateFlow GuardFlow PasswordFlow
        AuthService                       the endpoints together; properties; IInv
          AuthClaims -> MCAuthService     documented claims that fail; TLC
          AuthTypeProofs -> AuthIdentityProofs -> AuthRegistryProofs
            -> AuthTimeProofs -> AuthEndingProofs
    AddressBook                           abstract: open, receive, verify
      Accounts -> MCAccounts, AccountsProofs
    ServerLifecycle -> MCServerLifecycle  claim_drain
      Application                         with ConfigExpiry; layers, events
        MCApplication, ApplicationProofs
    RateLimiter -> MCRateLimiter, RateLimiterProofs

**A handler is a chain of awaits.** `req[r]` in `AuthState` and `Accounts` is
the continuation of request `r`: `pc` names the await it stands at, the other
fields are the local variables still live there. An action runs from one await
to the next, so any other request, the clock or a failure may come between two
statements. A request that is rejected before it wrote anything is a stuttering
step.

| Action | Code |
|---|---|
| `LoginVerify`, `LoginSign`, `LoginStore`, `LoginWarm` | `login`: lookup and bcrypt; draw family and session id, sign; `createSession`; `set session:` |
| `RotateStart`, `RotateGraceHit`, `RotateFound`/`RotateRejected`/`RotateReplayed`, `RotateSign`, `RotateStore`, `RotateWarm`, `RotateGrace` | `rotateTokens` up to its return |
| `FamilyFind`, `FamilyInvalidate`/`FamilyConflict`, `FamilyUncache` | the replay branch |
| `LogoutFind`/`RevokeFind`, `TermBlacklist`, `TermInvalidate`/`TermConflict`, `TermUncache` | `logout` and `revokeSession`, alike after the lookup |
| `GuardHit`, `GuardMiss`, `GuardLookup` | `authenticate` |
| `ForgotFind`, `ForgotStore`, `ForgotMail`; `ResetFind` ... `ResetStore` | `forgotPassword`, `resetPassword` |
| `Reply`, `Abort`, `Tick` | the answer reaches the client; a database call throws or the process stops; time passes and keys expire |

A refresh token is the record of its claims (`userId`, `sessionId`,
`tokenFamily`, `iat`): signing the same claims in the same second gives the same
token, as it does in the code. The clock `now` is `Date.now()` in ticks, of which
`Second` make a second. jsonwebtoken drops the fraction (`WholeSecond`), of the
`iat` it signs and of the time it verifies at; `expiresAt` of a row is the clock
plus `RefreshExpiryMs`, fraction included. `RefreshExpiry`, the lifetime
jsonwebtoken reads from the setting, and `RefreshExpiryMs`, what
`parseExpiryToMs` makes of it, are two constants, equal or not; `ConfigExpiry`
says for which settings they agree. Readings of the clock in one turn of the event
loop, between two awaits, are one reading. `NoToken` is the `''` that
`invalidateSession` writes, a value the unique index counts like any other.
`Invalidate`/`InvalidateConflicts` are the two outcomes of such a statement.
A row draws its id apart from the `sessionId` claim, as `createSession`, which
is given none, makes it.

**Accounts.** The rows an open transaction has inserted are in its
continuation and become visible at `Commit`, both at once; the unique index
makes a second insert of the address wait (`Inserting`). `PoolSize` is the
`max` of the connection pool, of which a transaction keeps one. `AddressBook`
is what the owner of an address sees of it: an account opened once, one link
mailed to it at most once, spent by the verification.

| Action | Code |
|---|---|
| `RegisterFind`, `RegisterHash` | `register`: `findByEmail`; bcrypt, token and expiry |
| `Begin`, `CreateUser`/`CreateConflict`, `CreateProfile` | `createUser`: `$transaction`, the two inserts, commit |
| `CommitUnacknowledged`, `Fail`, `Restart` | the commit is done and its answer lost; a statement throws; the process stops and is started again |
| `Announce`; `Deliver`/`Bounce` | mail, event and answer after the commit; the mail's fate, which nobody awaits |
| `VerifyFind`, `VerifyStore` | `verifyEmail` |

**Application.** A request stands at one layer of `stack`; nested routers are
flattened, a layer that always calls `next` is left out. A layer lists the paths it
serves and what it may do: pass on (`Pass`), fail (`Throw`), answer (`Limit`,
`Serve`, `Report`). `next(error)` goes to the next layer for errors
(`NextLayer`); behind the stack waits express's own `finalhandler`.
`InitializeExtension` subscribes a plugin and puts its route behind the core's;
`Deliver` calls the listeners of one event in order, until one throws. Every
step is one of `ServerLifecycle`, which follows the awaits of `startServer` and
`gracefulShutdown`, or leaves the server alone.

**RateLimiter** models one key. The four commands of a pipeline are four steps,
since `multi` wraps a pipeline and not a transaction; `exec` may reject before
the commands ran or after. `windowMs` and `max` are drawn once, as the options
of a limiter are.

## 3. What the runs show

Two concurrent requests unless said.

| Run | Instance | Shows |
|---|---|---|
| `two_sessions` | 2 families, 4 ids, clock 0..1 | `RowsApart`, `HalfLogoutExplained`, `BlacklistLasts`, `GracePairSucceeds`, and `AuthService` implements `SessionRegistry` |
| `faults` | all seven endpoints, seconds of 2 ticks, rows that live 1 tick and tokens that live 2, clock 0..3, failing Redis, handlers cut anywhere | `TypeOK` (no negative PX), `IssuedHasRow`, `RowExpiryInStep`, `DeadStayQuiet`, `GraceEndsWithSession` while rows and tokens expire |
| `reset` | no cache, 2 sessions, handlers cut anywhere | `ResetEndsListed`, `SpentLinksStaySpent`, the inductive invariant `IInv` |
| `progress` | 1 session, failing Redis, fairness | `TerminationEnds`, `ReplayEndsFamily`; both except the conflict with a session that ended before, divergence 1 |
| `accounts` | 2 addresses, pool of 2, 3 tokens, lifetime 0, clock 0..1, everything may fail, fairness | `AddressesApart`, `ProfilesPaired`, `AnnouncedExist`, `TokenUntilVerified`, `VerifiedByMail`, `UnmailedExplained`, and `Accounts` implements `AddressBook`; `EveryRequestEnds` |
| `lifecycle` | 2 extensions, the first may throw; paths `login`, `sessions`, an unknown one and an extension's; 2 signals; 52 expiry settings; fairness | `EventsHeard`, `AcceptsWhileOpen`, `CoreAnswersAll`, `HeardInOrder`, `AnnouncedIsOk`, `ExpiryInStep`; `SignalEnds`, `AcceptedAnswered` |
| `rate_limiter` | 3 hits; `max` 0, 1, 2 or NaN; windows of 3 and 4 ticks, 2 to the second; pipelines 1 tick late; clock 0..5 | `RedisWindow`, `MemoryWindow`, `RefusalExplained`, `MemoryForgets`, `RedisForgets` |

*Bounds.* The races concern two requests on one row, or two sessions and the
one unique empty token: two requests, two families (a family per session) and
two ids per session (claim and row) exhibit all of them. The clock has room for
a token signed at 0 to be refreshed a tick later and, in `faults`, for signatures
in the middle of a second and for a row to expire within a handler, before its
token does. In `accounts` two requests fill the pool, which is when
waiting matters, and three tokens let one be drawn in vain. In `lifecycle` two
extensions are what it takes for one to suffer from the other, and four paths
meet every kind of layer. In `rate_limiter` three hits exceed every `max` but
NaN; in a window of three ticks the key's whole seconds outlast it, in one of
four they end together. Random values and requests are interchangeable, so
runs without liveness use symmetry. Systems that may go quiet are not checked
for deadlock: clients need not send anything and drawn values are used up.

*Fairness.* In `progress`, weak fairness of the steps of every accepted
request: the event loop resumes a continuation whose await settled, and every
await settles (with a value or an error). In `accounts`, strong fairness: a
handler that waits for a connection or for another transaction's row is enabled
again and again, and both are queues served in order. In `lifecycle`, weak
fairness of handling as a whole and of the shutdown handlers. Clients, the
clock and failures owe nothing. Handlers are not cut in `progress`, since a
crash would excuse everything.

*Limiter.* `RedisWindow` is stated for the window less `MaxDelay`: with the
whole window it fails, because a hit with an older timestamp may be counted
after a newer one pruned. It leaves out hits in `cut`, observation 7 below.
`MemoryWindow` needs `Window <= Retention`: a configured window above 15
minutes is trimmed by the collector. A hit counted in Redis before the call
failed counts there like any other, and again in memory; `RefusalExplained` says
of each store what its refusals rest on.

## 4. Divergences and observations

Each divergence is the counterexample of a run named `claim_...`, quoted in
`PROJECT.json`.

1. `claim_logout`: ending a session writes `''` into a unique column, so the
   second session to end conflicts, is answered 409 and stays valid. A reset
   with two active sessions fails likewise (`ResetConflict`).
2. `claim_revoked`: cache keys are written under the claimed id and deleted
   under the row id; an ended session's access token is still admitted. The
   same split makes `isCurrent` of the session list always false.
3. `claim_grace`: the grace entry comes after the row update; a concurrent
   refresh in between is taken for a replay.
4. `claim_reset`: a login that verified the old password stores its session
   after the invalidation and survives the reset.
5. `claim_drain`: shutdown does not wait for the server to close.

Met on the way, with no run spent on them. The first four contradict the
repository's documentation; no property certifies what the code does there.

1. A refresh in the second of the signature signs the same token again, so
   nothing is rotated (`README.md:23` of the repository says each cycle issues
   a new pair).
2. When Redis has no answer, `docs/architecture.md:89` has the guard query
   PostgreSQL and update Redis, and `README.md:25` calls that a graceful fallback.
   `GuardLookup` asks for the claimed id, which no row has: the access token of a
   live session is refused and nothing is written back.
3. `docs/architecture.md:94-95` has a replay end all related sessions and log the
   user out across all devices. `FamilyInvalidate` ends the token's family, which
   is one session, since every login draws its own; the others stay valid.
   `ReplayEndsFamily` promises the family and no more.
4. `docs/api.md:177-179` describes a plugin endpoint that answers 200. Its layer is
   added behind the catch-all 404 (`app.ts:43`), which answers in its place.
   `CoreAnswersAll` is about every other path: no extension takes it from the core.
5. `parseExpiryToMs` reads the last letter: `15min` or `1w` give seven days,
   `1second` a day, while jsonwebtoken reads the word (`ExpiryInStep`).
6. An account whose mail was lost can neither register again nor ask for
   another mail (`UnmailedExplained`), and the branch of `verifyEmail` for an
   account already verified is never taken (`TokenUntilVerified`).
7. `README.md:26` calls `multi` a Redis transaction; `lib/redis.ts:74` builds a
   pipeline. The key may expire between a hit's ZADD and its EXPIRE, so that
   the hit is not remembered: such hits pass beyond `max` (`cut`).
8. With a `max` of 0 the memory store lets one hit through; with NaN it lets
   only that one through, and Redis all.
9. With the port taken the process stays up, accepting nothing (`ListenFails`).
10. A rotation that overlaps a logout may write its grace entry over the logout's
   `'true'`; when that entry goes, nothing in Redis blocks the old token while its
   JWT still verifies, and the table decides alone. `BlacklistLasts` names this as
   the only way an entry goes early, `GraceEndsWithSession` bounds it.

## 5. What is proved

For every number of accounts, sessions, requests and every lifetime, with or
without Redis, failures and crashes:

- `TypeCorrect` (`AuthTypeProofs`): `TypeOK`. Inductive as it stands; one lemma
  per flow, one step per action.
- `Inductive` (`AuthIdentityProofs`): `IInv == TypeOK /\ Identity`. `RowsApart`
  is not inductive: a rotation stores a token signed two awaits ago in a row
  read three awaits ago. `Identity` adds what makes that safe: no two rows are
  of one family (`FamiliesApart`), the ids and
  families of rows were drawn (`RowsDrawn`), tokens in clients' hands and in
  Redis have a row (`TokensStored`), a login about to store has a family no row
  has, a rotation's tokens are of the family of its row (`LocalsOK`), and two
  logins never share one (`LoginsApart`). `RowExpiryInStep` needs the same of the
  expiry a handler carries to its write (`InStep`). From it follow
  `RowsStayApart`, `ExpiryStaysInStep` and `IssuedAreStored`.
- `TableIsRegistry` (`AuthRegistryProofs`): the sessions table implements
  `SessionRegistry`. `TableSteps` reduces a step to three ways of writing the
  table, and each maps to a step of the registry or a stutter.
- `TimelyInductive` (`AuthTimeProofs`): `IInv` with `Timely`. A cache entry is
  right because of what its writer held awaits earlier: tokens were signed in
  the past, the new token of a rotation succeeds the old one, and the PX a
  handler carries reaches to the end of the refresh lifetime. That a later reading
  of the clock has no earlier whole second rests on the lemmas about remainders,
  `Multiples` and `RemainderGrows`. Hence `BlacklistedThroughLifetime` and
  `GraceAnswersSucceed`.
- `DeadRemainQuiet`, `SpentRemainSpent` (`AuthEndingProofs`): the two action
  properties about ended sessions, from `IInv` and the few steps that write a
  row or a grace entry.
- `EndingInductive`: `HalfLogoutExplained` speaks of the token a row holds now,
  which a rotation may change; `EndingExplained` says the same of every token
  of the row's family and is inductive with `EndingLocals`, what a handler
  knows of the rows it ends. Hence `HalfLogoutsExplained`, `ResetsEndListed`.
- `SpentLinksRemainSpent`: links are drawn by one request and mailed only after
  they were stored (`Links`).

So every safety and action property of `AuthService` that a run checks has its
theorem. Beside them:

- `AccountsInductive` (`AccountsProofs`): the six safety properties of
  `Accounts` with `Pending`, which says of open transactions and mails what the
  properties say of the tables: a token under way is nobody else's
  (`TokensApart`), a row not yet committed collides with no other, committed or
  not (`RowsPending`), a mailed token is its account's or used up
  (`LinksGood`). Seven theorems follow, for any pool.
- `TablesKeepBook`: the tables implement `AddressBook`. A commit opens an
  account, a delivery receives its link, a verification spends it. That a link
  arriving is the first one for its address needs `OneMail` besides: an address
  is the subject of at most one mail, announced, under way or arrived.
- `AllEventsHeard`, `AlwaysAcceptsWhileOpen` (`ApplicationProofs`), from
  `LifecycleInv`, which orders boot, listening and signals.
- `ImplementsLifecycle` (`ApplicationProofs`): the application implements
  `ServerLifecycle`, so its invariants carry over. `AppInv` adds where a request
  may stand (`Positions`) and how events relate to answers (`Events`); it gives
  `AppTypeCorrect`, `CoreAlwaysAnswers`, `EventsInOrder`, `AnnouncedAlwaysOk`.
- `ExpiryAlwaysInStep`: by the units one by one.
- `LimiterInductive` (`RateLimiterProofs`): for any number of hits, also
  infinitely many to come (`FinitelyMany` have come so far), any windows, limits
  and delay. `RedisWindow` is not inductive, since it speaks of hits decided and
  a hit is counted two commands before. `Admissions` bounds the hits of a window
  from their ZCARD on; `ToldKept` says that the sorted set still holds each of
  them, under an expiry late enough, when the next one counts, so they inject
  into what it counts. `Remembered` and `Decisions` do the same for the map in
  memory, and `Crowded`, which injects what a pipeline counted into the hits of
  the window before it, gives a refusal its cause. Hence `RedisKeepsWindow`,
  `MemoryKeepsWindow`, `RefusalsExplained`, `LimiterTyped`, and, from the
  `Clocked` expiry and collector, `MemoryIsCollected` and `KeyExpires`.

So every safety property, action property and refinement that a run checks has
its theorem.

The assumptions are those the modules state (`AuthAssumption`,
`AccountsAssumption`, `LifecycleAssumption`, `ApplicationAssumption`,
`ConfigAssumption`, `LimiterAssumption`): positive lifetimes and bounds, Boolean
switches, every plugin registered, settings made of a number and a known unit,
a `max` that is not negative, or NaN.

Only model-checked: the liveness properties (`TerminationEnds`,
`ReplayEndsFamily`, `EveryRequestEnds`, `SignalEnds`, `AcceptedAnswered`), since
fairness is out of the prover's reach.

## 6. Not modelled, and why

Device columns, roles, names, bodies, cookies and wording keep no state a
property depends on. Of validators and controllers only what they may do with a
request is modelled, not their schemas. Logging, request context and mail
transports are output. The limiter's layers appear in `Application` as ones
that may refuse; their counters are `RateLimiter`'s. Answers given inside a
layer that otherwise passes on (CORS preflight) are left out. Accounts are
never deleted by the code. One statement is atomic, as PostgreSQL makes it.
`GuardLookup` joins the read and the cache fill, in a branch that is never taken
(observation 2). Of the limiter's settings, a negative `max` and a window that is
negative or no number are left out.

## 7. What is left

1. An abstract specification of the password reset, like `AddressBook`.
2. `Accounts` and `AuthService` share the table `users`; a module over both
   would let a login meet an account being verified, which no code path reads.
