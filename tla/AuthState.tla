------------------------------ MODULE AuthState ------------------------------
(***************************************************************************)
(* The state the request handlers of AuthService share: the users and      *)
(* sessions tables of PostgreSQL, the "session:" and "blacklist:" keys of  *)
(* Redis, the clock, the token pairs clients were sent, and one            *)
(* continuation per request in flight.  A handler is a chain of awaits;    *)
(* req[r] is the point it waits at, with the local variables that are      *)
(* still live there, and each action runs from one await to the next.      *)
(* A rejected request that wrote nothing is a stuttering step.             *)
(***************************************************************************)
EXTENDS Naturals, FiniteSets

CONSTANTS
  User,          \* registered accounts
  Password,      \* password hashes
  Family,        \* UUIDs drawn for tokenFamily
  SessionId,     \* UUIDs drawn for the sessionId claim and for session rows
  ResetToken,    \* random password reset tokens
  Request,       \* requests that may be in flight at once
  NoToken,       \* '' in the refreshToken column, null, or a value with no pair
  Second,           \* ticks of the clock in a second
  RefreshExpiry,    \* config.jwt.refreshExpiry, as jsonwebtoken reads it
  RefreshExpiryMs,  \* config.jwt.refreshExpiryMs, what parseExpiryToMs makes of it
  AccessTtl,     \* config.jwt.accessExpiry, as jsonwebtoken reads it
  ResetTtl,      \* TOKEN_EXPIRY.PASSWORD_RESET_MS
  GracePeriod,   \* GRACE_PERIOD_MS of rotateTokens
  MaxTime,       \* bound on the clock
  EnableCache,   \* config.features.enableCache
  RedisMayFail,  \* Redis calls may fail; the adaptor swallows the error
  MayAbort,      \* a database call may throw, or the process may stop
  Ops            \* the endpoints clients call

Endpoint == {"login", "refresh", "logout", "revoke", "list", "forgot", "reset"}

\* What a JWT pair signed by generateTokens carries: the claims of the refresh
\* token; the access token of the pair repeats userId and sessionId.
Token == [userId : User, sessionId : SessionId, tokenFamily : Family,
          iat : 0..MaxTime]

ASSUME AuthAssumption ==
  /\ Second \in Nat \ {0}
  /\ RefreshExpiry \in Nat \ {0} /\ RefreshExpiryMs \in Nat \ {0} /\ AccessTtl \in Nat \ {0}
  /\ ResetTtl \in Nat \ {0} /\ GracePeriod \in Nat \ {0}
  /\ MaxTime \in Nat
  /\ EnableCache \in BOOLEAN /\ RedisMayFail \in BOOLEAN /\ MayAbort \in BOOLEAN
  /\ Ops \subseteq Endpoint
  /\ NoToken \notin Token /\ NoToken \notin ResetToken

VARIABLES
  now,          \* Date.now(), in ticks
  users,        \* table users: the columns password reset reads and writes
  sessions,     \* table sessions, by row id
  sessionKeys,  \* Redis keys session:<id>
  blacklist,    \* Redis keys blacklist:<refresh token>
  issued,       \* token pairs sent to clients
  mailed,       \* reset tokens that reached a mailbox
  drawn,        \* random values drawn so far
  req           \* continuation of each request

vars == <<now, users, sessions, sessionKeys, blacklist, issued, mailed, drawn, req>>
tables == <<users, sessions>>
redis == <<sessionKeys, blacklist>>
clients == <<issued, mailed>>

UserRow == [passwordHash : Password, passwordResetToken : ResetToken \cup {NoToken},
            passwordResetTokenExpiresAt : Nat]

SessionRow == [userId : User, tokenFamily : Family, refreshToken : Token \cup {NoToken},
               isValid : BOOLEAN, expiresAt : Nat]

\* jsonwebtoken drops the fraction of a second, of the iat it signs and of the
\* time it verifies at, and rejects a token from exp = iat + lifetime on.
WholeSecond(t) == t - (t % Second)
JwtValid(t, ttl) == WholeSecond(now) < t.iat + ttl

-----------------------------------------------------------------------------
(* Table sessions. *)

\* @unique on refreshToken: '' is a value like any other.
UniqueRefreshToken(tbl) ==
  \A s1, s2 \in DOMAIN tbl :
    tbl[s1].refreshToken = tbl[s2].refreshToken => s1 = s2

HoldsToken(s, t) == s \in DOMAIN sessions /\ sessions[s].refreshToken = t

ActiveSessions(u) ==
  {s \in DOMAIN sessions : /\ sessions[s].userId = u /\ sessions[s].isValid
                           /\ sessions[s].expiresAt > now}

InvalidatedRowTokenOnly(row) == [row EXCEPT !.refreshToken = NoToken]

\* update / updateMany with { isValid: false, refreshToken: '' }.
InvalidatedRow(row) == [row EXCEPT !.isValid = FALSE, !.refreshToken = NoToken]

Invalidated(S) ==
  [s \in DOMAIN sessions |-> IF s \in S THEN InvalidatedRow(sessions[s]) ELSE sessions[s]]

\* The statement commits, or violates the unique index (P2002) and writes nothing.
Invalidate(S) == UniqueRefreshToken(Invalidated(S)) /\ sessions' = Invalidated(S)
InvalidateConflicts(S) == ~UniqueRefreshToken(Invalidated(S)) /\ UNCHANGED sessions

\* An unused UUID.
Fresh(S) == S \ drawn

-----------------------------------------------------------------------------
(* Redis.  Entries carry the time at which PX makes them vanish. *)

Put(c, k, e) == [x \in DOMAIN c \cup {k} |-> IF x = k THEN e ELSE c[x]]

Unexpired(c, t) == [x \in {y \in DOMAIN c : c[y].exp > t} |-> c[x]]

SetSessionKey(k, valid, ttl) ==
  \/ sessionKeys' = Put(sessionKeys, k, [valid |-> valid, exp |-> now + ttl])
  \/ RedisMayFail /\ UNCHANGED sessionKeys

\* Promise.all over the keys, each failure caught on its own.
DelSessionKeys(ks) ==
  \E failed \in SUBSET ks :
    /\ failed # {} => RedisMayFail
    /\ sessionKeys' = [x \in DOMAIN sessionKeys \ (ks \ failed) |-> sessionKeys[x]]

\* pair = NoToken is the plain string 'true'.
SetBlacklist(t, pair, ttl) ==
  \/ blacklist' = Put(blacklist, t, [pair |-> pair, exp |-> now + ttl])
  \/ RedisMayFail /\ UNCHANGED blacklist

-----------------------------------------------------------------------------
(* Requests. *)

Idle == [pc |-> "idle"]

Starts(r, op) == op \in Ops /\ req[r].pc = "idle"
At(r, pc) == req[r].pc = pc
Await(r, k) == req' = [req EXCEPT ![r] = k]
Respond(r) == Await(r, Idle)

\* The pair reaches the client.
Reply(r) ==
  /\ At(r, "reply")
  /\ issued' = issued \cup {req[r].tok}
  /\ Respond(r)
  /\ UNCHANGED <<now, tables, redis, mailed, drawn>>

\* A database call throws and the error middleware answers, or the process
\* stops: what was written stays, the rest of the handler never runs.
Abort(r) ==
  /\ MayAbort /\ ~At(r, "idle")
  /\ Respond(r)
  /\ UNCHANGED <<now, tables, redis, clients, drawn>>

Tick ==
  /\ now < MaxTime
  /\ now' = now + 1
  /\ sessionKeys' = Unexpired(sessionKeys, now')
  /\ blacklist' = Unexpired(blacklist, now')
  /\ UNCHANGED <<tables, clients, drawn, req>>

\* Accounts exist and are signed out.
Init ==
  /\ now = 0
  /\ users \in [User -> [passwordHash : Password, passwordResetToken : {NoToken},
                         passwordResetTokenExpiresAt : {0}]]
  /\ sessions = [s \in {} |-> 0]
  /\ sessionKeys = [s \in {} |-> 0]
  /\ blacklist = [t \in {} |-> 0]
  /\ issued = {} /\ mailed = {} /\ drawn = {}
  /\ req = [r \in Request |-> Idle]

=============================================================================
