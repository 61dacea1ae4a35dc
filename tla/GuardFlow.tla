------------------------------ MODULE GuardFlow ------------------------------
(* The authenticate middleware, and the handlers behind it: list and revoke. *)
EXTENDS AuthState

\* Where a request with access token t goes once it is authenticated.
ListNext(t) == [pc |-> "listSessions", userId |-> t.userId, sessionId |-> t.sessionId]
RevokeNext(t, target) == [pc |-> "revokeFind", userId |-> t.userId, target |-> target]

Protected(t) ==
  (IF "list" \in Ops THEN {ListNext(t)} ELSE {}) \cup
  (IF "revoke" \in Ops THEN {RevokeNext(t, s) : s \in SessionId} ELSE {})

\* The access token verifies and session:<sessionId> is 'true'.  Any other
\* cached value is answered 401.
GuardHit(r, t, handler) ==
  /\ At(r, "idle") /\ t \in issued /\ JwtValid(t, AccessTtl)
  /\ EnableCache /\ t.sessionId \in DOMAIN sessionKeys
  /\ sessionKeys[t.sessionId].valid
  /\ Await(r, handler)
  /\ UNCHANGED <<now, tables, redis, clients, drawn>>

\* Cache off, a miss, or a failed read: ask the table.
GuardMiss(r, t, handler) ==
  /\ At(r, "idle") /\ t \in issued /\ JwtValid(t, AccessTtl)
  /\ ~EnableCache \/ t.sessionId \notin DOMAIN sessionKeys \/ RedisMayFail
  /\ Await(r, [pc |-> "guardLookup", sessionId |-> t.sessionId, handler |-> handler])
  /\ UNCHANGED <<now, tables, redis, clients, drawn>>

\* findUnique by the claimed sessionId; a row found is cached with its validity
\* and decides the request.  The read and the cache fill are one step: no state
\* separates them, because the branch that finds a row is never taken: login draws
\* the claimed sessionId and the row's id apart.
GuardLookup(r) ==
  /\ At(r, "guardLookup")
  /\ LET sid == req[r].sessionId IN
     LET found == sid \in DOMAIN sessions IN
       /\ IF found /\ EnableCache /\ sessions[sid].expiresAt > now
          THEN SetSessionKey(sid, sessions[sid].isValid, sessions[sid].expiresAt - now)
          ELSE UNCHANGED sessionKeys
       /\ Await(r, IF found /\ sessions[sid].isValid THEN req[r].handler ELSE Idle)
  /\ UNCHANGED <<now, tables, blacklist, clients, drawn>>

\* getActiveSessions only reads.
ListSessions(r) ==
  /\ At(r, "listSessions")
  /\ Respond(r)
  /\ UNCHANGED <<now, tables, redis, clients, drawn>>

GuardStart ==
  \E r \in Request, t \in issued : \E h \in Protected(t) : GuardHit(r, t, h) \/ GuardMiss(r, t, h)
GuardStep(r) == GuardLookup(r) \/ ListSessions(r)

=============================================================================
