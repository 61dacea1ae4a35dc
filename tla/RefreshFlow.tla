----------------------------- MODULE RefreshFlow -----------------------------
(* AuthService.rotateTokens: one refresh of a token pair, and the replay     *)
(* branch that ends the whole family.                                        *)
EXTENDS AuthState

CacheMisses(t) == ~EnableCache \/ t \notin DOMAIN blacklist \/ RedisMayFail

\* A pair cached under the presented token is the answer.
RotateGraceHit(r, t) ==
  /\ Starts(r, "refresh") /\ t \in issued
  /\ EnableCache /\ t \in DOMAIN blacklist /\ blacklist[t].pair # NoToken
  /\ Await(r, [pc |-> "reply", tok |-> blacklist[t].pair])
  /\ UNCHANGED <<now, tables, redis, clients, drawn>>

\* No answer from the blacklist, and the JWT verifies.  A plain 'true' is
\* answered 401 and changes nothing, as is an expired JWT.
RotateStart(r, t) ==
  /\ Starts(r, "refresh") /\ t \in issued
  /\ CacheMisses(t)
  /\ JwtValid(t, RefreshExpiry)
  /\ Await(r, [pc |-> "rotateFind", tok |-> t])
  /\ UNCHANGED <<now, tables, redis, clients, drawn>>

UsableUnlessExpired(row) == now <= row.expiresAt
Usable(row) == row.isValid /\ now <= row.expiresAt

RotateFound(r, s) ==
  /\ At(r, "rotateFind") /\ HoldsToken(s, req[r].tok)
  /\ Usable(sessions[s])
  /\ Await(r, [pc |-> "rotateSign", tok |-> req[r].tok, row |-> s,
               exp |-> sessions[s].expiresAt])
  /\ UNCHANGED <<now, tables, redis, clients, drawn>>

RotateRejected(r, s) ==
  /\ At(r, "rotateFind") /\ HoldsToken(s, req[r].tok)
  /\ ~Usable(sessions[s])
  /\ Respond(r)
  /\ UNCHANGED <<now, tables, redis, clients, drawn>>

\* No row holds the token: it is taken for a replay.
RotateReplayed(r) ==
  /\ At(r, "rotateFind")
  /\ \A s \in DOMAIN sessions : ~HoldsToken(s, req[r].tok)
  /\ Await(r, [pc |-> "familyFind", fam |-> req[r].tok.tokenFamily])
  /\ UNCHANGED <<now, tables, redis, clients, drawn>>

\* The user is found (accounts are never deleted) and the next pair is signed:
\* the same claims, and the current second as iat.  newExp is the row's next
\* expiresAt, computed in the same turn; exp is the one read with the row.
Successor(t) == [t EXCEPT !.iat = WholeSecond(now)]

RotateSign(r) ==
  /\ At(r, "rotateSign")
  /\ Await(r, [pc |-> "rotateStore", tok |-> req[r].tok, row |-> req[r].row,
               exp |-> req[r].exp, new |-> Successor(req[r].tok),
               newExp |-> now + RefreshExpiryMs])
  /\ UNCHANGED <<now, tables, redis, clients, drawn>>

RotatedRowKeepingExpiry(row, t, expiresAt) == [row EXCEPT !.refreshToken = t]
RotatedRowRevalidated(row, t, expiresAt) ==
  [row EXCEPT !.refreshToken = t, !.expiresAt = expiresAt, !.isValid = TRUE]

\* updateSession writes the token and its expiry (the device columns are not
\* modelled), by id, whatever became of the row meanwhile.
RotatedRow(row, t, expiresAt) ==
  [row EXCEPT !.refreshToken = t, !.expiresAt = expiresAt]

RotateStoreAnew(r) ==
  /\ At(r, "rotateStore")
  /\ \E id \in Fresh(SessionId) :
       /\ drawn' = drawn \cup {id}
       /\ sessions' = Put(sessions, id, RotatedRow(sessions[req[r].row], req[r].new, req[r].newExp))
  /\ Await(r, [pc |-> "reply", tok |-> req[r].new])
  /\ UNCHANGED <<now, users, redis, clients>>

RotateStore(r) ==
  /\ At(r, "rotateStore")
  /\ sessions' = [sessions EXCEPT ![req[r].row] = RotatedRow(@, req[r].new, req[r].newExp)]
  /\ Await(r, IF EnableCache
              THEN [pc |-> "rotateWarm", tok |-> req[r].tok, row |-> req[r].row,
                    exp |-> req[r].exp, new |-> req[r].new]
              ELSE [pc |-> "reply", tok |-> req[r].new])
  /\ UNCHANGED <<now, users, redis, clients, drawn>>

Smaller(a, b) == IF a < b THEN a ELSE b

RotateWarmUnguarded(r) ==
  /\ At(r, "rotateWarm")
  /\ SetSessionKey(req[r].row, TRUE, RefreshExpiryMs)
  /\ Await(r, [pc |-> "rotateGrace", tok |-> req[r].tok, new |-> req[r].new,
               px |-> Smaller(GracePeriod, req[r].exp - now)])
  /\ UNCHANGED <<now, tables, blacklist, clients, drawn>>

\* session:<row id> = 'true'; then, while the lifetime read with the row lasts,
\* on to the grace entry.
RotateWarm(r) ==
  /\ At(r, "rotateWarm")
  /\ SetSessionKey(req[r].row, TRUE, RefreshExpiryMs)
  /\ Await(r, IF req[r].exp > now
              THEN [pc |-> "rotateGrace", tok |-> req[r].tok, new |-> req[r].new,
                    px |-> Smaller(GracePeriod, req[r].exp - now)]
              ELSE [pc |-> "reply", tok |-> req[r].new])
  /\ UNCHANGED <<now, tables, blacklist, clients, drawn>>

RotateGraceSwapped(r) ==
  /\ At(r, "rotateGrace")
  /\ SetBlacklist(req[r].new, req[r].tok, req[r].px)
  /\ Await(r, [pc |-> "reply", tok |-> req[r].new])
  /\ UNCHANGED <<now, tables, sessionKeys, clients, drawn>>

\* blacklist:<old token> = the new pair, for the grace period.
RotateGrace(r) ==
  /\ At(r, "rotateGrace")
  /\ SetBlacklist(req[r].tok, req[r].new, req[r].px)
  /\ Await(r, [pc |-> "reply", tok |-> req[r].new])
  /\ UNCHANGED <<now, tables, sessionKeys, clients, drawn>>

-----------------------------------------------------------------------------
(* Replay: list the family for the cache, invalidate it, clear the keys. *)

InFamily(fam) == {s \in DOMAIN sessions : sessions[s].tokenFamily = fam}

FamilyFind(r) ==
  /\ At(r, "familyFind")
  /\ Await(r, [pc |-> "familyInvalidate", fam |-> req[r].fam,
               keys |-> InFamily(req[r].fam)])
  /\ UNCHANGED <<now, tables, redis, clients, drawn>>

FamilyInvalidate(r) ==
  /\ At(r, "familyInvalidate")
  /\ Invalidate(InFamily(req[r].fam))
  /\ Await(r, IF EnableCache THEN [pc |-> "familyUncache", keys |-> req[r].keys]
                             ELSE Idle)
  /\ UNCHANGED <<now, users, redis, clients, drawn>>

FamilyConflict(r) ==
  /\ At(r, "familyInvalidate")
  /\ InvalidateConflicts(InFamily(req[r].fam))
  /\ Respond(r)
  /\ UNCHANGED <<now, users, redis, clients, drawn>>

FamilyUncache(r) ==
  /\ At(r, "familyUncache")
  /\ DelSessionKeys(req[r].keys)
  /\ Respond(r)
  /\ UNCHANGED <<now, tables, blacklist, clients, drawn>>

RefreshStart == \E r \in Request, t \in issued : RotateStart(r, t) \/ RotateGraceHit(r, t)
RefreshStep(r) ==
  \/ \E s \in DOMAIN sessions : RotateFound(r, s) \/ RotateRejected(r, s)
  \/ RotateReplayed(r) \/ RotateSign(r) \/ RotateStore(r) \/ RotateWarm(r)
  \/ RotateGrace(r) \/ FamilyFind(r) \/ FamilyInvalidate(r) \/ FamilyConflict(r)
  \/ FamilyUncache(r)

=============================================================================
