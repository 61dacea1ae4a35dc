---------------------------- MODULE AuthTypeProofs ----------------------------
(* The type invariant of AuthService, for every number of accounts, sessions *)
(* and requests, every lifetime, with or without cache, faults and crashes.  *)
EXTENDS AuthService, TLAPS

\* The locals a continuation has at each await.
LEMMA ContinuationFields ==
  ASSUME NEW k \in Continuation
  PROVE  /\ k.pc \in {"loginSign", "forgotStore", "resetList", "resetInvalidate",
                      "resetUncache", "resetStore", "listSessions", "revokeFind"} => k.userId \in User
         /\ k.pc \in HoldsTok => k.tok \in Token
         /\ k.pc \in HoldsNew => k.new \in Token
         /\ k.pc \in {"rotateSign", "rotateStore", "rotateWarm", "termBlacklist",
                      "termInvalidate", "termUncache"} => k.row \in SessionId
         /\ k.pc \in {"loginStore", "rotateSign", "rotateStore", "rotateWarm", "forgotStore"} =>
              k.exp \in Nat
         /\ k.pc = "rotateStore" => k.newExp \in Nat
         /\ k.pc \in {"rotateGrace", "termBlacklist"} => k.px \in Nat
         /\ k.pc \in {"familyFind", "familyInvalidate"} => k.fam \in Family
         /\ k.pc \in {"familyInvalidate", "familyUncache", "resetInvalidate",
                      "resetUncache", "resetStore"} => k.keys \in SUBSET SessionId
         /\ k.pc = "revokeFind" => k.target \in SessionId
         /\ k.pc \in {"listSessions", "guardLookup"} => k.sessionId \in SessionId
         /\ k.pc = "guardLookup" => k.handler \in Handler
         /\ k.pc \in {"forgotStore", "forgotMail"} => k.reset \in ResetToken
         /\ k.pc \in {"resetList", "resetInvalidate", "resetUncache", "resetStore"} => k.hash \in Password
<1>1. CASE k \in {Idle} \cup LoginCont
  BY <1>1 DEF Idle, LoginCont, HoldsTok, HoldsNew
<1>2. CASE k \in RefreshCont
  BY <1>2 DEF RefreshCont, HoldsTok, HoldsNew
<1>3. CASE k \in TerminateCont
  BY <1>3 DEF TerminateCont, HoldsTok, HoldsNew
<1>4. CASE k \in GuardCont
  BY <1>4 DEF GuardCont, Handler, HoldsTok, HoldsNew
<1>5. CASE k \in PasswordCont
  BY <1>5 DEF PasswordCont, HoldsTok, HoldsNew
<1>6. QED BY <1>1, <1>2, <1>3, <1>4, <1>5 DEF Continuation

\* Dropping the fraction of a second loses less than one.
LEMMA WholeSeconds ==
  ASSUME NEW t \in Nat
  PROVE  /\ WholeSecond(t) \in Nat
         /\ WholeSecond(t) <= t /\ t < WholeSecond(t) + Second
<1>1. /\ t % Second \in Nat
      /\ t % Second < Second /\ t % Second <= t
  BY AuthAssumption
<1>2. QED BY <1>1, AuthAssumption DEF WholeSecond

LEMMA AwaitTypes ==
  ASSUME TypeOK, NEW r \in Request, NEW k \in Continuation, Await(r, k)
  PROVE  req' \in [Request -> Continuation]
BY DEF TypeOK, Await

LEMMA RespondTypes ==
  ASSUME TypeOK, NEW r \in Request, Respond(r)
  PROVE  req' \in [Request -> Continuation]
<1>1. Idle \in Continuation
  BY DEF Continuation
<1>2. QED BY <1>1, AwaitTypes DEF Respond

\* What the writes to Redis leave: keys of the right kind.
LEMMA SessionKeySetTypes ==
  ASSUME TypeOK, NEW k \in SessionId, NEW v \in BOOLEAN, NEW ttl \in Nat,
         SetSessionKey(k, v, ttl), UNCHANGED blacklist
  PROVE  RedisOK'
<1>1. CASE UNCHANGED sessionKeys
  BY <1>1 DEF TypeOK, RedisOK
<1>2. CASE sessionKeys' = Put(sessionKeys, k, [valid |-> v, exp |-> now + ttl])
  <2>1. [valid |-> v, exp |-> now + ttl] \in [valid : BOOLEAN, exp : Nat]
    BY DEF TypeOK
  <2>2. QED BY <1>2, <2>1 DEF TypeOK, RedisOK, Put
<1>3. QED BY <1>1, <1>2 DEF SetSessionKey

LEMMA SessionKeyDelTypes ==
  ASSUME TypeOK, NEW ks, DelSessionKeys(ks), UNCHANGED blacklist
  PROVE  RedisOK'
BY DEF TypeOK, RedisOK, DelSessionKeys

LEMMA BlacklistSetTypes ==
  ASSUME TypeOK, NEW t \in Token, NEW pair \in Token \cup {NoToken}, NEW ttl \in Nat,
         SetBlacklist(t, pair, ttl), UNCHANGED sessionKeys
  PROVE  RedisOK'
<1>1. CASE UNCHANGED blacklist
  BY <1>1 DEF TypeOK, RedisOK
<1>2. CASE blacklist' = Put(blacklist, t, [pair |-> pair, exp |-> now + ttl])
  <2>1. [pair |-> pair, exp |-> now + ttl] \in [pair : Token \cup {NoToken}, exp : Nat]
    BY DEF TypeOK
  <2>2. QED BY <1>2, <2>1 DEF TypeOK, RedisOK, Put
<1>3. QED BY <1>1, <1>2 DEF SetBlacklist

LEMMA InvalidatedTypes ==
  ASSUME TypeOK, NEW S, sessions' = Invalidated(S)
  PROVE  RowsOK'
BY DEF TypeOK, RowsOK, Invalidated, InvalidatedRow, SessionRow

-----------------------------------------------------------------------------

LEMMA LoginTypes ==
  ASSUME TypeOK, NEW r \in Request
  PROVE  /\ \A u \in User, p \in Password : LoginVerify(r, u, p) => TypeOK'
         /\ LoginStep(r) => TypeOK'
<1> USE DEF tables, redis, clients
<1>1. ASSUME NEW u \in User, NEW p \in Password, LoginVerify(r, u, p)
      PROVE  TypeOK'
  <2>1. [pc |-> "loginSign", userId |-> u] \in Continuation
    BY DEF Continuation, LoginCont
  <2>2. QED BY <1>1, <2>1, AwaitTypes DEF LoginVerify, TypeOK, RowsOK, RedisOK
<1>2. CASE LoginSign(r)
  <2>1. PICK fam \in Fresh(Family), sid \in Fresh(SessionId) :
          /\ drawn' = drawn \cup {fam, sid}
          /\ Await(r, [pc |-> "loginStore",
                       tok |-> [userId |-> req[r].userId, sessionId |-> sid,
                                tokenFamily |-> fam, iat |-> WholeSecond(now)],
                       exp |-> now + RefreshExpiryMs])
    BY <1>2 DEF LoginSign
  <2>2. req[r].userId \in User
    BY <1>2, ContinuationFields DEF LoginSign, At, TypeOK
  <2>3. /\ [userId |-> req[r].userId, sessionId |-> sid, tokenFamily |-> fam,
          iat |-> WholeSecond(now)] \in Token
        /\ now + RefreshExpiryMs \in Nat
    <3>1. WholeSecond(now) \in 0..MaxTime
      BY WholeSeconds, AuthAssumption DEF TypeOK
    <3>2. QED BY <2>2, <3>1, AuthAssumption DEF Token, Fresh, TypeOK
  <2>4. req' \in [Request -> Continuation]
    BY <2>1, <2>3, AwaitTypes DEF Continuation, LoginCont
  <2>5. QED BY <1>2, <2>1, <2>4 DEF LoginSign, TypeOK, RowsOK, RedisOK, Fresh
<1>3. CASE LoginStore(r)
  <2> DEFINE t == req[r].tok
  <2>1. PICK id \in Fresh(SessionId) :
          /\ drawn' = drawn \cup {id}
          /\ sessions' = Put(sessions, id, NewSession(t, req[r].exp))
          /\ Await(r, [pc |-> IF EnableCache THEN "loginWarm" ELSE "reply", tok |-> t])
    BY <1>3 DEF LoginStore
  <2>2. t \in Token /\ req[r].exp \in Nat
    BY <1>3, ContinuationFields DEF LoginStore, At, TypeOK, HoldsTok
  <2>3. NewSession(t, req[r].exp) \in SessionRow
    BY <2>2 DEF NewSession, SessionRow, Token
  <2>4. RowsOK'
    BY <2>1, <2>3 DEF RowsOK, Fresh, TypeOK, Put
  <2>5. req' \in [Request -> Continuation]
    BY <2>1, <2>2, AwaitTypes DEF Continuation, LoginCont
  <2>6. QED BY <1>3, <2>1, <2>4, <2>5 DEF LoginStore, TypeOK, RedisOK, Fresh
<1>4. CASE LoginWarm(r)
  <2>1. req[r].tok \in Token
    BY <1>4, ContinuationFields DEF LoginWarm, At, TypeOK, HoldsTok
  <2>2. RedisOK'
    BY <1>4, <2>1, AuthAssumption, SessionKeySetTypes DEF LoginWarm, Token
  <2>3. req' \in [Request -> Continuation]
    BY <1>4, <2>1, AwaitTypes DEF LoginWarm, Continuation, LoginCont
  <2>4. QED BY <1>4, <2>2, <2>3 DEF LoginWarm, TypeOK, RowsOK
<1>5. QED BY <1>1, <1>2, <1>3, <1>4 DEF LoginStep

LEMMA RotateTypes ==
  ASSUME TypeOK, NEW r \in Request
  PROVE  /\ \A t \in issued : RotateStart(r, t) \/ RotateGraceHit(r, t) => TypeOK'
         /\ \A s \in DOMAIN sessions : RotateFound(r, s) \/ RotateRejected(r, s) => TypeOK'
         /\ RotateReplayed(r) \/ RotateSign(r) \/ RotateStore(r) \/ RotateWarm(r)
            \/ RotateGrace(r) => TypeOK'
<1> USE DEF tables, redis, clients
<1>1. ASSUME NEW t \in issued, RotateStart(r, t)
      PROVE  TypeOK'
  <2>1. [pc |-> "rotateFind", tok |-> t] \in Continuation
    BY DEF TypeOK, Continuation, RefreshCont
  <2>2. QED BY <1>1, <2>1, AwaitTypes DEF RotateStart, TypeOK, RowsOK, RedisOK
<1>2. ASSUME NEW t \in issued, RotateGraceHit(r, t)
      PROVE  TypeOK'
  <2>1. [pc |-> "reply", tok |-> blacklist[t].pair] \in Continuation
    BY <1>2 DEF RotateGraceHit, TypeOK, RedisOK, Continuation, LoginCont
  <2>2. QED BY <1>2, <2>1, AwaitTypes DEF RotateGraceHit, TypeOK, RowsOK, RedisOK
<1>3. ASSUME NEW s \in DOMAIN sessions, RotateFound(r, s)
      PROVE  TypeOK'
  <2>1. req[r].tok \in Token /\ s \in SessionId /\ sessions[s].expiresAt \in Nat
    BY <1>3, ContinuationFields DEF RotateFound, At, TypeOK, RowsOK, SessionRow, HoldsTok
  <2>2. [pc |-> "rotateSign", tok |-> req[r].tok, row |-> s, exp |-> sessions[s].expiresAt]
          \in Continuation
    BY <2>1 DEF Continuation, RefreshCont
  <2>3. QED BY <1>3, <2>2, AwaitTypes DEF RotateFound, TypeOK, RowsOK, RedisOK
<1>4. ASSUME NEW s \in DOMAIN sessions, RotateRejected(r, s)
      PROVE  TypeOK'
  BY <1>4, RespondTypes DEF RotateRejected, TypeOK, RowsOK, RedisOK
<1>5. CASE RotateReplayed(r)
  <2>1. req[r].tok \in Token
    BY <1>5, ContinuationFields DEF RotateReplayed, At, TypeOK, HoldsTok
  <2>2. [pc |-> "familyFind", fam |-> req[r].tok.tokenFamily] \in Continuation
    BY <2>1 DEF Continuation, RefreshCont, Token
  <2>3. QED BY <1>5, <2>2, AwaitTypes DEF RotateReplayed, TypeOK, RowsOK, RedisOK
<1>6. CASE RotateSign(r)
  <2>1. req[r].tok \in Token /\ req[r].row \in SessionId /\ req[r].exp \in Nat
    BY <1>6, ContinuationFields DEF RotateSign, At, TypeOK, HoldsTok
  <2>2. Successor(req[r].tok) \in Token /\ now + RefreshExpiryMs \in Nat
    <3>1. WholeSecond(now) \in 0..MaxTime
      BY WholeSeconds, AuthAssumption DEF TypeOK
    <3>2. QED BY <2>1, <3>1, AuthAssumption DEF Successor, Token, TypeOK
  <2>3. [pc |-> "rotateStore", tok |-> req[r].tok, row |-> req[r].row, exp |-> req[r].exp,
         new |-> Successor(req[r].tok), newExp |-> now + RefreshExpiryMs] \in Continuation
    BY <2>1, <2>2 DEF Continuation, RefreshCont
  <2>4. QED BY <1>6, <2>3, AwaitTypes DEF RotateSign, TypeOK, RowsOK, RedisOK
<1>7. CASE RotateStore(r)
  <2>1. /\ req[r].tok \in Token /\ req[r].new \in Token /\ req[r].row \in SessionId
        /\ req[r].exp \in Nat /\ req[r].newExp \in Nat
    BY <1>7, ContinuationFields DEF RotateStore, At, TypeOK, HoldsTok, HoldsNew
  <2>2. RowsOK'
    <3>1. \A row \in SessionRow : RotatedRow(row, req[r].new, req[r].newExp) \in SessionRow
      BY <2>1 DEF RotatedRow, SessionRow
    <3>2. QED BY <1>7, <3>1 DEF RotateStore, RowsOK, TypeOK
  <2>3. [pc |-> "rotateWarm", tok |-> req[r].tok, row |-> req[r].row, exp |-> req[r].exp,
         new |-> req[r].new] \in Continuation
    BY <2>1 DEF Continuation, RefreshCont
  <2>4. [pc |-> "reply", tok |-> req[r].new] \in Continuation
    BY <2>1 DEF Continuation, LoginCont
  <2>5. req' \in [Request -> Continuation]
    BY <1>7, <2>3, <2>4, AwaitTypes DEF RotateStore
  <2>6. QED BY <1>7, <2>2, <2>5 DEF RotateStore, TypeOK, RedisOK
<1>8. CASE RotateWarm(r)
  <2>1. /\ req[r].tok \in Token /\ req[r].new \in Token
        /\ req[r].row \in SessionId /\ req[r].exp \in Nat
    BY <1>8, ContinuationFields DEF RotateWarm, At, TypeOK, HoldsTok, HoldsNew
  <2>2. RedisOK'
    BY <1>8, <2>1, AuthAssumption, SessionKeySetTypes DEF RotateWarm
  <2>3. req[r].exp > now => Smaller(GracePeriod, req[r].exp - now) \in Nat
    BY <2>1, AuthAssumption DEF TypeOK, Smaller
  <2>4. req[r].exp > now =>
          [pc |-> "rotateGrace", tok |-> req[r].tok, new |-> req[r].new,
           px |-> Smaller(GracePeriod, req[r].exp - now)] \in Continuation
    BY <2>1, <2>3 DEF Continuation, RefreshCont
  <2>5. [pc |-> "reply", tok |-> req[r].new] \in Continuation
    BY <2>1 DEF Continuation, LoginCont
  <2>6. req' \in [Request -> Continuation]
    BY <1>8, <2>4, <2>5, AwaitTypes DEF RotateWarm
  <2>7. QED BY <1>8, <2>2, <2>6 DEF RotateWarm, TypeOK, RowsOK
<1>9. CASE RotateGrace(r)
  <2>1. req[r].tok \in Token /\ req[r].new \in Token /\ req[r].px \in Nat
    BY <1>9, ContinuationFields DEF RotateGrace, At, TypeOK, HoldsTok, HoldsNew
  <2>2. RedisOK'
    BY <1>9, <2>1, BlacklistSetTypes DEF RotateGrace
  <2>3. [pc |-> "reply", tok |-> req[r].new] \in Continuation
    BY <2>1 DEF Continuation, LoginCont
  <2>4. QED BY <1>9, <2>2, <2>3, AwaitTypes DEF RotateGrace, TypeOK, RowsOK
<1>10. QED BY <1>1, <1>2, <1>3, <1>4, <1>5, <1>6, <1>7, <1>8, <1>9

LEMMA FamilyTypes ==
  ASSUME TypeOK, NEW r \in Request
  PROVE  FamilyFind(r) \/ FamilyInvalidate(r) \/ FamilyConflict(r) \/ FamilyUncache(r)
           => TypeOK'
<1> USE DEF tables, redis, clients
<1>1. CASE FamilyFind(r)
  <2>1. req[r].fam \in Family /\ InFamily(req[r].fam) \subseteq SessionId
    BY <1>1, ContinuationFields DEF FamilyFind, At, TypeOK, RowsOK, InFamily
  <2>2. [pc |-> "familyInvalidate", fam |-> req[r].fam, keys |-> InFamily(req[r].fam)]
          \in Continuation
    BY <2>1 DEF Continuation, RefreshCont
  <2>3. QED BY <1>1, <2>2, AwaitTypes DEF FamilyFind, TypeOK, RowsOK, RedisOK
<1>2. CASE FamilyInvalidate(r)
  <2>1. req[r].keys \in SUBSET SessionId
    BY <1>2, ContinuationFields DEF FamilyInvalidate, At, TypeOK
  <2>2. /\ [pc |-> "familyUncache", keys |-> req[r].keys] \in Continuation
        /\ Idle \in Continuation
    BY <2>1 DEF Continuation, RefreshCont
  <2>3. req' \in [Request -> Continuation]
    BY <1>2, <2>2, AwaitTypes DEF FamilyInvalidate
  <2>4. RowsOK'
    BY <1>2, InvalidatedTypes DEF FamilyInvalidate, Invalidate
  <2>5. QED BY <1>2, <2>3, <2>4 DEF FamilyInvalidate, TypeOK, RedisOK
<1>3. CASE FamilyConflict(r)
  BY <1>3, RespondTypes DEF FamilyConflict, InvalidateConflicts, TypeOK, RowsOK, RedisOK
<1>4. CASE FamilyUncache(r)
  BY <1>4, RespondTypes, SessionKeyDelTypes DEF FamilyUncache, TypeOK, RowsOK
<1>5. QED BY <1>1, <1>2, <1>3, <1>4

LEMMA TerminateTypes ==
  ASSUME TypeOK, NEW r \in Request
  PROVE  /\ \A t \in issued, s \in DOMAIN sessions : LogoutFind(r, t, s) => TypeOK'
         /\ TerminateStep(r) => TypeOK'
<1> USE DEF tables, redis, clients
<1>1. \A s \in DOMAIN sessions : Terminating(s) \in Continuation
  <2> SUFFICES ASSUME NEW s \in DOMAIN sessions
               PROVE  Terminating(s) \in Continuation
    OBVIOUS
  <2>1. sessions[s] \in SessionRow /\ s \in SessionId
    BY DEF TypeOK, RowsOK
  <2>2. [pc |-> "termInvalidate", row |-> s] \in Continuation
    BY <2>1 DEF Continuation, TerminateCont
  <2>3. ASSUME sessions[s].expiresAt > now, sessions[s].refreshToken # NoToken
        PROVE  [pc |-> "termBlacklist", row |-> s, tok |-> sessions[s].refreshToken,
                px |-> sessions[s].expiresAt - now] \in Continuation
    <3>1. sessions[s].expiresAt - now \in Nat
      BY <2>1, <2>3, AuthAssumption DEF TypeOK, SessionRow
    <3>2. sessions[s].refreshToken \in Token
      BY <2>1, <2>3 DEF SessionRow
    <3>3. QED BY <2>1, <3>1, <3>2 DEF Continuation, TerminateCont
  <2>4. QED BY <2>2, <2>3 DEF Terminating
<1>2. Idle \in Continuation
  BY DEF Continuation
<1>3. ASSUME NEW t \in issued, NEW s \in DOMAIN sessions, LogoutFind(r, t, s)
      PROVE  TypeOK'
  BY <1>1, <1>3, AwaitTypes DEF LogoutFind, TypeOK, RowsOK, RedisOK
<1>4. CASE RevokeFind(r)
  <2>1. req' \in [Request -> Continuation]
    BY <1>1, <1>2, <1>4, AwaitTypes DEF RevokeFind
  <2>2. QED BY <1>4, <2>1 DEF RevokeFind, TypeOK, RowsOK, RedisOK
<1>5. ASSUME NEW row, row \in SessionId
      PROVE  /\ [pc |-> "termInvalidate", row |-> row] \in Continuation
             /\ [pc |-> "termUncache", row |-> row] \in Continuation
  BY <1>5 DEF Continuation, TerminateCont
<1>6. CASE TermBlacklist(r)
  <2>1. req[r].tok \in Token /\ req[r].row \in SessionId /\ req[r].px \in Nat
    BY <1>6, ContinuationFields DEF TermBlacklist, At, TypeOK, HoldsTok
  <2>2. RedisOK'
    BY <1>6, <2>1, BlacklistSetTypes DEF TermBlacklist
  <2>3. req' \in [Request -> Continuation]
    BY <1>5, <1>6, <2>1, AwaitTypes DEF TermBlacklist
  <2>4. QED BY <1>6, <2>2, <2>3 DEF TermBlacklist, TypeOK, RowsOK
<1>7. CASE TermInvalidate(r)
  <2>1. req[r].row \in SessionId
    BY <1>7, ContinuationFields DEF TermInvalidate, At, TypeOK
  <2>2. req' \in [Request -> Continuation]
    BY <1>2, <1>5, <1>7, <2>1, AwaitTypes DEF TermInvalidate
  <2>3. RowsOK'
    BY <1>7, InvalidatedTypes DEF TermInvalidate, Invalidate
  <2>4. QED BY <1>7, <2>2, <2>3 DEF TermInvalidate, TypeOK, RedisOK
<1>8. CASE TermConflict(r)
  BY <1>8, RespondTypes DEF TermConflict, InvalidateConflicts, TypeOK, RowsOK, RedisOK
<1>9. CASE TermUncache(r)
  BY <1>9, RespondTypes, SessionKeyDelTypes DEF TermUncache, TypeOK, RowsOK
<1>10. QED BY <1>3, <1>4, <1>6, <1>7, <1>8, <1>9 DEF TerminateStep

LEMMA GuardTypes ==
  ASSUME TypeOK, NEW r \in Request
  PROVE  /\ \A t \in issued : \A h \in Protected(t) :
              GuardHit(r, t, h) \/ GuardMiss(r, t, h) => TypeOK'
         /\ GuardStep(r) => TypeOK'
<1> USE DEF tables, redis, clients
<1>1. \A t \in issued : Protected(t) \subseteq Handler
  BY DEF TypeOK, Protected, ListNext, RevokeNext, Handler, Token
<1>2. Handler \subseteq Continuation /\ Idle \in Continuation
  BY DEF Continuation, GuardCont
<1>3. ASSUME NEW t \in issued, NEW h \in Protected(t), GuardHit(r, t, h)
      PROVE  TypeOK'
  BY <1>1, <1>2, <1>3, AwaitTypes DEF GuardHit, TypeOK, RowsOK, RedisOK
<1>4. ASSUME NEW t \in issued, NEW h \in Protected(t), GuardMiss(r, t, h)
      PROVE  TypeOK'
  <2>1. t.sessionId \in SessionId
    BY DEF TypeOK, Token
  <2>2. [pc |-> "guardLookup", sessionId |-> t.sessionId, handler |-> h] \in Continuation
    BY <1>1, <2>1 DEF Continuation, GuardCont
  <2>3. QED BY <1>4, <2>2, AwaitTypes DEF GuardMiss, TypeOK, RowsOK, RedisOK
<1>5. CASE GuardLookup(r)
  <2> DEFINE sid == req[r].sessionId
  <2>1. sid \in SessionId /\ req[r].handler \in Handler
    BY <1>5, ContinuationFields DEF GuardLookup, At, TypeOK
  <2>2. req' \in [Request -> Continuation]
    BY <1>2, <1>5, <2>1, AwaitTypes DEF GuardLookup
  <2>3. RedisOK'
    <3>1. CASE UNCHANGED sessionKeys
      BY <1>5, <3>1 DEF GuardLookup, TypeOK, RedisOK
    <3>2. CASE /\ sid \in DOMAIN sessions /\ sessions[sid].expiresAt > now
               /\ SetSessionKey(sid, sessions[sid].isValid, sessions[sid].expiresAt - now)
      <4>1. sessions[sid].isValid \in BOOLEAN /\ sessions[sid].expiresAt - now \in Nat
        BY <3>2, AuthAssumption DEF TypeOK, RowsOK, SessionRow
      <4>2. QED BY <1>5, <2>1, <3>2, <4>1, SessionKeySetTypes DEF GuardLookup
    <3>3. QED BY <1>5, <3>1, <3>2 DEF GuardLookup
  <2>4. QED BY <1>5, <2>2, <2>3 DEF GuardLookup, TypeOK, RowsOK
<1>6. CASE ListSessions(r)
  BY <1>6, RespondTypes DEF ListSessions, TypeOK, RowsOK, RedisOK
<1>7. QED BY <1>3, <1>4, <1>5, <1>6 DEF GuardStep

LEMMA ResetLocals ==
  ASSUME TypeOK, NEW r \in Request, At(r, "resetInvalidate") \/ At(r, "resetUncache")
  PROVE  req[r] \in [pc : {"resetInvalidate", "resetUncache", "resetStore"}, userId : User,
                     hash : Password, keys : SUBSET SessionId]
<1>1. req[r] \in PasswordCont
  BY DEF At, TypeOK, Continuation, Idle, LoginCont, RefreshCont, TerminateCont, GuardCont, Handler
<1>2. QED BY <1>1 DEF At, PasswordCont

LEMMA PasswordTypes ==
  ASSUME TypeOK, NEW r \in Request
  PROVE  /\ \A u \in User : ForgotFind(r, u) => TypeOK'
         /\ \A t \in mailed, u \in User, p \in Password : ResetFind(r, t, u, p) => TypeOK'
         /\ PasswordStep(r) => TypeOK'
<1> USE DEF tables, redis, clients
<1>1. ASSUME NEW u \in User, ForgotFind(r, u)
      PROVE  TypeOK'
  <2>1. PICK t \in Fresh(ResetToken) :
          /\ drawn' = drawn \cup {t}
          /\ Await(r, [pc |-> "forgotStore", userId |-> u, reset |-> t, exp |-> now + ResetTtl])
    BY <1>1 DEF ForgotFind
  <2>2. t \in ResetToken /\ now + ResetTtl \in Nat
    BY AuthAssumption DEF Fresh, TypeOK
  <2>3. req' \in [Request -> Continuation]
    BY <2>1, <2>2, AwaitTypes DEF Continuation, PasswordCont
  <2>4. QED BY <1>1, <2>1, <2>2, <2>3 DEF ForgotFind, TypeOK, RowsOK, RedisOK
<1>2. ASSUME NEW t \in mailed, NEW u \in User, NEW p \in Password, ResetFind(r, t, u, p)
      PROVE  TypeOK'
  <2>1. [pc |-> "resetList", userId |-> u, hash |-> p] \in Continuation
    BY DEF Continuation, PasswordCont
  <2>2. QED BY <1>2, <2>1, AwaitTypes DEF ResetFind, TypeOK, RowsOK, RedisOK
<1>3. CASE ForgotStore(r)
  <2>1. req[r].userId \in User /\ req[r].reset \in ResetToken /\ req[r].exp \in Nat
    BY <1>3, ContinuationFields DEF ForgotStore, At, TypeOK
  <2>2. users' \in [User -> UserRow]
    BY <1>3, <2>1 DEF ForgotStore, TypeOK, UserRow
  <2>3. [pc |-> "forgotMail", reset |-> req[r].reset] \in Continuation
    BY <2>1 DEF Continuation, PasswordCont
  <2>4. QED BY <1>3, <2>2, <2>3, AwaitTypes DEF ForgotStore, TypeOK, RowsOK, RedisOK
<1>4. CASE ForgotMail(r)
  <2>1. req[r].reset \in ResetToken
    BY <1>4, ContinuationFields DEF ForgotMail, At, TypeOK
  <2>2. QED BY <1>4, <2>1, RespondTypes DEF ForgotMail, TypeOK, RowsOK, RedisOK
<1>5. CASE ResetList(r)
  <2>1. req[r].userId \in User /\ req[r].hash \in Password
    BY <1>5, ContinuationFields DEF ResetList, At, TypeOK
  <2>2. ActiveSessions(req[r].userId) \in SUBSET SessionId
    BY DEF ActiveSessions, TypeOK, RowsOK
  <2>3. [pc |-> "resetInvalidate", userId |-> req[r].userId, hash |-> req[r].hash,
         keys |-> ActiveSessions(req[r].userId)] \in Continuation
    BY <2>1, <2>2 DEF Continuation, PasswordCont
  <2>4. QED BY <1>5, <2>3, AwaitTypes DEF ResetList, TypeOK, RowsOK, RedisOK
<1>6. ASSUME At(r, "resetInvalidate") \/ At(r, "resetUncache"),
             NEW pc \in {"resetUncache", "resetStore"}
      PROVE  [req[r] EXCEPT !.pc = pc] \in Continuation
  <2>1. [req[r] EXCEPT !.pc = pc] \in PasswordCont
    BY <1>6, ResetLocals DEF PasswordCont
  <2>2. QED BY <2>1 DEF Continuation
<1>7. CASE ResetInvalidate(r)
  <2>1. req' \in [Request -> Continuation]
    BY <1>6, <1>7, AwaitTypes DEF ResetInvalidate
  <2>2. RowsOK'
    BY <1>7, InvalidatedTypes DEF ResetInvalidate, Invalidate
  <2>3. QED BY <1>7, <2>1, <2>2 DEF ResetInvalidate, TypeOK, RedisOK
<1>8. CASE ResetConflict(r)
  BY <1>8, RespondTypes DEF ResetConflict, InvalidateConflicts, TypeOK, RowsOK, RedisOK
<1>9. CASE ResetUncache(r)
  BY <1>6, <1>9, AwaitTypes, SessionKeyDelTypes DEF ResetUncache, TypeOK, RowsOK
<1>10. CASE ResetStore(r)
  <2>1. req[r].userId \in User /\ req[r].hash \in Password
    BY <1>10, ContinuationFields DEF ResetStore, At, TypeOK
  <2>2. users' \in [User -> UserRow]
    BY <1>10, <2>1 DEF ResetStore, TypeOK, UserRow
  <2>3. QED BY <1>10, <2>2, RespondTypes DEF ResetStore, TypeOK, RowsOK, RedisOK
<1>11. QED BY <1>1, <1>2, <1>3, <1>4, <1>5, <1>7, <1>8, <1>9, <1>10 DEF PasswordStep

LEMMA OtherTypes ==
  ASSUME TypeOK
  PROVE  /\ \A r \in Request : Reply(r) \/ Abort(r) => TypeOK'
         /\ Tick => TypeOK'
<1> USE DEF tables, redis, clients
<1>1. ASSUME NEW r \in Request, Reply(r)
      PROVE  TypeOK'
  <2>1. req[r].tok \in Token
    BY <1>1, ContinuationFields DEF Reply, At, TypeOK, HoldsTok
  <2>2. QED BY <1>1, <2>1, RespondTypes DEF Reply, TypeOK, RowsOK, RedisOK
<1>2. ASSUME NEW r \in Request, Abort(r)
      PROVE  TypeOK'
  BY <1>2, RespondTypes DEF Abort, TypeOK, RowsOK, RedisOK
<1>3. CASE Tick
  <2>1. now' \in 0..MaxTime
    BY <1>3, AuthAssumption DEF Tick, TypeOK
  <2>2. RedisOK'
    BY <1>3 DEF Tick, Unexpired, TypeOK, RedisOK
  <2>3. QED BY <1>3, <2>1, <2>2 DEF Tick, TypeOK, RowsOK
<1>4. QED BY <1>1, <1>2, <1>3

LEMMA TypeStep ==
  ASSUME TypeOK, [Next]_vars
  PROVE  TypeOK'
<1>1. CASE LoginStart
  BY <1>1, LoginTypes DEF LoginStart
<1>2. CASE RefreshStart
  BY <1>2, RotateTypes DEF RefreshStart
<1>3. CASE LogoutStart
  BY <1>3, TerminateTypes DEF LogoutStart
<1>4. CASE GuardStart
  BY <1>4, GuardTypes DEF GuardStart
<1>5. CASE PasswordStart
  BY <1>5, PasswordTypes DEF PasswordStart
<1>6. ASSUME NEW r \in Request, Server(r)
      PROVE  TypeOK'
  <2>1. RefreshStep(r) => TypeOK'
    BY RotateTypes, FamilyTypes DEF RefreshStep
  <2>2. QED BY <1>6, <2>1, LoginTypes, TerminateTypes, GuardTypes, PasswordTypes, OtherTypes
           DEF Server
<1>7. ASSUME NEW r \in Request, Abort(r)
      PROVE  TypeOK'
  BY <1>7, OtherTypes
<1>8. CASE Tick
  BY <1>8, OtherTypes
<1>9. CASE UNCHANGED vars
  BY <1>9 DEF vars, TypeOK, RowsOK, RedisOK
<1>10. QED BY <1>1, <1>2, <1>3, <1>4, <1>5, <1>6, <1>7, <1>8, <1>9 DEF Next, Start

\* Every variable keeps its type and every continuation has exactly the locals
\* its handler has there, whatever is interleaved, fails or aborts.
THEOREM TypeCorrect == Spec => []TypeOK
<1>1. Init => TypeOK
  BY AuthAssumption DEF Init, TypeOK, UserRow, RowsOK, RedisOK, Continuation
<1>2. QED BY <1>1, TypeStep, PTL DEF Spec

=============================================================================
