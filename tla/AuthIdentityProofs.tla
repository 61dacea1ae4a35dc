-------------------------- MODULE AuthIdentityProofs --------------------------
(* IInv is inductive, and what follows from it.  Nearly every step leaves the *)
(* sessions table alone or only ends rows; the work is in LoginSign,          *)
(* LoginStore and RotateStore.                                                *)
EXTENDS AuthTypeProofs

LEMMA InitIdentity == Init => Identity
BY DEF Init, Identity, RowsApart, FamiliesApart, UniqueRefreshToken, RowExpiryInStep,
   RowsDrawn, TokensStored, LocalsOK, LoginsApart, Idle, At, HoldsTok, HoldsNew

\* What a step may do to the table: rows stay, with their account and family,
\* and a new row's id was not drawn before.
Grows ==
  /\ drawn \subseteq drawn'
  /\ DOMAIN sessions \subseteq DOMAIN sessions'
  /\ \A s \in DOMAIN sessions' \ DOMAIN sessions : s \notin drawn
  /\ \A s \in DOMAIN sessions : /\ sessions'[s].userId = sessions[s].userId
                                /\ sessions'[s].tokenFamily = sessions[s].tokenFamily

LEMMA HasRowPersists ==
  ASSUME Grows, NEW t
  PROVE  HasRow(t) => HasRow(t)'
BY DEF Grows, HasRow, OwnedBy

LEMMA LocalsPersist ==
  ASSUME Grows, NEW k, LocalsOK(k),
         k.pc = "loginStore" =>
           \A s \in DOMAIN sessions' \ DOMAIN sessions : sessions'[s].tokenFamily # k.tok.tokenFamily
  PROVE  LocalsOK(k)'
<1>1. k.pc = "loginStore" =>
        /\ k.tok.tokenFamily \in drawn'
        /\ \A s \in DOMAIN sessions' : sessions'[s].tokenFamily # k.tok.tokenFamily
        /\ InStep(k.tok, k.exp)
  BY DEF LocalsOK, Grows
<1>2. k.pc \in HoldsTok \ {"loginStore"} => HasRow(k.tok)'
  BY HasRowPersists DEF LocalsOK
<1>3. k.pc \in HoldsNew => HasRow(k.new)'
  BY HasRowPersists DEF LocalsOK
<1>4. k.pc \in {"rotateSign", "rotateStore", "rotateWarm"} =>
        k.row \in DOMAIN sessions' /\ OwnedBy(k.tok, sessions'[k.row])
  BY DEF LocalsOK, Grows, OwnedBy
<1>5. k.pc \in {"rotateStore", "rotateWarm"} => OwnedBy(k.new, sessions'[k.row])
  BY DEF LocalsOK, Grows, OwnedBy
<1>6. k.pc = "rotateStore" => InStep(k.new, k.newExp)
  BY DEF LocalsOK
<1>7. QED BY <1>1, <1>2, <1>3, <1>4, <1>5, <1>6 DEF LocalsOK, OwnedBy, InStep

LEMMA TokensPersist ==
  ASSUME Grows,
         \A t \in issued' : HasRow(t),
         \A t \in DOMAIN blacklist' :
           HasRow(t) /\ (blacklist'[t].pair # NoToken => HasRow(blacklist'[t].pair))
  PROVE  TokensStored'
<1>1. \A t : HasRow(t) => HasRow(t)'
  BY HasRowPersists
<1>2. QED BY <1>1 DEF TokensStored

\* A step of one request that leaves the table alone.
LEMMA QuietStep ==
  ASSUME IInv, NEW r \in Request, NEW k, Await(r, k),
         UNCHANGED sessions, drawn \subseteq drawn', LocalsOK(k)',
         k.pc = "loginStore" =>
           \A q \in Request : At(q, "loginStore") => req[q].tok.tokenFamily # k.tok.tokenFamily,
         \A t \in issued' : HasRow(t),
         \A t \in DOMAIN blacklist' :
           HasRow(t) /\ (blacklist'[t].pair # NoToken => HasRow(blacklist'[t].pair))
  PROVE  Identity'
<1>1. Grows
  BY DEF Grows
<1>2. RowsApart' /\ FamiliesApart'
  BY DEF IInv, Identity, RowsApart, FamiliesApart, UniqueRefreshToken, OwnedBy
<1>3. RowExpiryInStep'
  BY DEF IInv, Identity, RowExpiryInStep, InStep
<1>4. RowsDrawn'
  BY <1>1, HasRowPersists DEF IInv, Identity, RowsDrawn
<1>5. TokensStored'
  BY <1>1, TokensPersist
<1>6. req' = [req EXCEPT ![r] = k] /\ req \in [Request -> Continuation]
  BY DEF Await, IInv, TypeOK
<1>7. ASSUME NEW q \in Request
      PROVE  LocalsOK(req[q])'
  <2>1. CASE q = r
    BY <1>6, <2>1 DEF LocalsOK, HasRow, OwnedBy, InStep
  <2>2. CASE q # r
    <3>1. PICK kept : kept = req[q]
      OBVIOUS
    <3>2. LocalsOK(kept) /\ req'[q] = kept
      BY <1>6, <2>2, <3>1 DEF IInv, Identity
    <3>3. LocalsOK(kept)'
      BY <1>1, <3>2, LocalsPersist
    <3>4. QED BY <3>2, <3>3 DEF LocalsOK, HasRow, OwnedBy, InStep
  <2>3. QED BY <2>1, <2>2
<1>8. LoginsApart'
  BY <1>6 DEF IInv, Identity, LoginsApart, At
<1>9. QED BY <1>2, <1>3, <1>4, <1>5, <1>7, <1>8 DEF Identity

\* A step of one request that ends the rows of S, without a conflict.
LEMMA EndStep ==
  ASSUME IInv, NEW r \in Request, NEW k, Await(r, k), NEW S, Invalidate(S),
         UNCHANGED <<drawn, issued, blacklist>>,
         k.pc \in {"idle", "familyUncache", "termUncache", "resetUncache", "resetStore"}
  PROVE  Identity'
<1>1. /\ sessions' = Invalidated(S) /\ UniqueRefreshToken(sessions)'
      /\ DOMAIN sessions' = DOMAIN sessions
      /\ \A s \in DOMAIN sessions :
           \/ sessions'[s] = sessions[s]
           \/ sessions'[s] = InvalidatedRow(sessions[s])
  BY DEF Invalidate, Invalidated, UniqueRefreshToken
<1>2. \A s \in DOMAIN sessions : sessions[s] \in SessionRow
  BY DEF IInv, TypeOK, RowsOK
<1>3. \A row \in SessionRow :
        /\ InvalidatedRow(row).userId = row.userId
        /\ InvalidatedRow(row).tokenFamily = row.tokenFamily
        /\ InvalidatedRow(row).expiresAt = row.expiresAt
        /\ InvalidatedRow(row).refreshToken = NoToken
        /\ InvalidatedRow(row).isValid = FALSE
  BY DEF InvalidatedRow, SessionRow
<1>4. Grows
  BY <1>1, <1>2, <1>3 DEF Grows
<1>5. RowsApart' /\ FamiliesApart'
  BY <1>1, <1>2, <1>3 DEF IInv, Identity, RowsApart, FamiliesApart, OwnedBy
<1>6. RowExpiryInStep'
  BY <1>1, <1>2, <1>3 DEF IInv, Identity, RowExpiryInStep, InStep
<1>7. RowsDrawn'
  BY <1>1, <1>4 DEF IInv, Identity, RowsDrawn, Grows
<1>8. TokensStored'
  <2>1. \A t : HasRow(t) => HasRow(t)'
    BY <1>4, HasRowPersists
  <2>2. QED BY <2>1 DEF IInv, Identity, TokensStored
<1>9. req' = [req EXCEPT ![r] = k] /\ req \in [Request -> Continuation]
  BY DEF Await, IInv, TypeOK
<1>10. ASSUME NEW q \in Request
       PROVE  LocalsOK(req[q])'
  <2>1. CASE q = r
    BY <1>9, <2>1 DEF LocalsOK, HoldsTok, HoldsNew
  <2>2. CASE q # r
    <3>1. PICK kept : kept = req[q]
      OBVIOUS
    <3>2. LocalsOK(kept) /\ req'[q] = kept
      BY <1>9, <2>2, <3>1 DEF IInv, Identity
    <3>3. LocalsOK(kept)'
      BY <1>1, <1>4, <3>2, LocalsPersist
    <3>4. QED BY <3>2, <3>3 DEF LocalsOK, HasRow, OwnedBy, InStep
  <2>3. QED BY <2>1, <2>2
<1>11. LoginsApart'
  BY <1>9 DEF IInv, Identity, LoginsApart, At
<1>12. QED BY <1>5, <1>6, <1>7, <1>8, <1>10, <1>11 DEF Identity

-----------------------------------------------------------------------------

\* What LoginSign and RotateSign read of the clock in one turn.
LEMMA SignedInStep ==
  ASSUME TypeOK
  PROVE  /\ WholeSecond(now) + RefreshExpiryMs < (now + RefreshExpiryMs) + Second
         /\ now + RefreshExpiryMs < WholeSecond(now) + RefreshExpiryMs + Second
<1>1. now \in Nat
  BY AuthAssumption DEF TypeOK
<1>2. QED BY <1>1, WholeSeconds, AuthAssumption

LEMMA LoginIdentity ==
  ASSUME IInv, NEW r \in Request
  PROVE  /\ \A u \in User, p \in Password : LoginVerify(r, u, p) => Identity'
         /\ LoginStep(r) => Identity'
<1> USE DEF tables, redis, clients
<1>1. TokensStored
  BY DEF IInv, Identity
<1>2. ASSUME NEW u \in User, NEW p \in Password, LoginVerify(r, u, p)
      PROVE  Identity'
  <2>1. LocalsOK([pc |-> "loginSign", userId |-> u])'
    BY DEF LocalsOK, HoldsTok, HoldsNew
  <2>2. QED BY <1>1, <1>2, <2>1, QuietStep DEF LoginVerify, TokensStored
<1>3. CASE LoginSign(r)
  <2>1. PICK fam \in Fresh(Family), sid \in Fresh(SessionId) :
          /\ drawn' = drawn \cup {fam, sid}
          /\ Await(r, [pc |-> "loginStore",
                       tok |-> [userId |-> req[r].userId, sessionId |-> sid,
                                tokenFamily |-> fam, iat |-> WholeSecond(now)],
                       exp |-> now + RefreshExpiryMs])
    BY <1>3 DEF LoginSign
  <2>2. PICK k : k = [pc |-> "loginStore",
                      tok |-> [userId |-> req[r].userId, sessionId |-> sid,
                               tokenFamily |-> fam, iat |-> WholeSecond(now)],
                      exp |-> now + RefreshExpiryMs]
    OBVIOUS
  <2>3. \A s \in DOMAIN sessions : sessions[s].tokenFamily # fam
    BY DEF IInv, Identity, RowsDrawn, Fresh
  <2>4. LocalsOK(k)'
    <3>1. InStep(k.tok, k.exp)
      BY <2>2, SignedInStep DEF InStep, IInv
    <3>2. QED BY <1>3, <2>1, <2>2, <2>3, <3>1 DEF LoginSign, LocalsOK, HoldsTok, HoldsNew, InStep
  <2>5. \A q \in Request : At(q, "loginStore") => req[q].tok.tokenFamily # k.tok.tokenFamily
    BY <2>2 DEF IInv, Identity, LocalsOK, At, Fresh
  <2>6. QED BY <1>1, <1>3, <2>1, <2>2, <2>4, <2>5, QuietStep DEF LoginSign, TokensStored
<1>4. CASE LoginWarm(r)
  <2>1. LocalsOK(req[r]) /\ HasRow(req[r].tok)
    BY <1>4 DEF LoginWarm, At, IInv, Identity, LocalsOK, HoldsTok
  <2>2. PICK k : k = [pc |-> "reply", tok |-> req[r].tok]
    OBVIOUS
  <2>3. LocalsOK(k)'
    BY <1>4, <2>1, <2>2 DEF LoginWarm, LocalsOK, HoldsTok, HoldsNew, HasRow, OwnedBy
  <2>4. QED BY <1>1, <1>4, <2>2, <2>3, QuietStep DEF LoginWarm, TokensStored
<1>5. CASE LoginStore(r)
  <2>1. PICK t, e : t = req[r].tok /\ e = req[r].exp
    OBVIOUS
  <2>2. PICK id \in Fresh(SessionId) :
          /\ drawn' = drawn \cup {id}
          /\ sessions' = Put(sessions, id, NewSession(t, e))
          /\ Await(r, [pc |-> IF EnableCache THEN "loginWarm" ELSE "reply", tok |-> t])
    BY <1>5, <2>1 DEF LoginStore
  <2>3. /\ id \notin DOMAIN sessions /\ id \notin drawn
        /\ DOMAIN sessions' = DOMAIN sessions \cup {id}
        /\ sessions'[id] = NewSession(t, e)
        /\ \A s \in DOMAIN sessions : sessions'[s] = sessions[s]
    BY <2>2 DEF Put, Fresh, IInv, Identity, RowsDrawn
  <2>4. t \in Token
    BY <1>5, <2>1, ContinuationFields DEF LoginStore, At, IInv, TypeOK, HoldsTok
  <2>5. /\ t.tokenFamily \in drawn /\ InStep(t, e)
        /\ \A s \in DOMAIN sessions : sessions[s].tokenFamily # t.tokenFamily
    BY <1>5, <2>1 DEF LoginStore, At, IInv, Identity, LocalsOK
  <2>6. /\ NewSession(t, e).userId = t.userId /\ NewSession(t, e).tokenFamily = t.tokenFamily
        /\ NewSession(t, e).refreshToken = t /\ NewSession(t, e).expiresAt = e
        /\ t # NoToken
    BY <2>4, AuthAssumption DEF NewSession
  <2>7. Grows
    BY <2>2, <2>3 DEF Grows
  <2>8. HasRow(t)'
    BY <2>3, <2>6 DEF HasRow, OwnedBy
  <2>9. RowsApart' /\ FamiliesApart'
    <3>1. \A s \in DOMAIN sessions : sessions[s].refreshToken # t
      BY <2>5, <2>6 DEF IInv, Identity, RowsApart, OwnedBy
    <3>2. QED BY <2>3, <2>5, <2>6, <3>1
             DEF IInv, Identity, RowsApart, FamiliesApart, UniqueRefreshToken, OwnedBy
  <2>10. RowExpiryInStep'
    BY <2>3, <2>5, <2>6 DEF IInv, Identity, RowExpiryInStep, InStep
  <2>11. RowsDrawn'
    BY <2>2, <2>3, <2>5, <2>6 DEF IInv, Identity, RowsDrawn
  <2>12. TokensStored'
    BY <1>1, <1>5, <2>7, TokensPersist DEF LoginStore, TokensStored
  <2>13. PICK k : k = [pc |-> IF EnableCache THEN "loginWarm" ELSE "reply", tok |-> t]
    OBVIOUS
  <2>14. req' = [req EXCEPT ![r] = k] /\ req \in [Request -> Continuation]
    BY <2>2, <2>13 DEF Await, IInv, TypeOK
  <2>15. LocalsOK(k)'
    BY <2>8, <2>13 DEF LocalsOK, HoldsTok, HoldsNew
  <2>16. ASSUME NEW q \in Request
         PROVE  LocalsOK(req[q])'
    <3>1. CASE q = r
      BY <2>14, <2>15, <3>1 DEF LocalsOK, HasRow, OwnedBy, InStep
    <3>2. CASE q # r
      <4>1. PICK kept : kept = req[q]
        OBVIOUS
      <4>2. LocalsOK(kept) /\ req'[q] = kept
        BY <2>14, <3>2, <4>1 DEF IInv, Identity
      <4>3. kept.pc = "loginStore" => kept.tok.tokenFamily # t.tokenFamily
        BY <1>5, <2>1, <3>2, <4>1 DEF LoginStore, At, IInv, Identity, LoginsApart
      <4>4. LocalsOK(kept)'
        BY <2>3, <2>6, <2>7, <4>2, <4>3, LocalsPersist
      <4>5. QED BY <4>2, <4>4 DEF LocalsOK, HasRow, OwnedBy, InStep
    <3>3. QED BY <3>1, <3>2
  <2>17. LoginsApart'
    BY <2>13, <2>14 DEF IInv, Identity, LoginsApart, At
  <2>18. QED BY <2>9, <2>10, <2>11, <2>12, <2>16, <2>17 DEF Identity
<1>6. QED BY <1>2, <1>3, <1>4, <1>5 DEF LoginStep

LEMMA RotateIdentity ==
  ASSUME IInv, NEW r \in Request
  PROVE  /\ \A t \in issued : RotateStart(r, t) \/ RotateGraceHit(r, t) => Identity'
         /\ \A s \in DOMAIN sessions : RotateFound(r, s) \/ RotateRejected(r, s) => Identity'
         /\ RotateReplayed(r) \/ RotateSign(r) \/ RotateStore(r) \/ RotateWarm(r)
            \/ RotateGrace(r) => Identity'
<1> USE DEF tables, redis, clients
<1>1. TokensStored
  BY DEF IInv, Identity
<1>2. ASSUME NEW t \in issued, RotateStart(r, t)
      PROVE  Identity'
  <2>1. PICK k : k = [pc |-> "rotateFind", tok |-> t]
    OBVIOUS
  <2>2. LocalsOK(k)'
    BY <1>1, <1>2, <2>1 DEF RotateStart, TokensStored, LocalsOK, HoldsTok, HoldsNew,
       HasRow, OwnedBy, InStep
  <2>3. QED BY <1>1, <1>2, <2>1, <2>2, QuietStep DEF RotateStart, TokensStored
<1>3. ASSUME NEW t \in issued, RotateGraceHit(r, t)
      PROVE  Identity'
  <2>1. PICK k : k = [pc |-> "reply", tok |-> blacklist[t].pair]
    OBVIOUS
  <2>2. HasRow(k.tok)
    BY <1>1, <1>3, <2>1 DEF RotateGraceHit, TokensStored
  <2>3. LocalsOK(k)'
    BY <1>3, <2>1, <2>2 DEF RotateGraceHit, LocalsOK, HoldsTok, HoldsNew,
       HasRow, OwnedBy, InStep
  <2>4. QED BY <1>1, <1>3, <2>1, <2>3, QuietStep DEF RotateGraceHit, TokensStored
<1>4. ASSUME NEW s \in DOMAIN sessions, RotateFound(r, s)
      PROVE  Identity'
  <2>1. PICK k : k = [pc |-> "rotateSign", tok |-> req[r].tok, row |-> s,
                      exp |-> sessions[s].expiresAt]
    OBVIOUS
  <2>2. HasRow(req[r].tok) /\ req[r].tok # NoToken
    BY <1>4, ContinuationFields, AuthAssumption
       DEF RotateFound, At, IInv, Identity, LocalsOK, HoldsTok, TypeOK
  <2>3. OwnedBy(req[r].tok, sessions[s])
    BY <1>4, <2>2 DEF RotateFound, HoldsToken, IInv, Identity, RowsApart
  <2>4. LocalsOK(k)'
    BY <1>4, <2>1, <2>2, <2>3 DEF RotateFound, LocalsOK, HoldsTok, HoldsNew,
       HasRow, OwnedBy, InStep
  <2>5. QED BY <1>1, <1>4, <2>1, <2>4, QuietStep DEF RotateFound, TokensStored
<1>5. LocalsOK(Idle)'
  BY DEF LocalsOK, Idle, HoldsTok, HoldsNew
<1>6. ASSUME NEW s \in DOMAIN sessions, RotateRejected(r, s)
      PROVE  Identity'
  BY <1>1, <1>5, <1>6, QuietStep DEF RotateRejected, Respond, Idle, TokensStored
<1>7. CASE RotateReplayed(r)
  <2>1. LocalsOK([pc |-> "familyFind", fam |-> req[r].tok.tokenFamily])
    BY DEF LocalsOK, HoldsTok, HoldsNew
  <2>2. PICK k : k = [pc |-> "familyFind", fam |-> req[r].tok.tokenFamily]
    OBVIOUS
  <2>3. LocalsOK(k)'
    BY <2>2 DEF LocalsOK, HoldsTok, HoldsNew
  <2>4. QED BY <1>1, <1>7, <2>2, <2>3, QuietStep DEF RotateReplayed, TokensStored
<1>8. CASE RotateSign(r)
  <2>1. PICK k : k = [pc |-> "rotateStore", tok |-> req[r].tok, row |-> req[r].row,
                      exp |-> req[r].exp, new |-> Successor(req[r].tok),
                      newExp |-> now + RefreshExpiryMs]
    OBVIOUS
  <2>2. req[r].tok \in Token
    BY <1>8, ContinuationFields DEF RotateSign, At, IInv, TypeOK, HoldsTok
  <2>3. /\ k.new.userId = k.tok.userId /\ k.new.sessionId = k.tok.sessionId
        /\ k.new.tokenFamily = k.tok.tokenFamily
    BY <2>1, <2>2 DEF Successor, Token
  <2>4. /\ HasRow(k.tok) /\ k.row \in DOMAIN sessions /\ OwnedBy(k.tok, sessions[k.row])
    BY <1>8, <2>1 DEF RotateSign, At, IInv, Identity, LocalsOK, HoldsTok
  <2>5. HasRow(k.new) /\ OwnedBy(k.new, sessions[k.row])
    BY <2>3, <2>4 DEF HasRow, OwnedBy
  <2>6. LocalsOK(k)'
    <3>1. InStep(k.new, k.newExp)
      BY <2>1, <2>2, SignedInStep DEF Successor, Token, InStep, IInv
    <3>2. QED BY <1>8, <2>1, <2>4, <2>5, <3>1 DEF RotateSign, LocalsOK, HoldsTok, HoldsNew,
             HasRow, OwnedBy, InStep
  <2>7. QED BY <1>1, <1>8, <2>1, <2>6, QuietStep DEF RotateSign, TokensStored
<1>9. CASE RotateWarm(r)
  <2>1. HasRow(req[r].tok) /\ HasRow(req[r].new)
    BY <1>9 DEF RotateWarm, At, IInv, Identity, LocalsOK, HoldsTok, HoldsNew
  <2>2. PICK k : k = IF req[r].exp > now
                     THEN [pc |-> "rotateGrace", tok |-> req[r].tok, new |-> req[r].new,
                           px |-> Smaller(GracePeriod, req[r].exp - now)]
                     ELSE [pc |-> "reply", tok |-> req[r].new]
    OBVIOUS
  <2>3. LocalsOK(k)'
    BY <1>9, <2>1, <2>2 DEF RotateWarm, LocalsOK, HoldsTok, HoldsNew,
       HasRow, OwnedBy, InStep
  <2>4. k.pc # "loginStore"
    BY <2>2
  <2>5. QED BY <1>1, <1>9, <2>2, <2>3, <2>4, QuietStep DEF RotateWarm, TokensStored
<1>10. CASE RotateGrace(r)
  <2>1. HasRow(req[r].tok) /\ HasRow(req[r].new)
    BY <1>10 DEF RotateGrace, At, IInv, Identity, LocalsOK, HoldsTok, HoldsNew
  <2>2. PICK k : k = [pc |-> "reply", tok |-> req[r].new]
    OBVIOUS
  <2>3. LocalsOK(k)'
    BY <1>10, <2>1, <2>2 DEF RotateGrace, LocalsOK, HoldsTok, HoldsNew,
       HasRow, OwnedBy, InStep
  <2>4. \A t \in DOMAIN blacklist' :
          HasRow(t) /\ (blacklist'[t].pair # NoToken => HasRow(blacklist'[t].pair))
    BY <1>1, <1>10, <2>1 DEF RotateGrace, SetBlacklist, Put, TokensStored
  <2>5. QED BY <1>1, <1>10, <2>2, <2>3, <2>4, QuietStep DEF RotateGrace, TokensStored
<1>11. CASE RotateStore(r)
  <2>1. PICK k0 : k0 = req[r]
    OBVIOUS
  <2> DEFINE s0 == k0.row
             new == k0.new
  <2>2. /\ sessions' = [sessions EXCEPT ![s0] = RotatedRow(@, new, k0.newExp)]
        /\ s0 \in DOMAIN sessions /\ HasRow(new) /\ OwnedBy(new, sessions[s0])
        /\ HasRow(k0.tok) /\ OwnedBy(k0.tok, sessions[s0]) /\ InStep(new, k0.newExp)
    BY <1>11, <2>1 DEF RotateStore, At, IInv, Identity, LocalsOK, HoldsTok, HoldsNew
  <2>3. new \in Token /\ new # NoToken
    BY <1>11, <2>1, ContinuationFields, AuthAssumption
       DEF RotateStore, At, IInv, TypeOK, HoldsNew
  <2>4. sessions[s0] \in SessionRow
    BY <2>2 DEF IInv, TypeOK, RowsOK
  <2>5. /\ DOMAIN sessions' = DOMAIN sessions
        /\ \A s \in DOMAIN sessions : s # s0 => sessions'[s] = sessions[s]
        /\ sessions'[s0].userId = sessions[s0].userId
        /\ sessions'[s0].tokenFamily = sessions[s0].tokenFamily
        /\ sessions'[s0].isValid = sessions[s0].isValid
        /\ sessions'[s0].refreshToken = new
        /\ sessions'[s0].expiresAt = k0.newExp
    BY <2>2, <2>4 DEF RotatedRow, SessionRow
  <2>6. Grows
    BY <1>11, <2>5 DEF RotateStore, Grows
  <2>7. RowsApart' /\ FamiliesApart'
    <3>1. \A s \in DOMAIN sessions : sessions'[s].tokenFamily = sessions[s].tokenFamily
      BY <2>5
    <3>2. \A s \in DOMAIN sessions : s # s0 => sessions[s].refreshToken # new
      BY <2>2, <2>3 DEF IInv, Identity, RowsApart, FamiliesApart, OwnedBy
    <3>3. UniqueRefreshToken(sessions)'
      BY <2>5, <3>2 DEF IInv, Identity, RowsApart, UniqueRefreshToken
    <3>4. FamiliesApart'
      BY <2>5, <3>1 DEF IInv, Identity, FamiliesApart
    <3>5. QED BY <2>2, <2>5, <3>1, <3>3, <3>4 DEF IInv, Identity, RowsApart, OwnedBy
  <2>8. RowExpiryInStep'
    BY <2>2, <2>3, <2>5 DEF IInv, Identity, RowExpiryInStep, InStep
  <2>9. RowsDrawn'
    BY <1>11, <2>5 DEF RotateStore, IInv, Identity, RowsDrawn
  <2>10. TokensStored'
    BY <1>1, <1>11, <2>6, TokensPersist DEF RotateStore, TokensStored
  <2>11. PICK k : k = IF EnableCache
                     THEN [pc |-> "rotateWarm", tok |-> k0.tok, row |-> k0.row,
                           exp |-> k0.exp, new |-> k0.new]
                     ELSE [pc |-> "reply", tok |-> new]
    OBVIOUS
  <2>12. req' = [req EXCEPT ![r] = k] /\ req \in [Request -> Continuation]
    BY <1>11, <2>1, <2>11 DEF RotateStore, Await, IInv, TypeOK
  <2>13. LocalsOK(k)
    BY <2>2, <2>11 DEF LocalsOK, HoldsTok, HoldsNew
  <2>14. ASSUME NEW q \in Request
         PROVE  LocalsOK(req[q])'
    <3>1. PICK kept : kept = req'[q]
      OBVIOUS
    <3>2. LocalsOK(kept)
      BY <2>12, <2>13, <3>1 DEF IInv, Identity
    <3>3. LocalsOK(kept)'
      BY <2>5, <2>6, <3>2, LocalsPersist
    <3>4. QED BY <3>1, <3>3 DEF LocalsOK, HasRow, OwnedBy, InStep
  <2>15. k.pc # "loginStore"
    BY <2>11
  <2>16. LoginsApart'
    BY <2>12, <2>15 DEF IInv, Identity, LoginsApart, At
  <2>17. QED BY <2>7, <2>8, <2>9, <2>10, <2>14, <2>16 DEF Identity
<1>12. QED BY <1>2, <1>3, <1>4, <1>6, <1>7, <1>8, <1>9, <1>10, <1>11

\* Continuations that hold no token and no row id make no demand.
Plain == {"idle", "loginSign", "familyFind", "familyInvalidate", "familyUncache",
          "termInvalidate", "termUncache", "listSessions", "revokeFind", "forgotStore",
          "forgotMail", "resetList", "resetInvalidate", "resetUncache", "resetStore"}

\* A step of one request to such a continuation that touches neither the table nor
\* the tokens in circulation.
LEMMA PlainStep ==
  ASSUME IInv, NEW r \in Request, NEW k, Await(r, k), k.pc \in Plain,
         UNCHANGED <<sessions, issued, blacklist>>, drawn \subseteq drawn'
  PROVE  Identity'
<1>1. LocalsOK(k)'
  BY DEF Plain, LocalsOK, HoldsTok, HoldsNew
<1>2. k.pc # "loginStore"
  BY DEF Plain
<1>3. TokensStored
  BY DEF IInv, Identity
<1>4. QED BY <1>1, <1>2, <1>3, QuietStep DEF TokensStored

LEMMA FamilyIdentity ==
  ASSUME IInv, NEW r \in Request
  PROVE  FamilyFind(r) \/ FamilyInvalidate(r) \/ FamilyConflict(r) \/ FamilyUncache(r)
           => Identity'
<1> USE DEF tables, redis, clients
<1>1. CASE FamilyFind(r)
  BY <1>1, PlainStep DEF FamilyFind, Plain
<1>2. CASE FamilyInvalidate(r)
  <2>1. PICK k : k = IF EnableCache THEN [pc |-> "familyUncache", keys |-> req[r].keys] ELSE Idle
    OBVIOUS
  <2>2. k.pc \in {"idle", "familyUncache"}
    BY <2>1 DEF Idle
  <2>3. QED BY <1>2, <2>1, <2>2, EndStep DEF FamilyInvalidate
<1>3. CASE FamilyConflict(r)
  BY <1>3, PlainStep DEF FamilyConflict, InvalidateConflicts, Respond, Idle, Plain
<1>4. CASE FamilyUncache(r)
  BY <1>4, PlainStep DEF FamilyUncache, Respond, Idle, Plain
<1>5. QED BY <1>1, <1>2, <1>3, <1>4

LEMMA TerminateIdentity ==
  ASSUME IInv, NEW r \in Request
  PROVE  /\ \A t \in issued, s \in DOMAIN sessions : LogoutFind(r, t, s) => Identity'
         /\ TerminateStep(r) => Identity'
<1> USE DEF tables, redis, clients
<1>1. TokensStored
  BY DEF IInv, Identity
<1>2. ASSUME NEW s \in DOMAIN sessions
      PROVE  LocalsOK(Terminating(s)) /\ Terminating(s).pc # "loginStore"
  <2>1. sessions[s].refreshToken # NoToken => HasRow(sessions[s].refreshToken)
    BY DEF IInv, Identity, RowsApart, HasRow
  <2>2. QED BY <2>1 DEF Terminating, LocalsOK, HoldsTok, HoldsNew
<1>3. ASSUME NEW s \in DOMAIN sessions, Await(r, Terminating(s)),
             UNCHANGED <<sessions, drawn, issued, blacklist>>
      PROVE  Identity'
  <2>1. PICK k : k = Terminating(s)
    OBVIOUS
  <2>2. LocalsOK(k)'
    BY <1>2, <1>3, <2>1 DEF LocalsOK, HasRow, OwnedBy, InStep
  <2>3. QED BY <1>1, <1>2, <1>3, <2>1, <2>2, QuietStep DEF TokensStored
<1>4. ASSUME NEW t \in issued, NEW s \in DOMAIN sessions, LogoutFind(r, t, s)
      PROVE  Identity'
  BY <1>3, <1>4 DEF LogoutFind
<1>5. CASE RevokeFind(r)
  <2>1. CASE req[r].target \in DOMAIN sessions /\ sessions[req[r].target].userId = req[r].userId
    BY <1>3, <1>5, <2>1 DEF RevokeFind
  <2>2. CASE ~(req[r].target \in DOMAIN sessions
               /\ sessions[req[r].target].userId = req[r].userId)
    BY <1>5, <2>2, PlainStep DEF RevokeFind, Idle, Plain
  <2>3. QED BY <2>1, <2>2
<1>6. CASE TermBlacklist(r)
  <2>1. HasRow(req[r].tok)
    BY <1>6 DEF TermBlacklist, At, IInv, Identity, LocalsOK, HoldsTok
  <2>2. PICK k : k = [pc |-> "termInvalidate", row |-> req[r].row]
    OBVIOUS
  <2>3. LocalsOK(k)'
    BY <2>2 DEF LocalsOK, HoldsTok, HoldsNew
  <2>4. \A t \in DOMAIN blacklist' :
          HasRow(t) /\ (blacklist'[t].pair # NoToken => HasRow(blacklist'[t].pair))
    BY <1>1, <1>6, <2>1 DEF TermBlacklist, SetBlacklist, Put, TokensStored
  <2>5. QED BY <1>1, <1>6, <2>2, <2>3, <2>4, QuietStep DEF TermBlacklist, TokensStored
<1>7. CASE TermInvalidate(r)
  <2>1. PICK k : k = IF EnableCache THEN [pc |-> "termUncache", row |-> req[r].row] ELSE Idle
    OBVIOUS
  <2>2. k.pc \in {"idle", "termUncache"}
    BY <2>1 DEF Idle
  <2>3. QED BY <1>7, <2>1, <2>2, EndStep DEF TermInvalidate
<1>8. CASE TermConflict(r)
  BY <1>8, PlainStep DEF TermConflict, InvalidateConflicts, Respond, Idle, Plain
<1>9. CASE TermUncache(r)
  BY <1>9, PlainStep DEF TermUncache, Respond, Idle, Plain
<1>10. QED BY <1>4, <1>5, <1>6, <1>7, <1>8, <1>9 DEF TerminateStep

LEMMA GuardIdentity ==
  ASSUME IInv, NEW r \in Request
  PROVE  /\ \A t \in issued : \A h \in Protected(t) :
              GuardHit(r, t, h) \/ GuardMiss(r, t, h) => Identity'
         /\ GuardStep(r) => Identity'
<1> USE DEF tables, redis, clients
<1>1. TokensStored
  BY DEF IInv, Identity
<1>2. \A h \in Handler : h.pc \in Plain
  BY DEF Handler, Plain
<1>3. \A t \in issued : Protected(t) \subseteq Handler
  BY DEF IInv, TypeOK, Protected, ListNext, RevokeNext, Handler, Token
<1>4. ASSUME NEW t \in issued, NEW h \in Protected(t), GuardHit(r, t, h)
      PROVE  Identity'
  BY <1>2, <1>3, <1>4, PlainStep DEF GuardHit
<1>5. ASSUME NEW t \in issued, NEW h \in Protected(t), GuardMiss(r, t, h)
      PROVE  Identity'
  <2>1. PICK k : k = [pc |-> "guardLookup", sessionId |-> t.sessionId, handler |-> h]
    OBVIOUS
  <2>2. LocalsOK(k)'
    BY <2>1 DEF LocalsOK, HoldsTok, HoldsNew
  <2>3. k.pc # "loginStore"
    BY <2>1
  <2>4. QED BY <1>1, <1>5, <2>1, <2>2, <2>3, QuietStep DEF GuardMiss, TokensStored
<1>6. CASE GuardLookup(r)
  <2>1. req[r].handler \in Handler
    BY <1>6, ContinuationFields DEF GuardLookup, At, IInv, TypeOK
  <2>2. QED BY <1>2, <1>6, <2>1, PlainStep DEF GuardLookup, Idle, Plain
<1>7. CASE ListSessions(r)
  BY <1>7, PlainStep DEF ListSessions, Respond, Idle, Plain
<1>8. QED BY <1>4, <1>5, <1>6, <1>7 DEF GuardStep

LEMMA PasswordIdentity ==
  ASSUME IInv, NEW r \in Request
  PROVE  /\ \A u \in User : ForgotFind(r, u) => Identity'
         /\ \A t \in mailed, u \in User, p \in Password : ResetFind(r, t, u, p) => Identity'
         /\ PasswordStep(r) => Identity'
<1> USE DEF tables, redis, clients
<1>1. ASSUME NEW u \in User, ForgotFind(r, u)
      PROVE  Identity'
  BY <1>1, PlainStep DEF ForgotFind, Plain
<1>2. ASSUME NEW t \in mailed, NEW u \in User, NEW p \in Password, ResetFind(r, t, u, p)
      PROVE  Identity'
  BY <1>2, PlainStep DEF ResetFind, Plain
<1>3. CASE ForgotStore(r)
  BY <1>3, PlainStep DEF ForgotStore, Plain
<1>4. CASE ForgotMail(r)
  BY <1>4, PlainStep DEF ForgotMail, Respond, Idle, Plain
<1>5. CASE ResetList(r)
  BY <1>5, PlainStep DEF ResetList, Plain
<1>6. ASSUME At(r, "resetInvalidate") \/ At(r, "resetUncache"),
             NEW pc \in {"resetUncache", "resetStore"}
      PROVE  [req[r] EXCEPT !.pc = pc].pc = pc
  BY <1>6, ResetLocals DEF IInv
<1>7. CASE ResetInvalidate(r)
  <2>1. PICK k : k = [req[r] EXCEPT !.pc = IF EnableCache THEN "resetUncache" ELSE "resetStore"]
    OBVIOUS
  <2>2. k.pc \in {"resetUncache", "resetStore"}
    BY <1>6, <1>7, <2>1 DEF ResetInvalidate
  <2>3. QED BY <1>7, <2>1, <2>2, EndStep DEF ResetInvalidate
<1>8. CASE ResetConflict(r)
  BY <1>8, PlainStep DEF ResetConflict, InvalidateConflicts, Respond, Idle, Plain
<1>9. CASE ResetUncache(r)
  BY <1>6, <1>9, PlainStep DEF ResetUncache, Plain
<1>10. CASE ResetStore(r)
  BY <1>10, PlainStep DEF ResetStore, Respond, Idle, Plain
<1>11. QED BY <1>1, <1>2, <1>3, <1>4, <1>5, <1>7, <1>8, <1>9, <1>10 DEF PasswordStep

LEMMA OtherIdentity ==
  ASSUME IInv
  PROVE  /\ \A r \in Request : Reply(r) \/ Abort(r) => Identity'
         /\ Tick => Identity'
         /\ UNCHANGED vars => Identity'
<1> USE DEF tables, redis, clients
<1>1. TokensStored
  BY DEF IInv, Identity
<1>2. ASSUME NEW r \in Request, Reply(r)
      PROVE  Identity'
  <2>1. HasRow(req[r].tok)
    BY <1>2 DEF Reply, At, IInv, Identity, LocalsOK, HoldsTok
  <2>2. LocalsOK(Idle)' /\ Idle.pc # "loginStore"
    BY DEF Idle, LocalsOK, HoldsTok, HoldsNew
  <2>3. QED BY <1>1, <1>2, <2>1, <2>2, QuietStep DEF Reply, Respond, Idle, TokensStored
<1>3. ASSUME NEW r \in Request, Abort(r)
      PROVE  Identity'
  BY <1>3, PlainStep DEF Abort, Respond, Idle, Plain
<1>4. ASSUME UNCHANGED <<sessions, drawn, issued, req>>,
             \/ UNCHANGED blacklist
             \/ blacklist' = Unexpired(blacklist, now')
      PROVE  Identity'
  <2>1. RowsApart' /\ FamiliesApart' /\ RowExpiryInStep' /\ RowsDrawn'
    BY <1>4 DEF IInv, Identity, RowsApart, FamiliesApart, UniqueRefreshToken, OwnedBy,
       RowExpiryInStep, InStep, RowsDrawn
  <2>2. TokensStored'
    BY <1>1, <1>4 DEF Unexpired, TokensStored, HasRow, OwnedBy
  <2>3. (\A r \in Request : LocalsOK(req[r]))'
    BY <1>4 DEF IInv, Identity, LocalsOK, HasRow, OwnedBy
  <2>4. LoginsApart'
    BY <1>4 DEF IInv, Identity, LoginsApart, At
  <2>5. QED BY <2>1, <2>2, <2>3, <2>4 DEF Identity
<1>5. Tick => Identity'
  BY <1>4 DEF Tick
<1>6. UNCHANGED vars => Identity'
  BY <1>4 DEF vars
<1>7. QED BY <1>2, <1>3, <1>5, <1>6

LEMMA IdentityStep ==
  ASSUME IInv, [Next]_vars
  PROVE  Identity'
<1>1. CASE LoginStart
  BY <1>1, LoginIdentity DEF LoginStart
<1>2. CASE RefreshStart
  BY <1>2, RotateIdentity DEF RefreshStart
<1>3. CASE LogoutStart
  BY <1>3, TerminateIdentity DEF LogoutStart
<1>4. CASE GuardStart
  BY <1>4, GuardIdentity DEF GuardStart
<1>5. CASE PasswordStart
  BY <1>5, PasswordIdentity DEF PasswordStart
<1>6. ASSUME NEW r \in Request, Server(r)
      PROVE  Identity'
  <2>1. RefreshStep(r) => Identity'
    BY RotateIdentity, FamilyIdentity DEF RefreshStep
  <2>2. QED BY <1>6, <2>1, LoginIdentity, TerminateIdentity, GuardIdentity, PasswordIdentity,
               OtherIdentity DEF Server
<1>7. ASSUME NEW r \in Request, Abort(r)
      PROVE  Identity'
  BY <1>7, OtherIdentity
<1>8. CASE Tick
  BY <1>8, OtherIdentity
<1>9. CASE UNCHANGED vars
  BY <1>9, OtherIdentity
<1>10. QED BY <1>1, <1>2, <1>3, <1>4, <1>5, <1>6, <1>7, <1>8, <1>9 DEF Next, Start

\* The tie between tokens, families and rows survives every step.
THEOREM Inductive == Spec => []IInv
<1>1. Init => IInv
  <2>1. Init => TypeOK
    BY AuthAssumption DEF Init, TypeOK, UserRow, RowsOK, RedisOK, Continuation
  <2>2. QED BY <2>1, InitIdentity DEF IInv
<1>2. IInv /\ [Next]_vars => IInv'
  BY TypeStep, IdentityStep DEF IInv
<1>3. QED BY <1>1, <1>2, PTL DEF Spec

\* No create or update of login or refresh can violate the unique index on
\* refreshToken, and a row's token is of its own family and account.
THEOREM RowsStayApart == Spec => []RowsApart
<1>1. IInv => RowsApart
  BY DEF IInv, Identity
<1>2. QED BY <1>1, Inductive, PTL

\* A valid row holds a token, and its expiry, in milliseconds, and the token's iat,
\* in whole seconds, stay less than a second apart, for any lengths of lifetimes
\* and seconds.
THEOREM ExpiryStaysInStep == Spec => []RowExpiryInStep
<1>1. IInv => RowExpiryInStep
  BY DEF IInv, Identity
<1>2. QED BY <1>1, Inductive, PTL

\* Whatever a client holds, its session is in the table.
THEOREM IssuedAreStored == Spec => []IssuedHasRow
<1>1. IInv => IssuedHasRow
  BY DEF IInv, Identity, TokensStored, IssuedHasRow
<1>2. QED BY <1>1, Inductive, PTL

=============================================================================
