---------------------------- MODULE AuthTimeProofs ----------------------------
(* What the clock does to the blacklist: the entry of a logout or revoke lasts *)
(* through the refresh lifetime unless a rotation's grace entry replaces it,   *)
(* and a grace entry holds a later pair for a short while.                     *)
(* First, which steps write which variable; the ending proofs use them too.    *)
EXTENDS AuthRegistryProofs

LEMMA WriteSteps ==
  ASSUME [Next]_vars
  PROVE  /\ now' = now \/ Tick
         /\ users' = users \/ \E r \in Request : ForgotStore(r) \/ ResetStore(r)
         /\ issued' = issued \/ \E r \in Request : Reply(r)
         /\ mailed' = mailed \/ \E r \in Request : ForgotMail(r)
         /\ \/ blacklist' = blacklist
            \/ \E r \in Request : RotateGrace(r) \/ TermBlacklist(r)
            \/ Tick
         /\ drawn \subseteq drawn'
<1> USE DEF tables, redis, clients
<1>1. CASE LoginStart
  BY <1>1 DEF LoginStart, LoginVerify
<1>2. CASE RefreshStart
  BY <1>2 DEF RefreshStart, RotateStart, RotateGraceHit
<1>3. CASE LogoutStart
  BY <1>3 DEF LogoutStart, LogoutFind
<1>4. CASE GuardStart
  BY <1>4 DEF GuardStart, GuardHit, GuardMiss
<1>5. CASE PasswordStart
  BY <1>5 DEF PasswordStart, ForgotFind, ResetFind
<1>6. ASSUME NEW r \in Request, LoginStep(r)
      PROVE  UNCHANGED <<now, users, issued, mailed, blacklist>> /\ drawn \subseteq drawn'
  BY <1>6 DEF LoginStep, LoginSign, LoginStore, LoginWarm
<1>7. ASSUME NEW r \in Request, RefreshStep(r), ~RotateGrace(r)
      PROVE  UNCHANGED <<now, users, issued, mailed, blacklist>> /\ drawn \subseteq drawn'
  BY <1>7 DEF RefreshStep, RotateFound, RotateRejected, RotateReplayed, RotateSign, RotateStore,
     RotateWarm, FamilyFind, FamilyInvalidate, FamilyConflict, FamilyUncache
<1>8. ASSUME NEW r \in Request, TerminateStep(r), ~TermBlacklist(r)
      PROVE  UNCHANGED <<now, users, issued, mailed, blacklist>> /\ drawn \subseteq drawn'
  BY <1>8 DEF TerminateStep, RevokeFind, TermInvalidate, TermConflict, TermUncache
<1>9. ASSUME NEW r \in Request, GuardStep(r)
      PROVE  UNCHANGED <<now, users, issued, mailed, blacklist>> /\ drawn \subseteq drawn'
  BY <1>9 DEF GuardStep, GuardLookup, ListSessions
<1>10. ASSUME NEW r \in Request, PasswordStep(r)
       PROVE  /\ UNCHANGED <<now, issued, blacklist>> /\ drawn \subseteq drawn'
              /\ UNCHANGED users \/ ForgotStore(r) \/ ResetStore(r)
              /\ UNCHANGED mailed \/ ForgotMail(r)
  BY <1>10 DEF PasswordStep, ForgotStore, ForgotMail, ResetList, ResetInvalidate, ResetConflict,
     ResetUncache, ResetStore
<1>11. ASSUME NEW r \in Request, Reply(r) \/ Abort(r)
       PROVE  UNCHANGED <<now, users, mailed, blacklist, drawn>> /\ (UNCHANGED issued \/ Reply(r))
  BY <1>11 DEF Reply, Abort
<1>12. ASSUME NEW r \in Request, RotateGrace(r) \/ TermBlacklist(r)
       PROVE  UNCHANGED <<now, users, issued, mailed, drawn>>
  BY <1>12 DEF RotateGrace, TermBlacklist
<1>13. CASE Tick \/ UNCHANGED vars
  BY <1>13 DEF Tick, vars
<1>14. ASSUME NEW r \in Request, Server(r) \/ Abort(r)
       PROVE  /\ UNCHANGED now /\ drawn \subseteq drawn'
              /\ UNCHANGED users \/ ForgotStore(r) \/ ResetStore(r)
              /\ UNCHANGED issued \/ Reply(r)
              /\ UNCHANGED mailed \/ ForgotMail(r)
              /\ UNCHANGED blacklist \/ RotateGrace(r) \/ TermBlacklist(r)
  BY <1>6, <1>7, <1>8, <1>9, <1>10, <1>11, <1>12, <1>14 DEF Server
<1>15. QED BY <1>1, <1>2, <1>3, <1>4, <1>5, <1>13, <1>14 DEF Next, Start

-----------------------------------------------------------------------------

\* A step of one request leaves the others where they are.
LEMMA OneMoves ==
  ASSUME IInv, NEW r \in Request, Server(r) \/ Abort(r), NEW q \in Request, r # q
  PROVE  req'[q] = req[q]
<1> USE DEF Respond
<1>1. LoginStep(r) => \E k : Await(r, k)
  BY DEF LoginStep, LoginSign, LoginStore, LoginWarm
<1>2. RefreshStep(r) => \E k : Await(r, k)
  BY DEF RefreshStep, RotateFound, RotateRejected, RotateReplayed, RotateSign, RotateStore,
     RotateWarm, RotateGrace, FamilyFind, FamilyInvalidate, FamilyConflict, FamilyUncache
<1>3. TerminateStep(r) => \E k : Await(r, k)
  BY DEF TerminateStep, RevokeFind, TermBlacklist, TermInvalidate, TermConflict, TermUncache
<1>4. GuardStep(r) => \E k : Await(r, k)
  BY DEF GuardStep, GuardLookup, ListSessions
<1>5. PasswordStep(r) => \E k : Await(r, k)
  BY DEF PasswordStep, ForgotStore, ForgotMail, ResetList, ResetInvalidate, ResetConflict,
     ResetUncache, ResetStore
<1>6. Reply(r) \/ Abort(r) => \E k : Await(r, k)
  BY DEF Reply, Abort
<1>7. PICK k : Await(r, k)
  BY <1>1, <1>2, <1>3, <1>4, <1>5, <1>6 DEF Server
<1>8. QED BY <1>7 DEF Await, IInv, TypeOK

\* Continuations that hold neither a token nor anything a session's end or a reset
\* depends on.
Inert == {"idle", "loginSign", "familyFind", "familyInvalidate", "familyUncache",
          "termUncache", "listSessions", "revokeFind", "guardLookup", "resetList"}

\* How a continuation comes about: it was there, it is inert, or by one of these.
LEMMA RequestSteps ==
  ASSUME IInv, [Next]_vars, NEW q \in Request
  PROVE  \/ req'[q] = req[q]
         \/ req'[q].pc \in Inert
         \/ LoginSign(q) \/ LoginStore(q) \/ LoginWarm(q)
         \/ \E t \in issued : RotateStart(q, t) \/ RotateGraceHit(q, t)
         \/ \E s \in DOMAIN sessions : RotateFound(q, s)
         \/ RotateSign(q) \/ RotateStore(q) \/ RotateWarm(q) \/ RotateGrace(q)
         \/ \E s \in DOMAIN sessions : Await(q, Terminating(s)) /\ UNCHANGED <<now, tables>>
         \/ TermBlacklist(q)
         \/ \E u \in User : ForgotFind(q, u)
         \/ ForgotStore(q) \/ ResetList(q) \/ ResetInvalidate(q) \/ ResetUncache(q)
<1> USE DEF tables, redis, clients
<1>1. req \in [Request -> Continuation]
  BY DEF IInv, TypeOK
<1>2. \A r \in Request : \A k : Await(r, k) => req'[r] = k /\ (r # q => req'[q] = req[q])
  BY <1>1 DEF Await
<1>3. \A k : Await(q, k) /\ k.pc \in Inert => req'[q].pc \in Inert
  BY <1>2
<1>4. Idle.pc \in Inert
  BY DEF Idle, Inert
<1>5. ASSUME NEW r \in Request, r # q, \E k : Await(r, k)
      PROVE  req'[q] = req[q]
  BY <1>2, <1>5
<1>6. CASE LoginStart
  <2>1. PICK r \in Request, u \in User : Await(r, [pc |-> "loginSign", userId |-> u])
    BY <1>6 DEF LoginStart, LoginVerify
  <2>2. QED BY <1>3, <1>5, <2>1 DEF Inert
<1>7. CASE RefreshStart
  <2>1. PICK r \in Request, t \in issued : RotateStart(r, t) \/ RotateGraceHit(r, t)
    BY <1>7 DEF RefreshStart
  <2>2. \E k : Await(r, k)
    BY <2>1 DEF RotateStart, RotateGraceHit
  <2>3. QED BY <1>5, <2>1, <2>2
<1>8. CASE LogoutStart
  <2>1. PICK r \in Request, s \in DOMAIN sessions :
          Await(r, Terminating(s)) /\ UNCHANGED <<now, tables>>
    BY <1>8 DEF LogoutStart, LogoutFind
  <2>2. QED BY <1>5, <2>1
<1>9. CASE GuardStart
  <2>0. PICK r \in Request, t \in issued :
          \E h \in Protected(t) : GuardHit(r, t, h) \/ GuardMiss(r, t, h)
    BY <1>9 DEF GuardStart
  <2>1. PICK h \in Protected(t) :
          \/ Await(r, h)
          \/ Await(r, [pc |-> "guardLookup", sessionId |-> t.sessionId, handler |-> h])
    BY <2>0 DEF GuardHit, GuardMiss
  <2>2. h.pc \in Inert
    BY <2>1 DEF Protected, ListNext, RevokeNext, Inert
  <2>3. [pc |-> "guardLookup", sessionId |-> t.sessionId, handler |-> h].pc \in Inert
    BY DEF Inert
  <2>4. QED BY <1>3, <1>5, <2>1, <2>2, <2>3
<1>10. CASE PasswordStart
  <2>1. CASE \E r \in Request, u \in User : ForgotFind(r, u)
    <3>1. PICK r \in Request, u \in User : ForgotFind(r, u)
      BY <2>1
    <3>2. \E k : Await(r, k)
      BY <3>1 DEF ForgotFind
    <3>3. QED BY <1>5, <3>1, <3>2
  <2>2. CASE \E r \in Request, t \in mailed, u \in User, p \in Password : ResetFind(r, t, u, p)
    <3>1. PICK r \in Request, u \in User, p \in Password :
            Await(r, [pc |-> "resetList", userId |-> u, hash |-> p])
      BY <2>2 DEF ResetFind
    <3>2. QED BY <1>3, <1>5, <3>1 DEF Inert
  <2>3. QED BY <1>10, <2>1, <2>2 DEF PasswordStart
<1>11. CASE Tick \/ UNCHANGED vars
  BY <1>11 DEF Tick, vars
<1>12. ASSUME NEW r \in Request, Server(r) \/ Abort(r), r # q
       PROVE  req'[q] = req[q]
  BY <1>12, OneMoves
<1>13. Respond(q) => req'[q].pc \in Inert
  BY <1>3, <1>4 DEF Respond
<1>14. RotateReplayed(q) => req'[q].pc \in Inert
  <2>1. PICK k : k = [pc |-> "familyFind", fam |-> req[q].tok.tokenFamily]
    OBVIOUS
  <2>2. QED BY <1>3, <2>1 DEF RotateReplayed, Inert
<1>15. FamilyFind(q) \/ FamilyInvalidate(q) \/ FamilyConflict(q) \/ FamilyUncache(q)
         => req'[q].pc \in Inert
  <2>1. FamilyFind(q) => req'[q].pc \in Inert
    <3>1. PICK k : k = [pc |-> "familyInvalidate", fam |-> req[q].fam,
                        keys |-> InFamily(req[q].fam)]
      OBVIOUS
    <3>2. QED BY <1>3, <3>1 DEF FamilyFind, Inert
  <2>2. FamilyInvalidate(q) => req'[q].pc \in Inert
    <3>1. PICK k : k = IF EnableCache THEN [pc |-> "familyUncache", keys |-> req[q].keys] ELSE Idle
      OBVIOUS
    <3>2. k.pc \in Inert
      BY <1>4, <3>1 DEF Inert
    <3>3. QED BY <1>3, <3>1, <3>2 DEF FamilyInvalidate
  <2>3. QED BY <1>13, <2>1, <2>2 DEF FamilyConflict, FamilyUncache
<1>16. RevokeFind(q) =>
         \/ req'[q].pc \in Inert
         \/ \E s \in DOMAIN sessions : Await(q, Terminating(s)) /\ UNCHANGED <<now, tables>>
  <2>1. CASE req[q].target \in DOMAIN sessions /\ sessions[req[q].target].userId = req[q].userId
    BY <2>1 DEF RevokeFind
  <2>2. CASE ~(req[q].target \in DOMAIN sessions
               /\ sessions[req[q].target].userId = req[q].userId)
    BY <1>3, <1>4, <2>2 DEF RevokeFind
  <2>3. QED BY <2>1, <2>2
<1>17. TermInvalidate(q) => req'[q].pc \in Inert
  <2>1. PICK k : k = IF EnableCache THEN [pc |-> "termUncache", row |-> req[q].row] ELSE Idle
    OBVIOUS
  <2>2. k.pc \in Inert
    BY <1>4, <2>1 DEF Inert
  <2>3. QED BY <1>3, <2>1, <2>2 DEF TermInvalidate
<1>18. GuardStep(q) => req'[q].pc \in Inert
  <2>1. GuardLookup(q) => \E k : Await(q, k) /\ k.pc \in Inert
    <3>1. GuardLookup(q) => req[q].handler \in Handler
      BY ContinuationFields DEF GuardLookup, At, IInv, TypeOK
    <3>2. \A h \in Handler : h.pc \in Inert
      BY DEF Handler, Inert
    <3>3. QED BY <1>4, <3>1, <3>2 DEF GuardLookup
  <2>2. QED BY <1>3, <1>4, <1>13, <2>1 DEF GuardStep, ListSessions
<1>19. CASE Server(q) \/ Abort(q)
  <2>1. RefreshStep(q) =>
          \/ req'[q].pc \in Inert
          \/ \E s \in DOMAIN sessions : RotateFound(q, s)
          \/ RotateSign(q) \/ RotateStore(q) \/ RotateWarm(q) \/ RotateGrace(q)
    BY <1>13, <1>14, <1>15 DEF RefreshStep, RotateRejected
  <2>2. TerminateStep(q) =>
          \/ req'[q].pc \in Inert
          \/ \E s \in DOMAIN sessions : Await(q, Terminating(s)) /\ UNCHANGED <<now, tables>>
          \/ TermBlacklist(q)
    BY <1>13, <1>16, <1>17 DEF TerminateStep, TermConflict, TermUncache
  <2>3. PasswordStep(q) =>
          \/ req'[q].pc \in Inert
          \/ ForgotStore(q) \/ ResetList(q) \/ ResetInvalidate(q) \/ ResetUncache(q)
    BY <1>13 DEF PasswordStep, ForgotMail, ResetConflict, ResetStore
  <2>4. Reply(q) \/ Abort(q) => req'[q].pc \in Inert
    BY <1>13 DEF Reply, Abort
  <2>5. QED BY <1>18, <1>19, <2>1, <2>2, <2>3, <2>4 DEF Server, LoginStep
<1>20. QED BY <1>6, <1>7, <1>8, <1>9, <1>10, <1>11, <1>12, <1>19 DEF Next, Start

\* Where each of these steps leaves its request.
LEMMA NextAwaits ==
  ASSUME IInv, NEW q \in Request
  PROVE  /\ LoginSign(q) => req'[q].pc = "loginStore"
         /\ LoginStore(q) \/ LoginWarm(q) => req'[q].pc \in {"loginWarm", "reply"}
         /\ \A t \in issued :
              RotateStart(q, t) \/ RotateGraceHit(q, t) => req'[q].pc \in {"rotateFind", "reply"}
         /\ \A s \in DOMAIN sessions : RotateFound(q, s) => req'[q].pc = "rotateSign"
         /\ RotateSign(q) => req'[q].pc = "rotateStore"
         /\ RotateStore(q) => req'[q].pc \in {"rotateWarm", "reply"}
         /\ RotateWarm(q) => req'[q].pc \in {"rotateGrace", "reply"}
         /\ RotateGrace(q) => req'[q].pc = "reply"
         /\ \A s \in DOMAIN sessions :
              Await(q, Terminating(s)) => req'[q].pc \in {"termBlacklist", "termInvalidate"}
         /\ TermBlacklist(q) => req'[q].pc = "termInvalidate"
         /\ \A u \in User : ForgotFind(q, u) => req'[q].pc = "forgotStore"
         /\ ForgotStore(q) => req'[q].pc = "forgotMail"
         /\ ResetList(q) => req'[q].pc = "resetInvalidate"
         /\ ResetInvalidate(q) \/ ResetUncache(q) => req'[q].pc \in {"resetUncache", "resetStore"}
<1>1. \A k : Await(q, k) => req'[q] = k
  BY DEF Await, IInv, TypeOK
<1>2. LoginSign(q) => req'[q].pc = "loginStore"
  BY <1>1 DEF LoginSign
<1>3. LoginStore(q) \/ LoginWarm(q) => req'[q].pc \in {"loginWarm", "reply"}
  <2>1. LoginStore(q) => req'[q].pc \in {"loginWarm", "reply"}
    BY <1>1 DEF LoginStore
  <2>2. LoginWarm(q) => req'[q].pc = "reply"
    BY <1>1 DEF LoginWarm
  <2>3. QED BY <2>1, <2>2
<1>4. \A t \in issued :
        RotateStart(q, t) \/ RotateGraceHit(q, t) => req'[q].pc \in {"rotateFind", "reply"}
  BY <1>1 DEF RotateStart, RotateGraceHit
<1>5. \A s \in DOMAIN sessions : RotateFound(q, s) => req'[q].pc = "rotateSign"
  BY <1>1 DEF RotateFound
<1>6. RotateSign(q) => req'[q].pc = "rotateStore"
  BY <1>1 DEF RotateSign
<1>7. RotateStore(q) => req'[q].pc \in {"rotateWarm", "reply"}
  BY <1>1 DEF RotateStore
<1>8. RotateWarm(q) => req'[q].pc \in {"rotateGrace", "reply"}
  BY <1>1 DEF RotateWarm
<1>9. RotateGrace(q) => req'[q].pc = "reply"
  BY <1>1 DEF RotateGrace
<1>10. \A s \in DOMAIN sessions :
         Await(q, Terminating(s)) => req'[q].pc \in {"termBlacklist", "termInvalidate"}
  BY <1>1 DEF Terminating
<1>11. TermBlacklist(q) => req'[q].pc = "termInvalidate"
  BY <1>1 DEF TermBlacklist
<1>12. \A u \in User : ForgotFind(q, u) => req'[q].pc = "forgotStore"
  BY <1>1 DEF ForgotFind
<1>13. ForgotStore(q) => req'[q].pc = "forgotMail"
  BY <1>1 DEF ForgotStore
<1>14. ResetList(q) => req'[q].pc = "resetInvalidate"
  BY <1>1 DEF ResetList
<1>15. ResetInvalidate(q) \/ ResetUncache(q) => req'[q].pc \in {"resetUncache", "resetStore"}
  BY <1>1, ResetLocals DEF ResetInvalidate, ResetUncache, IInv
<1>16. QED BY <1>2, <1>3, <1>4, <1>5, <1>6, <1>7, <1>8, <1>9, <1>10, <1>11, <1>12, <1>13, <1>14, <1>15

-----------------------------------------------------------------------------

Past(t) == t.iat <= WholeSecond(now)
Succeeds(t, new) == new = [t EXCEPT !.iat = new.iat] /\ new.iat >= t.iat

\* An entry that goes at e covers the refresh lifetime of t, but for less than a
\* second.
Covers(t, e) == t.iat + RefreshExpiryMs < e + Second

\* The tokens of a handler were signed in the past; what it is about to blacklist
\* goes with a fitting lifetime.
TimelyLocals(k) ==
  /\ k.pc \in HoldsTok => Past(k.tok)
  /\ k.pc \in HoldsNew => Past(k.new) /\ Succeeds(k.tok, k.new)
  /\ k.pc = "rotateGrace" => k.px <= GracePeriod
  /\ k.pc = "termBlacklist" => Covers(k.tok, now + k.px)

TimelyRows == \A s \in DOMAIN sessions :
                sessions[s].refreshToken # NoToken => Past(sessions[s].refreshToken)
TimelyIssued == \A t \in issued : Past(t)
TimelyCache == \A t \in DOMAIN blacklist :
                 IF blacklist[t].pair = NoToken THEN Covers(t, blacklist[t].exp)
                 ELSE Past(blacklist[t].pair)

\* BlacklistLasts and GracePairSucceeds hold of an entry because of what the
\* handler that wrote it held, two or three awaits after it read the row.
Timely ==
  /\ GracePairSucceeds
  /\ TimelyRows /\ TimelyIssued /\ TimelyCache
  /\ \A r \in Request : TimelyLocals(req[r])

LEMMA Multiples ==
  ASSUME NEW n \in Nat \ {0}, NEW p \in Nat, NEW q \in Nat, p < q
  PROVE  n * p + n <= n * q
<1>1. PICK d \in Nat : q = p + 1 + d
  <2>1. q - p - 1 \in Nat /\ q = p + 1 + (q - p - 1)
    OBVIOUS
  <2>2. QED BY <2>1
<1>2. n * q = n * p + n + n * d
  BY <1>1
<1>3. n * p \in Nat /\ n * d \in Nat
  OBVIOUS
<1>4. QED BY <1>2, <1>3

\* What is left of a second grows no faster than the clock.
LEMMA RemainderGrows ==
  ASSUME NEW n \in Nat \ {0}, NEW t \in Nat
  PROVE  (t + 1) % n <= (t % n) + 1
<1>1. PICK q \in Nat, a \in 0..(n - 1) : a = t % n /\ t = n * q + a
  <2>1. t \div n \in Nat /\ t % n \in 0..(n - 1) /\ t = n * (t \div n) + (t % n)
    OBVIOUS
  <2>2. QED BY <2>1
<1>2. PICK p \in Nat, b \in 0..(n - 1) : b = (t + 1) % n /\ t + 1 = n * p + b
  <2>1. /\ (t + 1) \div n \in Nat /\ (t + 1) % n \in 0..(n - 1)
        /\ t + 1 = n * ((t + 1) \div n) + ((t + 1) % n)
    OBVIOUS
  <2>2. QED BY <2>1
<1>3. ASSUME b > a + 1
      PROVE  FALSE
  <2>1. n * q + a + 1 = n * p + b
    BY <1>1, <1>2
  <2>2. n * p < n * q /\ n * p \in Nat /\ n * q \in Nat
    BY <1>3, <2>1
  <2>3. p < q
    BY <2>2, Z3
  <2>4. n * p + n <= n * q
    BY <2>3, Multiples
  <2>5. QED BY <1>3, <2>1, <2>2, <2>4
<1>4. QED BY <1>1, <1>2, <1>3

\* The clock only advances, whole seconds with it.
LEMMA ClockAdvances ==
  ASSUME IInv, [Next]_vars
  PROVE  /\ now \in Nat /\ now' \in Nat /\ now <= now'
         /\ WholeSecond(now) \in Nat /\ WholeSecond(now') \in Nat
         /\ WholeSecond(now) <= WholeSecond(now')
<1>1. now \in Nat /\ now' \in {now, now + 1}
  BY WriteSteps DEF Tick, IInv, TypeOK
<1>2. WholeSecond(now) \in Nat /\ WholeSecond(now') \in Nat
  BY <1>1, WholeSeconds
<1>3. WholeSecond(now) <= WholeSecond(now + 1)
  <2>1. /\ now % Second \in Nat /\ (now + 1) % Second \in Nat
        /\ (now + 1) % Second <= (now % Second) + 1
    BY <1>1, RemainderGrows, AuthAssumption
  <2>2. QED BY <1>1, <2>1 DEF WholeSecond
<1>4. QED BY <1>1, <1>2, <1>3

LEMMA PastPersists ==
  ASSUME IInv, [Next]_vars, NEW t \in Token, Past(t)
  PROVE  t.iat <= WholeSecond(now')
<1>1. t.iat \in Nat
  BY AuthAssumption DEF Token
<1>2. QED BY <1>1, ClockAdvances DEF Past

LEMMA LocalsStayTimely ==
  ASSUME IInv, [Next]_vars, NEW k \in Continuation, TimelyLocals(k)
  PROVE  TimelyLocals(k)'
<1>1. /\ k.pc \in HoldsTok => k.tok \in Token
      /\ k.pc \in HoldsNew => k.new \in Token
      /\ k.pc = "termBlacklist" => k.px \in Nat
  BY ContinuationFields
<1>2. k.pc \in HoldsTok => k.tok.iat <= WholeSecond(now')
  BY <1>1, PastPersists DEF TimelyLocals
<1>3. k.pc \in HoldsNew => k.new.iat <= WholeSecond(now')
  BY <1>1, PastPersists DEF TimelyLocals
<1>4. k.pc = "termBlacklist" => k.tok.iat + RefreshExpiryMs < now' + k.px + Second
  <2>1. k.pc = "termBlacklist" => k.tok.iat \in Nat
    BY <1>1, AuthAssumption DEF HoldsTok, Token
  <2>2. QED BY <1>1, <2>1, ClockAdvances, AuthAssumption DEF TimelyLocals, Covers
<1>5. QED BY <1>2, <1>3, <1>4 DEF TimelyLocals, Past, Succeeds, Covers, WholeSecond

LEMMA InitTimely == Init => Timely
BY DEF Init, Timely, GracePairSucceeds, TimelyRows, TimelyIssued,
   TimelyCache, TimelyLocals, Idle, HoldsTok, HoldsNew

\* The table holds what it held, nothing, or what a handler carried.
LEMMA RowsStayTimely ==
  ASSUME IInv, Timely, [Next]_vars
  PROVE  TimelyRows'
<1> SUFFICES ASSUME NEW s \in DOMAIN sessions', NEW t, t = sessions'[s].refreshToken, t # NoToken
             PROVE  t.iat <= WholeSecond(now')
  BY DEF TimelyRows, Past, WholeSecond
<1>1. t \in Token
  <2>1. RowsOK'
    BY TypeStep DEF IInv, TypeOK
  <2>2. QED BY <2>1 DEF RowsOK, SessionRow
<1>2. s \in DOMAIN sessions /\ sessions'[s] = sessions[s] => Past(t)
  BY DEF Timely, TimelyRows
<1>3. ASSUME NEW r \in Request, LoginStore(r), ~(s \in DOMAIN sessions /\ sessions'[s] = sessions[s])
      PROVE  Past(t)
  <2>1. PICK tok : tok = req[r].tok
    OBVIOUS
  <2>2. t = tok
    BY <1>3, <2>1 DEF LoginStore, Put, NewSession
  <2>3. QED BY <1>3, <2>1, <2>2 DEF LoginStore, At, Timely, TimelyLocals, HoldsTok
<1>4. ASSUME NEW r \in Request, RotateStore(r), ~(s \in DOMAIN sessions /\ sessions'[s] = sessions[s])
      PROVE  Past(t)
  <2>1. PICK k : k = req[r]
    OBVIOUS
  <2>2. sessions' = [sessions EXCEPT ![k.row] = RotatedRow(@, k.new, k.newExp)]
    BY <1>4, <2>1 DEF RotateStore
  <2>3. sessions[k.row] \in SessionRow /\ k.row \in DOMAIN sessions
    BY <1>4, <2>1 DEF RotateStore, At, IInv, TypeOK, RowsOK, Identity, LocalsOK
  <2>4. t = k.new
    BY <1>4, <2>2, <2>3 DEF RotatedRow, SessionRow
  <2>5. QED BY <1>4, <2>1, <2>4 DEF RotateStore, At, Timely, TimelyLocals, HoldsNew
<1>5. ASSUME NEW S, Invalidate(S), ~(s \in DOMAIN sessions /\ sessions'[s] = sessions[s])
      PROVE  FALSE
  <2>1. s \in DOMAIN sessions /\ sessions'[s] = InvalidatedRow(sessions[s])
    BY <1>5 DEF Invalidate, Invalidated
  <2>2. QED BY <2>1 DEF InvalidatedRow, SessionRow, IInv, TypeOK, RowsOK
<1>6. Past(t)
  <2>1. UNCHANGED sessions => s \in DOMAIN sessions /\ sessions'[s] = sessions[s]
    OBVIOUS
  <2>2. QED BY <1>2, <1>3, <1>4, <1>5, <2>1, TableSteps
<1>7. QED BY <1>1, <1>6, PastPersists

LEMMA IssuedStayTimely ==
  ASSUME IInv, Timely, [Next]_vars
  PROVE  TimelyIssued'
<1> SUFFICES ASSUME NEW t \in issued'
             PROVE  t.iat <= WholeSecond(now')
  BY DEF TimelyIssued, Past, WholeSecond
<1>1. t \in Token
  BY TypeStep DEF IInv, TypeOK
<1>2. ASSUME NEW r \in Request, Reply(r), t \notin issued
      PROVE  Past(t)
  BY <1>2 DEF Reply, At, Timely, TimelyLocals, HoldsTok
<1>3. Past(t)
  BY <1>2, WriteSteps DEF Timely, TimelyIssued
<1>4. QED BY <1>1, <1>3, PastPersists

\* An entry is an old one, the 'true' of a termination, or the pair of a rotation.
LEMMA EntrySteps ==
  ASSUME [Next]_vars, NEW t \in DOMAIN blacklist'
  PROVE  \/ t \in DOMAIN blacklist /\ blacklist'[t] = blacklist[t]
         \/ \E r \in Request :
              /\ TermBlacklist(r) /\ t = req[r].tok
              /\ blacklist'[t] = [pair |-> NoToken, exp |-> now + req[r].px]
         \/ \E r \in Request :
              /\ RotateGrace(r) /\ t = req[r].tok
              /\ blacklist'[t] = [pair |-> req[r].new, exp |-> now + req[r].px]
<1>1. ASSUME NEW r \in Request, RotateGrace(r), ~(t \in DOMAIN blacklist /\ blacklist'[t] = blacklist[t])
      PROVE  /\ t = req[r].tok
             /\ blacklist'[t] = [pair |-> req[r].new, exp |-> now + req[r].px]
  BY <1>1 DEF RotateGrace, SetBlacklist, Put
<1>2. ASSUME NEW r \in Request, TermBlacklist(r), ~(t \in DOMAIN blacklist /\ blacklist'[t] = blacklist[t])
      PROVE  /\ t = req[r].tok
             /\ blacklist'[t] = [pair |-> NoToken, exp |-> now + req[r].px]
  BY <1>2 DEF TermBlacklist, SetBlacklist, Put
<1>3. CASE Tick
  BY <1>3 DEF Tick, Unexpired
<1>4. QED BY <1>1, <1>2, <1>3, WriteSteps

LEMMA CacheStaysTimely ==
  ASSUME IInv, Timely, [Next]_vars
  PROVE  (GracePairSucceeds /\ TimelyCache)'
<1> DEFINE Good(t, e, n) ==
      /\ e.pair = NoToken => t.iat + RefreshExpiryMs < e.exp + Second
      /\ e.pair # NoToken => /\ e.pair = [t EXCEPT !.iat = e.pair.iat]
                             /\ e.pair.iat >= t.iat
                             /\ e.exp <= n + GracePeriod
                             /\ e.pair.iat <= WholeSecond(n)
<1>1. SUFFICES ASSUME NEW t \in DOMAIN blacklist'
               PROVE  Good(t, blacklist'[t], now')
  BY <1>1 DEF GracePairSucceeds, TimelyCache, Past, Covers, WholeSecond
<1>2. t \in Token /\ blacklist'[t] \in [pair : Token \cup {NoToken}, exp : Nat]
  <2>1. RedisOK'
    BY TypeStep DEF IInv, TypeOK
  <2>2. QED BY <2>1 DEF RedisOK
<1>3. CASE t \in DOMAIN blacklist /\ blacklist'[t] = blacklist[t]
  <2>1. Good(t, blacklist[t], now)
    BY <1>3 DEF Timely, GracePairSucceeds, TimelyCache, Past, Covers
  <2>2. ASSUME NEW e \in [pair : Token \cup {NoToken}, exp : Nat], Good(t, e, now)
        PROVE  Good(t, e, now')
    <3>1. \A pair \in Token : pair.iat \in Nat
      BY AuthAssumption DEF Token
    <3>2. QED BY <2>2, <3>1, ClockAdvances, AuthAssumption
  <2>3. QED BY <1>2, <1>3, <2>1, <2>2
<1>4. ASSUME NEW r \in Request, TermBlacklist(r), t = req[r].tok,
             blacklist'[t] = [pair |-> NoToken, exp |-> now + req[r].px]
      PROVE  Good(t, blacklist'[t], now')
  BY <1>4 DEF TermBlacklist, At, Timely, TimelyLocals, Covers
<1>5. ASSUME NEW r \in Request, RotateGrace(r), t = req[r].tok,
             blacklist'[t] = [pair |-> req[r].new, exp |-> now + req[r].px]
      PROVE  Good(t, blacklist'[t], now')
  <2>1. PICK k \in Continuation : k = req[r]
    BY DEF IInv, TypeOK
  <2>2. k.new \in Token /\ k.new # NoToken /\ k.px \in Nat
    BY <1>5, <2>1, ContinuationFields, AuthAssumption DEF RotateGrace, At, HoldsNew
  <2>3. Past(k.new) /\ Succeeds(k.tok, k.new) /\ k.px <= GracePeriod
    BY <1>5, <2>1 DEF RotateGrace, At, Timely, TimelyLocals, HoldsNew
  <2>4. now + k.px <= now + GracePeriod
    BY <2>2, <2>3, ClockAdvances, AuthAssumption
  <2>5. QED BY <1>5, <2>1, <2>2, <2>3, <2>4 DEF RotateGrace, Past, Succeeds
<1>6. QED BY <1>3, <1>4, <1>5, EntrySteps

-----------------------------------------------------------------------------

\* A request about to terminate a session took the remaining lifetime of the row,
\* which is in step with the token (RowExpiryInStep).
LEMMA TerminatingTimely ==
  ASSUME IInv, Timely, NEW s \in DOMAIN sessions
  PROVE  TimelyLocals(Terminating(s))
<1>1. CASE EnableCache /\ sessions[s].expiresAt > now /\ sessions[s].refreshToken # NoToken
  <2>1. PICK k : k = [pc |-> "termBlacklist", row |-> s, tok |-> sessions[s].refreshToken,
                      px |-> sessions[s].expiresAt - now]
    OBVIOUS
  <2>2. Terminating(s) = k
    BY <1>1, <2>1 DEF Terminating
  <2>3. InStep(k.tok, sessions[s].expiresAt) /\ sessions[s].expiresAt \in Nat /\ now \in Nat
    BY <1>1, <2>1 DEF IInv, TypeOK, RowsOK, SessionRow, Identity, RowExpiryInStep
  <2>4. Covers(k.tok, now + k.px)
    <3>1. now + k.px = sessions[s].expiresAt
      BY <1>1, <2>1, <2>3
    <3>2. QED BY <2>3, <3>1 DEF InStep, Covers
  <2>5. Past(k.tok)
    BY <1>1, <2>1 DEF Timely, TimelyRows
  <2>6. QED BY <2>1, <2>2, <2>4, <2>5 DEF TimelyLocals, HoldsTok, HoldsNew
<1>2. CASE ~(EnableCache /\ sessions[s].expiresAt > now /\ sessions[s].refreshToken # NoToken)
  <2>1. Terminating(s) = [pc |-> "termInvalidate", row |-> s]
    BY <1>2 DEF Terminating
  <2>2. QED BY <2>1 DEF TimelyLocals, HoldsTok, HoldsNew
<1>3. QED BY <1>1, <1>2

\* What the steps of login, refresh and termination hand to the next await.
LEMMA HandedOnTimely ==
  ASSUME IInv, Timely, NEW q \in Request,
         \/ LoginSign(q) \/ LoginStore(q) \/ LoginWarm(q)
         \/ \E t \in issued : RotateStart(q, t) \/ RotateGraceHit(q, t)
         \/ \E s \in DOMAIN sessions : RotateFound(q, s)
         \/ RotateSign(q) \/ RotateStore(q) \/ RotateWarm(q) \/ RotateGrace(q)
         \/ \E s \in DOMAIN sessions : Await(q, Terminating(s)) /\ UNCHANGED <<now, tables>>
         \/ TermBlacklist(q)
         \/ \E u \in User : ForgotFind(q, u)
         \/ ForgotStore(q) \/ ResetList(q) \/ ResetInvalidate(q) \/ ResetUncache(q)
  PROVE  TimelyLocals(req'[q])
<1>0. PICK k \in Continuation : k = req[q]
  BY DEF IInv, TypeOK
<1>1. TimelyLocals(k)
  BY <1>0 DEF Timely
<1>2. \A j : Await(q, j) => req'[q] = j
  BY DEF Await, IInv, TypeOK
<1>3. now \in Nat /\ WholeSecond(now) \in Nat
  BY WholeSeconds DEF IInv, TypeOK
<1>4. CASE LoginSign(q)
  <2>1. PICK fam, sid :
          req'[q] = [pc |-> "loginStore",
                     tok |-> [userId |-> k.userId, sessionId |-> sid, tokenFamily |-> fam,
                              iat |-> WholeSecond(now)],
                     exp |-> now + RefreshExpiryMs]
    BY <1>0, <1>2, <1>4 DEF LoginSign
  <2>2. QED BY <1>3, <2>1 DEF TimelyLocals, HoldsNew, Past
<1>5. CASE LoginStore(q) \/ LoginWarm(q)
  <2>1. PICK pc \in {"loginWarm", "reply"} : req'[q] = [pc |-> pc, tok |-> k.tok]
    BY <1>0, <1>2, <1>5 DEF LoginStore, LoginWarm
  <2>2. Past(k.tok)
    BY <1>0, <1>1, <1>5 DEF LoginStore, LoginWarm, At, TimelyLocals, HoldsTok
  <2>3. QED BY <2>1, <2>2 DEF TimelyLocals, HoldsNew
<1>6. ASSUME NEW t \in issued, RotateStart(q, t) \/ RotateGraceHit(q, t)
      PROVE  TimelyLocals(req'[q])
  <2>1. CASE RotateStart(q, t)
    <3>1. req'[q] = [pc |-> "rotateFind", tok |-> t]
      BY <1>2, <2>1 DEF RotateStart
    <3>2. QED BY <3>1 DEF Timely, TimelyIssued, TimelyLocals, HoldsNew
  <2>2. CASE RotateGraceHit(q, t)
    <3>1. PICK pair : pair = blacklist[t].pair
      OBVIOUS
    <3>2. req'[q] = [pc |-> "reply", tok |-> pair] /\ Past(pair)
      BY <1>2, <2>2, <3>1 DEF RotateGraceHit, Timely, TimelyCache
    <3>3. QED BY <3>2 DEF TimelyLocals, HoldsNew
  <2>3. QED BY <1>6, <2>1, <2>2
<1>7. ASSUME NEW s \in DOMAIN sessions, RotateFound(q, s)
      PROVE  TimelyLocals(req'[q])
  <2>1. PICK exp : req'[q] = [pc |-> "rotateSign", tok |-> k.tok, row |-> s, exp |-> exp]
    BY <1>0, <1>2, <1>7 DEF RotateFound
  <2>2. Past(k.tok)
    BY <1>0, <1>1, <1>7 DEF RotateFound, At, TimelyLocals, HoldsTok
  <2>3. QED BY <2>1, <2>2 DEF TimelyLocals, HoldsNew
<1>8. CASE RotateSign(q)
  <2>1. req'[q] = [pc |-> "rotateStore", tok |-> k.tok, row |-> k.row, exp |-> k.exp,
                   new |-> Successor(k.tok), newExp |-> now + RefreshExpiryMs]
    BY <1>0, <1>2, <1>8 DEF RotateSign
  <2>2. Past(k.tok) /\ k.tok \in Token
    BY <1>0, <1>1, <1>8, ContinuationFields DEF RotateSign, At, TimelyLocals, HoldsTok
  <2>3. /\ Successor(k.tok).iat = WholeSecond(now)
        /\ Successor(k.tok) = [k.tok EXCEPT !.iat = WholeSecond(now)]
    BY <2>2 DEF Successor, Token
  <2>4. Past(Successor(k.tok)) /\ Succeeds(k.tok, Successor(k.tok))
    <3>1. k.tok.iat \in Nat
      BY <2>2, AuthAssumption DEF Token
    <3>2. QED BY <1>3, <2>2, <2>3, <3>1 DEF Past, Succeeds
  <2>5. QED BY <2>1, <2>2, <2>4 DEF TimelyLocals
<1>9. CASE RotateStore(q) \/ RotateWarm(q) \/ RotateGrace(q)
  <2>1. /\ Past(k.tok) /\ Past(k.new) /\ Succeeds(k.tok, k.new)
        /\ k.new \in Token
    BY <1>0, <1>1, <1>9, ContinuationFields
       DEF RotateStore, RotateWarm, RotateGrace, At, TimelyLocals, HoldsTok, HoldsNew
  <2>2. CASE req'[q] = [pc |-> "reply", tok |-> k.new]
    BY <2>1, <2>2 DEF TimelyLocals, HoldsNew
  <2>3. CASE RotateStore(q) /\ EnableCache
    <3>1. req'[q] = [pc |-> "rotateWarm", tok |-> k.tok, row |-> k.row, exp |-> k.exp,
                     new |-> k.new]
      BY <1>0, <1>2, <2>3 DEF RotateStore
    <3>2. QED BY <2>1, <3>1 DEF TimelyLocals
  <2>4. CASE RotateWarm(q) /\ k.exp > now
    <3>1. PICK px : px = Smaller(GracePeriod, k.exp - now)
      OBVIOUS
    <3>2. req'[q] = [pc |-> "rotateGrace", tok |-> k.tok, new |-> k.new, px |-> px]
      BY <1>0, <1>2, <2>4, <3>1 DEF RotateWarm
    <3>3. k.exp \in Nat
      BY <1>0, <2>4, ContinuationFields DEF RotateWarm, At
    <3>4. px <= GracePeriod
      BY <1>3, <3>1, <3>3, AuthAssumption DEF Smaller
    <3>5. QED BY <2>1, <3>2, <3>4 DEF TimelyLocals
  <2>5. QED
    BY <1>0, <1>2, <1>9, <2>2, <2>3, <2>4 DEF RotateStore, RotateWarm, RotateGrace
<1>10. ASSUME NEW s \in DOMAIN sessions, Await(q, Terminating(s))
       PROVE  TimelyLocals(req'[q])
  BY <1>2, <1>10, TerminatingTimely
<1>11. CASE TermBlacklist(q)
  <2>1. req'[q] = [pc |-> "termInvalidate", row |-> k.row]
    BY <1>0, <1>2, <1>11 DEF TermBlacklist
  <2>2. QED BY <2>1 DEF TimelyLocals, HoldsTok, HoldsNew
<1>12. CASE \/ \E u \in User : ForgotFind(q, u)
            \/ ForgotStore(q) \/ ResetList(q) \/ ResetInvalidate(q) \/ ResetUncache(q)
  <2>1. req'[q].pc \in Plain
    BY <1>12, NextAwaits DEF Plain
  <2>2. QED BY <2>1 DEF Plain, TimelyLocals, HoldsTok, HoldsNew
<1>13. QED BY <1>4, <1>5, <1>6, <1>7, <1>8, <1>9, <1>10, <1>11, <1>12

LEMMA TimelyStep ==
  ASSUME IInv, Timely, [Next]_vars
  PROVE  Timely'
<1>1. ASSUME NEW q \in Request
      PROVE  TimelyLocals(req[q])'
  <2>1. PICK k : k = req'[q]
    OBVIOUS
  <2>2. k \in Continuation
    <3>1. TypeOK'
      BY TypeStep DEF IInv
    <3>2. QED BY <2>1, <3>1 DEF TypeOK
  <2>3. TimelyLocals(k)
    <3>1. req'[q].pc \in Inert => TimelyLocals(k)
      BY <2>1 DEF Inert, TimelyLocals, HoldsTok, HoldsNew
    <3>2. req'[q] = req[q] => TimelyLocals(k)
      BY <2>1 DEF Timely
    <3>3. QED BY <2>1, <3>1, <3>2, RequestSteps, HandedOnTimely
  <2>4. TimelyLocals(k)'
    BY <2>2, <2>3, LocalsStayTimely
  <2>5. QED BY <2>1, <2>4 DEF TimelyLocals, Past, Succeeds, Covers, WholeSecond
<1>2. QED BY <1>1, RowsStayTimely, IssuedStayTimely, CacheStaysTimely DEF Timely

-----------------------------------------------------------------------------

\* The clock, the handlers and the blacklist stay in step, whatever the lifetimes.
THEOREM TimelyInductive == Spec => [](IInv /\ Timely)
<1>1. Init => Timely
  BY InitTimely
<1>2. IInv /\ Timely /\ [Next]_vars => Timely'
  BY TimelyStep
<1>3. QED BY <1>1, <1>2, Inductive, PTL DEF Spec

\* The 'true' of a logout or revoke stays through the refresh lifetime of the token,
\* however long the handler took between reading the row and writing the key, and
\* only a rotation of that token, under way all along, replaces it.
THEOREM BlacklistedThroughLifetime == Spec => BlacklistLasts
<1>1. ASSUME IInv, Timely, [Next]_vars, NEW t \in DOMAIN blacklist, Blacklisted(t),
             ~Blacklisted(t)'
      PROVE  \/ now' + Second > t.iat + RefreshExpiryMs
             \/ \E r \in Request :
                  /\ At(r, "rotateGrace") /\ req[r].tok = t
                  /\ t \in DOMAIN blacklist' /\ blacklist'[t].pair = req[r].new
  <2>1. CASE UNCHANGED blacklist
    BY <1>1, <2>1 DEF Blacklisted
  <2>2. ASSUME NEW r \in Request, RotateGrace(r), ~UNCHANGED blacklist
        PROVE  /\ At(r, "rotateGrace") /\ req[r].tok = t
               /\ t \in DOMAIN blacklist' /\ blacklist'[t].pair = req[r].new
    BY <1>1, <2>2 DEF RotateGrace, SetBlacklist, Put, Blacklisted
  <2>3. ASSUME NEW r \in Request, TermBlacklist(r)
        PROVE  FALSE
    BY <1>1, <2>3 DEF TermBlacklist, SetBlacklist, Put, Blacklisted
  <2>4. CASE Tick
    <3>1. t.iat + RefreshExpiryMs < blacklist[t].exp + Second
      BY <1>1 DEF Timely, TimelyCache, Blacklisted, Covers
    <3>2. ~(blacklist[t].exp > now')
      BY <1>1, <2>4 DEF Tick, Unexpired, Blacklisted
    <3>3. t.iat \in Nat /\ blacklist[t].exp \in Nat /\ now' \in Nat
      BY <1>1, ClockAdvances, AuthAssumption DEF IInv, TypeOK, RedisOK, Token
    <3>4. QED BY <3>1, <3>2, <3>3, AuthAssumption
  <2>5. QED BY <1>1, <2>1, <2>2, <2>3, <2>4, WriteSteps
<1>2. IInv /\ Timely /\ [Next]_vars =>
        [\A t \in DOMAIN blacklist :
           Blacklisted(t) =>
             \/ Blacklisted(t)'
             \/ now' + Second > t.iat + RefreshExpiryMs
             \/ \E r \in Request :
                  /\ At(r, "rotateGrace") /\ req[r].tok = t
                  /\ t \in DOMAIN blacklist' /\ blacklist'[t].pair = req[r].new]_vars
  BY <1>1
<1>3. QED BY <1>2, TimelyInductive, PTL DEF Spec, BlacklistLasts

\* A concurrent refresh is answered with a later pair of the same session, and only
\* within the grace period.
THEOREM GraceAnswersSucceed == Spec => []GracePairSucceeds
<1>1. Timely => GracePairSucceeds
  BY DEF Timely
<1>2. QED BY <1>1, TimelyInductive, PTL

=============================================================================
