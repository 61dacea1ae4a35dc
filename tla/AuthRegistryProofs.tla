-------------------------- MODULE AuthRegistryProofs --------------------------
(* The sessions table implements SessionRegistry: the step of an action maps  *)
(* to Open, Rotate or End, or leaves the registry alone.                      *)
EXTENDS AuthIdentityProofs

\* What a step does to the table.
LEMMA TableSteps ==
  ASSUME IInv, [Next]_vars
  PROVE  \/ UNCHANGED sessions
         \/ \E r \in Request : LoginStore(r) \/ RotateStore(r)
         \/ \E S : Invalidate(S)
<1> USE DEF tables, redis, clients
<1>1. CASE LoginStart
  BY <1>1 DEF LoginStart, LoginVerify
<1>2. CASE RefreshStart
  BY <1>2 DEF RefreshStart, RotateStart, RotateGraceHit
<1>3. CASE LogoutStart
  BY <1>3 DEF LogoutStart, LogoutFind
<1>4. CASE GuardStart
  BY <1>4 DEF GuardStart, GuardHit, GuardMiss
<1>5. CASE PasswordStart
  BY <1>5 DEF PasswordStart, ForgotFind, ResetFind
<1>6. ASSUME NEW r \in Request, LoginStep(r), ~LoginStore(r)
      PROVE  UNCHANGED sessions
  BY <1>6 DEF LoginStep, LoginSign, LoginWarm
<1>7. ASSUME NEW r \in Request, RefreshStep(r), ~RotateStore(r), ~FamilyInvalidate(r)
      PROVE  UNCHANGED sessions
  BY <1>7 DEF RefreshStep, RotateFound, RotateRejected, RotateReplayed, RotateSign, RotateWarm,
     RotateGrace, FamilyFind, FamilyConflict, InvalidateConflicts, FamilyUncache
<1>8. ASSUME NEW r \in Request, TerminateStep(r), ~TermInvalidate(r)
      PROVE  UNCHANGED sessions
  BY <1>8 DEF TerminateStep, RevokeFind, TermBlacklist, TermConflict, InvalidateConflicts,
     TermUncache
<1>9. ASSUME NEW r \in Request, GuardStep(r)
      PROVE  UNCHANGED sessions
  BY <1>9 DEF GuardStep, GuardLookup, ListSessions
<1>10. ASSUME NEW r \in Request, PasswordStep(r), ~ResetInvalidate(r)
       PROVE  UNCHANGED sessions
  BY <1>10 DEF PasswordStep, ForgotStore, ForgotMail, ResetList, ResetConflict,
     InvalidateConflicts, ResetUncache, ResetStore
<1>11. ASSUME NEW r \in Request, Reply(r) \/ Abort(r)
       PROVE  UNCHANGED sessions
  BY <1>11 DEF Reply, Abort
<1>12. ASSUME NEW r \in Request, FamilyInvalidate(r) \/ TermInvalidate(r) \/ ResetInvalidate(r)
       PROVE  \E S : Invalidate(S)
  BY <1>12 DEF FamilyInvalidate, TermInvalidate, ResetInvalidate
<1>13. CASE Tick \/ UNCHANGED vars
  BY <1>13 DEF Tick, vars
<1>14. QED BY <1>1, <1>2, <1>3, <1>4, <1>5, <1>6, <1>7, <1>8, <1>9, <1>10, <1>11, <1>12, <1>13
           DEF Next, Start, Server

-----------------------------------------------------------------------------

\* The table as Registry sees it, by name.
family == [s \in DOMAIN sessions |-> sessions[s].tokenFamily]
live == {s \in DOMAIN sessions : sessions[s].isValid}
token == [s \in {x \in DOMAIN sessions : sessions[x].isValid} |-> sessions[s].refreshToken]

\* A valid row's token is held by no other row.
LEMMA NotHeldByAnother ==
  ASSUME IInv, NEW s, NEW t \in Token,
         \A other \in DOMAIN sessions \ {s} : sessions[other].tokenFamily # t.tokenFamily
  PROVE  ~Registry!HeldByAnother(s, t)
<1>1. t # NoToken
  BY AuthAssumption
<1>2. \A other \in DOMAIN sessions \ {s} : sessions[other].refreshToken # t
  BY <1>1 DEF IInv, Identity, RowsApart, OwnedBy
<1>3. QED BY <1>2 DEF Registry!HeldByAnother

LEMMA LoginOpens ==
  ASSUME IInv, NEW r \in Request, LoginStore(r)
  PROVE  Registry!RegistryNext
<1>0. PICK t, e : t = req[r].tok /\ e = req[r].exp
  OBVIOUS
<1>1. PICK id \in Fresh(SessionId) : sessions' = Put(sessions, id, NewSession(t, e))
  BY <1>0 DEF LoginStore
<1>2. t \in Token
  BY <1>0, ContinuationFields DEF LoginStore, At, IInv, TypeOK, HoldsTok
<1>3. /\ id \in SessionId /\ id \notin DOMAIN sessions
      /\ DOMAIN sessions' = DOMAIN sessions \cup {id}
      /\ sessions'[id] = NewSession(t, e)
      /\ \A s \in DOMAIN sessions : sessions'[s] = sessions[s]
  BY <1>1 DEF Put, Fresh, IInv, Identity, RowsDrawn
<1>4. \A s \in DOMAIN sessions : sessions[s].tokenFamily # t.tokenFamily
  BY <1>0 DEF LoginStore, At, IInv, Identity, LocalsOK
<1>5. /\ NewSession(t, e).isValid = TRUE /\ NewSession(t, e).refreshToken = t
      /\ NewSession(t, e).tokenFamily = t.tokenFamily
  BY DEF NewSession
<1>6. family' = [x \in DOMAIN family \cup {id} |-> IF x = id THEN t.tokenFamily ELSE family[x]]
  BY <1>3, <1>5 DEF family
<1>7. live' = live \cup {id}
  BY <1>3, <1>5 DEF live
<1>8. token' = [x \in live' |-> IF x = id THEN t ELSE token[x]]
  BY <1>3, <1>5 DEF live, token
<1>9. ~Registry!HeldByAnother(id, t)
  BY <1>2, <1>4, NotHeldByAnother
<1>10. Registry!Open(id, t)
  BY <1>3, <1>4, <1>6, <1>7, <1>8, <1>9 DEF Registry!Open, family, live, token
<1>11. QED BY <1>2, <1>3, <1>10 DEF Registry!RegistryNext

LEMMA RotationRotates ==
  ASSUME IInv, NEW r \in Request, RotateStore(r)
  PROVE  Registry!RegistryNext \/ UNCHANGED <<family, live, token>>
<1>0. PICK s0, t, e : s0 = req[r].row /\ t = req[r].new /\ e = req[r].newExp
  OBVIOUS
<1>1. /\ s0 \in DOMAIN sessions /\ OwnedBy(t, sessions[s0])
      /\ sessions' = [sessions EXCEPT ![s0] = RotatedRow(@, t, e)]
  BY <1>0 DEF RotateStore, At, IInv, Identity, LocalsOK
<1>2. t \in Token /\ s0 \in SessionId /\ sessions[s0] \in SessionRow
  BY <1>0, <1>1, ContinuationFields DEF RotateStore, At, IInv, TypeOK, RowsOK, HoldsNew
<1>3. /\ DOMAIN sessions' = DOMAIN sessions
      /\ \A s \in DOMAIN sessions : s # s0 => sessions'[s] = sessions[s]
      /\ sessions'[s0].tokenFamily = sessions[s0].tokenFamily
      /\ sessions'[s0].isValid = sessions[s0].isValid
      /\ sessions'[s0].refreshToken = t
  BY <1>1, <1>2 DEF RotatedRow, SessionRow
<1>4. UNCHANGED <<family, live>>
  BY <1>3 DEF family, live
<1>5. CASE sessions[s0].isValid
  <2>1. token' = [token EXCEPT ![s0] = t]
    BY <1>3, <1>5 DEF token
  <2>2. ~Registry!HeldByAnother(s0, t)
    BY <1>1, <1>2, NotHeldByAnother DEF IInv, Identity, FamiliesApart, OwnedBy
  <2>3. Registry!Rotate(s0, t)
    BY <1>1, <1>4, <1>5, <2>1, <2>2 DEF Registry!Rotate, OwnedBy, family, live, token
  <2>4. QED BY <1>2, <2>3 DEF Registry!RegistryNext
<1>6. CASE ~sessions[s0].isValid
  <2>1. UNCHANGED token
    BY <1>3, <1>6 DEF token
  <2>2. QED BY <1>4, <2>1
<1>7. QED BY <1>5, <1>6

LEMMA InvalidationEnds ==
  ASSUME IInv, NEW S, Invalidate(S)
  PROVE  Registry!RegistryNext
<1>0. PICK ended : ended = S \cap live
  OBVIOUS
<1>1. /\ DOMAIN sessions' = DOMAIN sessions
      /\ \A s \in DOMAIN sessions :
           sessions'[s] = IF s \in S THEN InvalidatedRow(sessions[s]) ELSE sessions[s]
  BY DEF Invalidate, Invalidated
<1>2. \A s \in DOMAIN sessions :
        /\ InvalidatedRow(sessions[s]).tokenFamily = sessions[s].tokenFamily
        /\ InvalidatedRow(sessions[s]).isValid = FALSE
  BY DEF IInv, TypeOK, RowsOK, InvalidatedRow, SessionRow
<1>3. UNCHANGED family
  BY <1>1, <1>2 DEF family
<1>4. live' = live \ ended
  BY <1>0, <1>1, <1>2 DEF live
<1>5. token' = [x \in live' |-> token[x]]
  BY <1>1, <1>2 DEF live, token
<1>6. Registry!End(ended)
  BY <1>3, <1>4, <1>5 DEF Registry!End, family, live, token
<1>7. QED BY <1>0, <1>6 DEF Registry!RegistryNext, live

\* Sessions open once with a family of their own, hold one token of it while they
\* live, and once ended never come back.
THEOREM TableIsRegistry == Spec => ImplementsRegistry
<1>1. Init => Registry!RegistryInit
  BY DEF Init, Registry!RegistryInit
<1>2. IInv /\ [Next]_vars => [Registry!RegistryNext]_Registry!registry
  <2> SUFFICES ASSUME IInv, [Next]_vars
               PROVE  Registry!RegistryNext \/ UNCHANGED <<family, live, token>>
    BY DEF Registry!registry, family, live, token
  <2>1. CASE UNCHANGED sessions
    BY <2>1 DEF family, live, token
  <2>2. QED BY <2>1, TableSteps, LoginOpens, RotationRotates, InvalidationEnds
<1>3. QED BY <1>1, <1>2, Inductive, PTL DEF Spec, ImplementsRegistry, Registry!RegistrySpec

=============================================================================
