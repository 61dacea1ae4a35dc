--------------------------- MODULE AuthEndingProofs ---------------------------
(* Sessions that end stay ended: for the table, for the grace entries and for  *)
(* what terminations and resets promise; and spent reset links stay spent.     *)
EXTENDS AuthTimeProofs

\* Rows keep account and family, never come back to life, and get a new token
\* from a rotation only.
LEMMA RowsPersist ==
  ASSUME IInv, [Next]_vars, NEW s \in DOMAIN sessions
  PROVE  /\ s \in DOMAIN sessions'
         /\ sessions'[s].userId = sessions[s].userId
         /\ sessions'[s].tokenFamily = sessions[s].tokenFamily
         /\ Dead(s) => Dead(s)'
         /\ \/ sessions'[s].refreshToken \in {sessions[s].refreshToken, NoToken}
            \/ \E r \in Request : RotateStore(r) /\ req[r].row = s
<1>1. sessions[s] \in SessionRow
  BY DEF IInv, TypeOK, RowsOK
<1>2. CASE UNCHANGED sessions
  BY <1>2 DEF Dead
<1>3. ASSUME NEW r \in Request, LoginStore(r)
      PROVE  s \in DOMAIN sessions' /\ sessions'[s] = sessions[s]
  <2>1. PICK id \in Fresh(SessionId) : sessions' = Put(sessions, id, NewSession(req[r].tok, req[r].exp))
    BY <1>3 DEF LoginStore
  <2>2. s # id
    BY DEF Fresh, IInv, Identity, RowsDrawn
  <2>3. QED BY <2>1, <2>2 DEF Put
<1>4. ASSUME NEW r \in Request, RotateStore(r)
      PROVE  /\ s \in DOMAIN sessions'
             /\ sessions'[s].userId = sessions[s].userId
             /\ sessions'[s].tokenFamily = sessions[s].tokenFamily
             /\ sessions'[s].isValid = sessions[s].isValid
             /\ req[r].row # s => sessions'[s] = sessions[s]
  <2>1. PICK k : k = req[r]
    OBVIOUS
  <2>2. sessions' = [sessions EXCEPT ![k.row] = RotatedRow(@, k.new, k.newExp)]
    BY <1>4, <2>1 DEF RotateStore
  <2>3. QED BY <1>1, <2>1, <2>2 DEF RotatedRow, SessionRow
<1>5. ASSUME NEW S, Invalidate(S)
      PROVE  /\ s \in DOMAIN sessions'
             /\ sessions'[s].userId = sessions[s].userId
             /\ sessions'[s].tokenFamily = sessions[s].tokenFamily
             /\ ~sessions[s].isValid => ~sessions'[s].isValid
             /\ sessions'[s].refreshToken \in {sessions[s].refreshToken, NoToken}
  <2>1. /\ s \in DOMAIN sessions'
        /\ sessions'[s] \in {sessions[s], InvalidatedRow(sessions[s])}
    BY <1>5 DEF Invalidate, Invalidated
  <2>2. QED BY <1>1, <2>1 DEF InvalidatedRow, SessionRow
<1>6. QED BY <1>2, <1>3, <1>4, <1>5, TableSteps DEF Dead

\* Invalidation kills the rows it names.
LEMMA InvalidateKills ==
  ASSUME IInv, NEW S, Invalidate(S), NEW s \in DOMAIN sessions, s \in S
  PROVE  Dead(s)'
<1>1. s \in DOMAIN sessions' /\ sessions'[s] = InvalidatedRow(sessions[s])
  BY DEF Invalidate, Invalidated
<1>2. sessions[s] \in SessionRow
  BY DEF IInv, TypeOK, RowsOK
<1>3. QED BY <1>1, <1>2 DEF Dead, InvalidatedRow, SessionRow

\* A rotation starts at a valid row, and keeps to it.
LEMMA RotationSteps ==
  ASSUME IInv, [Next]_vars, NEW q \in Request
  PROVE  /\ req'[q].pc \in {"rotateSign", "rotateStore"} =>
              \/ req[q].pc \in {"rotateSign", "rotateStore"} /\ req[q].row = req'[q].row
              \/ Live(req'[q].row)
         /\ req'[q].pc = "rotateWarm" =>
              req[q].pc \in {"rotateStore", "rotateWarm"} /\ req[q].row = req'[q].row
         /\ req'[q].pc = "rotateGrace" =>
              req[q].pc \in {"rotateWarm", "rotateGrace"} /\ req[q].tok = req'[q].tok
<1>0. PICK k \in Continuation : k = req[q]
  BY DEF IInv, TypeOK
<1>1. \A j : Await(q, j) => req'[q] = j
  BY DEF Await, IInv, TypeOK
<1>2. ASSUME NEW s \in DOMAIN sessions, RotateFound(q, s)
      PROVE  req'[q].pc = "rotateSign" /\ Live(req'[q].row)
  BY <1>1, <1>2 DEF RotateFound, Usable, Live
<1>3. RotateSign(q) =>
        req'[q].pc = "rotateStore" /\ req'[q].row = k.row /\ k.pc = "rotateSign"
  BY <1>0, <1>1 DEF RotateSign, At
<1>4. RotateStore(q) =>
        /\ k.pc = "rotateStore"
        /\ \/ req'[q].pc = "rotateWarm" /\ req'[q].row = k.row
           \/ req'[q].pc = "reply"
  BY <1>0, <1>1 DEF RotateStore, At
<1>5. RotateWarm(q) =>
        /\ k.pc = "rotateWarm"
        /\ \/ req'[q].pc = "rotateGrace" /\ req'[q].tok = k.tok
           \/ req'[q].pc = "reply"
  BY <1>0, <1>1 DEF RotateWarm, At
<1>6. req'[q].pc \in {"rotateSign", "rotateStore", "rotateWarm", "rotateGrace"} =>
        \/ req'[q] = k
        \/ \E s \in DOMAIN sessions : RotateFound(q, s)
        \/ RotateSign(q) \/ RotateStore(q) \/ RotateWarm(q)
  BY <1>0, RequestSteps, NextAwaits DEF Inert
<1>7. QED BY <1>0, <1>2, <1>3, <1>4, <1>5, <1>6

\* A termination past its blacklisting invalidates, fails of a conflict, or is cut off.
LEMMA TerminationSteps ==
  ASSUME IInv, [Next]_vars, NEW q \in Request, At(q, "termInvalidate")
  PROVE  req'[q] = req[q] \/ TermInvalidate(q) \/ TermConflict(q) \/ Abort(q)
<1>1. Start => req'[q] = req[q]
  <2>1. Start => \E r \in Request : At(r, "idle") /\ \E k : Await(r, k)
    BY DEF Start, LoginStart, LoginVerify, RefreshStart, RotateStart, RotateGraceHit, LogoutStart,
       LogoutFind, GuardStart, GuardHit, GuardMiss, PasswordStart, ForgotFind, ResetFind, Starts, At
  <2>2. QED BY <2>1 DEF At, Await, IInv, TypeOK
<1>2. ~LoginStep(q)
  BY DEF LoginStep, LoginSign, LoginStore, LoginWarm, At
<1>3. ~RefreshStep(q)
  BY DEF RefreshStep, RotateFound, RotateRejected, RotateReplayed, RotateSign, RotateStore,
     RotateWarm, RotateGrace, FamilyFind, FamilyInvalidate, FamilyConflict, FamilyUncache, At
<1>4. TerminateStep(q) => TermInvalidate(q) \/ TermConflict(q)
  BY DEF TerminateStep, RevokeFind, TermBlacklist, TermUncache, At
<1>5. ~GuardStep(q)
  BY DEF GuardStep, GuardLookup, ListSessions, At
<1>6. ~PasswordStep(q)
  BY DEF PasswordStep, ForgotStore, ForgotMail, ResetList, ResetInvalidate, ResetConflict,
     ResetUncache, ResetStore, At
<1>7. ~Reply(q)
  BY DEF Reply, At
<1>8. Tick \/ UNCHANGED vars => req'[q] = req[q]
  BY DEF Tick, vars
<1>9. QED BY <1>1, <1>2, <1>3, <1>4, <1>5, <1>6, <1>7, <1>8, OneMoves DEF Next, Server

-----------------------------------------------------------------------------
(* Ended sessions and the rotations that lost the race. *)

LEMMA QuietStays ==
  ASSUME IInv, [Next]_vars, NEW s \in DOMAIN sessions, Quiet(s)
  PROVE  /\ Quiet(s)'
         /\ sessions'[s].refreshToken \in {sessions[s].refreshToken, NoToken}
<1>1. Dead(s)'
  BY RowsPersist DEF Quiet
<1>2. ASSUME NEW q \in Request, req'[q].pc \in {"rotateSign", "rotateStore"}, req'[q].row = s
      PROVE  FALSE
  BY <1>2, RotationSteps DEF Quiet, Dead, Live, InRotation, At
<1>3. ~InRotation(s)'
  BY <1>2 DEF InRotation, At
<1>4. ASSUME NEW r \in Request, RotateStore(r), req[r].row = s
      PROVE  FALSE
  BY <1>4 DEF RotateStore, Quiet, InRotation
<1>5. QED BY <1>1, <1>3, <1>4, RowsPersist DEF Quiet

\* A session that is dead and in no rotation begun before it died stays so, and gets
\* no other token.
THEOREM DeadRemainQuiet == Spec => DeadStayQuiet
<1>1. IInv /\ [Next]_vars =>
        [\A s \in DOMAIN sessions :
           Quiet(s) => /\ Quiet(s)'
                       /\ sessions'[s].refreshToken \in {sessions[s].refreshToken, NoToken}]_vars
  BY QuietStays
<1>2. QED BY <1>1, Inductive, PTL DEF Spec, DeadStayQuiet

LEMMA SpentStays ==
  ASSUME IInv, [Next]_vars, NEW s \in DOMAIN sessions, Spent(s)
  PROVE  Spent(s)' /\ Answerable(s)' \subseteq Answerable(s)
<1>1. Quiet(s)' /\ s \in DOMAIN sessions' /\ sessions'[s].tokenFamily = sessions[s].tokenFamily
  BY QuietStays, RowsPersist DEF Spent
<1>2. ASSUME NEW q \in Request
      PROVE  req'[q].pc = "rotateWarm" => req'[q].row # s
  BY RotationSteps DEF Spent, Quiet, InRotation, At
<1>3. ASSUME NEW q \in Request, req'[q].pc = "rotateGrace"
      PROVE  req'[q].tok.tokenFamily # sessions[s].tokenFamily
  <2>1. PICK k : k = req[q]
    OBVIOUS
  <2>2. k.pc \in {"rotateWarm", "rotateGrace"} /\ k.tok = req'[q].tok
    BY <1>3, <2>1, RotationSteps
  <2>3. CASE k.pc = "rotateWarm"
    <3>1. k.row \in DOMAIN sessions /\ OwnedBy(k.tok, sessions[k.row]) /\ k.row # s
      BY <2>1, <2>3 DEF IInv, Identity, LocalsOK, Spent, At
    <3>2. sessions[k.row].tokenFamily # sessions[s].tokenFamily
      BY <3>1 DEF IInv, Identity, FamiliesApart
    <3>3. QED BY <2>2, <3>1, <3>2 DEF OwnedBy
  <2>4. CASE k.pc = "rotateGrace"
    BY <2>1, <2>2, <2>4 DEF Spent, At
  <2>5. QED BY <2>2, <2>3, <2>4
<1>4. Spent(s)'
  BY <1>1, <1>2, <1>3 DEF Spent, At
<1>5. ASSUME NEW t \in DOMAIN blacklist', blacklist'[t].pair # NoToken,
             t.tokenFamily = sessions[s].tokenFamily
      PROVE  t \in DOMAIN blacklist /\ blacklist[t].pair # NoToken
  <2>1. ASSUME NEW r \in Request, RotateGrace(r), t = req[r].tok
        PROVE  FALSE
    BY <1>5, <2>1 DEF RotateGrace, Spent
  <2>2. QED BY <1>5, <2>1, EntrySteps
<1>6. Answerable(s)' \subseteq Answerable(s)
  BY <1>1, <1>5 DEF Answerable
<1>7. QED BY <1>4, <1>6

\* Once the rotations that were under way when a session ended are through, no
\* refresh of it is answered but from entries that are already there.
THEOREM SpentRemainSpent == Spec => GraceEndsWithSession
<1>1. IInv /\ [Next]_vars =>
        [\A s \in DOMAIN sessions :
           Spent(s) => Spent(s)' /\ Answerable(s)' \subseteq Answerable(s)]_vars
  BY SpentStays
<1>2. QED BY <1>1, Inductive, PTL DEF Spec, GraceEndsWithSession

-----------------------------------------------------------------------------
(* Terminations and resets that are under way. *)

\* What a handler knows of the rows it is about to end, or has ended.
EndingLocals(k) ==
  /\ k.pc = "termBlacklist" => k.row \in DOMAIN sessions /\ OwnedBy(k.tok, sessions[k.row])
  /\ k.pc = "resetInvalidate" =>
       \A s \in k.keys : s \in DOMAIN sessions /\ sessions[s].userId = k.userId
  /\ k.pc \in {"resetUncache", "resetStore"} => \A s \in k.keys : Dead(s)

BeingEnded(s) == \E r \in Request : At(r, "termInvalidate") /\ req[r].row = s

\* HalfLogoutExplained speaks of the token a row holds now, which a rotation may
\* change; with no crash it is so of every token of the row's family.
EndingExplained ==
  MayAbort \/
  \A t \in DOMAIN blacklist, s \in DOMAIN sessions :
    /\ Blacklisted(t) /\ Live(s) /\ sessions[s].tokenFamily = t.tokenFamily
    => BeingEnded(s) \/ InTheWay({s})

Ending == EndingExplained /\ \A r \in Request : EndingLocals(req[r])

LEMMA InitEnding == Init => Ending
BY DEF Init, Ending, EndingExplained, EndingLocals, Idle

LEMMA EndingLocalsPersist ==
  ASSUME IInv, [Next]_vars, NEW k, EndingLocals(k)
  PROVE  EndingLocals(k)'
<1>1. k.pc = "termBlacklist" => k.row \in DOMAIN sessions' /\ OwnedBy(k.tok, sessions'[k.row])
  BY RowsPersist DEF EndingLocals, OwnedBy
<1>2. k.pc = "resetInvalidate" =>
        \A s \in k.keys : s \in DOMAIN sessions' /\ sessions'[s].userId = k.userId
  BY RowsPersist DEF EndingLocals
<1>3. k.pc \in {"resetUncache", "resetStore"} => \A s \in k.keys : Dead(s)'
  BY RowsPersist DEF EndingLocals, Dead
<1>4. QED BY <1>1, <1>2, <1>3 DEF EndingLocals, OwnedBy

\* The lookup of a termination finds the row with a token of its own, the list of a
\* reset rows of its account; the invalidation of the reset ends all it listed.
LEMMA EndingHandedOn ==
  ASSUME IInv, Ending, [Next]_vars, NEW q \in Request
  PROVE  EndingLocals(req[q])'
<1>0. PICK k \in Continuation : k = req[q]
  BY DEF IInv, TypeOK
<1>1. PICK j : j = req'[q]
  OBVIOUS
<1>2. \A x : Await(q, x) => j = x
  BY <1>1 DEF Await, IInv, TypeOK
<1>3. SUFFICES EndingLocals(j)'
  BY <1>1 DEF EndingLocals, OwnedBy
<1>4. EndingLocals(k)'
  BY <1>0, EndingLocalsPersist DEF Ending
<1>5. CASE ~(j.pc \in {"termBlacklist", "resetInvalidate", "resetUncache", "resetStore"})
  BY <1>5 DEF EndingLocals
<1>6. CASE j = k
  BY <1>4, <1>6
<1>7. ASSUME NEW s \in DOMAIN sessions, Await(q, Terminating(s))
      PROVE  EndingLocals(j)'
  <2>1. CASE EnableCache /\ sessions[s].expiresAt > now /\ sessions[s].refreshToken # NoToken
    <3>1. /\ j.pc = "termBlacklist" /\ j.row = s /\ j.tok = sessions[s].refreshToken
      BY <1>2, <1>7, <2>1 DEF Terminating
    <3>2. OwnedBy(j.tok, sessions[j.row])
      BY <2>1, <3>1 DEF IInv, Identity, RowsApart
    <3>3. EndingLocals(j)
      BY <3>1, <3>2 DEF EndingLocals
    <3>4. QED BY <3>3, EndingLocalsPersist
  <2>2. CASE ~(EnableCache /\ sessions[s].expiresAt > now /\ sessions[s].refreshToken # NoToken)
    <3>1. j.pc = "termInvalidate"
      BY <1>2, <1>7, <2>2 DEF Terminating
    <3>2. QED BY <1>5, <3>1
  <2>3. QED BY <2>1, <2>2
<1>8. CASE ResetList(q)
  <2>1. j = [pc |-> "resetInvalidate", userId |-> k.userId, hash |-> k.hash,
             keys |-> ActiveSessions(k.userId)]
    BY <1>0, <1>2, <1>8 DEF ResetList
  <2>2. EndingLocals(j)
    BY <2>1 DEF EndingLocals, ActiveSessions
  <2>3. QED BY <2>2, EndingLocalsPersist
<1>9. ASSUME ResetInvalidate(q) \/ ResetUncache(q)
      PROVE  j.pc \in {"resetUncache", "resetStore"} /\ j.keys = k.keys
  <2>1. PICK pc \in {"resetUncache", "resetStore"} : j = [k EXCEPT !.pc = pc]
    BY <1>0, <1>2, <1>9 DEF ResetInvalidate, ResetUncache
  <2>2. k \in [pc : {"resetInvalidate", "resetUncache", "resetStore"}, userId : User,
               hash : Password, keys : SUBSET SessionId]
    BY <1>0, <1>9, ResetLocals DEF ResetInvalidate, ResetUncache, IInv
  <2>3. QED BY <2>1, <2>2
<1>10. CASE ResetInvalidate(q)
  <2>1. Invalidate(ValidSessions(k.userId)) /\ k.pc = "resetInvalidate"
    BY <1>0, <1>10 DEF ResetInvalidate, At
  <2>2. ASSUME NEW s \in k.keys
        PROVE  Dead(s)'
    <3>1. s \in DOMAIN sessions /\ sessions[s].userId = k.userId
      BY <1>0, <2>1 DEF Ending, EndingLocals
    <3>2. CASE sessions[s].isValid
      BY <2>1, <3>1, <3>2, InvalidateKills DEF ValidSessions
    <3>3. CASE ~sessions[s].isValid
      BY <3>1, <3>3, RowsPersist DEF Dead
    <3>4. QED BY <3>2, <3>3
  <2>3. QED BY <1>9, <1>10, <2>2 DEF EndingLocals
<1>11. CASE ResetUncache(q)
  <2>1. k.pc = "resetUncache"
    BY <1>0, <1>11 DEF ResetUncache, At
  <2>2. QED BY <1>4, <1>9, <1>11, <2>1 DEF EndingLocals
<1>12. j.pc \in {"termBlacklist", "resetInvalidate", "resetUncache", "resetStore"} =>
         \/ j = k
         \/ \E s \in DOMAIN sessions : Await(q, Terminating(s))
         \/ ResetList(q) \/ ResetInvalidate(q) \/ ResetUncache(q)
  BY <1>0, <1>1, RequestSteps, NextAwaits DEF Inert
<1>13. QED BY <1>5, <1>6, <1>7, <1>8, <1>10, <1>11, <1>12

\* A termination that has blacklisted goes on to end its row, or meets the '' of a
\* session that ended before it.
LEMMA EndingGoesOn ==
  ASSUME IInv, [Next]_vars, ~MayAbort, NEW s \in DOMAIN sessions,
         BeingEnded(s) \/ InTheWay({s}), Live(s)'
  PROVE  (BeingEnded(s) \/ InTheWay({s}))'
<1>1. CASE InTheWay({s})
  <2>1. PICK other \in DOMAIN sessions \ {s} : Dead(other)
    BY <1>1 DEF InTheWay
  <2>2. other \in DOMAIN sessions' \ {s} /\ Dead(other)'
    BY <2>1, RowsPersist
  <2>3. QED BY <2>2 DEF InTheWay
<1>2. CASE BeingEnded(s)
  <2>1. PICK r \in Request : At(r, "termInvalidate") /\ req[r].row = s
    BY <1>2 DEF BeingEnded
  <2>2. CASE req'[r] = req[r]
    BY <2>1, <2>2 DEF BeingEnded, At
  <2>3. CASE TermInvalidate(r)
    <3>1. Invalidate({s})
      BY <2>1, <2>3 DEF TermInvalidate
    <3>2. QED BY <3>1, InvalidateKills DEF Dead, Live
  <2>4. CASE TermConflict(r)
    <3>1. ~UniqueRefreshToken(Invalidated({s}))
      BY <2>1, <2>4 DEF TermConflict, InvalidateConflicts
    <3>2. sessions[s] \in SessionRow
      BY DEF IInv, TypeOK, RowsOK
    <3>3. /\ DOMAIN Invalidated({s}) = DOMAIN sessions
          /\ Invalidated({s})[s].refreshToken = NoToken
          /\ \A x \in DOMAIN sessions : x # s => Invalidated({s})[x] = sessions[x]
      BY <3>2 DEF Invalidated, InvalidatedRow, SessionRow
    <3>4. PICK other \in DOMAIN sessions \ {s} : sessions[other].refreshToken = NoToken
      BY <3>1, <3>3 DEF UniqueRefreshToken, IInv, Identity, RowsApart
    <3>5. Dead(other)
      BY <3>4 DEF Dead, IInv, Identity, RowExpiryInStep
    <3>6. Dead(other)' /\ other \in DOMAIN sessions' \ {s}
      BY <3>4, <3>5, RowsPersist
    <3>7. QED BY <3>6 DEF InTheWay
  <2>5. CASE Abort(r)
    BY <2>5 DEF Abort
  <2>6. QED BY <2>1, <2>2, <2>3, <2>4, <2>5, TerminationSteps
<1>3. QED BY <1>1, <1>2

LEMMA EndingStep ==
  ASSUME IInv, Ending, [Next]_vars
  PROVE  Ending'
<1> SUFFICES ASSUME ~MayAbort, NEW t \in DOMAIN blacklist', NEW s \in DOMAIN sessions',
                    Blacklisted(t)', Live(s)', sessions'[s].tokenFamily = t.tokenFamily
             PROVE  (BeingEnded(s) \/ InTheWay({s}))'
  BY EndingHandedOn DEF Ending, EndingExplained
<1>1. CASE s \notin DOMAIN sessions
  <2>1. PICK r \in Request : LoginStore(r)
    <3>1. \A r \in Request : RotateStore(r) => DOMAIN sessions' = DOMAIN sessions
      BY DEF RotateStore
    <3>2. \A S : Invalidate(S) => DOMAIN sessions' = DOMAIN sessions
      BY DEF Invalidate, Invalidated
    <3>3. QED BY <1>1, <3>1, <3>2, TableSteps
  <2>2. PICK tok, exp : tok = req[r].tok /\ exp = req[r].exp
    OBVIOUS
  <2>3. PICK id \in SessionId : sessions' = Put(sessions, id, NewSession(tok, exp))
    BY <2>1, <2>2 DEF LoginStore, Fresh
  <2>4. sessions'[s] = NewSession(tok, exp)
    BY <1>1, <2>3 DEF Put
  <2>5. t.tokenFamily = tok.tokenFamily
    BY <2>4 DEF NewSession
  <2>6. t \in DOMAIN blacklist
    BY <2>1 DEF LoginStore, redis
  <2>7. HasRow(t)
    BY <2>6 DEF IInv, Identity, TokensStored
  <2>8. \A x \in DOMAIN sessions : sessions[x].tokenFamily # tok.tokenFamily
    BY <2>1, <2>2 DEF LoginStore, At, IInv, Identity, LocalsOK
  <2>9. QED BY <2>5, <2>7, <2>8 DEF HasRow, OwnedBy
<1>2. CASE s \in DOMAIN sessions
  <2>1. Live(s) /\ sessions[s].tokenFamily = t.tokenFamily
    BY <1>2, RowsPersist DEF Live, Dead
  <2>2. CASE t \in DOMAIN blacklist /\ blacklist'[t] = blacklist[t]
    <3>1. BeingEnded(s) \/ InTheWay({s})
      BY <1>2, <2>1, <2>2 DEF Ending, EndingExplained, Blacklisted
    <3>2. QED BY <1>2, <3>1, EndingGoesOn
  <2>3. ASSUME NEW r \in Request, TermBlacklist(r), t = req[r].tok
        PROVE  (BeingEnded(s) \/ InTheWay({s}))'
    <3>1. PICK k : k = req[r]
      OBVIOUS
    <3>2. k.row \in DOMAIN sessions /\ OwnedBy(t, sessions[k.row])
      BY <2>3, <3>1 DEF TermBlacklist, At, Ending, EndingLocals
    <3>3. k.row = s
      BY <1>2, <2>1, <3>2 DEF OwnedBy, IInv, Identity, FamiliesApart
    <3>4. req'[r] = [pc |-> "termInvalidate", row |-> k.row]
      BY <2>3, <3>1 DEF TermBlacklist, Await, IInv, TypeOK
    <3>5. QED BY <3>3, <3>4 DEF BeingEnded, At
  <2>4. ASSUME NEW r \in Request, RotateGrace(r), t = req[r].tok,
               blacklist'[t] = [pair |-> req[r].new, exp |-> now + req[r].px]
        PROVE  FALSE
    <3>1. req[r].new \in Token
      BY <2>4, ContinuationFields DEF RotateGrace, At, IInv, TypeOK, HoldsNew
    <3>2. QED BY <2>4, <3>1, AuthAssumption DEF Blacklisted
  <2>5. QED BY <2>2, <2>3, <2>4, EntrySteps
<1>3. QED BY <1>1, <1>2

\* What blacklisted tokens and listed sessions have to do with the table.
THEOREM EndingInductive == Spec => [](IInv /\ Ending)
<1>1. Init => Ending
  BY InitEnding
<1>2. IInv /\ Ending /\ [Next]_vars => Ending'
  BY EndingStep
<1>3. QED BY <1>1, <1>2, Inductive, PTL DEF Spec

\* With no crash, a valid session whose token is refused is one a handler is just
\* ending, or one whose end ran into another's.
THEOREM HalfLogoutsExplained == Spec => []HalfLogoutExplained
<1>1. IInv /\ Ending => HalfLogoutExplained
  <2> SUFFICES ASSUME IInv, Ending, ~MayAbort, NEW s \in DOMAIN sessions,
                      Live(s), Blacklisted(sessions[s].refreshToken)
               PROVE  BeingEnded(s) \/ InTheWay({s})
    BY DEF HalfLogoutExplained, BeingEnded
  <2>1. PICK t : t = sessions[s].refreshToken
    OBVIOUS
  <2>2. t \in DOMAIN blacklist /\ t # NoToken
    BY <2>1, AuthAssumption DEF Blacklisted, IInv, TypeOK, RedisOK
  <2>3. OwnedBy(t, sessions[s])
    BY <2>1, <2>2 DEF IInv, Identity, RowsApart
  <2>4. QED BY <2>1, <2>2, <2>3 DEF Ending, EndingExplained, OwnedBy
<1>2. QED BY <1>1, EndingInductive, PTL

\* A reset past its invalidation has ended every session it listed.
THEOREM ResetsEndListed == Spec => []ResetEndsListed
<1>1. Ending => ResetEndsListed
  BY DEF Ending, EndingLocals, ResetEndsListed, At
<1>2. QED BY <1>1, EndingInductive, PTL

-----------------------------------------------------------------------------
(* Reset links. *)

Linking == {"forgotStore", "forgotMail"}

\* A link is drawn by one request, and mailed only after it was stored.
Links ==
  /\ mailed \subseteq drawn
  /\ \A r \in Request : req[r].pc \in Linking => req[r].reset \in drawn
  /\ \A r \in Request : req[r].pc = "forgotStore" => req[r].reset \notin mailed
  /\ \A r1, r2 \in Request :
       /\ req[r1].pc \in Linking /\ req[r2].pc \in Linking /\ req[r1].reset = req[r2].reset
       => r1 = r2

\* How a request comes to hold a link.
LEMMA LinkSteps ==
  ASSUME IInv, [Next]_vars, NEW q \in Request, req'[q].pc \in Linking
  PROVE  \/ req'[q] = req[q]
         \/ /\ req'[q].pc = "forgotStore" /\ req'[q].reset \notin drawn
            /\ req'[q].reset \in drawn' /\ UNCHANGED mailed
            /\ \A r \in Request : r # q => req'[r] = req[r]
         \/ /\ req[q].pc = "forgotStore" /\ req'[q].pc = "forgotMail"
            /\ req'[q].reset = req[q].reset
<1>1. \A x : Await(q, x) => req'[q] = x /\ \A r \in Request : r # q => req'[r] = req[r]
  BY DEF Await, IInv, TypeOK
<1>2. req'[q].pc \notin Inert
  BY DEF Linking, Inert
<1>3. ASSUME NEW u \in User, ForgotFind(q, u)
      PROVE  /\ req'[q].pc = "forgotStore" /\ req'[q].reset \notin drawn
             /\ req'[q].reset \in drawn' /\ UNCHANGED mailed
             /\ \A r \in Request : r # q => req'[r] = req[r]
  <2>1. PICK t \in Fresh(ResetToken) :
          /\ drawn' = drawn \cup {t}
          /\ Await(q, [pc |-> "forgotStore", userId |-> u, reset |-> t, exp |-> now + ResetTtl])
    BY <1>3 DEF ForgotFind
  <2>2. QED BY <1>1, <1>3, <2>1 DEF ForgotFind, Fresh, clients
<1>4. ForgotStore(q) => /\ req[q].pc = "forgotStore" /\ req'[q].pc = "forgotMail"
                        /\ req'[q].reset = req[q].reset
  <2>1. PICK t : t = req[q].reset
    OBVIOUS
  <2>2. QED BY <1>1, <2>1 DEF ForgotStore, At
<1>5. \/ req'[q] = req[q]
      \/ \E u \in User : ForgotFind(q, u)
      \/ ForgotStore(q)
  BY <1>2, RequestSteps, NextAwaits DEF Linking
<1>6. QED BY <1>3, <1>4, <1>5

LEMMA LinksStep ==
  ASSUME IInv, Links, [Next]_vars
  PROVE  Links'
<1>1. drawn \subseteq drawn' /\ mailed \subseteq drawn
  BY WriteSteps DEF Links
<1>2. mailed' = mailed \/ \E r \in Request : /\ req[r].pc = "forgotMail"
                                           /\ mailed' \subseteq mailed \cup {req[r].reset}
                                           /\ req'[r].pc \notin Linking
                                           /\ \A q \in Request : q # r => req'[q] = req[q]
  <2>1. ASSUME NEW r \in Request, ForgotMail(r)
        PROVE  /\ req[r].pc = "forgotMail"
               /\ mailed' \subseteq mailed \cup {req[r].reset}
               /\ req'[r].pc \notin Linking
               /\ \A q \in Request : q # r => req'[q] = req[q]
    BY <2>1 DEF ForgotMail, At, Respond, Await, Idle, IInv, TypeOK, Linking
  <2>2. QED BY <2>1, WriteSteps
<1>3. mailed' \subseteq drawn'
  BY <1>1, <1>2 DEF Links, Linking
<1>4. ASSUME NEW q \in Request, req'[q].pc \in Linking
      PROVE  req'[q].reset \in drawn'
  BY <1>1, <1>4, LinkSteps DEF Links, Linking
<1>5. ASSUME NEW q \in Request, req'[q].pc = "forgotStore"
      PROVE  req'[q].reset \notin mailed'
  <2>1. CASE req'[q] = req[q]
    <3>1. req[q].reset \notin mailed
      BY <1>5, <2>1 DEF Links
    <3>2. ASSUME NEW r \in Request, req[r].pc = "forgotMail"
          PROVE  req[r].reset # req[q].reset
      BY <1>5, <2>1, <3>2 DEF Links, Linking
    <3>3. QED BY <1>2, <2>1, <3>1, <3>2
  <2>2. CASE req'[q].reset \notin drawn /\ UNCHANGED mailed
    BY <1>1, <2>2
  <2>3. QED BY <1>5, <2>1, <2>2, LinkSteps DEF Linking
<1>6. ASSUME NEW r1 \in Request, NEW r2 \in Request, r1 # r2,
             req'[r1].pc \in Linking, req'[r2].pc \in Linking
      PROVE  req'[r1].reset # req'[r2].reset
  <2>1. ASSUME NEW q \in Request, req'[q].pc \in Linking
        PROVE  \/ req[q].pc \in Linking /\ req'[q].reset = req[q].reset
               \/ /\ req'[q].reset \notin drawn
                  /\ \A r \in Request : r # q => req'[r] = req[r]
    BY <2>1, LinkSteps DEF Linking
  <2>2. \A q \in Request : req[q].pc \in Linking => req[q].reset \in drawn
    BY DEF Links
  <2>3. QED BY <1>6, <2>1, <2>2 DEF Links
<1>7. QED BY <1>3, <1>4, <1>5, <1>6 DEF Links

\* The link a request stores was never mailed before, so it is none that was spent.
LEMMA SpentLinkStep ==
  ASSUME IInv, Links, [Next]_vars, NEW t \in mailed, ~Held(t)
  PROVE  ~Held(t)'
<1>1. t \in ResetToken /\ t # NoToken
  BY AuthAssumption DEF IInv, TypeOK
<1>2. users \in [User -> UserRow]
  BY DEF IInv, TypeOK
<1>3. ASSUME NEW r \in Request, ForgotStore(r)
      PROVE  ~Held(t)'
  <2>1. PICK k : k = req[r]
    OBVIOUS
  <2>2. k.reset # t
    BY <1>3, <2>1 DEF ForgotStore, At, Links
  <2>3. users' = [users EXCEPT ![k.userId].passwordResetToken = k.reset,
                               ![k.userId].passwordResetTokenExpiresAt = k.exp]
    BY <1>3, <2>1 DEF ForgotStore
  <2>4. \A u \in User : users'[u].passwordResetToken \in {users[u].passwordResetToken, k.reset}
    BY <1>2, <2>3 DEF UserRow
  <2>5. QED BY <2>2, <2>4 DEF Held
<1>4. ASSUME NEW r \in Request, ResetStore(r)
      PROVE  ~Held(t)'
  <2>1. PICK k : k = req[r]
    OBVIOUS
  <2>2. users' = [users EXCEPT ![k.userId] =
                    [passwordHash |-> k.hash, passwordResetToken |-> NoToken,
                     passwordResetTokenExpiresAt |-> 0]]
    BY <1>4, <2>1 DEF ResetStore
  <2>3. \A u \in User : users'[u].passwordResetToken \in {users[u].passwordResetToken, NoToken}
    BY <1>2, <2>2
  <2>4. QED BY <1>1, <2>3 DEF Held
<1>5. QED BY <1>3, <1>4, WriteSteps DEF Held

\* A reset link that no account holds any more never works again, whatever other
\* links are asked for and used meanwhile.
THEOREM SpentLinksRemainSpent == Spec => SpentLinksStaySpent
<1>1. Init => Links
  BY DEF Init, Links, Idle, Linking
<1>2. IInv /\ Links /\ [Next]_vars => Links'
  BY LinksStep
<1>3. IInv /\ Links /\ [Next]_vars => [\A t \in mailed : ~Held(t) => ~Held(t)']_vars
  BY SpentLinkStep
<1>4. QED BY <1>1, <1>2, <1>3, Inductive, PTL DEF Spec, SpentLinksStaySpent

=============================================================================
