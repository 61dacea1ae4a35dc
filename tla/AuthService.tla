----------------------------- MODULE AuthService -----------------------------
(* The endpoints of AuthService served together: clients start requests,     *)
(* the event loop interleaves the handlers at every await.                   *)
EXTENDS LoginFlow, RefreshFlow, TerminateFlow, GuardFlow, PasswordFlow

Start == LoginStart \/ RefreshStart \/ LogoutStart \/ GuardStart \/ PasswordStart

\* What the server does for request r once it has accepted it.
Server(r) ==
  LoginStep(r) \/ RefreshStep(r) \/ TerminateStep(r) \/ GuardStep(r) \/ PasswordStep(r)
  \/ Reply(r)

Next == Start \/ (\E r \in Request : Server(r) \/ Abort(r)) \/ Tick

Spec == Init /\ [][Next]_vars

\* The event loop never forgets a pending continuation: every await of an
\* accepted request resolves.  Clients owe nothing, and neither does the clock.
FairSpec == Spec /\ \A r \in Request : WF_vars(Server(r))

-----------------------------------------------------------------------------
(* Type invariant. *)

Handler ==
  [pc : {"listSessions"}, userId : User, sessionId : SessionId] \cup
  [pc : {"revokeFind"}, userId : User, target : SessionId]

LoginCont ==
  [pc : {"loginSign"}, userId : User] \cup
  [pc : {"loginStore"}, tok : Token, exp : Nat] \cup
  [pc : {"loginWarm", "reply"}, tok : Token]

RefreshCont ==
  [pc : {"rotateFind"}, tok : Token] \cup
  [pc : {"rotateSign"}, tok : Token, row : SessionId, exp : Nat] \cup
  [pc : {"rotateStore"}, tok : Token, row : SessionId, exp : Nat, new : Token,
   newExp : Nat] \cup
  [pc : {"rotateWarm"}, tok : Token, row : SessionId, exp : Nat, new : Token] \cup
  [pc : {"rotateGrace"}, tok : Token, new : Token, px : Nat] \cup
  [pc : {"familyFind"}, fam : Family] \cup
  [pc : {"familyInvalidate"}, fam : Family, keys : SUBSET SessionId] \cup
  [pc : {"familyUncache"}, keys : SUBSET SessionId]

TerminateCont ==
  [pc : {"termBlacklist"}, row : SessionId, tok : Token, px : Nat] \cup
  [pc : {"termInvalidate", "termUncache"}, row : SessionId]

GuardCont ==
  Handler \cup [pc : {"guardLookup"}, sessionId : SessionId, handler : Handler]

PasswordCont ==
  [pc : {"forgotStore"}, userId : User, reset : ResetToken, exp : Nat] \cup
  [pc : {"forgotMail"}, reset : ResetToken] \cup
  [pc : {"resetList"}, userId : User, hash : Password] \cup
  [pc : {"resetInvalidate", "resetUncache", "resetStore"}, userId : User,
   hash : Password, keys : SUBSET SessionId]

Continuation ==
  {Idle} \cup LoginCont \cup RefreshCont \cup TerminateCont \cup GuardCont \cup PasswordCont

RowsOK ==
  /\ DOMAIN sessions \subseteq SessionId
  /\ \A s \in DOMAIN sessions : sessions[s] \in SessionRow

RedisOK ==
  /\ DOMAIN sessionKeys \subseteq SessionId
  /\ \A k \in DOMAIN sessionKeys : sessionKeys[k] \in [valid : BOOLEAN, exp : Nat]
  /\ DOMAIN blacklist \subseteq Token
  /\ \A t \in DOMAIN blacklist : blacklist[t] \in [pair : Token \cup {NoToken}, exp : Nat]

\* Every variable has its type; a continuation has exactly the live locals of
\* the await it stands at.
TypeOK ==
  /\ now \in 0..MaxTime
  /\ users \in [User -> UserRow]
  /\ RowsOK
  /\ RedisOK
  /\ issued \subseteq Token
  /\ mailed \subseteq ResetToken
  /\ drawn \subseteq Family \cup SessionId \cup ResetToken
  /\ req \in [Request -> Continuation]

-----------------------------------------------------------------------------
(* Tokens, the rows they belong to, and what became of either. *)

HoldsTok == {"loginStore", "loginWarm", "reply", "rotateFind", "rotateSign",
             "rotateStore", "rotateWarm", "rotateGrace", "termBlacklist"}
HoldsNew == {"rotateStore", "rotateWarm", "rotateGrace"}

OwnedBy(t, row) == row.tokenFamily = t.tokenFamily /\ row.userId = t.userId
HasRow(t) == \E s \in DOMAIN sessions : OwnedBy(t, sessions[s])

Live(s) == s \in DOMAIN sessions /\ sessions[s].isValid
Dead(s) == s \in DOMAIN sessions /\ ~sessions[s].isValid
Blacklisted(t) == t \in DOMAIN blacklist /\ blacklist[t].pair = NoToken

\* An ended row of another session, whose '' the unique index will not take twice.
InTheWay(S) == \E other \in DOMAIN sessions \ S : Dead(other)

-----------------------------------------------------------------------------
(* Safety. *)

\* No two rows ever hold the same token, and the token a row holds is of its own
\* family and account: the creates and updates of login and refresh, which
\* nothing guards, cannot violate the unique index whatever they race with.
RowsApart ==
  /\ UniqueRefreshToken(sessions)
  /\ \A s \in DOMAIN sessions :
       sessions[s].refreshToken # NoToken => OwnedBy(sessions[s].refreshToken, sessions[s])

\* A pair reaches a client only after its session is in the table, so a replay
\* of any token a client holds finds the family to end, across crashes of the
\* handlers between the statements of a login or a refresh.
IssuedHasRow == \A t \in issued : HasRow(t)

\* expiresAt e and the iat of t were taken from one turn's clock, the one in
\* milliseconds, the other in whole seconds.
InStep(t, e) ==
  /\ t.iat + RefreshExpiryMs < e + Second
  /\ e < t.iat + RefreshExpiryMs + Second

\* A valid row holds a token, and the expiry of a row is that of the token it
\* holds, less than a second apart, though the two were computed separately and
\* awaits before the write, and rotations, terminations and crashes interleave.
\* Lookups judge the row, jwt.verify the token: neither outlives the other by
\* more, where parseExpiryToMs and jsonwebtoken agree on the setting.
RowExpiryInStep ==
  \A s \in DOMAIN sessions :
    LET row == sessions[s] IN
    /\ row.isValid => row.refreshToken # NoToken
    /\ row.refreshToken # NoToken => InStep(row.refreshToken, row.expiresAt)

\* The pair a concurrent refresh is answered from the blacklist is a later one of
\* the same session, and its entry goes within the grace period.
GracePairSucceeds ==
  \A t \in DOMAIN blacklist :
    LET new == blacklist[t].pair IN
    new # NoToken => /\ new = [t EXCEPT !.iat = new.iat]
                     /\ new.iat >= t.iat
                     /\ blacklist[t].exp <= now + GracePeriod

\* Logout and revoke blacklist first and invalidate after.  With no crash
\* between, a valid session whose token is already refused is one a handler is
\* just ending, unless another session that ended stood in its way.
HalfLogoutExplained ==
  MayAbort \/
  \A s \in DOMAIN sessions :
    Live(s) /\ Blacklisted(sessions[s].refreshToken) =>
      \/ \E r \in Request : At(r, "termInvalidate") /\ req[r].row = s
      \/ InTheWay({s})

\* Once a reset is past its invalidation, every session it had listed is dead,
\* and stays so while the keys go and the password is written.
ResetEndsListed ==
  \A r \in Request :
    At(r, "resetUncache") \/ At(r, "resetStore") => \A s \in req[r].keys : Dead(s)

-----------------------------------------------------------------------------
(* What a step may never do. *)

InRotation(s) ==
  \E r \in Request : (At(r, "rotateSign") \/ At(r, "rotateStore")) /\ req[r].row = s
Quiet(s) == Dead(s) /\ ~InRotation(s)

\* A session that is dead and in no rotation begun before it died never holds a
\* new token and never starts another rotation, though a rotation that lost the
\* race may have left it a token that verifies.
DeadStayQuiet ==
  [][\A s \in DOMAIN sessions :
       Quiet(s) => /\ Quiet(s)'
                   /\ sessions'[s].refreshToken \in {sessions[s].refreshToken, NoToken}]_vars

\* A session that ended, with no rotation of it on its way to the grace entry.
Spent(s) ==
  /\ Quiet(s)
  /\ \A r \in Request : /\ At(r, "rotateWarm") => req[r].row # s
                        /\ At(r, "rotateGrace") =>
                             req[r].tok.tokenFamily # sessions[s].tokenFamily
Answerable(s) ==
  {t \in DOMAIN blacklist : /\ t.tokenFamily = sessions[s].tokenFamily
                            /\ blacklist[t].pair # NoToken}

\* A rotation that was under way when its session ended may still answer later
\* refreshes through the grace entry it leaves, over the 'true' of a logout too;
\* once such rotations are through, the entries only go and no other is written.
GraceEndsWithSession ==
  [][\A s \in DOMAIN sessions :
       Spent(s) => Spent(s)' /\ Answerable(s)' \subseteq Answerable(s)]_vars

\* The 'true' that logout or revoke wrote under a token is not gone before the
\* refresh lifetime has run from the token's iat (but for less than a second),
\* however long the call took to reach Redis, unless a rotation of that token
\* that is still under way writes its grace entry over it.
BlacklistLasts ==
  [][\A t \in DOMAIN blacklist :
       Blacklisted(t) =>
         \/ Blacklisted(t)'
         \/ now' + Second > t.iat + RefreshExpiryMs
         \/ \E r \in Request :
              /\ At(r, "rotateGrace") /\ req[r].tok = t
              /\ t \in DOMAIN blacklist' /\ blacklist'[t].pair = req[r].new]_vars

Held(t) == \E u \in User : users[u].passwordResetToken = t

\* A reset link that no account holds any more never works again: two resets that
\* both found it, and requests for new links meanwhile, do not bring it back.
SpentLinksStaySpent == [][\A t \in mailed : ~Held(t) => ~Held(t)']_vars

\* The table implements the registry its clients rely on.
Registry == INSTANCE SessionRegistry WITH
  family <- [s \in DOMAIN sessions |-> sessions[s].tokenFamily],
  live <- {s \in DOMAIN sessions : sessions[s].isValid},
  token <- [s \in {x \in DOMAIN sessions : sessions[x].isValid} |-> sessions[s].refreshToken]

\* Through every interleaving of logins, rotations, terminations and replays,
\* sessions open once, hold one token of their own family, and end for good:
\* rotateTokens' unconditional update never brings one back.
ImplementsRegistry == Registry!RegistrySpec

-----------------------------------------------------------------------------
(* Liveness, under FairSpec. *)

Terminated(s) ==
  \E r \in Request : (At(r, "termBlacklist") \/ At(r, "termInvalidate")) /\ req[r].row = s

\* A session a logout or revoke has found ends, whatever rotates it meanwhile,
\* unless a session that ended before stands in the way.
TerminationEnds == \A s \in SessionId : Terminated(s) ~> Dead(s) \/ InTheWay({s})

\* A replay ends the family of the token replayed, with the same exception.
ReplayEndsFamily ==
  \A fam \in Family :
    (\E r \in Request : At(r, "familyFind") /\ req[r].fam = fam)
      ~> (\A s \in InFamily(fam) : Dead(s)) \/ InTheWay(InFamily(fam))

-----------------------------------------------------------------------------
(* The inductive invariant behind RowsApart, IssuedHasRow and                *)
(* RowExpiryInStep.                                                          *)

\* What a row is named by was drawn.
RowsDrawn == \A s \in DOMAIN sessions : s \in drawn /\ sessions[s].tokenFamily \in drawn

TokensStored ==
  /\ \A t \in issued : HasRow(t)
  /\ \A t \in DOMAIN blacklist :
       HasRow(t) /\ (blacklist[t].pair # NoToken => HasRow(blacklist[t].pair))

\* No two rows belong to one family.
FamiliesApart ==
  \A s1, s2 \in DOMAIN sessions :
    sessions[s1].tokenFamily = sessions[s2].tokenFamily => s1 = s2

\* A login whose row is still to be written has a family no row has; a rotation
\* past its lookup has a row, of the family of the tokens it holds; an expiry on
\* its way to a row is in step with the token that goes with it.
LocalsOK(k) ==
  /\ k.pc = "loginStore" =>
       /\ k.tok.tokenFamily \in drawn
       /\ \A s \in DOMAIN sessions : sessions[s].tokenFamily # k.tok.tokenFamily
       /\ InStep(k.tok, k.exp)
  /\ k.pc \in HoldsTok \ {"loginStore"} => HasRow(k.tok)
  /\ k.pc \in HoldsNew => HasRow(k.new)
  /\ k.pc \in {"rotateSign", "rotateStore", "rotateWarm"} =>
       k.row \in DOMAIN sessions /\ OwnedBy(k.tok, sessions[k.row])
  /\ k.pc \in {"rotateStore", "rotateWarm"} => OwnedBy(k.new, sessions[k.row])
  /\ k.pc = "rotateStore" => InStep(k.new, k.newExp)

LoginsApart ==
  \A r1, r2 \in Request :
    /\ At(r1, "loginStore") /\ At(r2, "loginStore")
    /\ req[r1].tok.tokenFamily = req[r2].tok.tokenFamily
    => r1 = r2

\* What ties tokens, families and rows together, whatever their number.
Identity ==
  /\ RowsApart /\ FamiliesApart /\ RowExpiryInStep
  /\ RowsDrawn /\ TokensStored
  /\ \A r \in Request : LocalsOK(req[r])
  /\ LoginsApart

\* The inductive invariant: no login, rotation, termination, reset, crash or
\* expiry breaks the tie between the tokens in circulation and the table.
IInv == TypeOK /\ Identity

=============================================================================
