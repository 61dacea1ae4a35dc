------------------------------ MODULE LoginFlow ------------------------------
(* AuthService.login: find the user, sign a pair, store the row, warm Redis. *)
EXTENDS AuthState

\* findByEmail and bcrypt.compare against the hash just read.  A wrong password
\* is answered 401 and changes nothing.
LoginVerify(r, u, password) ==
  /\ Starts(r, "login")
  /\ password = users[u].passwordHash
  /\ Await(r, [pc |-> "loginSign", userId |-> u])
  /\ UNCHANGED <<now, tables, redis, clients, drawn>>

LoginSignReusingFamily(r) ==
  /\ At(r, "loginSign")
  /\ \E fam \in Family, sid \in Fresh(SessionId) :
       /\ drawn' = drawn \cup {fam, sid}
       /\ Await(r, [pc |-> "loginStore",
                    tok |-> [userId |-> req[r].userId, sessionId |-> sid,
                             tokenFamily |-> fam, iat |-> WholeSecond(now)],
                    exp |-> now + RefreshExpiryMs])
  /\ UNCHANGED <<now, tables, redis, clients>>

LoginSignSkippingStore(r) ==
  /\ At(r, "loginSign")
  /\ \E fam \in Fresh(Family), sid \in Fresh(SessionId) :
       /\ drawn' = drawn \cup {fam, sid}
       /\ Await(r, [pc |-> "loginWarm",
                    tok |-> [userId |-> req[r].userId, sessionId |-> sid,
                             tokenFamily |-> fam, iat |-> WholeSecond(now)]])
  /\ UNCHANGED <<now, tables, redis, clients>>

\* tokenFamily and sessionId are drawn here and signed into the pair; in the same
\* turn the row's expiresAt is computed, from the milliseconds of the clock.
LoginSign(r) ==
  /\ At(r, "loginSign")
  /\ \E fam \in Fresh(Family), sid \in Fresh(SessionId) :
       /\ drawn' = drawn \cup {fam, sid}
       /\ Await(r, [pc |-> "loginStore",
                    tok |-> [userId |-> req[r].userId, sessionId |-> sid,
                             tokenFamily |-> fam, iat |-> WholeSecond(now)],
                    exp |-> now + RefreshExpiryMs])
  /\ UNCHANGED <<now, tables, redis, clients>>

\* The columns createSession is given.
NewSession(t, expiresAt) ==
  [userId |-> t.userId, tokenFamily |-> t.tokenFamily, refreshToken |-> t,
   isValid |-> TRUE, expiresAt |-> expiresAt]

\* createSession is given no id: the row gets one of its own from the column
\* default, not the sessionId the pair claims.
LoginStore(r) ==
  /\ At(r, "loginStore")
  /\ \E id \in Fresh(SessionId) :
       LET t == req[r].tok IN
       /\ drawn' = drawn \cup {id}
       /\ sessions' = Put(sessions, id, NewSession(t, req[r].exp))
       /\ Await(r, [pc |-> IF EnableCache THEN "loginWarm" ELSE "reply", tok |-> t])
  /\ UNCHANGED <<now, users, redis, clients>>

\* session:<claimed sessionId> = 'true' for the life of the refresh token.
LoginWarm(r) ==
  /\ At(r, "loginWarm")
  /\ SetSessionKey(req[r].tok.sessionId, TRUE, RefreshExpiryMs)
  /\ Await(r, [pc |-> "reply", tok |-> req[r].tok])
  /\ UNCHANGED <<now, tables, blacklist, clients, drawn>>

LoginStart == \E r \in Request, u \in User, p \in Password : LoginVerify(r, u, p)
LoginStep(r) == LoginSign(r) \/ LoginStore(r) \/ LoginWarm(r)

=============================================================================
