--------------------------- MODULE AccountsProofs ---------------------------
(***************************************************************************)
(* Registration and verification keep the tables and the mailboxes in      *)
(* step, for any number of addresses, requests and connections, through    *)
(* failing statements, lost acknowledgements, bounced mails and restarts.  *)
(***************************************************************************)
EXTENDS Accounts, TLAPS

-----------------------------------------------------------------------------
(* The inductive invariant. *)

Drawn(r) == req[r].pc \in {"begin", "createUser", "createProfile"}
Token(r) == IF At(r, "createProfile") THEN req[r].row.verificationToken ELSE req[r].token

\* A token on its way to the table is nobody else's.
TokensApart ==
  \A r \in Request : Drawn(r) =>
    /\ \A u \in DOMAIN users : users[u].verificationToken # Token(r)
    /\ \A m \in outbox \cup inbox : m.token # Token(r)
    /\ \A q \in Request \ {r} : Drawn(q) \/ At(q, "announce") => Token(q) # Token(r)

\* A row inserted by an open transaction collides with no other, committed or not.
RowsPending ==
  \A r \in Request : At(r, "createProfile") =>
    /\ req[r].id \notin DOMAIN users
    /\ ~HasAccount(req[r].email)
    /\ req[r].row.email = req[r].email
    /\ req[r].row.isEmailVerified = FALSE /\ req[r].row.verificationToken # NoToken
    /\ \A q \in Request \ {r} : At(q, "createProfile") =>
         req[q].id # req[r].id /\ req[q].email # req[r].email

\* A mailed token belongs to the account of its address or was used up.
Links(e, t) ==
  /\ \E u \in DOMAIN users : users[u].email = e /\ users[u].verificationToken \in {t, NoToken}
  /\ \A u \in DOMAIN users : users[u].verificationToken = t => users[u].email = e

LinksGood ==
  /\ \A m \in outbox \cup inbox : Links(m.to, m.token)
  /\ \A r \in Request : At(r, "announce") => Links(req[r].email, req[r].token)

Verifying == \A r \in Request : At(r, "verifyStore") => req[r].id \in DOMAIN users

Standing == AddressesApart /\ ProfilesPaired /\ AnnouncedExist /\ TokenUntilVerified
Pending == TokensApart /\ RowsPending /\ LinksGood /\ Verifying
AccountsInv == TypeOK /\ Standing /\ VerifiedByMail /\ UnmailedExplained /\ Pending

-----------------------------------------------------------------------------
(* Lemmas. *)

\* The live locals of a continuation have their types.
LEMMA Locals ==
  ASSUME TypeOK, NEW r \in Request
  PROVE  /\ At(r, "registerHash") => req[r].email \in Email
         /\ req[r].pc \in {"begin", "createUser"} =>
              /\ req[r].email \in Email /\ req[r].token \in VToken /\ req[r].exp \in Nat
              /\ req[r] = [pc |-> req[r].pc, email |-> req[r].email,
                           token |-> req[r].token, exp |-> req[r].exp]
         /\ At(r, "createProfile") =>
              req[r].email \in Email /\ req[r].id \in UserId /\ req[r].row \in UserRow
         /\ At(r, "announce") => req[r].email \in Email /\ req[r].token \in VToken
         /\ At(r, "verifyStore") => req[r].id \in UserId
<1>1. PICK k \in Continuation : k = req[r]
  BY DEF TypeOK
<1>2. QED BY <1>1 DEF Continuation, Idle, At

\* What is said of the tables and the mails alone outlives a step of one request.
LEMMA StandingKept ==
  ASSUME Standing, UNCHANGED <<tables, mail, history>>
  PROVE  Standing'
BY DEF Standing, AddressesApart, ProfilesPaired, AnnouncedExist, TokenUntilVerified,
       HasAccount, tables, mail, history

\* A commit adds one row, of an id and an address no row has.
LEMMA CommitAdds ==
  ASSUME AccountsInv, NEW r \in Request, At(r, "createProfile"), Commit(r)
  PROVE  /\ DOMAIN users' = DOMAIN users \cup {req[r].id} /\ req[r].id \notin DOMAIN users
         /\ users'[req[r].id] = req[r].row
         /\ \A u \in DOMAIN users : users'[u] = users[u]
         /\ profiles' = profiles \cup {req[r].id}
BY DEF AccountsInv, Pending, RowsPending, Commit

\* After it the tables are in order again.
LEMMA CommitStands ==
  ASSUME AccountsInv, NEW r \in Request, At(r, "createProfile"), Commit(r),
         UNCHANGED mail, UNCHANGED announced
  PROVE  /\ Standing'
         /\ \A u \in DOMAIN users' : users'[u] \in UserRow
         /\ \A e, t : Links(e, t) /\ t # req[r].row.verificationToken => Links(e, t)'
         /\ \A e, t : e = req[r].email /\ t = req[r].row.verificationToken => Links(e, t)'
<1> USE DEF AccountsInv, Standing, Pending
<1>1. PICK e, id, row : e = req[r].email /\ id = req[r].id /\ row = req[r].row
  OBVIOUS
<1>2. /\ DOMAIN users' = DOMAIN users \cup {id} /\ id \notin DOMAIN users
      /\ users'[id] = row /\ \A u \in DOMAIN users : users'[u] = users[u]
      /\ profiles' = profiles \cup {id}
  BY <1>1, CommitAdds
<1>3. /\ row \in UserRow /\ row.email = e /\ ~HasAccount(e)
      /\ row.isEmailVerified = FALSE /\ row.verificationToken # NoToken
  BY <1>1, Locals DEF RowsPending
<1>4. AddressesApart'
  BY <1>2, <1>3 DEF AddressesApart, HasAccount
<1>5. ProfilesPaired'
  BY <1>2 DEF ProfilesPaired
<1>6. AnnouncedExist'
  BY <1>2 DEF AnnouncedExist, HasAccount, mail
<1>7. TokenUntilVerified'
  <2>1. \A u \in DOMAIN users : (users[u].isEmailVerified <=> users[u].verificationToken = NoToken)
    BY DEF TokenUntilVerified
  <2>2. ~users'[id].isEmailVerified /\ users'[id].verificationToken # NoToken
    BY <1>2, <1>3
  <2>3. QED BY <1>2, <2>1, <2>2 DEF TokenUntilVerified
<1>8. \A u \in DOMAIN users' : users'[u] \in UserRow
  BY <1>2, <1>3 DEF TypeOK
<1>9. \A f, t : Links(f, t) /\ t # row.verificationToken => Links(f, t)'
  BY <1>2 DEF Links
<1>10. Links(e, row.verificationToken)'
  <2>1. \A u \in DOMAIN users : users[u].verificationToken # row.verificationToken
    BY <1>1 DEF TokensApart, Drawn, Token, At
  <2>2. QED BY <1>2, <1>3, <2>1 DEF Links
<1>11. QED BY <1>1, <1>4, <1>5, <1>6, <1>7, <1>8, <1>9, <1>10

-----------------------------------------------------------------------------
(* Steps of one request that leave tables and mails alone. *)

\* A request that ends, or begins with nothing drawn, disturbs nothing.
LEMMA QuietStep ==
  ASSUME AccountsInv, NEW r \in Request, ~At(r, "announce"),
         NEW k \in Continuation, k.pc \in {"idle", "registerHash"}, Await(r, k),
         UNCHANGED <<now, tables, mail, history>>
  PROVE  AccountsInv'
<1> USE DEF AccountsInv, Await, tables, mail, history
<1>1. TypeOK'
  BY DEF TypeOK
<1>2. Standing'
  BY StandingKept
<1>3. VerifiedByMail' /\ UnmailedExplained'
  BY DEF VerifiedByMail, UnmailedExplained, At, TypeOK
<1>4. Pending'
  BY DEF Pending, TokensApart, RowsPending, LinksGood, Verifying, Drawn, Token, HasAccount,
         Links, At, TypeOK
<1>5. QED BY <1>1, <1>2, <1>3, <1>4

\* A fresh token is held by nobody.
LEMMA RegisterHashStep ==
  ASSUME AccountsInv, NEW r \in Request, RegisterHash(r)
  PROVE  AccountsInv'
<1> USE DEF AccountsInv
<1>1. PICK t \in VToken \ HeldTokens :
        Await(r, [pc |-> "begin", email |-> req[r].email, token |-> t, exp |-> now + VerifyTtl])
  BY DEF RegisterHash
<1>2. At(r, "registerHash") /\ UNCHANGED <<now, tables, mail, history>>
  BY DEF RegisterHash
<1>3. TypeOK'
  BY <1>1, <1>2, Locals, AccountsAssumption DEF TypeOK, Await, Continuation, tables, mail, history
<1>4. Standing'
  BY <1>2, StandingKept
<1>5. VerifiedByMail' /\ UnmailedExplained'
  BY <1>1, <1>2 DEF VerifiedByMail, UnmailedExplained, Await, At, TypeOK, tables, mail, history
<1>6. TokensApart'
  <2>1. /\ \A u \in DOMAIN users : users[u].verificationToken # t
        /\ \A m \in outbox \cup inbox : m.token # t
        /\ \A q \in Request : Drawn(q) \/ At(q, "announce") => Token(q) # t
    BY DEF HeldTokens, Drawn, Token, At
  <2>2. Token(r)' = t /\ \A q \in Request \ {r} : req'[q] = req[q]
    BY <1>1 DEF Await, At, Token, TypeOK
  <2>3. QED
    BY <1>2, <2>1, <2>2 DEF TokensApart, Pending, Drawn, Token, At, tables, mail
<1>7. RowsPending' /\ LinksGood' /\ Verifying'
  BY <1>1, <1>2 DEF Pending, RowsPending, LinksGood, Verifying, HasAccount, Links, Await, At,
                    TypeOK, tables, mail
<1>8. QED BY <1>3, <1>4, <1>5, <1>6, <1>7 DEF Pending

LEMMA BeginStep ==
  ASSUME AccountsInv, NEW r \in Request, Begin(r)
  PROVE  AccountsInv'
<1> USE DEF AccountsInv
<1>1. PICK old, k : old = req[r] /\ k = [old EXCEPT !.pc = "createUser"]
  OBVIOUS
<1>2. At(r, "begin") /\ req' = [req EXCEPT ![r] = k] /\ UNCHANGED <<now, tables, mail, history>>
  BY <1>1 DEF Begin, Await
<1>3. /\ k \in Continuation /\ k.pc = "createUser"
      /\ k.email = req[r].email /\ k.token = req[r].token
  <2>1. old.email \in Email /\ old.token \in VToken /\ old.exp \in Nat
        /\ old = [pc |-> old.pc, email |-> old.email, token |-> old.token, exp |-> old.exp]
    BY <1>1, <1>2, Locals DEF At
  <2>2. k = [pc |-> "createUser", email |-> old.email, token |-> old.token, exp |-> old.exp]
    BY <1>1, <2>1
  <2>3. QED BY <1>1, <2>1, <2>2 DEF Continuation
<1>4. TypeOK'
  BY <1>2, <1>3 DEF TypeOK, tables, mail, history
<1>5. Standing'
  BY <1>2, StandingKept
<1>6. VerifiedByMail' /\ UnmailedExplained'
  BY <1>2, <1>3 DEF VerifiedByMail, UnmailedExplained, At, TypeOK, tables, mail, history
<1>7. Pending'
  BY <1>2, <1>3 DEF Pending, TokensApart, RowsPending, LinksGood, Verifying, Drawn, Token,
                    HasAccount, Links, At, TypeOK, tables, mail
<1>8. QED BY <1>4, <1>5, <1>6, <1>7

\* The unique index stands between two inserts of one address.
LEMMA CreateUserStep ==
  ASSUME AccountsInv, NEW r \in Request, CreateUser(r)
  PROVE  AccountsInv'
<1> USE DEF AccountsInv
<1>1. PICK u \in UserId \ HeldIds :
        Await(r, [pc |-> "createProfile", email |-> req[r].email, id |-> u, row |-> NewUser(r)])
  BY DEF CreateUser
<1>2. PICK k : k = [pc |-> "createProfile", email |-> req[r].email, id |-> u, row |-> NewUser(r)]
  OBVIOUS
<1>3. /\ At(r, "createUser") /\ ~Inserting(req[r].email) /\ ~HasAccount(req[r].email)
      /\ UNCHANGED <<now, tables, mail, history>>
  BY DEF CreateUser
<1>4. /\ k.pc = "createProfile" /\ k.email = req[r].email /\ k.id = u /\ k.row \in UserRow
      /\ k.row.email = req[r].email /\ k.row.isEmailVerified = FALSE
      /\ k.row.verificationToken = req[r].token
      /\ k \in Continuation
  BY <1>2, <1>3, Locals DEF At, NewUser, UserRow, Continuation
<1>5. req' = [req EXCEPT ![r] = k]
  BY <1>1, <1>2 DEF Await
<1>6. TypeOK'
  BY <1>3, <1>4, <1>5 DEF TypeOK, tables, mail, history
<1>7. Standing'
  BY <1>3, StandingKept
<1>8. VerifiedByMail' /\ UnmailedExplained'
  BY <1>3, <1>4, <1>5 DEF VerifiedByMail, UnmailedExplained, At, TypeOK, tables, mail, history
<1>9. TokensApart'
  BY <1>3, <1>4, <1>5 DEF Pending, TokensApart, Drawn, Token, At, TypeOK, tables, mail
<1>10. RowsPending'
  <2>1. u \notin DOMAIN users /\ \A q \in Request : At(q, "createProfile") => req[q].id # u
    BY DEF HeldIds
  <2>2. \A q \in Request : At(q, "createProfile") => req[q].email # req[r].email
    BY <1>3 DEF Inserting
  <2>3. req[r].token # NoToken
    BY <1>3, Locals, AccountsAssumption DEF At
  <2>4. \A q \in Request \ {r} : req'[q] = req[q]
    BY <1>5 DEF TypeOK
  <2>5. req'[r] = k
    BY <1>5 DEF TypeOK
  <2>6. \A e : HasAccount(e)' <=> HasAccount(e)
    BY <1>3 DEF HasAccount, tables
  <2>7. QED
    BY <1>3, <1>4, <2>1, <2>2, <2>3, <2>4, <2>5, <2>6 DEF Pending, RowsPending, At, tables
<1>11. LinksGood' /\ Verifying'
  BY <1>3, <1>4, <1>5 DEF Pending, LinksGood, Verifying, Links, At, TypeOK, tables, mail
<1>12. QED BY <1>6, <1>7, <1>8, <1>9, <1>10, <1>11 DEF Pending

\* Whoever clicks a link was mailed it.
LEMMA VerifyFindStep ==
  ASSUME AccountsInv, NEW r \in Request, NEW m \in inbox, NEW u \in DOMAIN users,
         VerifyFind(r, m, u)
  PROVE  AccountsInv'
<1> USE DEF AccountsInv
<1>1. /\ At(r, "idle") /\ users[u].verificationToken = m.token
      /\ req' = [req EXCEPT ![r] = [pc |-> "verifyStore", id |-> u]]
      /\ UNCHANGED <<now, tables, mail, history>>
  BY DEF VerifyFind, Await
<1>2. TypeOK'
  BY <1>1 DEF TypeOK, Continuation, tables, mail, history
<1>3. Standing'
  BY <1>1, StandingKept
<1>4. VerifiedByMail'
  <2>1. m.to = users[u].email
    BY <1>1 DEF Pending, LinksGood, Links
  <2>2. \A q \in Request \ {r} : req'[q] = req[q]
    BY <1>1 DEF TypeOK
  <2>3. req'[r] = [pc |-> "verifyStore", id |-> u]
    BY <1>1 DEF TypeOK
  <2>4. QED BY <1>1, <2>1, <2>2, <2>3 DEF VerifiedByMail, At, tables, mail
<1>5. UnmailedExplained'
  BY <1>1 DEF UnmailedExplained, At, TypeOK, tables, mail, history
<1>6. Pending'
  BY <1>1 DEF Pending, TokensApart, RowsPending, LinksGood, Verifying, Drawn, Token, HasAccount,
              Links, At, TypeOK, tables, mail
<1>7. QED BY <1>2, <1>3, <1>4, <1>5, <1>6

-----------------------------------------------------------------------------
(* Steps that write tables or send mails. *)

\* The row and its profile appear, and the handler goes on to its mail, or the
\* account is counted as never mailed.
LEMMA CommitStep ==
  ASSUME AccountsInv, NEW r \in Request, CreateProfile(r) \/ CommitUnacknowledged(r)
  PROVE  AccountsInv'
<1> USE DEF AccountsInv
<1>1. PICK e, id, row : e = req[r].email /\ id = req[r].id /\ row = req[r].row
  OBVIOUS
<1>2. At(r, "createProfile") /\ Commit(r) /\ UNCHANGED <<now, mail, announced>>
  BY DEF CreateProfile, CommitUnacknowledged, history
<1>3. /\ DOMAIN users' = DOMAIN users \cup {id} /\ id \notin DOMAIN users
      /\ users'[id] = row /\ \A u \in DOMAIN users : users'[u] = users[u]
      /\ profiles' = profiles \cup {id}
  BY <1>1, <1>2, CommitAdds
<1>4. /\ Standing' /\ \A u \in DOMAIN users' : users'[u] \in UserRow
      /\ \A f, t : Links(f, t) /\ t # row.verificationToken => Links(f, t)'
      /\ Links(e, row.verificationToken)'
  BY <1>1, <1>2, CommitStands
<1>5. /\ e \in Email /\ id \in UserId /\ row \in UserRow /\ row.email = e
      /\ row.isEmailVerified = FALSE /\ row.verificationToken \in VToken
  BY <1>1, <1>2, Locals DEF Pending, RowsPending, UserRow
<1>6. PICK k \in Continuation :
        /\ req' = [req EXCEPT ![r] = k]
        /\ \/ /\ k.pc = "announce" /\ k.email = e /\ k.token = row.verificationToken
              /\ unmailed' = unmailed
           \/ k.pc = "idle" /\ unmailed' = unmailed \cup {e}
  <2>1. CASE CreateProfile(r)
    <3>1. PICK k : k = [pc |-> "announce", email |-> e, token |-> row.verificationToken]
      OBVIOUS
    <3>2. /\ k \in Continuation
          /\ k.pc = "announce" /\ k.email = e /\ k.token = row.verificationToken
      BY <1>5, <3>1 DEF Continuation
    <3>3. req' = [req EXCEPT ![r] = k] /\ unmailed' = unmailed
      BY <1>1, <2>1, <3>1 DEF CreateProfile, Await, history
    <3>4. QED BY <3>2, <3>3
  <2>2. CASE CommitUnacknowledged(r)
    <3>1. Idle \in Continuation /\ Idle.pc = "idle"
      BY DEF Continuation, Idle
    <3>2. req' = [req EXCEPT ![r] = Idle] /\ unmailed' = unmailed \cup {e}
      BY <1>1, <2>2 DEF CommitUnacknowledged, Respond, Await
    <3>3. QED BY <3>1, <3>2
  <2>3. QED BY <2>1, <2>2
<1>7. req'[r] = k /\ \A q \in Request \ {r} : req'[q] = req[q]
  BY <1>6 DEF TypeOK
<1>8. TypeOK'
  BY <1>2, <1>3, <1>4, <1>5, <1>6 DEF TypeOK, mail
<1>9. VerifiedByMail' /\ UnmailedExplained'
  <2>1. \A q \in Request : At(q, "verifyStore")' => At(q, "verifyStore") /\ req'[q] = req[q]
    BY <1>6, <1>7 DEF At
  <2>2. VerifiedByMail'
    BY <1>2, <1>3, <1>5, <2>1 DEF VerifiedByMail, Pending, Verifying, mail
  <2>3. \A q \in Request : At(q, "announce") => At(q, "announce")' /\ req'[q] = req[q]
    BY <1>2, <1>7 DEF At
  <2>4. UnmailedExplained'
    BY <1>2, <1>3, <1>5, <1>6, <1>7, <2>3 DEF UnmailedExplained, At, mail
  <2>5. QED BY <2>2, <2>4
<1>10. \A q \in Request \ {r} : Drawn(q) \/ At(q, "announce") => Token(q) # row.verificationToken
  BY <1>1, <1>2 DEF Pending, TokensApart, Drawn, Token, At
<1>11. TokensApart'
  BY <1>2, <1>3, <1>6, <1>7, <1>10 DEF Pending, TokensApart, Drawn, Token, At, mail
<1>12. RowsPending'
  <2>1. \A q \in Request \ {r} : At(q, "createProfile") => req[q].id # id /\ req[q].email # e
    BY <1>1, <1>2 DEF Pending, RowsPending
  <2>2. \A f : f # e /\ ~HasAccount(f) => ~HasAccount(f)'
    BY <1>3, <1>5 DEF HasAccount
  <2>3. QED BY <1>3, <1>6, <1>7, <2>1, <2>2 DEF Pending, RowsPending, At
<1>13. LinksGood'
  <2>1. \A m \in outbox \cup inbox : Links(m.to, m.token) /\ m.token # row.verificationToken
    BY <1>1, <1>2 DEF Pending, LinksGood, TokensApart, Drawn, Token, At
  <2>2. \A q \in Request \ {r} : At(q, "announce") =>
          Links(req[q].email, req[q].token) /\ req[q].token # row.verificationToken
    BY <1>10 DEF Pending, LinksGood, Token, At
  <2>3. \A m \in (outbox \cup inbox)' : Links(m.to, m.token)'
    BY <1>2, <1>4, <2>1 DEF mail
  <2>4. \A q \in Request : \A f, t : At(q, "announce")' /\ f = req'[q].email /\ t = req'[q].token
          => Links(f, t)'
    BY <1>4, <1>6, <1>7, <2>2 DEF At
  <2>5. QED BY <2>3, <2>4 DEF LinksGood
<1>14. Verifying'
  BY <1>3, <1>6, <1>7 DEF Pending, Verifying, At
<1>15. QED BY <1>4, <1>8, <1>9, <1>11, <1>12, <1>13, <1>14 DEF Pending

LEMMA AnnounceStep ==
  ASSUME AccountsInv, NEW r \in Request, Announce(r)
  PROVE  AccountsInv'
<1> USE DEF AccountsInv
<1>1. PICK e, t : e = req[r].email /\ t = req[r].token
  OBVIOUS
<1>2. /\ At(r, "announce") /\ UNCHANGED <<now, users, profiles, inbox, unmailed>>
      /\ outbox' = outbox \cup {[to |-> e, token |-> t]} /\ announced' = announced \cup {e}
      /\ req' = [req EXCEPT ![r] = Idle]
  BY <1>1 DEF Announce, Respond, Await, tables
<1>3. e \in Email /\ t \in VToken /\ Links(e, t)
  BY <1>1, <1>2, Locals DEF Pending, LinksGood
<1>4. req'[r] = [pc |-> "idle"] /\ \A q \in Request \ {r} : req'[q] = req[q]
  BY <1>2 DEF TypeOK, Idle
<1>5. TypeOK'
  BY <1>2, <1>3 DEF TypeOK, Continuation, Mail
<1>6. Standing'
  <2>1. AddressesApart' /\ ProfilesPaired' /\ TokenUntilVerified'
    BY <1>2 DEF Standing, AddressesApart, ProfilesPaired, TokenUntilVerified
  <2>2. AnnouncedExist'
    BY <1>2, <1>3 DEF Standing, AnnouncedExist, HasAccount, Links
  <2>3. QED BY <2>1, <2>2 DEF Standing
<1>7. VerifiedByMail'
  BY <1>2, <1>4 DEF VerifiedByMail, At
<1>8. UnmailedExplained'
  <2> SUFFICES ASSUME NEW u \in DOMAIN users
               PROVE  \/ \E m \in (outbox \cup inbox)' : m.to = users[u].email
                      \/ \E q \in Request : At(q, "announce")' /\ req'[q].email = users[u].email
                      \/ users[u].email \in unmailed
    BY <1>2 DEF UnmailedExplained
  <2>1. PICK m : m = [to |-> e, token |-> t]
    OBVIOUS
  <2>2. m \in outbox' /\ m.to = e /\ outbox \subseteq outbox'
    BY <1>2, <2>1
  <2>3. CASE \E q \in Request : At(q, "announce") /\ req[q].email = users[u].email
    BY <1>1, <1>4, <2>2, <2>3 DEF At
  <2>4. QED BY <1>2, <2>2, <2>3 DEF UnmailedExplained
<1>9. TokensApart'
  <2>1. \A q \in Request : Drawn(q) => Token(q) # t
    BY <1>1, <1>2 DEF Pending, TokensApart, Drawn, Token, At
  <2>2. QED BY <1>2, <1>4, <2>1 DEF Pending, TokensApart, Drawn, Token, At
<1>10. RowsPending' /\ Verifying'
  BY <1>2, <1>4 DEF Pending, RowsPending, Verifying, HasAccount, At
<1>11. LinksGood'
  BY <1>2, <1>3, <1>4 DEF Pending, LinksGood, Links, At
<1>12. QED BY <1>5, <1>6, <1>7, <1>8, <1>9, <1>10, <1>11 DEF Pending

\* A link used up is good for nothing else.
LEMMA VerifyStoreStep ==
  ASSUME AccountsInv, NEW r \in Request, VerifyStore(r)
  PROVE  AccountsInv'
<1> USE DEF AccountsInv
<1>1. PICK id : id = req[r].id
  OBVIOUS
<1>2. At(r, "verifyStore") /\ id \in DOMAIN users
  BY <1>1 DEF VerifyStore, Pending, Verifying
<1>3. PICK old \in UserRow : old = users[id]
  BY <1>2 DEF TypeOK
<1>4. PICK new : new = [old EXCEPT !.isEmailVerified = TRUE, !.verificationToken = NoToken,
                                   !.verificationTokenExpiresAt = 0]
  OBVIOUS
<1>5. /\ new \in UserRow /\ new.email = old.email
      /\ new.isEmailVerified = TRUE /\ new.verificationToken = NoToken
  BY <1>4 DEF UserRow
<1>6. /\ users' = [users EXCEPT ![id] = new] /\ req' = [req EXCEPT ![r] = Idle]
      /\ UNCHANGED <<now, profiles, mail, history>>
  BY <1>1, <1>3, <1>4 DEF VerifyStore, Respond, Await
<1>7. /\ DOMAIN users' = DOMAIN users /\ users'[id] = new
      /\ \A u \in DOMAIN users \ {id} : users'[u] = users[u]
      /\ \A u \in DOMAIN users : users'[u].email = users[u].email
  BY <1>2, <1>3, <1>5, <1>6
<1>8. req'[r] = [pc |-> "idle"] /\ \A q \in Request \ {r} : req'[q] = req[q]
  BY <1>6 DEF TypeOK, Idle
<1>9. TypeOK'
  BY <1>5, <1>6, <1>7 DEF TypeOK, Continuation, mail, history
<1>10. Standing'
  <2>1. AddressesApart' /\ ProfilesPaired'
    BY <1>6, <1>7 DEF Standing, AddressesApart, ProfilesPaired
  <2>2. AnnouncedExist'
    BY <1>5, <1>6, <1>7 DEF Standing, AnnouncedExist, HasAccount, mail, history
  <2>3. \A u \in DOMAIN users : (users[u].isEmailVerified <=> users[u].verificationToken = NoToken)
    BY DEF Standing, TokenUntilVerified
  <2>4. users'[id].isEmailVerified /\ users'[id].verificationToken = NoToken
    BY <1>5, <1>7
  <2>5. TokenUntilVerified'
    BY <1>7, <2>3, <2>4 DEF TokenUntilVerified
  <2>6. QED BY <2>1, <2>2, <2>5 DEF Standing
<1>11. VerifiedByMail'
  <2>1. \E m \in inbox : m.to = users[id].email
    BY <1>1, <1>2 DEF VerifiedByMail
  <2>2. QED BY <1>6, <1>7, <1>8, <2>1 DEF VerifiedByMail, At, mail
<1>12. UnmailedExplained'
  BY <1>2, <1>6, <1>7, <1>8 DEF UnmailedExplained, At, mail, history
<1>13. TokensApart'
  <2>1. \A q \in Request : Drawn(q) => Token(q) # NoToken
    BY Locals, AccountsAssumption DEF Pending, RowsPending, Drawn, Token, At
  <2>2. QED BY <1>5, <1>6, <1>7, <1>8, <2>1 DEF Pending, TokensApart, Drawn, Token, At, mail
<1>14. RowsPending' /\ Verifying'
  BY <1>7, <1>8 DEF Pending, RowsPending, Verifying, HasAccount, At
<1>15. LinksGood'
  <2>1. /\ \A m \in outbox \cup inbox : m.token \in VToken
        /\ \A q \in Request : At(q, "announce") => req[q].token \in VToken
    BY Locals DEF TypeOK, Mail
  <2>2. \A e : \A t \in VToken : Links(e, t) => Links(e, t)'
    BY <1>5, <1>7, AccountsAssumption DEF Links
  <2>3. \A m \in (outbox \cup inbox)' : Links(m.to, m.token)'
    BY <1>6, <2>1, <2>2 DEF Pending, LinksGood, mail
  <2>4. \A q \in Request : \A e, t : At(q, "announce")' /\ e = req'[q].email /\ t = req'[q].token
          => Links(e, t)'
    BY <1>8, <2>1, <2>2 DEF Pending, LinksGood, At
  <2>5. QED BY <2>3, <2>4 DEF LinksGood
<1>16. QED BY <1>9, <1>10, <1>11, <1>12, <1>13, <1>14, <1>15 DEF Pending

\* A mail that arrives, bounces or is cut off with the process.
LEMMA MailStep ==
  ASSUME AccountsInv, NEW m \in outbox, Deliver(m) \/ Bounce(m)
  PROVE  AccountsInv'
<1> USE DEF AccountsInv
<1>1. /\ UNCHANGED <<now, tables, announced, req>> /\ inbox \subseteq inbox'
      /\ (outbox \cup inbox)' \subseteq outbox \cup inbox
      /\ \/ (outbox \cup inbox)' = outbox \cup inbox /\ unmailed' = unmailed
         \/ (outbox \cup inbox)' = (outbox \ {m}) \cup inbox /\ unmailed' = unmailed \cup {m.to}
  BY DEF Deliver, Bounce, history
<1>2. TypeOK'
  BY <1>1 DEF TypeOK, Mail, tables
<1>3. Standing'
  BY <1>1 DEF Standing, AddressesApart, ProfilesPaired, AnnouncedExist, TokenUntilVerified,
              HasAccount, tables
<1>4. VerifiedByMail' /\ UnmailedExplained'
  BY <1>1 DEF VerifiedByMail, UnmailedExplained, At, tables
<1>5. Pending'
  BY <1>1 DEF Pending, TokensApart, RowsPending, LinksGood, Verifying, Drawn, Token, HasAccount,
              Links, At, tables
<1>6. QED BY <1>2, <1>3, <1>4, <1>5

LEMMA RestartStep ==
  ASSUME AccountsInv, Restart
  PROVE  AccountsInv'
<1> USE DEF AccountsInv
<1>1. /\ req' = [r \in Request |-> [pc |-> "idle"]] /\ outbox' = {}
      /\ unmailed' = unmailed \cup {m.to : m \in outbox} \cup UNION {Announcing(r) : r \in Request}
      /\ UNCHANGED <<now, tables, inbox, announced>>
  BY DEF Restart, Idle
<1>2. \A r \in Request : Announcing(r) \subseteq Email
  BY Locals DEF Announcing
<1>3. TypeOK'
  BY <1>1, <1>2 DEF TypeOK, Mail, Continuation, Idle, tables
<1>4. Standing'
  BY <1>1 DEF Standing, AddressesApart, ProfilesPaired, AnnouncedExist, TokenUntilVerified,
              HasAccount, tables
<1>5. VerifiedByMail'
  BY <1>1 DEF VerifiedByMail, At, tables
<1>6. UnmailedExplained'
  BY <1>1 DEF UnmailedExplained, Announcing, At, tables
<1>7. Pending'
  BY <1>1 DEF Pending, TokensApart, RowsPending, LinksGood, Verifying, Drawn, Token, HasAccount,
              Links, At, tables
<1>8. QED BY <1>3, <1>4, <1>5, <1>6, <1>7

-----------------------------------------------------------------------------
(* The theorems. *)

LEMMA InvInit == Init => AccountsInv
<1> SUFFICES ASSUME Init PROVE AccountsInv
  OBVIOUS
<1>1. TypeOK
  BY AccountsAssumption DEF Init, TypeOK, Continuation
<1>2. Standing /\ VerifiedByMail /\ UnmailedExplained
  BY DEF Init, Standing, AddressesApart, ProfilesPaired, AnnouncedExist, TokenUntilVerified,
         VerifiedByMail, UnmailedExplained, HasAccount
<1>3. Pending
  BY DEF Init, Pending, TokensApart, RowsPending, LinksGood, Verifying, Drawn, At, Idle
<1>4. QED BY <1>1, <1>2, <1>3 DEF AccountsInv

LEMMA InvNext == AccountsInv /\ [Next]_vars => AccountsInv'
<1> SUFFICES ASSUME AccountsInv, [Next]_vars PROVE AccountsInv'
  OBVIOUS
<1>1. ASSUME NEW r \in Request, NEW e \in Email, RegisterFind(r, e) PROVE AccountsInv'
  <2>1. PICK k : k = [pc |-> "registerHash", email |-> e]
    OBVIOUS
  <2>2. k \in Continuation /\ k.pc = "registerHash" /\ Await(r, k) /\ ~At(r, "announce")
    BY <1>1, <2>1 DEF RegisterFind, Continuation, At
  <2>3. QED BY <1>1, <2>2, QuietStep DEF RegisterFind
<1>2. ASSUME NEW r \in Request, NEW m \in inbox, NEW u \in DOMAIN users, VerifyFind(r, m, u)
      PROVE  AccountsInv'
  BY <1>2, VerifyFindStep
<1>3. ASSUME NEW r \in Request, CreateConflict(r) \/ Fail(r) PROVE AccountsInv'
  <2>1. Idle \in Continuation /\ Idle.pc = "idle"
    BY DEF Continuation, Idle
  <2>2. Await(r, Idle) /\ ~At(r, "announce") /\ UNCHANGED <<now, tables, mail, history>>
    BY <1>3 DEF CreateConflict, Fail, Respond, At
  <2>3. QED BY <2>1, <2>2, QuietStep
<1>4. ASSUME NEW r \in Request, Server(r) \/ CommitUnacknowledged(r) PROVE AccountsInv'
  BY <1>3, <1>4, RegisterHashStep, BeginStep, CreateUserStep, CommitStep, AnnounceStep,
     VerifyStoreStep DEF Server
<1>5. ASSUME NEW m \in outbox, Deliver(m) \/ Bounce(m) PROVE AccountsInv'
  BY <1>5, MailStep
<1>6. CASE Restart
  BY <1>6, RestartStep
<1>7. CASE Tick
  <2>1. TypeOK'
    BY <1>7, AccountsAssumption DEF Tick, AccountsInv, TypeOK, tables, mail, history
  <2>2. Standing' /\ VerifiedByMail' /\ UnmailedExplained' /\ Pending'
    BY <1>7, StandingKept DEF Tick, AccountsInv, VerifiedByMail, UnmailedExplained, Pending,
       TokensApart, RowsPending, LinksGood, Verifying, Drawn, Token, HasAccount, Links, At,
       tables, mail, history
  <2>3. QED BY <2>1, <2>2 DEF AccountsInv
<1>8. CASE UNCHANGED vars
  BY <1>8, StandingKept DEF vars, AccountsInv, TypeOK, VerifiedByMail, UnmailedExplained, Pending,
     TokensApart, RowsPending, LinksGood, Verifying, Drawn, Token, HasAccount, Links, At,
     tables, mail, history
<1>9. QED
  BY <1>1, <1>2, <1>3, <1>4, <1>5, <1>6, <1>7, <1>8 DEF Next, Start

(* The inductive invariant of registration and verification: what the rows hold, and what each handler
   between two awaits knows of them, under every step, failure and restart. *)
THEOREM AccountsInductive == Spec => []AccountsInv
BY InvInit, InvNext, PTL DEF Spec

\* Registration and verification keep their types: every handler has exactly the
\* locals it goes on to use.
THEOREM AccountsTypeCorrect == Spec => []TypeOK
BY AccountsInductive, PTL DEF AccountsInv

\* Concurrent registrations never leave two accounts of one address.
THEOREM AddressesStayApart == Spec => []AddressesApart
BY AccountsInductive, PTL DEF AccountsInv, Standing

\* Users and profiles are committed together or not at all.
THEOREM ProfilesStayPaired == Spec => []ProfilesPaired
BY AccountsInductive, PTL DEF AccountsInv, Standing

\* Nothing is mailed, answered or broadcast ahead of the commit.
THEOREM AnnouncedAlwaysExist == Spec => []AnnouncedExist
BY AccountsInductive, PTL DEF AccountsInv, Standing

\* The isEmailVerified branch of verifyEmail is dead.
THEOREM VerifiedHoldNoToken == Spec => []TokenUntilVerified
BY AccountsInductive, PTL DEF AccountsInv, Standing

\* Only a mailed link verifies, and only its own address.
THEOREM VerifiedWereMailed == Spec => []VerifiedByMail
BY AccountsInductive, PTL DEF AccountsInv

\* Every account that was never mailed has a failure to blame.
THEOREM UnmailedHaveCause == Spec => []UnmailedExplained
BY AccountsInductive, PTL DEF AccountsInv

-----------------------------------------------------------------------------
(* The tables and the mailboxes implement AddressBook. *)

\* An address is sent one mail at most.
OneMail ==
  /\ \A m \in outbox : m \notin inbox
  /\ \A m1, m2 \in outbox \cup inbox : m1.to = m2.to => m1 = m2
  /\ \A r \in Request : At(r, "announce") =>
       /\ \A m \in outbox \cup inbox : m.to # req[r].email
       /\ \A q \in Request \ {r} : At(q, "announce") => req[q].email # req[r].email

\* What a step does to the rows of users and to the mails.
LEMMA BookSteps ==
  ASSUME AccountsInv, [Next]_vars
  PROVE  \/ /\ UNCHANGED <<users, mail>>
            /\ \A r \in Request : At(r, "announce")' => At(r, "announce") /\ req'[r] = req[r]
         \/ \E r \in Request : CreateProfile(r) \/ CommitUnacknowledged(r) \/ Announce(r)
                               \/ VerifyStore(r)
         \/ \E m \in outbox : Deliver(m) \/ Bounce(m)
         \/ Restart
<1> DEFINE Quiet == /\ UNCHANGED <<users, mail>>
                    /\ \A r \in Request : At(r, "announce")' => At(r, "announce") /\ req'[r] = req[r]
<1>1. ASSUME NEW r \in Request, NEW k, k.pc # "announce", Await(r, k), UNCHANGED <<users, mail>>
      PROVE  Quiet
  BY <1>1 DEF AccountsInv, TypeOK, Await, At
<1>2. ASSUME NEW r \in Request, NEW e \in Email, RegisterFind(r, e) PROVE Quiet
  BY <1>1, <1>2 DEF RegisterFind, tables
<1>3. ASSUME NEW r \in Request, NEW m \in inbox, NEW u \in DOMAIN users, VerifyFind(r, m, u)
      PROVE  Quiet
  BY <1>1, <1>3 DEF VerifyFind, tables
<1>4. ASSUME NEW r \in Request, RegisterHash(r) PROVE Quiet
  BY <1>1, <1>4 DEF RegisterHash, tables
<1>5. ASSUME NEW r \in Request, Begin(r) PROVE Quiet
  <2>1. PICK k : k = [req[r] EXCEPT !.pc = "createUser"]
    OBVIOUS
  <2>2. k.pc = "createUser"
    <3>1. PICK old \in Continuation : old = req[r]
      BY DEF AccountsInv, TypeOK
    <3>2. old.pc = "begin"
      BY <1>5, <3>1 DEF Begin, At
    <3>3. QED BY <2>1, <3>1, <3>2 DEF Continuation, Idle
  <2>3. Await(r, k) /\ UNCHANGED <<users, mail>>
    BY <1>5, <2>1 DEF Begin, tables
  <2>4. QED BY <1>1, <2>2, <2>3
<1>6. ASSUME NEW r \in Request, CreateUser(r) PROVE Quiet
  BY <1>1, <1>6 DEF CreateUser, tables
<1>7. ASSUME NEW r \in Request, CreateConflict(r) \/ Fail(r) PROVE Quiet
  BY <1>1, <1>7 DEF CreateConflict, Fail, Respond, Idle, tables
<1>8. Tick \/ UNCHANGED vars => Quiet
  BY DEF Tick, vars, tables, mail, At
<1> HIDE DEF Quiet
<1>9. ASSUME NEW r \in Request, Start(r) \/ Server(r) \/ Fail(r)
      PROVE  Quiet \/ CreateProfile(r) \/ Announce(r) \/ VerifyStore(r)
  BY <1>2, <1>3, <1>4, <1>5, <1>6, <1>7, <1>9 DEF Start, Server
<1>10. Quiet \/ (\E r \in Request : CreateProfile(r) \/ CommitUnacknowledged(r) \/ Announce(r)
                                   \/ VerifyStore(r))
             \/ (\E m \in outbox : Deliver(m) \/ Bounce(m)) \/ Restart
  BY <1>8, <1>9 DEF Next
<1>11. QED BY <1>10 DEF Quiet

LEMMA OneMailStep ==
  ASSUME AccountsInv, OneMail, [Next]_vars
  PROVE  OneMail'
<1>r. req \in [Request -> Continuation]
  BY DEF AccountsInv, TypeOK
<1>1. CASE /\ UNCHANGED <<users, mail>>
           /\ \A r \in Request : At(r, "announce")' => At(r, "announce") /\ req'[r] = req[r]
  BY <1>1 DEF OneMail, mail
<1>2. ASSUME NEW r \in Request, CreateProfile(r) PROVE OneMail'
  <2>1. PICK e, k : /\ e = req[r].email
                    /\ k = [pc |-> "announce", email |-> req[r].email,
                            token |-> req[r].row.verificationToken]
    OBVIOUS
  <2>2. req' = [req EXCEPT ![r] = k] /\ UNCHANGED mail /\ At(r, "createProfile")
    BY <1>2, <2>1 DEF CreateProfile, Await
  <2>3. req'[r] = k /\ k.email = e /\ \A q \in Request \ {r} : req'[q] = req[q]
    BY <1>r, <2>1, <2>2
  <2>4. ~HasAccount(e)
    BY <2>1, <2>2 DEF AccountsInv, Pending, RowsPending
  <2>5. \A m \in outbox \cup inbox : m.to # e
    BY <2>4 DEF AccountsInv, Standing, AnnouncedExist, HasAccount
  <2>6. \A q \in Request : At(q, "announce") => req[q].email # e
    BY <2>4 DEF AccountsInv, Pending, LinksGood, Links, HasAccount
  <2>7. QED BY <2>2, <2>3, <2>5, <2>6 DEF OneMail, At, mail
<1>3. ASSUME NEW r \in Request, CommitUnacknowledged(r) PROVE OneMail'
  BY <1>r, <1>3 DEF CommitUnacknowledged, Respond, Await, Idle, OneMail, At, mail
<1>4. ASSUME NEW r \in Request, VerifyStore(r) PROVE OneMail'
  BY <1>r, <1>4 DEF VerifyStore, Respond, Await, Idle, OneMail, At, mail
<1>5. ASSUME NEW r \in Request, Announce(r) PROVE OneMail'
  <2>1. PICK e, m : e = req[r].email /\ m = [to |-> e, token |-> req[r].token]
    OBVIOUS
  <2>2. /\ At(r, "announce") /\ outbox' = outbox \cup {m} /\ UNCHANGED inbox /\ m.to = e
        /\ req' = [req EXCEPT ![r] = Idle]
    BY <1>5, <2>1 DEF Announce, Respond, Await
  <2>3. req'[r].pc = "idle" /\ \A q \in Request \ {r} : req'[q] = req[q]
    BY <1>r, <2>2 DEF Idle
  <2>4. /\ \A x \in outbox \cup inbox : x.to # e
        /\ \A q \in Request \ {r} : At(q, "announce") => req[q].email # e
    BY <2>1, <2>2 DEF OneMail
  <2>5. QED BY <2>2, <2>3, <2>4 DEF OneMail, At
<1>6. ASSUME NEW m \in outbox, Deliver(m) \/ Bounce(m) PROVE OneMail'
  BY <1>6 DEF Deliver, Bounce, OneMail, At
<1>7. CASE Restart
  BY <1>7 DEF Restart, Idle, OneMail, At
<1>8. QED BY <1>1, <1>2, <1>3, <1>4, <1>5, <1>6, <1>7, BookSteps

\* The tables as Book sees them, by name.
opened == {users[u].email : u \in DOMAIN users}
links == {[to |-> users[u].email, token |-> users[u].verificationToken] :
            u \in {x \in DOMAIN users : ~users[x].isEmailVerified}}

\* A commit opens an account with a link of its own.
LEMMA CommitOpens ==
  ASSUME AccountsInv, NEW r \in Request, CreateProfile(r) \/ CommitUnacknowledged(r)
  PROVE  Book!BookNext
<1>1. PICK e, id, row : e = req[r].email /\ id = req[r].id /\ row = req[r].row
  OBVIOUS
<1>2. At(r, "createProfile") /\ Commit(r) /\ UNCHANGED mail
  BY DEF CreateProfile, CommitUnacknowledged
<1>3. /\ DOMAIN users' = DOMAIN users \cup {id} /\ id \notin DOMAIN users
      /\ users'[id] = row /\ \A u \in DOMAIN users : users'[u] = users[u]
  BY <1>1, <1>2, CommitAdds
<1>4. /\ e \in Email /\ row.email = e /\ ~row.isEmailVerified /\ row.verificationToken \in VToken
      /\ ~HasAccount(e)
  BY <1>1, <1>2, Locals DEF AccountsInv, Pending, RowsPending, UserRow
<1>5. /\ \A u \in DOMAIN users : users[u].verificationToken # row.verificationToken
      /\ \A m \in outbox \cup inbox : m.token # row.verificationToken
  BY <1>1, <1>2 DEF AccountsInv, Pending, TokensApart, Drawn, Token, At
<1>6. opened' = opened \cup {e} /\ e \notin opened
  BY <1>3, <1>4 DEF opened, HasAccount
<1>7. links' = links \cup {[to |-> e, token |-> row.verificationToken]}
  <2>1. {x \in DOMAIN users' : ~users'[x].isEmailVerified}
          = {x \in DOMAIN users : ~users[x].isEmailVerified} \cup {id}
    BY <1>3, <1>4
  <2>2. QED BY <1>3, <1>4, <2>1 DEF links
<1>8. \A l \in links \cup inbox : l.token # row.verificationToken
  BY <1>5 DEF links
<1>9. Book!Open(e, row.verificationToken)
  BY <1>2, <1>6, <1>7, <1>8 DEF Book!Open, opened, links, mail
<1>10. QED BY <1>4, <1>9 DEF Book!BookNext

\* A mail that arrives carries the link its account still holds, and is the first.
LEMMA DeliveryReceives ==
  ASSUME AccountsInv, OneMail, NEW m \in outbox, Deliver(m)
  PROVE  Book!BookNext
<1>1. /\ inbox' = inbox \cup {m} /\ UNCHANGED users
  BY DEF Deliver, tables
<1>2. PICK u \in DOMAIN users : users[u].email = m.to /\ users[u].verificationToken \in {m.token, NoToken}
  BY DEF AccountsInv, Standing, AnnouncedExist
<1>3. \A x \in inbox : x.to # m.to
  BY DEF OneMail
<1>4. ~users[u].isEmailVerified
  BY <1>2, <1>3 DEF AccountsInv, VerifiedByMail
<1>5. users[u].verificationToken = m.token
  BY <1>2, <1>4 DEF AccountsInv, Standing, TokenUntilVerified
<1>6. m = [to |-> users[u].email, token |-> users[u].verificationToken]
  BY <1>2, <1>5 DEF AccountsInv, TypeOK, Mail
<1>7. m \in links
  BY <1>4, <1>6 DEF links
<1>8. Book!Receive(m)
  BY <1>1, <1>3 DEF Book!Receive
<1>9. QED BY <1>7, <1>8 DEF Book!BookNext, links

\* A verification spends the link of its account, which is in the mailbox, or was
\* spent by another.
LEMMA VerificationSpends ==
  ASSUME AccountsInv, NEW r \in Request, VerifyStore(r)
  PROVE  Book!BookNext \/ UNCHANGED <<opened, links, inbox>>
<1>1. PICK id : id = req[r].id
  OBVIOUS
<1>2. At(r, "verifyStore") /\ id \in DOMAIN users
  BY <1>1 DEF VerifyStore, AccountsInv, Pending, Verifying
<1>3. PICK old \in UserRow : old = users[id]
  BY <1>2 DEF AccountsInv, TypeOK
<1>4. PICK new : new = [old EXCEPT !.isEmailVerified = TRUE, !.verificationToken = NoToken,
                                   !.verificationTokenExpiresAt = 0]
  OBVIOUS
<1>5. new.email = old.email /\ new.isEmailVerified = TRUE
  BY <1>4 DEF UserRow
<1>6. users' = [users EXCEPT ![id] = new] /\ UNCHANGED inbox
  BY <1>1, <1>3, <1>4 DEF VerifyStore, mail
<1>7. /\ DOMAIN users' = DOMAIN users /\ users'[id] = new
      /\ \A u \in DOMAIN users \ {id} : users'[u] = users[u]
      /\ \A u \in DOMAIN users : users'[u].email = users[u].email
  BY <1>2, <1>3, <1>5, <1>6
<1>8. UNCHANGED opened
  BY <1>7 DEF opened
<1>9. CASE users[id].isEmailVerified
  <2>1. UNCHANGED links
    <3>1. {x \in DOMAIN users' : ~users'[x].isEmailVerified}
            = {x \in DOMAIN users : ~users[x].isEmailVerified}
      BY <1>5, <1>7, <1>9
    <3>2. \A x \in DOMAIN users : ~users[x].isEmailVerified => users'[x] = users[x]
      BY <1>7, <1>9
    <3>3. QED BY <3>1, <3>2 DEF links
  <2>2. QED BY <1>6, <1>8, <2>1
<1>10. CASE ~users[id].isEmailVerified
  <2>1. PICK l : l = [to |-> users[id].email, token |-> users[id].verificationToken]
    OBVIOUS
  <2>2. links' = links \ {l}
    <3>1. {x \in DOMAIN users' : ~users'[x].isEmailVerified}
            = {x \in DOMAIN users : ~users[x].isEmailVerified} \ {id}
      BY <1>5, <1>7, <1>10
    <3>2. \A x \in DOMAIN users \ {id} : users'[x] = users[x] /\ users[x].email # users[id].email
      BY <1>2, <1>7 DEF AccountsInv, Standing, AddressesApart
    <3>3. QED BY <2>1, <3>1, <3>2 DEF links
  <2>3. PICK m \in inbox : m.to = users[id].email
    BY <1>1, <1>2 DEF AccountsInv, VerifiedByMail
  <2>4. PICK u \in DOMAIN users : users[u].email = m.to /\ users[u].verificationToken \in {m.token, NoToken}
    BY DEF AccountsInv, Standing, AnnouncedExist
  <2>5. u = id
    BY <1>2, <2>3, <2>4 DEF AccountsInv, Standing, AddressesApart
  <2>6. users[id].verificationToken = m.token
    BY <1>2, <1>10, <2>4, <2>5 DEF AccountsInv, Standing, TokenUntilVerified
  <2>7. l = m
    BY <2>1, <2>3, <2>6 DEF AccountsInv, TypeOK, Mail
  <2>8. l \in links
    BY <1>2, <1>10, <2>1 DEF links
  <2>9. Book!Verify(l)
    BY <1>6, <1>8, <2>2, <2>3, <2>7 DEF Book!Verify, opened, links
  <2>10. QED BY <2>8, <2>9 DEF Book!BookNext, links
<1>11. QED BY <1>9, <1>10

\* Registration and verification implement AddressBook: an account is opened once
\* and with a link of its own, mailed at most once and to its own address, and
\* nothing else verifies it, whatever fails.
THEOREM TablesKeepBook == Spec => ImplementsBook
<1>1. Init => OneMail /\ Book!BookInit
  BY DEF Init, OneMail, Book!BookInit, At, Idle
<1>2. AccountsInv /\ OneMail /\ [Next]_vars => OneMail'
  BY OneMailStep
<1>3. AccountsInv /\ OneMail /\ [Next]_vars => [Book!BookNext]_Book!book
  <2> SUFFICES ASSUME AccountsInv, OneMail, [Next]_vars
               PROVE  Book!BookNext \/ UNCHANGED <<opened, links, inbox>>
    BY DEF Book!book, opened, links
  <2>1. CASE UNCHANGED <<users, inbox>>
    BY <2>1 DEF opened, links
  <2>2. ASSUME NEW r \in Request, Announce(r) PROVE UNCHANGED <<users, inbox>>
    BY <2>2 DEF Announce, tables
  <2>3. ASSUME NEW m \in outbox, Bounce(m) PROVE UNCHANGED <<users, inbox>>
    BY <2>3 DEF Bounce, tables
  <2>4. Restart \/ UNCHANGED <<users, mail>> => UNCHANGED <<users, inbox>>
    BY DEF Restart, tables, mail
  <2>5. QED BY <2>1, <2>2, <2>3, <2>4, BookSteps, CommitOpens, DeliveryReceives, VerificationSpends
<1>4. QED BY <1>1, <1>2, <1>3, AccountsInductive, PTL DEF Spec, ImplementsBook, Book!BookSpec

=============================================================================
