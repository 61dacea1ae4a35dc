------------------------------ MODULE Accounts ------------------------------
(***************************************************************************)
(* Registration and e-mail verification: register creates a user and its   *)
(* profile in one interactive transaction, then mails a token in the       *)
(* background and announces the account; verifyEmail exchanges the token   *)
(* for isEmailVerified.  Handlers run from await to await on a pool of     *)
(* database connections, and the process may stop and start again between  *)
(* any two steps.  A rejected request that wrote nothing is a stuttering   *)
(* step.                                                                   *)
(***************************************************************************)
EXTENDS Naturals, FiniteSets

CONSTANTS
  Email,      \* addresses, as emailSchema normalizes them
  UserId,     \* UUIDs drawn for rows
  VToken,     \* random verification tokens
  Request,    \* requests that may be in flight at once
  NoToken,    \* null in the verificationToken column
  VerifyTtl,  \* TOKEN_EXPIRY.EMAIL_VERIFY_MS
  PoolSize,   \* max of the connection pool
  MaxTime,    \* bound on the clock
  MayFail     \* a statement or a mail may fail, the process may stop

ASSUME AccountsAssumption ==
  /\ VerifyTtl \in Nat /\ MaxTime \in Nat
  /\ PoolSize \in Nat \ {0}
  /\ MayFail \in BOOLEAN
  /\ NoToken \notin VToken

VARIABLES
  now,        \* the clock
  users,      \* table users, by id: the columns registration and verification use
  profiles,   \* table profiles: the user ids that have one
  outbox,     \* mails handed to the transport
  inbox,      \* mails that reached their mailbox
  announced,  \* addresses answered 201 and broadcast as "signup"
  unmailed,   \* history: addresses of accounts whose mail failed or was cut off
  req         \* continuation of each request

vars == <<now, users, profiles, outbox, inbox, announced, unmailed, req>>
tables == <<users, profiles>>
mail == <<outbox, inbox>>
history == <<announced, unmailed>>

UserRow == [email : Email, verificationToken : VToken \cup {NoToken},
            verificationTokenExpiresAt : Nat, isEmailVerified : BOOLEAN]
Mail == [to : Email, token : VToken]

-----------------------------------------------------------------------------

Idle == [pc |-> "idle"]
At(r, pc) == req[r].pc = pc
Await(r, k) == req' = [req EXCEPT ![r] = k]
Respond(r) == Await(r, Idle)

\* Random values are drawn apart from all that are in use; one that was drawn for
\* nothing may as well be drawn again.
HeldTokens ==
  {users[u].verificationToken : u \in DOMAIN users}
  \cup {m.token : m \in outbox \cup inbox}
  \cup {req[r].token : r \in {q \in Request : req[q].pc \in {"begin", "createUser", "announce"}}}
  \cup {req[r].row.verificationToken : r \in {q \in Request : At(q, "createProfile")}}
HeldIds ==
  DOMAIN users \cup {req[r].id : r \in {q \in Request : At(q, "createProfile")}}

HasAccount(e) == \E u \in DOMAIN users : users[u].email = e

\* A transaction keeps its connection from begin to commit; any other statement
\* needs one for itself.
InTransaction(r) == req[r].pc \in {"createUser", "createProfile"}
ConnectionFree == Cardinality({r \in Request : InTransaction(r)}) < PoolSize

-----------------------------------------------------------------------------
(* AuthService.register. *)

\* findByEmail finds no one; an existing account is answered 409.
RegisterFind(r, e) ==
  /\ At(r, "idle") /\ ConnectionFree
  /\ ~HasAccount(e)
  /\ Await(r, [pc |-> "registerHash", email |-> e])
  /\ UNCHANGED <<now, tables, mail, history>>

\* After bcrypt a token is drawn and its expiry computed.
RegisterHash(r) ==
  /\ At(r, "registerHash")
  /\ \E t \in VToken \ HeldTokens :
       Await(r, [pc |-> "begin", email |-> req[r].email, token |-> t,
                 exp |-> now + VerifyTtl])
  /\ UNCHANGED <<now, tables, mail, history>>

\* $transaction waits for a connection.
Begin(r) ==
  /\ At(r, "begin") /\ ConnectionFree
  /\ Await(r, [req[r] EXCEPT !.pc = "createUser"])
  /\ UNCHANGED <<now, tables, mail, history>>

\* The row an uncommitted transaction has inserted: the unique index makes
\* another insert of the address wait for its end.
Inserting(e) == \E r \in Request : At(r, "createProfile") /\ req[r].email = e

NewUser(r) ==
  [email |-> req[r].email, verificationToken |-> req[r].token,
   verificationTokenExpiresAt |-> req[r].exp, isEmailVerified |-> FALSE]

CreateUserUnchecked(r) ==
  /\ At(r, "createUser") /\ ~Inserting(req[r].email)
  /\ \E u \in UserId \ HeldIds :
       Await(r, [pc |-> "createProfile", email |-> req[r].email,
                 id |-> u, row |-> NewUser(r)])
  /\ UNCHANGED <<now, tables, mail, history>>

CreateUserOutside(r) ==
  /\ At(r, "createUser") /\ ~Inserting(req[r].email)
  /\ ~HasAccount(req[r].email)
  /\ \E u \in UserId \ HeldIds :
       /\ users' = [x \in DOMAIN users \cup {u} |-> IF x = u THEN NewUser(r) ELSE users[x]]
       /\ Await(r, [pc |-> "createProfile", email |-> req[r].email,
                    id |-> u, row |-> NewUser(r)])
  /\ UNCHANGED <<now, profiles, mail, history>>

CreateUserMailed(r) ==
  /\ At(r, "createUser") /\ ~Inserting(req[r].email)
  /\ ~HasAccount(req[r].email)
  /\ \E u \in UserId \ HeldIds :
       Await(r, [pc |-> "createProfile", email |-> req[r].email,
                 id |-> u, row |-> NewUser(r)])
  /\ outbox' = outbox \cup {[to |-> req[r].email, token |-> req[r].token]}
  /\ UNCHANGED <<now, tables, inbox, history>>

\* tx.user.create.
CreateUser(r) ==
  /\ At(r, "createUser") /\ ~Inserting(req[r].email)
  /\ ~HasAccount(req[r].email)
  /\ \E u \in UserId \ HeldIds :
       Await(r, [pc |-> "createProfile", email |-> req[r].email,
                 id |-> u, row |-> NewUser(r)])
  /\ UNCHANGED <<now, tables, mail, history>>

CreateConflictRetried(r) ==
  /\ At(r, "createUser") /\ ~Inserting(req[r].email)
  /\ HasAccount(req[r].email)
  /\ Await(r, [req[r] EXCEPT !.pc = "registerHash"])
  /\ UNCHANGED <<now, tables, mail, history>>

CreateConflictOverwritten(r) ==
  /\ At(r, "createUser") /\ ~Inserting(req[r].email)
  /\ \E u \in DOMAIN users :
       /\ users[u].email = req[r].email
       /\ users' = [users EXCEPT ![u] = NewUser(r)]
  /\ Respond(r)
  /\ UNCHANGED <<now, profiles, mail, history>>

\* P2002: the transaction is rolled back and the request answered 409.
CreateConflict(r) ==
  /\ At(r, "createUser") /\ ~Inserting(req[r].email)
  /\ HasAccount(req[r].email)
  /\ Respond(r)
  /\ UNCHANGED <<now, tables, mail, history>>

\* The user and the profile become visible at once.
Commit(r) ==
  LET u == req[r].id IN
  /\ users' = [x \in DOMAIN users \cup {u} |-> IF x = u THEN req[r].row ELSE users[x]]
  /\ profiles' = profiles \cup {u}

CreateProfileWithoutTx(r) ==
  /\ At(r, "createProfile") /\ ConnectionFree
  /\ Commit(r)
  /\ Await(r, [pc |-> "announce", email |-> req[r].email,
               token |-> req[r].row.verificationToken])
  /\ UNCHANGED <<now, mail, history>>

\* tx.profile.create, and the commit is acknowledged.
CreateProfile(r) ==
  /\ At(r, "createProfile")
  /\ Commit(r)
  /\ Await(r, [pc |-> "announce", email |-> req[r].email,
               token |-> req[r].row.verificationToken])
  /\ UNCHANGED <<now, mail, history>>

\* The commit succeeds but its acknowledgement is lost: the client is told of an
\* error, and nobody is mailed.
CommitUnacknowledged(r) ==
  /\ MayFail /\ At(r, "createProfile")
  /\ Commit(r)
  /\ unmailed' = unmailed \cup {req[r].email}
  /\ Respond(r)
  /\ UNCHANGED <<now, mail, announced>>

AnnounceUnmailed(r) ==
  /\ At(r, "announce")
  /\ \/ outbox' = outbox \cup {[to |-> req[r].email, token |-> req[r].token]}
     \/ UNCHANGED outbox
  /\ announced' = announced \cup {req[r].email}
  /\ Respond(r)
  /\ UNCHANGED <<now, tables, inbox, unmailed>>

\* The mail starts on its way, the event is emitted and the answer sent, without
\* an await in between.
Announce(r) ==
  /\ At(r, "announce")
  /\ outbox' = outbox \cup {[to |-> req[r].email, token |-> req[r].token]}
  /\ announced' = announced \cup {req[r].email}
  /\ Respond(r)
  /\ UNCHANGED <<now, tables, inbox, unmailed>>

-----------------------------------------------------------------------------
(* EmailService.sendEmail, not awaited by its caller. *)

Deliver(m) ==
  /\ m \in outbox
  /\ outbox' = outbox \ {m} /\ inbox' = inbox \cup {m}
  /\ UNCHANGED <<now, tables, history, req>>

\* The error is logged.
Bounce(m) ==
  /\ MayFail /\ m \in outbox
  /\ outbox' = outbox \ {m}
  /\ unmailed' = unmailed \cup {m.to}
  /\ UNCHANGED <<now, tables, inbox, announced, req>>

-----------------------------------------------------------------------------
(* AuthService.verifyEmail. *)

VerifyFindAny(r, m, u) ==
  /\ At(r, "idle") /\ ConnectionFree
  /\ users[u].verificationToken # NoToken
  /\ now <= users[u].verificationTokenExpiresAt
  /\ Await(r, [pc |-> "verifyStore", id |-> u])
  /\ UNCHANGED <<now, tables, mail, history>>

\* A token from a mailbox, held by an account and not expired.  Any other is
\* answered 400.
VerifyFind(r, m, u) ==
  /\ At(r, "idle") /\ ConnectionFree
  /\ users[u].verificationToken = m.token
  /\ now <= users[u].verificationTokenExpiresAt
  /\ Await(r, [pc |-> "verifyStore", id |-> u])
  /\ UNCHANGED <<now, tables, mail, history>>

VerifyStoreKeepingToken(r) ==
  /\ At(r, "verifyStore") /\ ConnectionFree
  /\ users' = [users EXCEPT ![req[r].id].isEmailVerified = TRUE]
  /\ Respond(r)
  /\ UNCHANGED <<now, profiles, mail, history>>

\* updateUser.
VerifyStore(r) ==
  /\ At(r, "verifyStore") /\ ConnectionFree
  /\ users' = [users EXCEPT ![req[r].id] =
                 [@ EXCEPT !.isEmailVerified = TRUE, !.verificationToken = NoToken,
                           !.verificationTokenExpiresAt = 0]]
  /\ Respond(r)
  /\ UNCHANGED <<now, profiles, mail, history>>

-----------------------------------------------------------------------------
(* Failures and time. *)

Announcing(r) == IF At(r, "announce") THEN {req[r].email} ELSE {}

\* A statement throws, no connection comes free in time, or the transaction times
\* out: it is rolled back and the error middleware answers.  After the commit the
\* handler has nothing left that throws.
Fail(r) ==
  /\ MayFail /\ req[r].pc \notin {"idle", "announce"}
  /\ Respond(r)
  /\ UNCHANGED <<now, tables, mail, history>>

\* The process stops and is started again: open transactions roll back, handlers
\* and mails under way are gone, the tables remain.
Restart ==
  /\ MayFail
  /\ req' = [r \in Request |-> Idle]
  /\ outbox' = {}
  /\ unmailed' = unmailed \cup {m.to : m \in outbox} \cup UNION {Announcing(r) : r \in Request}
  /\ UNCHANGED <<now, tables, inbox, announced>>

Tick ==
  /\ now < MaxTime /\ now' = now + 1
  /\ UNCHANGED <<tables, mail, history, req>>

-----------------------------------------------------------------------------

Init ==
  /\ now = 0
  /\ users = [u \in {} |-> 0] /\ profiles = {}
  /\ outbox = {} /\ inbox = {}
  /\ announced = {} /\ unmailed = {}
  /\ req = [r \in Request |-> Idle]

Start(r) ==
  \/ \E e \in Email : RegisterFind(r, e)
  \/ \E m \in inbox, u \in DOMAIN users : VerifyFind(r, m, u)

\* What the server does for a request it has accepted.
Server(r) ==
  \/ RegisterHash(r) \/ Begin(r)
  \/ CreateUser(r) \/ CreateConflict(r) \/ CreateProfile(r) \/ Announce(r)
  \/ VerifyStore(r)

Next ==
  \/ \E r \in Request : Start(r) \/ Server(r) \/ CommitUnacknowledged(r) \/ Fail(r)
  \/ \E m \in outbox : Deliver(m) \/ Bounce(m)
  \/ Restart \/ Tick

Spec == Init /\ [][Next]_vars

\* The event loop resumes a handler whose await settled.  Strong fairness, because
\* waiting for a connection or for another transaction's row is a queue: the pool
\* and PostgreSQL serve the waiting in their order.
FairSpec == Spec /\ \A r \in Request : SF_vars(Server(r))

-----------------------------------------------------------------------------

Continuation ==
  {Idle} \cup
  [pc : {"registerHash"}, email : Email] \cup
  [pc : {"begin", "createUser"}, email : Email, token : VToken, exp : Nat] \cup
  [pc : {"createProfile"}, email : Email, id : UserId, row : UserRow] \cup
  [pc : {"announce"}, email : Email, token : VToken] \cup
  [pc : {"verifyStore"}, id : UserId]

\* Every variable has its type; a continuation has exactly the live locals of
\* the await it stands at.
TypeOK ==
  /\ now \in 0..MaxTime
  /\ DOMAIN users \subseteq UserId /\ \A u \in DOMAIN users : users[u] \in UserRow
  /\ profiles \subseteq UserId
  /\ outbox \subseteq Mail /\ inbox \subseteq Mail
  /\ announced \subseteq Email /\ unmailed \subseteq Email
  /\ req \in [Request -> Continuation]

\* Two registrations of one address that both found no account leave one: the
\* check before the insert settles nothing, the unique index does.
AddressesApart ==
  \A u1, u2 \in DOMAIN users : users[u1].email = users[u2].email => u1 = u2

\* Every account has its profile and no profile is without its account, wherever
\* a registration fails or the process stops.
ProfilesPaired == profiles = DOMAIN users

\* Nothing leaves the process ahead of the commit: a mail, an answer of 201 or a
\* "signup" event names an account, and the link in a mail is good until used.
AnnouncedExist ==
  /\ \A e \in announced : HasAccount(e)
  /\ \A m \in outbox \cup inbox :
       \E u \in DOMAIN users :
         users[u].email = m.to /\ users[u].verificationToken \in {m.token, NoToken}

\* An account holds a verification token exactly as long as it is unverified, with
\* two verifications of one token under way; so the isEmailVerified branch of
\* verifyEmail is never taken, and a second click on the link is answered 400.
TokenUntilVerified ==
  \A u \in DOMAIN users :
    users[u].isEmailVerified <=> users[u].verificationToken = NoToken

\* Only the owner of an address verifies it: a verified account, or one about to
\* be, was mailed its link.
VerifiedByMail ==
  \A u \in DOMAIN users :
    users[u].isEmailVerified \/ (\E r \in Request : At(r, "verifyStore") /\ req[r].id = u)
      => \E m \in inbox : m.to = users[u].email

\* An account nobody was mailed is one whose mail bounced or was cut off by a
\* failure after the commit; registering again is refused, so it stays unverified.
UnmailedExplained ==
  \A u \in DOMAIN users :
    \/ \E m \in outbox \cup inbox : m.to = users[u].email
    \/ \E r \in Request : At(r, "announce") /\ req[r].email = users[u].email
    \/ users[u].email \in unmailed

Book == INSTANCE AddressBook WITH
  Address <- Email,
  Link <- VToken,
  opened <- {users[u].email : u \in DOMAIN users},
  links <- {[to |-> users[u].email, token |-> users[u].verificationToken] :
              u \in {x \in DOMAIN users : ~users[x].isEmailVerified}},
  mailbox <- inbox

\* Registration and verification implement AddressBook, through two registrations
\* of one address, two clicks on one link, lost commits, bounced mails, restarts.
ImplementsBook == Book!BookSpec

\* Every accepted request is answered, though registrations wait for connections
\* and for each other's rows: transactions never wait for one another in a circle.
EveryRequestEnds == \A r \in Request : req[r].pc # "idle" ~> req[r].pc = "idle"

=============================================================================
