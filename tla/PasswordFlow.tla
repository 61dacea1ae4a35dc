----------------------------- MODULE PasswordFlow -----------------------------
(* AuthService.forgotPassword and AuthService.resetPassword.                 *)
EXTENDS AuthState

ForgotFindRepeating(r, u) ==
  /\ Starts(r, "forgot")
  /\ \E t \in ResetToken :
       /\ drawn' = drawn \cup {t}
       /\ Await(r, [pc |-> "forgotStore", userId |-> u, reset |-> t, exp |-> now + ResetTtl])
  /\ UNCHANGED <<now, tables, redis, clients>>

\* The user is found and a token is drawn.  An unknown address changes nothing.
ForgotFind(r, u) ==
  /\ Starts(r, "forgot")
  /\ \E t \in Fresh(ResetToken) :
       /\ drawn' = drawn \cup {t}
       /\ Await(r, [pc |-> "forgotStore", userId |-> u, reset |-> t, exp |-> now + ResetTtl])
  /\ UNCHANGED <<now, tables, redis, clients>>

ForgotStore(r) ==
  /\ At(r, "forgotStore")
  /\ users' = [users EXCEPT ![req[r].userId].passwordResetToken = req[r].reset,
                            ![req[r].userId].passwordResetTokenExpiresAt = req[r].exp]
  /\ Await(r, [pc |-> "forgotMail", reset |-> req[r].reset])
  /\ UNCHANGED <<now, sessions, redis, clients, drawn>>

\* The mail goes out in the background; a transport error is logged, no more.
ForgotMail(r) ==
  /\ At(r, "forgotMail")
  /\ mailed' \in {mailed, mailed \cup {req[r].reset}}
  /\ Respond(r)
  /\ UNCHANGED <<now, tables, redis, issued, drawn>>

\* A token no user has, or one past its hour, is answered 400.
ResetFind(r, t, u, password) ==
  /\ Starts(r, "reset") /\ t \in mailed
  /\ users[u].passwordResetToken = t
  /\ now <= users[u].passwordResetTokenExpiresAt
  /\ Await(r, [pc |-> "resetList", userId |-> u, hash |-> password])
  /\ UNCHANGED <<now, tables, redis, clients, drawn>>

\* After hashing: the sessions whose keys are to go.
ResetList(r) ==
  /\ At(r, "resetList")
  /\ Await(r, [pc |-> "resetInvalidate", userId |-> req[r].userId, hash |-> req[r].hash,
               keys |-> ActiveSessions(req[r].userId)])
  /\ UNCHANGED <<now, tables, redis, clients, drawn>>

ValidSessions(u) == {s \in DOMAIN sessions : sessions[s].userId = u /\ sessions[s].isValid}

ResetInvalidateOrNot(r) ==
  /\ At(r, "resetInvalidate")
  /\ \/ Invalidate(ValidSessions(req[r].userId))
     \/ InvalidateConflicts(ValidSessions(req[r].userId))
  /\ Await(r, [req[r] EXCEPT !.pc = IF EnableCache THEN "resetUncache" ELSE "resetStore"])
  /\ UNCHANGED <<now, users, redis, clients, drawn>>

\* invalidateAllSessionsForUser.
ResetInvalidate(r) ==
  /\ At(r, "resetInvalidate")
  /\ Invalidate(ValidSessions(req[r].userId))
  /\ Await(r, [req[r] EXCEPT !.pc = IF EnableCache THEN "resetUncache" ELSE "resetStore"])
  /\ UNCHANGED <<now, users, redis, clients, drawn>>

\* Two rows would hold '': P2002, the password stays.
ResetConflict(r) ==
  /\ At(r, "resetInvalidate")
  /\ InvalidateConflicts(ValidSessions(req[r].userId))
  /\ Respond(r)
  /\ UNCHANGED <<now, users, redis, clients, drawn>>

ResetUncache(r) ==
  /\ At(r, "resetUncache")
  /\ DelSessionKeys(req[r].keys)
  /\ Await(r, [req[r] EXCEPT !.pc = "resetStore"])
  /\ UNCHANGED <<now, tables, blacklist, clients, drawn>>

\* updateUser: the new hash, and whatever reset token the row holds is cleared.
ResetStore(r) ==
  /\ At(r, "resetStore")
  /\ users' = [users EXCEPT ![req[r].userId] =
                 [passwordHash |-> req[r].hash, passwordResetToken |-> NoToken,
                  passwordResetTokenExpiresAt |-> 0]]
  /\ Respond(r)
  /\ UNCHANGED <<now, sessions, redis, clients, drawn>>

PasswordStart ==
  \/ \E r \in Request, u \in User : ForgotFind(r, u)
  \/ \E r \in Request, t \in mailed, u \in User, p \in Password : ResetFind(r, t, u, p)
PasswordStep(r) ==
  \/ ForgotStore(r) \/ ForgotMail(r) \/ ResetList(r) \/ ResetInvalidate(r)
  \/ ResetConflict(r) \/ ResetUncache(r) \/ ResetStore(r)

=============================================================================
