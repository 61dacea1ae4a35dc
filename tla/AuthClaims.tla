------------------------------ MODULE AuthClaims ------------------------------
(* What the documentation says of the running service and the code does not  *)
(* do.  Each claim is quoted in PROJECT.json with the run that refutes it.   *)
EXTENDS AuthService

AllIdle == \A r \in Request : At(r, "idle")
Moves(r) == req'[r] # req[r]

\* A logout (or revoke) that reaches its database call leaves the session
\* invalid (swagger.json, /auth/logout).  The second session ever to end meets
\* the unique index on the empty refresh token instead.
LogoutInvalidates ==
  [][\A r \in Request : At(r, "termInvalidate") /\ Moves(r)
         => ~sessions'[req[r].row].isValid]_vars

\* An access token of a session already ended is refused (docs/architecture.md,
\* Revocation Execution).  Its cache key goes by the claimed id, which no
\* termination deletes.
RevokedRefused ==
  [][\A r \in Request, t \in issued :
       AllIdle /\ (\E s \in DOMAIN sessions : Dead(s) /\ OwnedBy(t, sessions[s]))
         => req'[r] \notin Protected(t)]_vars

\* Within the grace period no refresh is taken for a replay (README.md, Grace
\* Window).  For runs in which the clock stays within the grace period and
\* nothing fails.
NoReplayInGrace == \A r \in Request : ~At(r, "familyFind")

\* When a reset that changes the password is through, the account has no valid
\* session (swagger.json, /auth/reset-password).
ResetEndsAll ==
  [][\A r \in Request :
       /\ At(r, "resetStore") /\ Moves(r)
       /\ req[r].hash # users[req[r].userId].passwordHash
       => \A s \in DOMAIN sessions' :
           sessions'[s].userId = req[r].userId => ~sessions'[s].isValid]_vars

=============================================================================
