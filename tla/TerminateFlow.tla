---------------------------- MODULE TerminateFlow ----------------------------
(* AuthService.logout and AuthService.revokeSession.  They find the row in   *)
(* different ways and then end it alike: blacklist the refresh token read    *)
(* with the row, invalidate the row, delete its Redis key.                   *)
EXTENDS AuthState

\* What follows the lookup of row s, judged in the same turn of the event loop.
Terminating(s) ==
  LET row == sessions[s] IN
  IF EnableCache /\ row.expiresAt > now /\ row.refreshToken # NoToken
  THEN [pc |-> "termBlacklist", row |-> s, tok |-> row.refreshToken,
        px |-> row.expiresAt - now]
  ELSE [pc |-> "termInvalidate", row |-> s]

\* A token no row holds is answered 200 and changes nothing.
LogoutFind(r, t, s) ==
  /\ Starts(r, "logout") /\ t \in issued
  /\ HoldsToken(s, t)
  /\ Await(r, Terminating(s))
  /\ UNCHANGED <<now, tables, redis, clients, drawn>>

\* revokeSession, behind the guard: the row must belong to the caller, in
\* whatever state it is.
RevokeFind(r) ==
  /\ At(r, "revokeFind")
  /\ LET s == req[r].target IN
       Await(r, IF s \in DOMAIN sessions /\ sessions[s].userId = req[r].userId
                THEN Terminating(s) ELSE Idle)
  /\ UNCHANGED <<now, tables, redis, clients, drawn>>

TermBlacklistForGrace(r) ==
  /\ At(r, "termBlacklist")
  /\ SetBlacklist(req[r].tok, NoToken, GracePeriod)
  /\ Await(r, [pc |-> "termInvalidate", row |-> req[r].row])
  /\ UNCHANGED <<now, tables, sessionKeys, clients, drawn>>

\* blacklist:<token> = 'true' for the rest of the session's lifetime.
TermBlacklist(r) ==
  /\ At(r, "termBlacklist")
  /\ SetBlacklist(req[r].tok, NoToken, req[r].px)
  /\ Await(r, [pc |-> "termInvalidate", row |-> req[r].row])
  /\ UNCHANGED <<now, tables, sessionKeys, clients, drawn>>

TermInvalidateSkipped(r) ==
  /\ At(r, "termInvalidate")
  /\ Await(r, IF EnableCache THEN [pc |-> "termUncache", row |-> req[r].row] ELSE Idle)
  /\ UNCHANGED <<now, tables, redis, clients, drawn>>

TermInvalidate(r) ==
  /\ At(r, "termInvalidate")
  /\ Invalidate({req[r].row})
  /\ Await(r, IF EnableCache THEN [pc |-> "termUncache", row |-> req[r].row] ELSE Idle)
  /\ UNCHANGED <<now, users, redis, clients, drawn>>

\* Another row already holds '': P2002, answered 409.
TermConflict(r) ==
  /\ At(r, "termInvalidate")
  /\ InvalidateConflicts({req[r].row})
  /\ Respond(r)
  /\ UNCHANGED <<now, users, redis, clients, drawn>>

TermUncache(r) ==
  /\ At(r, "termUncache")
  /\ DelSessionKeys({req[r].row})
  /\ Respond(r)
  /\ UNCHANGED <<now, tables, blacklist, clients, drawn>>

LogoutStart == \E r \in Request, t \in issued, s \in DOMAIN sessions : LogoutFind(r, t, s)
TerminateStep(r) ==
  RevokeFind(r) \/ TermBlacklist(r) \/ TermInvalidate(r) \/ TermConflict(r) \/ TermUncache(r)

=============================================================================
