--------------------------- MODULE SessionRegistry ---------------------------
(* What the sessions table promises its clients, whatever handlers race on   *)
(* it: a login session opens once, with a token family of its own; while it  *)
(* is live it holds one token, of its family, that no other live session     *)
(* holds; once ended it never comes back.                                    *)
CONSTANTS Family, SessionId, Token

VARIABLES
  family,  \* the token family of every session opened so far
  live,    \* the sessions that have not ended
  token    \* the current refresh token of every live session

registry == <<family, live, token>>

HeldByAnother(s, t) == \E other \in live \ {s} : token[other] = t

Open(s, t) ==
  /\ s \notin DOMAIN family
  /\ \A old \in DOMAIN family : family[old] # t.tokenFamily
  /\ ~HeldByAnother(s, t)
  /\ family' = [x \in DOMAIN family \cup {s} |-> IF x = s THEN t.tokenFamily ELSE family[x]]
  /\ live' = live \cup {s}
  /\ token' = [x \in live' |-> IF x = s THEN t ELSE token[x]]

Rotate(s, t) ==
  /\ s \in live
  /\ t.tokenFamily = family[s]
  /\ ~HeldByAnother(s, t)
  /\ token' = [token EXCEPT ![s] = t]
  /\ UNCHANGED <<family, live>>

End(S) ==
  /\ live' = live \ S
  /\ token' = [x \in live' |-> token[x]]
  /\ UNCHANGED family

RegistryInit == family = [s \in {} |-> 0] /\ live = {} /\ token = [s \in {} |-> 0]

RegistryNext ==
  \/ \E s \in SessionId, t \in Token : Open(s, t) \/ Rotate(s, t)
  \/ \E S \in SUBSET live : End(S)

RegistrySpec == RegistryInit /\ [][RegistryNext]_registry

=============================================================================
