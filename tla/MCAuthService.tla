---------------------------- MODULE MCAuthService ----------------------------
(* Instances of AuthService for TLC. *)
EXTENDS AuthClaims, TLC

\* Random values are interchangeable, and so are requests.  NoToken stands
\* apart, and so do accounts and passwords.
Symmetry == Permutations(SessionId) \cup Permutations(Family)
            \cup Permutations(ResetToken) \cup Permutations(Request)

=============================================================================
