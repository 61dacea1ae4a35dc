---------------------------- MODULE MCRateLimiter ----------------------------
(* Instances of RateLimiter for TLC. *)
EXTENDS RateLimiter, TLC

Limits == {0, 1, 2, NaN}

\* Hits are interchangeable.
Symmetry == Permutations(Hit)

=============================================================================
