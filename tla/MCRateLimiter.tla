---------------------------- MODULE MCRateLimiter ----------------------------
(* Small instances of RateLimiter for TLC. *)
EXTENDS RateLimiter, TLC

\* Callers are interchangeable.
Symmetry == Permutations(Callers)

=============================================================================
