------------------------ MODULE MCTokenBucketInMemory ------------------------
(* Small instances of TokenBucketInMemory for TLC. *)
EXTENDS TokenBucketInMemory, TLC

\* Callers are interchangeable: no action names a particular one.
Symmetry == Permutations(Callers)

=============================================================================
