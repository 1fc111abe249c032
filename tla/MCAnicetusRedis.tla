--------------------------- MODULE MCAnicetusRedis ---------------------------
(* Small instances of AnicetusRedis for TLC. *)
EXTENDS AnicetusRedis, TLC

\* Requests are interchangeable: no action names a particular one.
Symmetry == Permutations(Requests)

=============================================================================
