----------------------------- MODULE MCAnicetus -----------------------------
(* Small instances of Anicetus for TLC. *)
EXTENDS Anicetus, TLC

\* Requests are interchangeable: no action names a particular one.
Symmetry == Permutations(Requests)

=============================================================================
