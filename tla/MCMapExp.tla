------------------------------ MODULE MCMapExp ------------------------------
(* Small instances of MapExp for TLC. *)
EXTENDS MapExp, TLC

\* Keys and callers are interchangeable: no action names a particular one.
Symmetry == Permutations(Keys) \cup Permutations(Callers)

=============================================================================
