--------------------------- MODULE MCTrustedUpdate ---------------------------
(* TrustedUpdate for TLC: checks are interchangeable. *)
EXTENDS TrustedUpdate, TLC

Symmetry == Permutations(Checks)
=============================================================================
