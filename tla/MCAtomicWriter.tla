--------------------------- MODULE MCAtomicWriter ---------------------------
(* AtomicWriter for TLC.  Calls, inodes and contents are interchangeable. *)
EXTENDS AtomicWriter, TLC

Symmetry == Permutations(Calls) \cup Permutations(Inodes) \cup Permutations(Contents)
=============================================================================
