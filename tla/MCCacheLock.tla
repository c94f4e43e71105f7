----------------------------- MODULE MCCacheLock -----------------------------
(* CacheLock for TLC: callers are interchangeable. *)
EXTENDS CacheLock, TLC

Symmetry == Permutations(Procs)
=============================================================================
