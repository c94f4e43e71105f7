---------------------------- MODULE MCCacheStore ----------------------------
(* CacheStore for TLC: one process with two calls and one with a single call. *)
EXTENDS CacheStore, TLC

CONSTANTS p1, p2, o1, o2, o3

TwoAndOne == (o1 :> p1) @@ (o2 :> p1) @@ (o3 :> p2)
OneEach   == (o1 :> p1) @@ (o3 :> p2)
Pair      == (o1 :> p1) @@ (o2 :> p1)

AddrSymmetry == Permutations(Addrs)
=============================================================================
