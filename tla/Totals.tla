------------------------------- MODULE Totals -------------------------------
(***************************************************************************)
(* Sums of sequences of numbers, as a loop that adds from the left makes   *)
(* them.                                                                   *)
(***************************************************************************)
EXTENDS Naturals, Sequences

(* The sums of the first numbers of a sequence: none, one, two, ... *)
PartialSums(s) ==
  LET sum[n \in 0 .. Len(s)] == IF n = 0 THEN 0 ELSE sum[n - 1] + s[n] IN sum

Total(s) == PartialSums(s)[Len(s)]
=============================================================================
