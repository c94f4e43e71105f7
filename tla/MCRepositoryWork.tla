-------------------------- MODULE MCRepositoryWork --------------------------
(***************************************************************************)
(* The components that work on a repository others keep changing, and the  *)
(* memoization above them.  They share no state, so a behaviour runs one   *)
(* of them and leaves the others untouched.                                *)
(***************************************************************************)
EXTENDS ChangedScan, SafeFix, ContextCache, ImportGraph, ReadOnlyRepository,
        MCIgnoreEngine, TLC

VARIABLE component

Init ==
  /\ ScanInit /\ FixInit /\ MemoInit /\ ImportInit /\ RepoInit /\ IgnoreInit
  /\ component \in {"scan", "fix", "memo", "import", "repository", "ignore"}

Next ==
  \/ component = "scan" /\ ScanNext
       /\ UNCHANGED <<fixVars, memoVars, importVars, repoVars, ignoreVars, component>>
  \/ component = "fix" /\ FixNext
       /\ UNCHANGED <<scanVars, memoVars, importVars, repoVars, ignoreVars, component>>
  \/ component = "memo" /\ MemoNext
       /\ UNCHANGED <<scanVars, fixVars, importVars, repoVars, ignoreVars, component>>
  \/ component = "import" /\ ImportNext
       /\ UNCHANGED <<scanVars, fixVars, memoVars, repoVars, ignoreVars, component>>
  \/ component = "repository" /\ RepoNext
       /\ UNCHANGED <<scanVars, fixVars, memoVars, importVars, ignoreVars, component>>
  \/ component = "ignore" /\ IgnoreNext
       /\ UNCHANGED <<scanVars, fixVars, memoVars, importVars, repoVars, component>>

Spec ==
  Init /\ [][Next]_<<scanVars, fixVars, memoVars, importVars, repoVars, ignoreVars, component>>

-----------------------------------------------------------------------------
(* The second commit adds the first path and makes a file of the second, which was a link.
   The second path controls the scan; without it the inventory has a gap.  The first path is
   an instruction file, and contents 1 do not resolve. *)
Trees(c) == IF c = 1 THEN <<Absent, 3>> ELSE <<2, 1>>
NoGap(ledger) == ledger[2] # Absent
Resolves(ledger, paths) == 1 \in paths => ledger[1] # 1

(* A file with one mark, edits that delete, replace or insert, and an editor that can only
   bring the analysed text back. *)
OneMark == <<"m">>
Replacements == {<<>>, <<"x">>}
Restored == {OneMark}

(* Later results weigh more. *)
Weights(profile, graph) == profile + graph - 1

(* Documents with at most two imports, or with one beyond the fan-out: chains that are too
   deep, files that are too many, cycles and files imported twice. *)
Documents ==
  {<<>>, <<0>>, <<1>>, <<2>>, <<3>>, <<2, 3>>, <<3, 4>>, <<2, 5>>, <<2, 3, 1>>}

Symmetry == Permutations(Pipelines) \cup Permutations(Previews) \cup Permutations(Applies)
=============================================================================
