------------------------------ MODULE MCDecisions ------------------------------
(***************************************************************************)
(* The components that decide what is activated, accepted, hidden or       *)
(* written from what came before.  They share no state, so a behaviour     *)
(* runs one of them and leaves the others untouched.                       *)
(***************************************************************************)
EXTENDS StandardsUpdate, ActivationAlgebra, DiagnosticBaseline, CanonicalPolicySync,
        WeeklyCheck, TLC

VARIABLE component

allVars == <<vars, activationVars, baselineVars, syncVars, weeklyVars, component>>

DecisionsInit ==
  /\ Init /\ ActivationInit /\ BaselineInit /\ SyncInit /\ WeeklyInit
  /\ component \in {"update", "activation", "baseline", "sync", "weekly"}

DecisionsNext ==
  \/ component = "update" /\ Next
       /\ UNCHANGED <<activationVars, baselineVars, syncVars, weeklyVars, component>>
  \/ component = "activation" /\ ActivationNext
       /\ UNCHANGED <<vars, baselineVars, syncVars, weeklyVars, component>>
  \/ component = "baseline" /\ BaselineNext
       /\ UNCHANGED <<vars, activationVars, syncVars, weeklyVars, component>>
  \/ component = "sync" /\ SyncNext
       /\ UNCHANGED <<vars, activationVars, baselineVars, weeklyVars, component>>
  \/ component = "weekly" /\ WeeklyNext
       /\ UNCHANGED <<vars, activationVars, baselineVars, syncVars, component>>

DecisionsSpec == DecisionsInit /\ [][DecisionsNext]_allVars

-----------------------------------------------------------------------------
(* Findings of one rule on three paths, and an execution error, which is never hidden. *)
Found(kind, path, content) == [kind |-> kind, path |-> path, content |-> content]
Findings ==
  {Found("lint", p, 1) : p \in 1 .. 3} \cup {Found("lint", p, 2) : p \in 1 .. 2}
    \cup {Found("error", 1, 1)}

(* Calls and inodes are interchangeable. *)
Symmetry == Permutations(Calls) \cup Permutations(Inodes)
=============================================================================
