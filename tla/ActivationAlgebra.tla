-------------------------- MODULE ActivationAlgebra --------------------------
(***************************************************************************)
(* Three-valued activation of a rule for a target path                     *)
(* (packages/resolver/src/activation-algebra.ts).                          *)
(*                                                                         *)
(* evaluateActivationRule computes scope, trigger, included and not        *)
(* excluded in strong Kleene logic, asks the profile's callbacks for the   *)
(* facts it needs and no others, and returns with the state the observed   *)
(* facts that prove it.                                                    *)
(*                                                                         *)
(* A fact is a number: the scope, the trigger and the selectors.  The      *)
(* provenance of a result is a set of facts, what was observed of them is  *)
(* in observed, which is also the memo of the glob matcher: a selector of  *)
(* both lists is asked once.  Rules that assertRule refuses and callbacks  *)
(* that throw yield no result.                                             *)
(***************************************************************************)
EXTENDS Integers, FiniteSets, FiniteSetsExt

CONSTANTS Directories, Globs     \* the selectors a rule may use, as numbers above 2

ASSUME ActivationAssumption == Directories \cup Globs \subseteq Nat \ 0 .. 2

VARIABLES activationRule, activationAt, observed, eligible, activationResult

activationVars == <<activationRule, activationAt, observed, eligible, activationResult>>

ScopeFact == 1
TriggerFact == 2
Selectors == Directories \cup Globs
Facts == {ScopeFact, TriggerFact} \cup Selectors
States == {"active", "inactive", "indeterminate"}
Decided == {"active", "inactive"}

NoResult == [state |-> "none", provenance |-> {}]
NoRule == [trigger |-> "none"]

(* What distinguishes rules here: is the scope the repository root, what triggers it, and
   its selectors. *)
ActivationRules ==
  {r \in [rootScope : BOOLEAN, trigger : {"always", "selectors", "callback", "unknown"},
          include : SUBSET Selectors, exclude : SUBSET Selectors] :
     r.trigger = "selectors" => r.include # {}}

ActivationInit ==
  /\ activationRule = NoRule /\ activationAt = "idle"
  /\ observed = [f \in Facts |-> "unasked"]
  /\ eligible = NoResult /\ activationResult = NoResult

-----------------------------------------------------------------------------
Result(state, provenance) == [state |-> state, provenance |-> provenance]
AtomicResult(state, fact) == Result(state, {fact})

(* The proof with the least key; a proof without facts has the empty key. *)
LeastProof(results) ==
  LET key(r) == IF r.provenance = {} THEN 0 ELSE Min(r.provenance)
  IN CHOOSE r \in results : \A s \in results : key(r) <= key(s)

MergeProofs(results) == UNION {r.provenance : r \in results}

HasState(results, state) == {r \in results : r.state = state}

(* Faulty variant: one proof is enough for a union that is not active, too. *)
ActivationUnionOneProof(results) ==
  IF results = {} THEN Result("inactive", {})
  ELSE IF HasState(results, "active") # {}
    THEN Result("active", LeastProof(HasState(results, "active")).provenance)
  ELSE IF HasState(results, "indeterminate") # {} THEN Result("indeterminate", MergeProofs(results))
  ELSE Result("inactive", LeastProof(results).provenance)

ActivationUnion(results) ==
  IF results = {} THEN Result("inactive", {})
  ELSE IF HasState(results, "active") # {}
    THEN Result("active", LeastProof(HasState(results, "active")).provenance)
  ELSE Result(IF HasState(results, "indeterminate") # {} THEN "indeterminate" ELSE "inactive",
              MergeProofs(results))

ActivationIntersection(results) ==
  IF results = {} THEN Result("active", {})
  ELSE IF HasState(results, "inactive") # {}
    THEN Result("inactive", LeastProof(HasState(results, "inactive")).provenance)
  ELSE Result(IF HasState(results, "indeterminate") # {} THEN "indeterminate" ELSE "active",
              MergeProofs(results))

ActivationComplement(r) ==
  Result(IF r.state = "active" THEN "inactive"
         ELSE IF r.state = "inactive" THEN "active" ELSE "indeterminate", r.provenance)

ActivationDifference(left, right) == ActivationIntersection({left, ActivationComplement(right)})

(* selectorUnion over the facts that have been asked for. *)
SelectorUnion(selectors, emptyState, facts) ==
  IF selectors = {} THEN Result(emptyState, {})
  ELSE ActivationUnion({AtomicResult(facts[s], s) : s \in selectors})

(* selectorResult: a directory either contains the target or not, the matcher may not
   know, and what is in the memo is not asked again. *)
Asked(selectors) ==
  {facts \in [Facts -> States \cup {"unasked"}] :
     \A f \in Facts :
       IF f \in selectors /\ observed[f] = "unasked"
         THEN facts[f] \in IF f \in Directories THEN Decided ELSE States
         ELSE facts[f] = observed[f]}

-----------------------------------------------------------------------------
ActivationReturns(r) == activationAt' = "returned" /\ activationResult' = r

(* The scope; a target outside ends the evaluation. *)
EvaluateScope(rule) ==
  /\ activationAt = "idle"
  /\ activationRule' = rule
  /\ \/ /\ activationAt' = "trigger"
        /\ observed' = IF rule.rootScope THEN observed ELSE [observed EXCEPT ![ScopeFact] = "active"]
        /\ UNCHANGED activationResult
     \/ /\ ~rule.rootScope
        /\ observed' = [observed EXCEPT ![ScopeFact] = "inactive"]
        /\ ActivationReturns(AtomicResult("inactive", ScopeFact))
  /\ UNCHANGED eligible

ScopeResult ==
  IF activationRule.rootScope THEN Result("active", {}) ELSE AtomicResult("active", ScopeFact)

(* baseResult: a missing or undecided callback leaves the trigger open. *)
TriggerResult ==
  IF activationRule.trigger = "selectors" THEN Result("active", {})
  ELSE AtomicResult(observed[TriggerFact], TriggerFact)

EvaluateTrigger ==
  /\ activationAt = "trigger"
  /\ \E state \in IF activationRule.trigger = "callback" THEN States
                  ELSE IF activationRule.trigger = "unknown" THEN {"indeterminate"} ELSE {"active"} :
       /\ observed' = IF activationRule.trigger = "selectors" THEN observed
                      ELSE [observed EXCEPT ![TriggerFact] = state]
       /\ IF state = "inactive"
            THEN ActivationReturns(AtomicResult(state, TriggerFact))
            ELSE activationAt' = "include" /\ UNCHANGED activationResult
  /\ UNCHANGED <<activationRule, eligible>>

EvaluateIncludes ==
  /\ activationAt = "include"
  /\ observed' \in Asked(activationRule.include)
  /\ eligible' = ActivationIntersection({ScopeResult, TriggerResult,
                                         SelectorUnion(activationRule.include, "active", observed')})
  /\ IF eligible'.state = "inactive"
       THEN ActivationReturns(eligible')
       ELSE activationAt' = "exclude" /\ UNCHANGED activationResult
  /\ UNCHANGED activationRule

EvaluateExcludes ==
  /\ activationAt = "exclude"
  /\ observed' \in Asked(activationRule.exclude)
  /\ LET excluded == SelectorUnion(activationRule.exclude, "inactive", observed')
     IN ActivationReturns(IF excluded.state = "active" THEN ActivationComplement(excluded)
                          ELSE ActivationDifference(eligible, excluded))
  /\ UNCHANGED <<activationRule, eligible>>

ActivationNext ==
  \/ \E rule \in ActivationRules : EvaluateScope(rule)
  \/ EvaluateTrigger \/ EvaluateIncludes \/ EvaluateExcludes

ActivationSpec == ActivationInit /\ [][ActivationNext]_activationVars

-----------------------------------------------------------------------------
(* The rule in two-valued logic: true is the set of facts that hold. *)
Holds(rule, true) ==
  /\ rule.rootScope \/ ScopeFact \in true
  /\ rule.trigger = "selectors" \/ TriggerFact \in true
  /\ rule.include = {} \/ rule.include \cap true # {}
  /\ rule.exclude \cap true = {}

(* The worlds in which the given facts are as they were observed. *)
Worlds(known) ==
  {true \in SUBSET Facts :
     \A f \in known : observed[f] \in Decided => (f \in true <=> observed[f] = "active")}

(* The provenance of a decided result proves it: whatever all other facts are, those that
   were never asked for too, the rule has that value in every world that agrees with the
   cited facts. *)
ProvenanceIsProof ==
  activationAt = "returned" /\ activationResult.state \in Decided =>
    \A true \in Worlds(activationResult.provenance) :
      Holds(activationRule, true) <=> activationResult.state = "active"

(* The result is left open only when it has to be: unless one selector is in both lists,
   the facts that are not known could still turn it either way. *)
OpenOnlyIfUnknown ==
  activationAt = "returned" /\ activationResult.state = "indeterminate"
      /\ activationRule.include \cap activationRule.exclude = {} =>
    \E yes, no \in Worlds(Facts) : Holds(activationRule, yes) /\ ~Holds(activationRule, no)

(* The three values are used for what they mean: decided results are proved by the facts
   they cite, open ones are really open. *)
ActivationIsExact == ProvenanceIsProof /\ OpenOnlyIfUnknown
=============================================================================
