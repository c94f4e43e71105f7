------------------------- MODULE DiagnosticBaseline -------------------------
(***************************************************************************)
(* Baselines of known diagnostics (packages/core/src/diagnostic-baseline). *)
(*                                                                         *)
(* generateDiagnosticBaseline records the lint diagnostics of one report;  *)
(* compareDiagnosticBaseline later decides for every diagnostic of another *)
(* report whether the baseline hides it: by an exact match, or by a match  *)
(* at another path under a declared move.                                  *)
(*                                                                         *)
(* A diagnostic is its kind, its path and its content; content stands for  *)
(* everything semanticIdentity covers: rule, version, severity, semantic   *)
(* fingerprint and provenance.  All diagnostics are of one rule, so that   *)
(* nearIdentity is the path.                                               *)
(***************************************************************************)
EXTENDS Naturals, Sequences, SequencesExt, FiniteSets

CONSTANTS BaselinePaths, Diagnostics, MovedContents,
          MaxReport,     \* bound: diagnostics of a report
          MaxMoves       \* bound: declared moves

ASSUME BaselineAssumption ==
  /\ MaxReport \in Nat /\ MaxMoves \in Nat
  /\ \A d \in Diagnostics : d.kind \in {"lint", "error"} /\ d.path \in BaselinePaths

VARIABLES baselineEntries,  \* path and content of each entry
          baselineSource,   \* history: the report the baseline was generated from
          comparison        \* the last comparison: its input and the outcome per diagnostic

baselineVars == <<baselineEntries, baselineSource, comparison>>

Reports == BoundedSeq(Diagnostics, MaxReport)
Moves == {m \in [from : BaselinePaths, to : BaselinePaths, content : MovedContents] : m.from # m.to}
MoveSets == {s \in SUBSET Moves : Cardinality(s) <= MaxMoves}

(* Whether the baseline still counts: nothing changed, it or the entry has expired, or the
   engine or a profile is another one. *)
Validity == {"current", "expired", "incompatible"}

BaselineInit == baselineEntries = {} /\ baselineSource = <<>> /\ comparison = <<>>

-----------------------------------------------------------------------------
MatchIdentity(d) == <<d.path, d.content>>
SemanticIdentity(d) == d.content

EntryFromDiagnostic(d) == [path |-> d.path, content |-> d.content]

(* generateDiagnosticBaseline: one entry per identity, lint only. *)
Generate(report) ==
  /\ baselineSource = <<>> /\ comparison = <<>>
  /\ baselineSource' = report
  /\ baselineEntries' = {EntryFromDiagnostic(d) : d \in {d \in Range(report) : d.kind = "lint"}}
  /\ UNCHANGED comparison

-----------------------------------------------------------------------------
Visible(status) == [status |-> status, entry |-> {}]

(* A match hides the diagnostic unless the entry, or the whole baseline, has expired. *)
Matched(entry, validity) ==
  [status |-> IF validity = "expired" THEN "expired" ELSE "matched", entry |-> {entry}]

CurrentIdentityCount(report, d) ==
  Cardinality({i \in DOMAIN report : MatchIdentity(report[i]) = MatchIdentity(d)})
CurrentSemanticCount(report, d) ==
  Cardinality({i \in DOMAIN report : SemanticIdentity(report[i]) = SemanticIdentity(d)})

(* Faulty variant: a move is believed although the diagnostic also occurs elsewhere. *)
MovedLoosely(report, moves, d, validity) ==
  LET declarations == {m \in moves : m.to = d.path /\ m.content = d.content}
      candidates == {e \in baselineEntries : SemanticIdentity(e) = SemanticIdentity(d)}
      eligibles == {e \in candidates : \E m \in declarations : m.from = e.path}
  IN IF declarations = {} THEN Visible("new")
     ELSE IF Cardinality(declarations) # 1 \/ Cardinality(eligibles) # 1 THEN Visible("ambiguous")
     ELSE Matched(CHOOSE e \in eligibles : TRUE, validity)

(* No entry at this path: a declared move may lead to one, if nothing is ambiguous. *)
Moved(report, moves, d, validity) ==
  LET declarations == {m \in moves : m.to = d.path /\ m.content = d.content}
      candidates == {e \in baselineEntries : SemanticIdentity(e) = SemanticIdentity(d)}
      eligibles == {e \in candidates : \E m \in declarations : m.from = e.path}
  IN IF declarations = {} THEN Visible("new")
     ELSE IF \/ Cardinality(declarations) # 1 \/ Cardinality(eligibles) # 1
             \/ CurrentSemanticCount(report, d) # 1 THEN Visible("ambiguous")
     ELSE Matched(CHOOSE e \in eligibles : TRUE, validity)

(* The decision for one diagnostic: parser and configuration errors are never hidden, a
   changed engine or profile hides nothing, a collision hides nothing. *)
Outcome(report, moves, d, validity) ==
  LET exact == {e \in baselineEntries : MatchIdentity(e) = MatchIdentity(d)}
      near == {e \in baselineEntries : e.path = d.path}
  IN IF d.kind # "lint" THEN Visible("new")
     ELSE IF validity = "incompatible" THEN Visible("incompatible")
     ELSE IF exact # {} /\ CurrentIdentityCount(report, d) = 1
       THEN Matched(CHOOSE e \in exact : TRUE, validity)
     ELSE IF exact # {} THEN Visible("ambiguous")
     ELSE IF Cardinality(near) = 1 THEN Visible("incompatible")
     ELSE IF near # {} THEN Visible("ambiguous")
     ELSE Moved(report, moves, d, validity)

Compare(report, moves, validity) ==
  /\ comparison = <<>>
  /\ comparison' = [report |-> report, moves |-> moves, validity |-> validity,
                    outcomes |-> [i \in DOMAIN report |-> Outcome(report, moves, report[i], validity)],
                    same |-> report = baselineSource]
  /\ baselineSource' = <<>>
  /\ UNCHANGED baselineEntries

BaselineNext ==
  \/ \E report \in Reports : Generate(report)
  \/ \E report \in Reports, moves \in MoveSets, validity \in Validity : Compare(report, moves, validity)

BaselineSpec == BaselineInit /\ [][BaselineNext]_baselineVars

-----------------------------------------------------------------------------
Hidden == {i \in DOMAIN comparison.outcomes : comparison.outcomes[i].status = "matched"}
EntryOf(i) == CHOOSE e \in comparison.outcomes[i].entry : TRUE

(* The baseline never hides more than it recorded: an entry hides one diagnostic at most,
   with exactly its content, at its own path or at the one end of a declared move from it;
   never an error, and nothing once the baseline has expired or is of another engine. *)
EntryHidesOne ==
  comparison # <<>> =>
    /\ \A i, j \in Hidden : i # j => EntryOf(i) # EntryOf(j)
    /\ Hidden # {} => comparison.validity = "current"
    /\ \A i \in Hidden :
         LET d == comparison.report[i]
             e == EntryOf(i)
         IN /\ d.kind = "lint" /\ e \in baselineEntries /\ d.content = e.content
            /\ d.path = e.path \/ [from |-> e.path, to |-> d.path, content |-> d.content]
                                    \in comparison.moves

(* A report compared with its own baseline shows no lint diagnostic but those that cannot
   be told apart, whatever moves are declared. *)
BaselineHidesItsSource ==
  comparison # <<>> /\ comparison.same /\ comparison.validity = "current" =>
    Hidden = {i \in DOMAIN comparison.report :
                /\ comparison.report[i].kind = "lint"
                /\ \A j \in DOMAIN comparison.report \ {i} :
                     MatchIdentity(comparison.report[j]) # MatchIdentity(comparison.report[i])}

(* The baseline hides exactly what it is for: never more than it recorded, and all of an
   unchanged report. *)
BaselineIsExact == EntryHidesOne /\ BaselineHidesItsSource
=============================================================================
