---------------------------- MODULE RuleScheduler ----------------------------
(***************************************************************************)
(* The scheduler of the rule families                                      *)
(* (packages/rules/src/rule-scheduler.ts, scheduleRuleFamilies).           *)
(*                                                                         *)
(* Every selected family is evaluated synchronously, dependencies first;   *)
(* the evaluated families are then handed over level by level by workers   *)
(* that share a cursor, may be delayed by a seeded perturbation, and give  *)
(* up when the caller aborts or the deadline has passed.  The scheduler    *)
(* looks at both again after each level before it believes what the level  *)
(* has completed.                                                          *)
(*                                                                         *)
(* A family is a number, in the order of its identifier; Syntax is the one *)
(* the others depend on.  What an evaluation yields is fixed with the job. *)
(***************************************************************************)
EXTENDS Naturals, FiniteSets, FiniteSetsExt, Sequences, SequencesExt, Totals

CONSTANTS NFamilies,           \* families 1 .. NFamilies
          Syntax,              \* "syntax-structure"
          MaxDiagnostics,      \* limits.maximumDiagnostics
          MaxFamilyDiagnostics,\* diagnostics a family may yield in the model
          MaxSchedulerWorkers  \* limits.maximumConcurrency, tried from 1 on

ASSUME SchedulerAssumption ==
  /\ NFamilies \in Nat /\ Syntax \in 1 .. NFamilies
  /\ MaxDiagnostics \in Nat /\ MaxFamilyDiagnostics \in Nat /\ MaxSchedulerWorkers \in Nat

Families == 1 .. NFamilies
SchedulerWorkers == 1 .. MaxSchedulerWorkers

(* The selected families, how many diagnostics each yields, the one (if any) that
   its evaluator rejects or that fails the checks of its output, how many diagnostics the
   suppressions add at the end, and the number of workers. *)
SchedulerJobs ==
  UNION {[selected : {s}, count : [s -> 0 .. MaxFamilyDiagnostics],
          bad : {{}} \cup {{f} : f \in s}, unused : 0 .. 1, workers : SchedulerWorkers] :
         s \in (SUBSET Families) \ {{}}}

NoSchedule == [selected |-> {}]

VARIABLES schJob,
          level,         \* the level being handed over; 0 before the first
          cursor,        \* families of the level that have been taken
          holding,       \* worker -> the family it is about to hand over, or 0
          completed,     \* families handed over in this level
          executions,    \* families handed over in earlier levels
          schAborted, late,    \* the signal is aborted, the deadline has passed
          schAnswer

schVars == <<schJob, level, cursor, holding, completed, executions, schAborted, late,
             schAnswer>>

NoReport == [kind |-> "none", families |-> {}]
Refused(kind) == [kind |-> kind, families |-> {}]

SchInit ==
  /\ schJob = NoSchedule /\ level = 0 /\ cursor = 0
  /\ holding = [w \in SchedulerWorkers |-> 0]
  /\ completed = {} /\ executions = {}
  /\ schAborted = FALSE /\ late = FALSE /\ schAnswer = NoReport

-----------------------------------------------------------------------------
(* FAMILY_BY_ID.get(id).dependencies *)
Dependencies(f) == IF f = Syntax THEN {} ELSE {Syntax}

(* sort(compareUtf8): each of the families once, in the order of the identifiers. *)
IsInOrder(s, families) ==
  /\ \A i, j \in 1 .. Cardinality(families) : i < j => s[i] < s[j]
  /\ \A f \in families : \E i \in 1 .. Cardinality(families) : s[i] = f

InOrder(families) ==
  CHOOSE s \in [1 .. Cardinality(families) -> families] : IsInOrder(s, families)

(* topologicalLevels: repeatedly the families all of whose dependencies are done,
   each level in the order of the identifiers. *)
Levels(selected) ==
  LET after[done \in SUBSET selected] ==
        LET ready == {f \in selected \ done : Dependencies(f) \subseteq done}
        IN IF ready = {} THEN << >>
           ELSE <<InOrder(ready)>> \o after[done \cup ready]
  IN after[{}]

Sequence(selected) == FlattenSeq(Levels(selected))

(* The synchronous evaluation of the families, in execution order: the first
   family that fails decides, and so does the family that exceeds the limit. *)
Admission(j) ==
  LET order == Sequence(j.selected)
      total(n) == Total([i \in 1 .. n |-> j.count[order[i]]])
      fails(n) == order[n] \in j.bad
      over(n)  == total(n) > MaxDiagnostics
      stops    == {n \in 1 .. Len(order) : fails(n) \/ over(n)}
  IN IF Syntax \notin j.selected THEN Refused("dependency-failure")
     ELSE IF stops = {} THEN NoReport
     ELSE IF fails(Min(stops)) THEN [kind |-> "family-failure", families |-> {order[Min(stops)]}]
     ELSE Refused("resource-limit")

(* schedulingCheckpoint *)
Checkpoint == IF schAborted THEN Refused("cancelled")
              ELSE IF late THEN Refused("deadline-exceeded") ELSE NoReport

LevelOf(n) == Levels(schJob.selected)[n]

(* runLevel starts: each worker takes a family, or gives up at once. *)
HandOut(n, workers) ==
  LET families == Levels(schJob'.selected)[n]
      starting == IF schAborted' \/ late' THEN 0 ELSE Min({workers, Len(families)})
  IN /\ cursor' = Min({workers, Len(families)})
     /\ holding' = [w \in SchedulerWorkers |-> IF w <= starting THEN families[w] ELSE 0]

(* scheduleRuleFamilies up to its first await.  The deadline may pass during the
   evaluation, the signal cannot be aborted in it. *)
Schedule ==
  /\ schJob = NoSchedule
  /\ schJob' \in SchedulerJobs
  /\ late' \in {late, TRUE}
  /\ UNCHANGED <<schAborted, executions, completed>>
  /\ \/ /\ Checkpoint = NoReport /\ Admission(schJob') = NoReport
        /\ level' = 1 /\ HandOut(1, schJob'.workers)
        /\ UNCHANGED schAnswer
     \/ /\ \/ Checkpoint # NoReport /\ schAnswer' = Checkpoint
           \/ Checkpoint = NoReport /\ late' /\ schAnswer' = Refused("deadline-exceeded")
           \/ /\ Checkpoint = NoReport /\ Admission(schJob') # NoReport
              /\ schAnswer' = Admission(schJob')
        /\ UNCHANGED <<level, cursor, holding>>

Scheduling == schJob # NoSchedule /\ schAnswer = NoReport

(* A worker resumes after the perturbation: it gives up if the signal was aborted
   meanwhile, else hands its family over and takes the next. *)
WorkerResumes(w) ==
  /\ holding[w] # 0
  /\ \/ /\ schAborted                      \* seen by the perturbation
        /\ holding' = [holding EXCEPT ![w] = 0]
        /\ UNCHANGED <<completed, cursor>>
     \/ /\ completed' = completed \cup {holding[w]}
        /\ cursor' = Min({cursor + 1, Len(LevelOf(level))})
        /\ holding' = [holding EXCEPT ![w] =
             IF cursor < Len(LevelOf(level)) /\ ~schAborted /\ ~late
               THEN LevelOf(level)[cursor + 1] ELSE 0]
  /\ UNCHANGED <<schJob, level, executions, schAborted, late, schAnswer>>

(* The diagnostics of some families, with those that the suppressions add. *)
DiagnosticsOf(j, families) ==
  Total([f \in Families |-> IF f \in families THEN j.count[f] ELSE 0]) + j.unused

(* The finished report: everything handed over, unless the suppressions add a
   diagnostic too many. *)
FinishedReport(done) ==
  IF DiagnosticsOf(schJob, done) > MaxDiagnostics
    THEN Refused("resource-limit") ELSE [kind |-> "ok", families |-> done]

(* Faulty variant: neither the signal nor the deadline is read after the level. *)
LevelEndsUnchecked ==
  /\ Scheduling /\ \A w \in SchedulerWorkers : holding[w] = 0
  /\ executions' = executions \cup completed
  /\ completed' = {}
  /\ IF level < Len(Levels(schJob.selected))
       THEN /\ level' = level + 1
            /\ UNCHANGED <<schJob, schAborted, late>>
            /\ HandOut(level + 1, schJob.workers)
            /\ UNCHANGED schAnswer
       ELSE schAnswer' = FinishedReport(executions') /\ UNCHANGED <<schJob, level, cursor, holding,
                                                            schAborted, late>>

(* All workers of the level have returned: check, merge, and start the next level
   or report. *)
LevelEnds ==
  /\ Scheduling /\ \A w \in SchedulerWorkers : holding[w] = 0
  /\ UNCHANGED <<schJob, schAborted, late>>
  /\ IF Checkpoint # NoReport
       THEN schAnswer' = Checkpoint /\ UNCHANGED <<level, cursor, holding, completed, executions>>
       ELSE /\ executions' = executions \cup completed
            /\ completed' = {}
            /\ IF level < Len(Levels(schJob.selected))
                 THEN /\ level' = level + 1 /\ HandOut(level + 1, schJob.workers)
                      /\ UNCHANGED schAnswer
                 ELSE /\ schAnswer' = FinishedReport(executions')
                      /\ UNCHANGED <<level, cursor, holding>>

SchAbort ==
  /\ ~schAborted /\ schAborted' = TRUE
  /\ UNCHANGED <<schJob, level, cursor, holding, completed, executions, late, schAnswer>>

DeadlinePasses ==
  /\ ~late /\ late' = TRUE
  /\ UNCHANGED <<schJob, level, cursor, holding, completed, executions, schAborted, schAnswer>>

SchNext ==
  \/ Schedule \/ LevelEnds \/ SchAbort \/ DeadlinePasses
  \/ \E w \in SchedulerWorkers : WorkerResumes(w)

(* The event loop runs the workers and the scheduler. *)
SchFairness ==
  WF_schVars(LevelEnds) /\ \A w \in SchedulerWorkers : WF_schVars(WorkerResumes(w))

SchSpec == SchInit /\ [][SchNext]_schVars /\ SchFairness

-----------------------------------------------------------------------------
(* The answer a job deserves: what the evaluation refuses, or all its families. *)
SchedulerReference(j) ==
  IF Admission(j) # NoReport THEN Admission(j)
  ELSE IF DiagnosticsOf(j, j.selected) > MaxDiagnostics THEN Refused("resource-limit")
  ELSE [kind |-> "ok", families |-> j.selected]

SchedulerBatch ==
  INSTANCE DeterministicBatch
    WITH Jobs <- SchedulerJobs, Expected <- SchedulerReference,
         StopReasons <- {Refused("cancelled"), Refused("deadline-exceeded")},
         NoJob <- NoSchedule, NoAnswer <- NoReport,
         job <- schJob, answer <- schAnswer

(* A family is handed over only after those it depends on, and by one worker. *)
DependenciesFirst ==
  /\ \A w \in SchedulerWorkers : holding[w] # 0 => Dependencies(holding[w]) \subseteq executions
  /\ \A v, w \in SchedulerWorkers : holding[v] # 0 /\ holding[v] = holding[w] => v = w

(* A report covers every selected family, dependencies first, and depends on nothing but
   the job: not on the workers, the perturbation, or an abort the workers alone have seen. *)
SchedulerIsDeterministic == SchedulerBatch!BatchSpec /\ []DependenciesFirst

(* Every accepted job is answered. *)
SchedulerReturns == Scheduling ~> (schAnswer # NoReport)
=============================================================================
