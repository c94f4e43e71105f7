-------------------------- MODULE BoundedResolution --------------------------
(***************************************************************************)
(* Bounded resolution of effective contexts                                *)
(* (packages/resolver/src/bounded-resolution.ts).                          *)
(*                                                                         *)
(* Workers share the index of the next task across their awaits, keep what *)
(* their tasks return, count its bytes, and can all be stopped once: by    *)
(* the caller, by the deadline, or by a result that does not fit.          *)
(*                                                                         *)
(* A task is its position in the sorted task list; what its executor will  *)
(* return is fixed when the batch is submitted, when it returns is not.    *)
(***************************************************************************)
EXTENDS Naturals, FiniteSets, FiniteSetsExt, Totals

CONSTANTS NTasks,              \* tasks of the batch
          MaxConcurrency,      \* limits.maximumConcurrency, tried from 1 on
          MaxResultBytes, MaxTotalResultBytes,
          ResultSizes          \* sizes of results tried

ASSUME ResolutionAssumption ==
  /\ NTasks \in Nat /\ MaxConcurrency \in Nat
  /\ ResultSizes \subseteq Nat /\ MaxResultBytes \in Nat /\ MaxTotalResultBytes \in Nat
  /\ MaxResultBytes <= MaxTotalResultBytes

Tasks == 1 .. NTasks
Workers == 1 .. MaxConcurrency

(* A task's fate: a matching result of some size, a result for another task, or
   an executor that throws. *)
TaskOutcome ==
  [kind : {"ok"}, bytes : ResultSizes] \cup [kind : {"invalid", "execution"}, bytes : {0}]

(* A batch: the fate of each task and the number of workers. *)
ResolutionJobs == [fate : [Tasks -> TaskOutcome], workers : Workers]

NoResolution == [fate |-> << >>, workers |-> 0]

VARIABLES resJob,
          nextIndex,     \* the next task to be taken
          busy,          \* worker -> the task it awaits, 0 when it has returned
          stopped,       \* "no", "cancelled", "deadline", "resource"
          retained,      \* retainedResultBytes
          resolutions,   \* tasks whose result is kept
          failures,      \* tasks that failed
          resAborted,    \* the caller's signal is aborted
          resAnswer

resVars == <<resJob, nextIndex, busy, stopped, retained, resolutions, failures,
             resAborted, resAnswer>>

NoAnswerYet == [kind |-> "none", tasks |-> {}]
Stopped(reason) == [kind |-> reason, tasks |-> {}]

ResInit ==
  /\ resJob = NoResolution /\ nextIndex = 1 /\ busy = [w \in Workers |-> 0]
  /\ stopped = "no" /\ retained = 0 /\ resolutions = {} /\ failures = {}
  /\ resAborted = FALSE /\ resAnswer = NoAnswerYet

Running == resJob # NoResolution /\ resAnswer = NoAnswerYet

-----------------------------------------------------------------------------
(* resolveEffectiveContextsBounded up to its await: the workers start one after
   the other and each takes a task at once. *)
Resolve ==
  /\ resJob = NoResolution
  /\ resJob' \in ResolutionJobs
  /\ IF resAborted
       THEN resAnswer' = Stopped("cancelled") /\ UNCHANGED <<busy, nextIndex>>
       ELSE /\ busy' = [w \in Workers |-> IF w <= resJob'.workers /\ w <= NTasks THEN w ELSE 0]
            /\ nextIndex' = Min({resJob'.workers, NTasks}) + 1
            /\ UNCHANGED resAnswer
  /\ UNCHANGED <<stopped, retained, resolutions, failures, resAborted>>

(* The head of the worker's loop. *)
TakeNext(w, stop) ==
  IF stop # "no" \/ nextIndex > NTasks
    THEN busy' = [busy EXCEPT ![w] = 0] /\ UNCHANGED nextIndex
    ELSE busy' = [busy EXCEPT ![w] = nextIndex] /\ nextIndex' = nextIndex + 1

Fits(bytes) == bytes <= MaxResultBytes /\ retained + bytes <= MaxTotalResultBytes

(* The task of worker w settles; the worker resumes, keeps or refuses what came,
   and goes on with the next task. *)
TaskSettles(w) ==
  /\ busy[w] # 0
  /\ LET t == busy[w]
         fate == resJob.fate[t]
     IN \/ /\ fate.kind # "ok"
           /\ failures' = failures \cup {t}
           /\ TakeNext(w, stopped)
           /\ UNCHANGED <<stopped, retained, resolutions>>
        \/ /\ fate.kind = "ok" /\ Fits(fate.bytes)
           /\ retained' = retained + fate.bytes
           /\ resolutions' = resolutions \cup {t}
           /\ TakeNext(w, stopped)
           /\ UNCHANGED <<stopped, failures>>
        \/ /\ fate.kind = "ok" /\ ~Fits(fate.bytes)
           /\ stopped' = IF stopped = "no" THEN "resource" ELSE stopped
           /\ busy' = [busy EXCEPT ![w] = 0]
           /\ UNCHANGED <<nextIndex, retained, resolutions, failures>>
  /\ UNCHANGED <<resJob, resAborted, resAnswer>>

(* The caller's signal and the deadline timer. *)
ResAbort ==
  /\ ~resAborted /\ resAnswer = NoAnswerYet
  /\ resAborted' = TRUE
  /\ stopped' = IF Running /\ stopped = "no" THEN "cancelled" ELSE stopped
  /\ UNCHANGED <<resJob, nextIndex, busy, retained, resolutions, failures, resAnswer>>

ResDeadline ==
  /\ Running /\ stopped = "no"
  /\ stopped' = "deadline"
  /\ UNCHANGED <<resJob, nextIndex, busy, retained, resolutions, failures, resAborted,
                 resAnswer>>

(* The answer of a batch whose workers have all returned. *)
CompleteAnswer ==
  LET invalid == {t \in failures : resJob.fate[t].kind = "invalid"}
  IN IF invalid # {} THEN [kind |-> "invalid", tasks |-> invalid]
     ELSE IF failures # {} THEN [kind |-> "failed", tasks |-> failures]
     ELSE IF resolutions # Tasks THEN [kind |-> "lost", tasks |-> Tasks \ resolutions]
     ELSE [kind |-> "entries", tasks |-> resolutions]

(* Faulty variant: the call returns as soon as one worker has nothing left. *)
ReturnEarly ==
  /\ Running
  /\ \E w \in 1 .. resJob.workers : busy[w] = 0
  /\ resAnswer' = IF stopped # "no" THEN Stopped(stopped) ELSE CompleteAnswer
  /\ UNCHANGED <<resJob, nextIndex, busy, stopped, retained, resolutions, failures, resAborted>>

(* The race has settled: all workers have returned, or the batch was stopped and
   its tasks are left to themselves. *)
ResReturn ==
  /\ Running
  /\ \/ stopped # "no"
     \/ \A w \in Workers : busy[w] = 0
  /\ resAnswer' = IF stopped # "no" THEN Stopped(stopped) ELSE CompleteAnswer
  /\ UNCHANGED <<resJob, nextIndex, busy, stopped, retained, resolutions, failures, resAborted>>

ResNext ==
  \/ Resolve \/ ResAbort \/ ResDeadline \/ ResReturn
  \/ \E w \in Workers : TaskSettles(w)

(* The deadline timer fires and the caller's continuation runs; an executor may
   never settle. *)
ResFairness == WF_resVars(ResDeadline) /\ WF_resVars(ResReturn)

ResSpec == ResInit /\ [][ResNext]_resVars /\ ResFairness

-----------------------------------------------------------------------------
(* The bytes that the results of some tasks of batch j take together. *)
BytesOf(j, tasks) == Total([t \in Tasks |-> IF t \in tasks THEN j.fate[t].bytes ELSE 0])

(* The answer a batch deserves, whatever the schedule: it is too big, or the
   tasks with foreign results, or those that threw, or every result. *)
ResolutionReference(j) ==
  LET of(kind) == {t \in Tasks : j.fate[t].kind = kind}
  IN IF \/ \E t \in of("ok") : j.fate[t].bytes > MaxResultBytes
        \/ BytesOf(j, of("ok")) > MaxTotalResultBytes
       THEN Stopped("resource")
     ELSE IF of("invalid") # {} THEN [kind |-> "invalid", tasks |-> of("invalid")]
     ELSE IF of("execution") # {} THEN [kind |-> "failed", tasks |-> of("execution")]
     ELSE [kind |-> "entries", tasks |-> Tasks]

ResolutionBatch ==
  INSTANCE DeterministicBatch
    WITH Jobs <- ResolutionJobs, Expected <- ResolutionReference,
         StopReasons <- {Stopped("cancelled"), Stopped("deadline")},
         NoJob <- NoResolution, NoAnswer <- NoAnswerYet,
         job <- resJob, answer <- resAnswer

(* What is kept stays within the byte limit, also after the batch was stopped and
   its remaining tasks go on settling; no two workers run one task. *)
ResolutionBounded ==
  /\ retained <= MaxTotalResultBytes
  /\ retained = BytesOf(resJob, resolutions)
  /\ \A v, w \in Workers : busy[v] # 0 /\ busy[v] = busy[w] => v = w

(* The batch answers with a function of its tasks or was stopped from outside: the
   order in which tasks complete and the number of workers never show; and it stays
   within its bounds on the way. *)
ResolutionIsDeterministic == ResolutionBatch!BatchSpec /\ []ResolutionBounded

(* A submitted batch is answered though its tasks may hang. *)
ResolutionReturns == Running ~> (resAnswer # NoAnswerYet)
=============================================================================
