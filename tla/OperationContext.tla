-------------------------- MODULE OperationContext --------------------------
(***************************************************************************)
(* The deadline of a metadata operation and the file handles opened under  *)
(* it: OperationContext.wait, open and close in                            *)
(* packages/cli/src/git-metadata-executor.ts.                              *)
(*                                                                         *)
(* wait races the pending operation against the failure of the context.  A *)
(* handle that arrives after the race was lost must be closed by the hook  *)
(* that wait puts on the pending promise; a handle that wins the race but  *)
(* meets a failed checkpoint is closed by wait itself.  Which of the two   *)
(* does it depends on the order of promise reactions, so the model has the *)
(* event loop: completions and aborts are macrotasks, which start only     *)
(* when the queue of microtasks is empty, and reactions are microtasks in  *)
(* first-in first-out order.                                               *)
(***************************************************************************)
EXTENDS Sequences

VARIABLES request,       \* the open request: "none", "pending", "completed", "failed"
          handle,        \* "none", "open", "delivered", "closed"
          ctxFailed,     \* #failure is set
          listening,     \* wait's own abort listener is registered
          race,          \* "unsettled", "value", "error"
          lostRace,
          waiter,        \* the caller: "idle", "waiting", "using", "thrown", "done"
          jobs           \* the queue of microtasks

ctxVars == <<request, handle, ctxFailed, listening, race, lostRace, waiter, jobs>>

CtxInit ==
  /\ request = "none" /\ handle = "none" /\ ctxFailed = FALSE /\ listening = FALSE
  /\ race = "unsettled" /\ lostRace = FALSE /\ waiter = "idle" /\ jobs = << >>

-----------------------------------------------------------------------------
(* Macrotasks. *)

(* open(): wait's checkpoint, the request, the hook and the race. *)
WaitOpen ==
  /\ waiter = "idle" /\ jobs = << >>
  /\ \/ /\ waiter' = "thrown" /\ ctxFailed' = TRUE     \* failed, or past the deadline
        /\ UNCHANGED <<request, listening>>
     \/ /\ ~ctxFailed
        /\ request' = "pending" /\ listening' = TRUE /\ waiter' = "waiting"
        /\ UNCHANGED ctxFailed
  /\ UNCHANGED <<handle, race, lostRace, jobs>>

(* The file system answers: the async function open resumes in a microtask. *)
RequestCompletes ==
  /\ request = "pending" /\ jobs = << >>
  /\ \/ request' = "completed" /\ handle' = "open" /\ jobs' = <<"opened">>
     \/ request' = "failed" /\ jobs' = <<"rejected">> /\ UNCHANGED handle
  /\ UNCHANGED <<ctxFailed, listening, race, lostRace, waiter>>

(* The deadline timer or the caller's signal: #fail runs the abort listeners. *)
ContextFails ==
  /\ ~ctxFailed /\ jobs = << >>
  /\ ctxFailed' = TRUE
  /\ jobs' = IF listening THEN <<"settle-error">> ELSE << >>
  /\ UNCHANGED <<request, handle, listening, race, lostRace, waiter>>

(* The caller's finally block: context.close asks for the close in any case. *)
ContextClose ==
  /\ waiter = "using" /\ jobs = << >>
  /\ handle' = "closed" /\ waiter' = "done"
  /\ UNCHANGED <<request, ctxFailed, listening, race, lostRace, jobs>>

-----------------------------------------------------------------------------
(* Microtasks. *)
Runs(job) == jobs # << >> /\ Head(jobs) = job

(* The pending promise is fulfilled: its reactions are the hook, then the race. *)
Opened ==
  /\ Runs("opened")
  /\ jobs' = Tail(jobs) \o <<"late", "settle-value">>
  /\ UNCHANGED <<request, handle, ctxFailed, listening, race, lostRace, waiter>>

Rejected ==
  /\ Runs("rejected")
  /\ jobs' = Append(Tail(jobs), "settle-error")
  /\ UNCHANGED <<request, handle, ctxFailed, listening, race, lostRace, waiter>>

(* The hook: cleanupLate when the race was lost. *)
LateHook ==
  /\ Runs("late")
  /\ handle' = IF lostRace THEN "closed" ELSE handle
  /\ jobs' = Tail(jobs)
  /\ UNCHANGED <<request, ctxFailed, listening, race, lostRace, waiter>>

(* Promise.race settles with its first reaction and resumes wait. *)
RaceSettles ==
  /\ \E outcome \in {"value", "error"} :
       /\ Runs(IF outcome = "value" THEN "settle-value" ELSE "settle-error")
       /\ race' = IF race = "unsettled" THEN outcome ELSE race
  /\ jobs' = IF race = "unsettled" THEN Append(Tail(jobs), "resume") ELSE Tail(jobs)
  /\ UNCHANGED <<request, handle, ctxFailed, listening, lostRace, waiter>>

(* Faulty variant: wait does not note that it lost the race. *)
WaitResumesForgetful ==
  /\ Runs("resume") /\ jobs' = Tail(jobs) /\ listening' = FALSE
  /\ IF race = "value" /\ ~ctxFailed
       THEN handle' = "delivered" /\ waiter' = "using"
       ELSE waiter' = "thrown" /\ handle' = IF race = "value" THEN "closed" ELSE handle
  /\ UNCHANGED <<request, ctxFailed, race, lostRace>>

(* wait resumes: the second checkpoint, which may find the deadline passed. *)
WaitResumes ==
  /\ Runs("resume") /\ jobs' = Tail(jobs) /\ listening' = FALSE
  /\ \/ /\ race = "value" /\ ~ctxFailed
        /\ handle' = "delivered" /\ waiter' = "using"
        /\ UNCHANGED <<ctxFailed, lostRace>>
     \/ /\ race = "value"                 \* failed, or past the deadline only now
        /\ handle' = "closed" /\ waiter' = "thrown"
        /\ ctxFailed' = TRUE /\ lostRace' = TRUE
     \/ /\ race = "error"
        /\ waiter' = "thrown" /\ lostRace' = ctxFailed
        /\ UNCHANGED <<handle, ctxFailed>>
  /\ UNCHANGED <<request, race>>

Microtask == Opened \/ Rejected \/ LateHook \/ RaceSettles \/ WaitResumes

CtxNext == WaitOpen \/ RequestCompletes \/ ContextFails \/ ContextClose \/ Microtask

(* The deadline timer fires while a wait is pending, and the event loop runs its
   microtasks; the file system may never answer. *)
CtxFairness == WF_ctxVars(listening /\ ContextFails) /\ WF_ctxVars(Microtask)

CtxSpec == CtxInit /\ [][CtxNext]_ctxVars /\ CtxFairness

-----------------------------------------------------------------------------
(* When the event loop is idle, a handle that was opened is with the caller or has
   been closed: neither a late answer nor a late failure leaks it. *)
NoLeakedHandle == jobs = << >> => handle # "open"

(* A wait ends, with the handle or by throwing, though the request may hang. *)
WaitEnds == (waiter = "waiting") ~> (waiter \in {"using", "thrown"})
=============================================================================
