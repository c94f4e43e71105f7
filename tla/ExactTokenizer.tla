--------------------------- MODULE ExactTokenizer ---------------------------
(***************************************************************************)
(* Exact token counting in worker threads                                  *)
(* (packages/efficiency/src/exact-tokenizer.ts).                           *)
(*                                                                         *)
(* countTokensWithProviderAtBase either answers at once or starts a worker *)
(* thread and waits for the first of: its message, its error, its exit,    *)
(* the deadline and the caller's abort.  Except after an exit it then      *)
(* terminates the thread and waits for the confirmation, for at most a     *)
(* grace period.  A termination that is not confirmed turns the process-   *)
(* wide switch exactTokenizerContainmentAvailable off for good.            *)
(*                                                                         *)
(* The text and the token count are abstracted away: an answer is its kind.*)
(***************************************************************************)
EXTENDS Naturals

CONSTANT TokenCalls      \* calls of countTokensWithProvider in one process

VARIABLES containment,   \* exactTokenizerContainmentAvailable
          tokPhase,      \* call -> "new", "waiting", "terminating", "returned"
          tokPending,    \* call -> the outcome finishAfterTermination holds
          tokAnswer,     \* call -> the kind of the returned result
          thread,        \* call -> its worker thread
          reply,         \* call -> what the thread posted
          tokAborted     \* call -> its signal is aborted

tokVars == <<containment, tokPhase, tokPending, tokAnswer, thread, reply, tokAborted>>

Replies == {"success", "invalid", "unavailable", "failed"}
Outcomes == Replies \cup {"cancelled", "timeout", "containment-failed"}
Answers == {"exact", "estimate", "issue", "cancelled", "provider-timeout",
            "provider-unavailable", "provider-invalid", "provider-failed"}

TokInit ==
  /\ containment = TRUE
  /\ tokPhase = [c \in TokenCalls |-> "new"]
  /\ tokPending = [c \in TokenCalls |-> "none"]
  /\ tokAnswer = [c \in TokenCalls |-> "none"]
  /\ thread = [c \in TokenCalls |-> "none"]
  /\ reply = [c \in TokenCalls |-> "none"]
  /\ tokAborted = [c \in TokenCalls |-> FALSE]

-----------------------------------------------------------------------------
(* The result the caller sees for an outcome of runExactWorker. *)
AnswerOf(status) ==
  CASE status = "success"     -> "exact"
    [] status = "cancelled"   -> "cancelled"
    [] status = "timeout"     -> "provider-timeout"
    [] status = "unavailable" -> "provider-unavailable"
    [] status = "invalid"     -> "provider-invalid"
    [] OTHER                  -> "provider-failed"

TokReturn(c, answer) ==
  /\ tokPhase' = [tokPhase EXCEPT ![c] = "returned"]
  /\ tokAnswer' = [tokAnswer EXCEPT ![c] = answer]

(* Rejected providers, options or input; a built-in provider; input too long for
   a worker; a deadline that has passed before the worker is started. *)
AnswerAtOnce(c) ==
  /\ tokPhase[c] = "new"
  /\ \E answer \in IF tokAborted[c] THEN {"issue", "cancelled"}
                                    ELSE {"issue", "estimate", "provider-timeout"} :
       TokReturn(c, answer)
  /\ UNCHANGED <<containment, tokPending, thread, reply, tokAborted>>

(* Faulty variant: the switch is not read before a worker is created. *)
StartWorkerAnyway(c) ==
  /\ tokPhase[c] = "new" /\ ~tokAborted[c]
  /\ thread' = [thread EXCEPT ![c] = "busy"]
  /\ tokPhase' = [tokPhase EXCEPT ![c] = "waiting"]
  /\ UNCHANGED <<containment, tokPending, tokAnswer, reply, tokAborted>>

(* runExactWorker up to its promise: everything from the call on is synchronous. *)
StartWorker(c) ==
  /\ tokPhase[c] = "new" /\ ~tokAborted[c]
  /\ \/ /\ ~containment                   \* containment-failed
        /\ TokReturn(c, AnswerOf("containment-failed"))
        /\ UNCHANGED thread
     \/ /\ containment                    \* new Worker throws
        /\ TokReturn(c, AnswerOf("failed"))
        /\ UNCHANGED thread
     \/ /\ containment
        /\ thread' = [thread EXCEPT ![c] = "busy"]
        /\ tokPhase' = [tokPhase EXCEPT ![c] = "waiting"]
        /\ UNCHANGED tokAnswer
  /\ UNCHANGED <<containment, tokPending, reply, tokAborted>>

(* Remove the listeners and the timer, and ask the thread to stop.  terminate()
   may throw, which closes the switch. *)
FinishAfterTermination(c, outcome) ==
  /\ tokPhase[c] = "waiting"
  /\ \/ /\ tokPhase' = [tokPhase EXCEPT ![c] = "terminating"]
        /\ tokPending' = [tokPending EXCEPT ![c] = outcome]
        /\ UNCHANGED <<containment, tokAnswer>>
     \/ /\ containment' = FALSE
        /\ TokReturn(c, AnswerOf("containment-failed"))
        /\ UNCHANGED tokPending

(* The caller aborts; onAbort runs in the same step when it is registered. *)
TokAbort(c) ==
  /\ ~tokAborted[c]
  /\ tokAborted' = [tokAborted EXCEPT ![c] = TRUE]
  /\ \/ FinishAfterTermination(c, "cancelled")
     \/ /\ tokPhase[c] # "waiting"
        /\ UNCHANGED <<containment, tokPhase, tokPending, tokAnswer>>
  /\ UNCHANGED <<thread, reply>>

(* The deadline timer fires. *)
Deadline(c) ==
  /\ FinishAfterTermination(c, "timeout")
  /\ UNCHANGED <<thread, reply, tokAborted>>

(* The thread's message arrives; anything but a well-formed success, "invalid" or
   "unavailable" counts as "failed", and so does an error event. *)
Message(c) ==
  /\ thread[c] \in {"posted", "gone"} /\ reply[c] # "none"
  /\ FinishAfterTermination(c, reply[c])
  /\ UNCHANGED <<thread, reply, tokAborted>>

ErrorEvent(c) ==
  /\ thread[c] = "crashed"
  /\ FinishAfterTermination(c, "failed")
  /\ UNCHANGED <<thread, reply, tokAborted>>

ExitEvent(c) ==
  /\ tokPhase[c] = "waiting" /\ thread[c] = "gone"
  /\ TokReturn(c, AnswerOf("failed"))
  /\ UNCHANGED <<containment, tokPending, thread, reply, tokAborted>>

(* terminate() resolves: the thread has ended. *)
Confirmed(c) ==
  /\ tokPhase[c] = "terminating" /\ thread[c] = "gone"
  /\ TokReturn(c, AnswerOf(tokPending[c]))
  /\ UNCHANGED <<containment, tokPending, thread, reply, tokAborted>>

(* terminate() rejects, or the grace timer fires first. *)
GraceExpires(c) ==
  /\ tokPhase[c] = "terminating"
  /\ containment' = FALSE
  /\ TokReturn(c, AnswerOf("containment-failed"))
  /\ UNCHANGED <<tokPending, thread, reply, tokAborted>>

-----------------------------------------------------------------------------
(* The worker thread (exact-tokenizer-worker.ts): it posts one message or dies of
   an uncaught error or a resource limit, and ends by itself, by terminate(), or
   never. *)
ThreadPosts(c) ==
  /\ thread[c] = "busy"
  /\ thread' = [thread EXCEPT ![c] = "posted"]
  /\ \E r \in Replies : reply' = [reply EXCEPT ![c] = r]
  /\ UNCHANGED <<containment, tokPhase, tokPending, tokAnswer, tokAborted>>

ThreadCrashes(c) ==
  /\ thread[c] = "busy"
  /\ thread' = [thread EXCEPT ![c] = "crashed"]
  /\ UNCHANGED <<containment, tokPhase, tokPending, tokAnswer, reply, tokAborted>>

ThreadEnds(c) ==
  /\ thread[c] \in {"busy", "posted", "crashed"}
  /\ thread' = [thread EXCEPT ![c] = "gone"]
  /\ UNCHANGED <<containment, tokPhase, tokPending, tokAnswer, reply, tokAborted>>

TokNext ==
  \E c \in TokenCalls :
     \/ AnswerAtOnce(c) \/ StartWorker(c) \/ TokAbort(c) \/ Deadline(c)
     \/ Message(c) \/ ErrorEvent(c) \/ ExitEvent(c)
     \/ Confirmed(c) \/ GraceExpires(c)
     \/ ThreadPosts(c) \/ ThreadCrashes(c) \/ ThreadEnds(c)

(* Only the process's own timers are fair: a thread may never answer and never
   end, and a caller need not abort. *)
TokFairness ==
  \A c \in TokenCalls : WF_tokVars(Deadline(c)) /\ WF_tokVars(GraceExpires(c))

TokSpec == TokInit /\ [][TokNext]_tokVars /\ TokFairness

-----------------------------------------------------------------------------
Settled(c) == tokPhase[c] = "returned"

(* While new workers may be started, no call has returned and left its thread
   running: the threads of the process are those of calls still in flight. *)
NoAbandonedThread ==
  containment => \A c \in TokenCalls : Settled(c) => thread[c] \in {"none", "gone"}

(* An exact count is what the thread posted, and that thread has ended: a late,
   malformed or cancelled worker never supplies a count. *)
ExactIsContained ==
  \A c \in TokenCalls : tokAnswer[c] = "exact" => thread[c] = "gone" /\ reply[c] = "success"

(* Worker threads are contained: none is abandoned, none that may still run supplies a
   count, the switch never turns on again and no thread starts once it is off, whatever
   the calls that were in flight do; the first outcome of a call is its last. *)
ThreadsAreContained ==
  /\ []NoAbandonedThread
  /\ []ExactIsContained
  /\ [][/\ ~containment => /\ ~containment'
                           /\ \A c \in TokenCalls : thread[c] = "none" => thread'[c] = "none"
        /\ \A c \in TokenCalls :
             tokPending[c] # "none" => tokPending'[c] = tokPending[c]]_tokVars

(* Every call that waits for a worker returns, though the worker may neither
   answer nor end. *)
TokenCallReturns == \A c \in TokenCalls : (tokPhase[c] = "waiting") ~> Settled(c)
=============================================================================
