----------------------------- MODULE MCProcesses -----------------------------
(***************************************************************************)
(* The components that wait for something that may never answer: a worker  *)
(* thread, the network, a child process, the file system, a handler, the   *)
(* tasks of a pool.  They share no state, so a behaviour runs one of them, *)
(* with the fairness of that component, and leaves the others untouched.   *)
(***************************************************************************)
EXTENDS ExactTokenizer, RegistryClient, GitProcess, OperationContext, CommandRouter,
        ReadOnlyRepository, BoundedResolution, RuleScheduler

VARIABLE component

Init ==
  /\ TokInit /\ RegInit /\ GitInit /\ CtxInit /\ CliInit /\ RepoInit /\ ResInit /\ SchInit
  /\ component \in {"tokenizer", "registry", "git", "context", "cli", "repository",
                    "resolution", "scheduler"}

Next ==
  \/ component = "tokenizer" /\ TokNext
       /\ UNCHANGED <<regVars, gitVars, ctxVars, cliVars, repoVars, resVars, schVars, component>>
  \/ component = "registry" /\ RegNext
       /\ UNCHANGED <<tokVars, gitVars, ctxVars, cliVars, repoVars, resVars, schVars, component>>
  \/ component = "git" /\ GitNext
       /\ UNCHANGED <<tokVars, regVars, ctxVars, cliVars, repoVars, resVars, schVars, component>>
  \/ component = "context" /\ CtxNext
       /\ UNCHANGED <<tokVars, regVars, gitVars, cliVars, repoVars, resVars, schVars, component>>
  \/ component = "cli" /\ CliNext
       /\ UNCHANGED <<tokVars, regVars, gitVars, ctxVars, repoVars, resVars, schVars, component>>
  \/ component = "repository" /\ RepoNext
       /\ UNCHANGED <<tokVars, regVars, gitVars, ctxVars, cliVars, resVars, schVars, component>>
  \/ component = "resolution" /\ ResNext
       /\ UNCHANGED <<tokVars, regVars, gitVars, ctxVars, cliVars, repoVars, schVars, component>>
  \/ component = "scheduler" /\ SchNext
       /\ UNCHANGED <<tokVars, regVars, gitVars, ctxVars, cliVars, repoVars, resVars, component>>

vars == <<tokVars, regVars, gitVars, ctxVars, cliVars, repoVars, resVars, schVars, component>>

Spec ==
  /\ Init /\ [][Next]_vars
  /\ TokFairness /\ RegFairness /\ GitFairness /\ CtxFairness /\ CliFairness
  /\ RepoFairness /\ ResFairness /\ SchFairness

-----------------------------------------------------------------------------
(* No file handle outlives its wait or its call, however late an open settles, in either
   component that opens files under a deadline. *)
NoHandleLeaks == NoLeakedHandle /\ HandlesAreClosed

(* Every call returns although what it waits for may never answer: a worker that hangs, a
   silent registry, a Git that ignores SIGTERM, a stuck open, an interrupted handler, a
   system call that never ends, tasks that hang, workers that were delayed. *)
EveryCallReturns ==
  /\ TokenCallReturns
  /\ PermitReturns
  /\ GitReturns
  /\ WaitEnds
  /\ InterruptEnds
  /\ CallEnds
  /\ ResolutionReturns
  /\ SchedulerReturns
=============================================================================
