----------------------------- MODULE GitProcess -----------------------------
(***************************************************************************)
(* One Git command of the changed-file scan: runGit in                     *)
(* packages/cli/src/git-metadata-executor.ts.                              *)
(*                                                                         *)
(* The identities of the executable, the repository and the runtime are    *)
(* compared before the child is spawned and again after it has closed.     *)
(* The deadline, the abort of the operation, too much output and an error  *)
(* event stop the child: SIGTERM at once, SIGKILL by a timer; the answer   *)
(* is only given after the child's "close" event.                          *)
(*                                                                         *)
(* drift says whether one of the identities has changed: never, while the  *)
(* child ran or before, or only after it had closed.  An identity holds    *)
(* inode and change times, so a changed one never matches again.           *)
(***************************************************************************)
EXTENDS Naturals

CONSTANT MaxOutput       \* maximumOutputBytes

ASSUME GitAssumption == MaxOutput \in Nat

VARIABLES gitPc,         \* "new", "running", "recheck", "returned"
          child,         \* "none", "alive", "dying", "exited", "closed"
          stopping,      \* stop() has been called
          forceTimer,    \* the SIGKILL timer: "off", "armed", "fired"
          outputBytes,   \* bytes received on both pipes, capped at MaxOutput + 1
          gitAborted,    \* context.signal is aborted
          drift,         \* "none", "before", "after"
          response       \* "none", "failure", "output"

gitVars == <<gitPc, child, stopping, forceTimer, outputBytes, gitAborted, drift, response>>

GitInit ==
  /\ gitPc = "new" /\ child = "none" /\ stopping = FALSE /\ forceTimer = "off"
  /\ outputBytes = 0 /\ gitAborted = FALSE /\ drift = "none" /\ response = "none"

-----------------------------------------------------------------------------
GitReturn(r) == gitPc' = "returned" /\ response' = r

(* terminate(): the kernel delivers a signal to the process group; SIGTERM may be
   ignored, SIGKILL may not. *)
Signalled(signal) ==
  IF child = "alive" /\ signal = "SIGKILL" THEN {"dying"}
  ELSE IF child = "alive" THEN {"alive", "dying"} ELSE {child}

(* Faulty variant: no timer follows the SIGTERM. *)
StopPolitely ==
  /\ stopping' = TRUE
  /\ child' \in (IF stopping THEN {child} ELSE Signalled("SIGTERM"))
  /\ UNCHANGED forceTimer

(* stop(): once. *)
Stop ==
  /\ stopping' = TRUE
  /\ IF stopping
       THEN UNCHANGED <<child, forceTimer>>
       ELSE child' \in Signalled("SIGTERM") /\ forceTimer' = "armed"

(* The three identity comparisons, each ending in a checkpoint of the context. *)
IdentitiesMatch == drift = "none" /\ ~gitAborted

(* Compare the identities and spawn; what the comparison cannot see any more is a
   change between it and the spawn, which the second comparison finds. *)
Spawn ==
  /\ gitPc = "new"
  /\ \/ ~IdentitiesMatch /\ GitReturn("failure") /\ UNCHANGED child
     \/ IdentitiesMatch /\ GitReturn("failure") /\ UNCHANGED child    \* spawn throws
     \/ IdentitiesMatch /\ gitPc' = "running" /\ child' = "alive" /\ UNCHANGED response
  /\ UNCHANGED <<stopping, forceTimer, outputBytes, gitAborted, drift>>

(* The command's own deadline. *)
CommandDeadline ==
  /\ gitPc = "running" /\ Stop
  /\ UNCHANGED <<gitPc, outputBytes, gitAborted, drift, response>>

(* The context fails: its deadline, or the caller's signal.  The listener stops
   the child; it is removed once the child has closed. *)
ContextAborts ==
  /\ ~gitAborted /\ gitAborted' = TRUE
  /\ \/ gitPc = "running" /\ Stop
     \/ gitPc # "running" /\ UNCHANGED <<child, stopping, forceTimer>>
  /\ UNCHANGED <<gitPc, outputBytes, drift, response>>

(* A chunk of output or of error output arrives. *)
Data ==
  /\ gitPc = "running" /\ child # "none" /\ ~stopping
  /\ outputBytes' = outputBytes + 1
  /\ IF outputBytes' > MaxOutput THEN Stop ELSE UNCHANGED <<child, stopping, forceTimer>>
  /\ UNCHANGED <<gitPc, gitAborted, drift, response>>

(* The child process reports an error (it could not be started, or signalled). *)
ChildError ==
  /\ gitPc = "running" /\ Stop
  /\ UNCHANGED <<gitPc, outputBytes, gitAborted, drift, response>>

ForceKill ==
  /\ forceTimer = "armed" /\ gitPc = "running"
  /\ forceTimer' = "fired"
  /\ child' \in Signalled("SIGKILL")
  /\ UNCHANGED <<gitPc, stopping, outputBytes, gitAborted, drift, response>>

(* The operating system: the child ends by itself or because of a signal. *)
ChildEnds ==
  /\ child = "alive"
  /\ child' = "exited"
  /\ UNCHANGED <<gitPc, stopping, forceTimer, outputBytes, gitAborted, drift, response>>

ChildDies ==
  /\ child = "dying"
  /\ child' = "exited"
  /\ UNCHANGED <<gitPc, stopping, forceTimer, outputBytes, gitAborted, drift, response>>

(* Somebody replaces the executable, the repository's metadata or the runtime. *)
Drift ==
  /\ drift = "none"
  /\ drift' = IF child = "closed" THEN "after" ELSE "before"
  /\ UNCHANGED <<gitPc, child, stopping, forceTimer, outputBytes, gitAborted, response>>

(* The "close" event: finish clears the timers and the listener. *)
Close ==
  /\ gitPc = "running" /\ child = "exited"
  /\ gitPc' = "recheck" /\ child' = "closed"
  /\ forceTimer' = "off"
  /\ UNCHANGED <<stopping, outputBytes, gitAborted, drift, response>>

(* Faulty variant: the identities are not compared again. *)
FinishUnchecked ==
  /\ gitPc = "recheck"
  /\ \E killed \in BOOLEAN :
       GitReturn(IF stopping \/ gitAborted \/ killed THEN "failure" ELSE "output")
  /\ UNCHANGED <<child, stopping, forceTimer, outputBytes, gitAborted, drift>>

(* The rest of finish, after the identity comparisons; killed stands for a child
   that ended by a signal of somebody else (exitCode null). *)
GitFinish ==
  /\ gitPc = "recheck"
  /\ \E killed \in BOOLEAN :
       GitReturn(IF stopping \/ gitAborted \/ ~IdentitiesMatch \/ killed
                   THEN "failure" ELSE "output")
  /\ UNCHANGED <<child, stopping, forceTimer, outputBytes, gitAborted, drift>>

GitNext ==
  \/ Spawn \/ CommandDeadline \/ ContextAborts \/ Data \/ ChildError \/ ForceKill
  \/ ChildEnds \/ ChildDies \/ Drift \/ Close \/ GitFinish

(* The timers fire, a killed process dies and the event loop runs its callbacks;
   nothing else is owed: Git may never end by itself. *)
GitFairness ==
  /\ WF_gitVars(gitPc = "running" /\ ~stopping /\ CommandDeadline)
  /\ WF_gitVars(ForceKill) /\ WF_gitVars(ChildDies)
  /\ WF_gitVars(Close) /\ WF_gitVars(GitFinish)

GitSpec == GitInit /\ [][GitNext]_gitVars /\ GitFairness

-----------------------------------------------------------------------------
(* No Git process outlives the command that started it, though it may ignore SIGTERM and
   every stop condition may race its exit; and output is handed on only when the child was
   never stopped, stayed within the limit, and ran from beginning to end with unchanged
   identities. *)
OutputIsTrusted ==
  /\ gitPc = "returned" => child \in {"none", "closed"}
  /\ response = "output" => ~stopping /\ outputBytes <= MaxOutput /\ drift # "before"

(* A command that has been started answers, even if Git hangs. *)
GitReturns == (gitPc = "running") ~> (gitPc = "returned")
=============================================================================
