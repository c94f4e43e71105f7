---------------------------- MODULE CommandRouter ----------------------------
(***************************************************************************)
(* One run of the command line: runProcessCli and createNodeWritableOutput *)
(* (packages/cli/src/process-cli.ts) around runCommandRouter and its       *)
(* bounded writers (packages/cli/src/command-router.ts).                   *)
(*                                                                         *)
(* A command handler runs concurrently with SIGINT and with the streams it *)
(* writes to.  The router waits for the handler or for the interrupt,      *)
(* reports a failure on stderr, and sets the exit code; a handler it has   *)
(* stopped waiting for goes on running in the background.                  *)
(*                                                                         *)
(* Texts are numbers of bytes.  A handler is any program that awaits its   *)
(* writes and lets their failure escape; the one stream of the model stands *)
(* for stdout, the report of a failure is a write of its own to stderr.    *)
(***************************************************************************)
EXTENDS Naturals

CONSTANT MaxOutputBytes  \* CLI_LIMITS.maximumOutputBytes

ASSUME CliAssumption == MaxOutputBytes \in Nat

VARIABLES cliPc,         \* "start", "help", "handler", "report", "reporting", "returned"
          handler,       \* "none", "running", "writing", "success", "policy",
                         \* "failure", "output-failed", "rejected"
          pendingWrite,  \* the write submitted to the stream: "none", "pending",
                         \* "abandoned" (in progress, and nobody waits for it)
          totalBytes,    \* bytes accepted by the bounded writer
          delivered,     \* bytes whose write has completed
          interrupted,   \* the signal is aborted
          sigintListener,\* the SIGINT listener is installed, or could not be removed
          exitCode       \* "none", "success", "policy", "operational", "interrupted"

cliVars == <<cliPc, handler, pendingWrite, totalBytes, delivered, interrupted,
             sigintListener, exitCode>>

Completions == {"success", "policy", "failure", "output-failed", "rejected"}

CliInit ==
  /\ cliPc = "start" /\ handler = "none" /\ pendingWrite = "none"
  /\ totalBytes = 0 /\ delivered = 0
  /\ interrupted = FALSE /\ sigintListener = FALSE /\ exitCode = "none"

-----------------------------------------------------------------------------
(* runProcessCli's finally block: the listener goes and the exit code is set.  A
   removal that throws makes the result an operational error; the listener is then
   taken to be still there. *)
Exit(code) ==
  /\ cliPc' = "returned"
  /\ \/ exitCode' = code /\ sigintListener' = FALSE
     \/ exitCode' = "operational" /\ sigintListener' = TRUE

(* Start: bad invocations and arguments are reported; help and version print one
   text; a command starts its handler, which runs until its first await. *)
Start ==
  /\ cliPc = "start"
  /\ \/ /\ cliPc' \in {"report", "help"}
        /\ sigintListener' = TRUE
        /\ UNCHANGED <<handler, exitCode>>
     \/ /\ cliPc' = "handler" /\ handler' = "running" /\ sigintListener' = TRUE
        /\ UNCHANGED exitCode
     \/ /\ Exit("operational")            \* no invocation, or no listener
        /\ UNCHANGED handler
  /\ UNCHANGED <<pendingWrite, totalBytes, delivered, interrupted>>

(* Faulty variant: the writer does not look at the signal. *)
HandlerWritesOn ==
  /\ handler = "running"
  /\ \E bytes \in 0 .. MaxOutputBytes + 1 :
       IF totalBytes + bytes > MaxOutputBytes
         THEN handler' = "output-failed" /\ UNCHANGED <<pendingWrite, totalBytes>>
         ELSE /\ totalBytes' = totalBytes + bytes
              /\ handler' = "writing" /\ pendingWrite' = "pending"
  /\ UNCHANGED <<cliPc, delivered, interrupted, sigintListener, exitCode>>

(* The handler writes through the bounded writer; a refused text, and a stream
   that throws, is an OutputFailure the handler passes on. *)
HandlerWrites ==
  /\ handler = "running"
  /\ \E bytes \in 0 .. MaxOutputBytes + 1 :
       IF interrupted \/ totalBytes + bytes > MaxOutputBytes
         THEN handler' = "output-failed" /\ UNCHANGED <<pendingWrite, totalBytes>>
         ELSE /\ totalBytes' = totalBytes + bytes
              /\ handler' = "writing" /\ pendingWrite' = "pending"
  /\ UNCHANGED <<cliPc, delivered, interrupted, sigintListener, exitCode>>

(* The stream's callback: with success, or with a failure (also its error event). *)
StreamSettles ==
  /\ handler = "writing" /\ pendingWrite = "pending"
  /\ pendingWrite' = "none"
  /\ \/ handler' = "running" /\ delivered' = totalBytes
     \/ handler' = "output-failed" /\ UNCHANGED delivered
  /\ UNCHANGED <<cliPc, totalBytes, interrupted, sigintListener, exitCode>>

(* A write that was cut off was submitted all the same: its callback comes, to
   nobody, and its bytes may have been written. *)
AbandonedSettles ==
  /\ pendingWrite = "abandoned"
  /\ pendingWrite' = "none"
  /\ delivered' \in {delivered, totalBytes}
  /\ UNCHANGED <<cliPc, handler, totalBytes, interrupted, sigintListener, exitCode>>

(* The handler completes without awaiting anything more. *)
HandlerEnds ==
  /\ handler = "running"
  /\ handler' \in Completions \ {"output-failed"}
  /\ UNCHANGED <<cliPc, pendingWrite, totalBytes, delivered, interrupted, sigintListener,
                 exitCode>>

(* SIGINT: the abort runs its listeners at once.  The promise of a pending write
   settles as a failure, which does not take the write back from the stream; the
   router's own race, if it waits in one, resolves as aborted. *)
Interrupt ==
  /\ sigintListener /\ ~interrupted
  /\ interrupted' = TRUE
  /\ IF handler = "writing"
       THEN handler' = "output-failed" /\ pendingWrite' = "abandoned"
       ELSE UNCHANGED <<handler, pendingWrite>>
  /\ IF cliPc = "handler" /\ handler \notin Completions
       THEN Exit("interrupted") ELSE UNCHANGED <<cliPc, sigintListener, exitCode>>
  /\ UNCHANGED <<totalBytes, delivered>>

(* The router resumes after the handler has settled. *)
RouterResumes ==
  /\ cliPc = "handler" /\ handler \in Completions
  /\ CASE handler = "success" -> Exit("success")
       [] handler = "policy"  -> Exit("policy")
       [] OTHER -> cliPc' = "report" /\ UNCHANGED <<sigintListener, exitCode>>
  /\ UNCHANGED <<handler, pendingWrite, totalBytes, delivered, interrupted>>

(* Help and version: one write to stdout, then the signal is read once more. *)
PrintHelp ==
  /\ cliPc = "help"
  /\ \/ Exit(IF interrupted THEN "interrupted" ELSE "success")
     \/ cliPc' = "report" /\ UNCHANGED <<sigintListener, exitCode>>
  /\ UNCHANGED <<handler, pendingWrite, totalBytes, delivered, interrupted>>

(* reportError: nothing is reported after an interrupt. *)
Report ==
  /\ cliPc = "report"
  /\ IF interrupted THEN Exit("interrupted")
                    ELSE cliPc' = "reporting" /\ UNCHANGED <<sigintListener, exitCode>>
  /\ UNCHANGED <<handler, pendingWrite, totalBytes, delivered, interrupted>>

(* The report has been written, has failed, or has been cut off by the signal. *)
Reported ==
  /\ cliPc = "reporting"
  /\ Exit(IF interrupted THEN "interrupted" ELSE "operational")
  /\ UNCHANGED <<handler, pendingWrite, totalBytes, delivered, interrupted>>

CliNext ==
  \/ Start \/ HandlerWrites \/ StreamSettles \/ AbandonedSettles \/ HandlerEnds \/ Interrupt
  \/ RouterResumes \/ PrintHelp \/ Report \/ Reported

(* The event loop runs what is ready; handlers and streams may hang. *)
CliFairness ==
  WF_cliVars(RouterResumes) /\ WF_cliVars(Report) /\ WF_cliVars(interrupted /\ Reported)
    /\ WF_cliVars(interrupted /\ PrintHelp)

CliSpec == CliInit /\ [][CliNext]_cliVars /\ CliFairness

-----------------------------------------------------------------------------
(* A run that reports success or a policy failure of a command has delivered every
   byte the writer accepted, within the limit. *)
ExitMeansDelivered ==
  /\ totalBytes <= MaxOutputBytes
  /\ exitCode \in {"success", "policy"} /\ handler # "none" => delivered = totalBytes

(* An interrupt that arrives while the run still waits for its handler, or before
   its failure is reported, ends in the interrupted exit code; only a listener that
   cannot be removed makes it an operational error. *)
InterruptWins == interrupted /\ exitCode = "operational" => sigintListener

(* After an interrupt no byte is accepted and no write is submitted; the stream may
   still complete the one write it had been given. *)
SilentOnceInterrupted ==
  interrupted =>
    /\ totalBytes' = totalBytes
    /\ pendingWrite' # "pending"
    /\ delivered' # delivered => pendingWrite = "abandoned" /\ pendingWrite' = "none"

(* What the run reports is true: a success has delivered its output, an interrupt is
   reported as one, and after it nothing is added to what the stream already has,
   though a handler the router no longer waits for may go on. *)
ReportIsTrue ==
  /\ []ExitMeansDelivered
  /\ []InterruptWins
  /\ [][SilentOnceInterrupted]_cliVars

(* An interrupted run ends, whatever its handler and its streams do. *)
InterruptEnds == interrupted ~> (exitCode # "none")
=============================================================================
