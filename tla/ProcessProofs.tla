---------------------------- MODULE ProcessProofs ----------------------------
(***************************************************************************)
(* Proofs about the components that wait for something that may never      *)
(* answer.  Each section proves the inductive invariant of one component   *)
(* and derives from it the property that the runs check.                   *)
(***************************************************************************)
EXTENDS MCProcesses, NumberLemmas, FiniteSetTheorems, SequenceTheorems, TLAPS

-----------------------------------------------------------------------------
(* The exact tokenizer *)

TokTypeOK ==
  /\ containment \in BOOLEAN
  /\ tokPhase \in [TokenCalls -> {"new", "waiting", "terminating", "returned"}]
  /\ tokPending \in [TokenCalls -> Outcomes \cup {"none"}]
  /\ tokAnswer \in [TokenCalls -> Answers \cup {"none"}]
  /\ thread \in [TokenCalls -> {"none", "busy", "posted", "crashed", "gone"}]
  /\ reply \in [TokenCalls -> Replies \cup {"none"}]
  /\ tokAborted \in [TokenCalls -> BOOLEAN]

(* A call owns no thread before it starts one, waits for one it owns, and holds the
   outcome "success" only if its thread posted it. *)
CallOwnsThread(c) ==
  /\ tokPhase[c] = "new" => thread[c] = "none"
  /\ thread[c] \in {"none", "busy"} => reply[c] = "none"
  /\ tokPending[c] # "none" => tokPhase[c] \in {"terminating", "returned"}
  /\ tokPhase[c] = "terminating" => tokPending[c] # "none"
  /\ tokPending[c] = "success" => reply[c] = "success"

TokInvariant ==
  /\ TokTypeOK
  /\ \A c \in TokenCalls : CallOwnsThread(c)
  /\ NoAbandonedThread
  /\ ExactIsContained

LEMMA AnswerOfType ==
  ASSUME NEW status \in Outcomes
  PROVE  /\ AnswerOf(status) \in Answers
         /\ AnswerOf(status) = "exact" => status = "success"
  BY DEF AnswerOf, Outcomes, Replies, Answers

\* Every way to settle a waiting call keeps the invariant: the outcome is held until the
\* thread has ended, or the switch is turned off.
LEMMA TerminationKeepsThreads ==
  ASSUME TokInvariant, NEW c \in TokenCalls, NEW outcome \in Outcomes,
         outcome = "success" => reply[c] = "success",
         FinishAfterTermination(c, outcome), UNCHANGED <<thread, reply>>,
         tokAborted' \in [TokenCalls -> BOOLEAN]
  PROVE  TokInvariant'
  <1> USE DEF TokInvariant, TokTypeOK, CallOwnsThread, NoAbandonedThread, ExactIsContained, Settled
  <1>0. outcome # "none"
    BY DEF Outcomes, Replies
  <1>1. CASE tokPhase' = [tokPhase EXCEPT ![c] = "terminating"]
             /\ tokPending' = [tokPending EXCEPT ![c] = outcome]
             /\ UNCHANGED <<containment, tokAnswer>>
    BY <1>0, <1>1
  <1>2. CASE containment' = FALSE /\ TokReturn(c, AnswerOf("containment-failed"))
             /\ UNCHANGED tokPending
    <2>1. "containment-failed" \in Outcomes
      BY DEF Outcomes
    <2>2. AnswerOf("containment-failed") \in Answers \ {"exact"}
      BY <2>1, AnswerOfType
    <2> QED BY <1>2, <2>2 DEF TokReturn
  <1> QED BY <1>1, <1>2 DEF FinishAfterTermination

LEMMA TokStep ==
  ASSUME TokInvariant, [TokNext]_tokVars
  PROVE  TokInvariant'
  <1> USE DEF TokInvariant, TokTypeOK, CallOwnsThread, NoAbandonedThread, ExactIsContained, Settled
  <1>0. {"failed", "containment-failed", "timeout", "cancelled"} \subseteq Outcomes
    BY DEF Outcomes, Replies
  <1>1. /\ AnswerOf("failed") \in Answers \ {"exact"}
        /\ AnswerOf("containment-failed") \in Answers \ {"exact"}
    BY <1>0, AnswerOfType
  <1>2. CASE UNCHANGED tokVars
    BY <1>2 DEF tokVars
  <1>3. ASSUME NEW c \in TokenCalls, AnswerAtOnce(c)
        PROVE  TokInvariant'
    BY <1>3 DEF AnswerAtOnce, TokReturn, Answers
  <1>4. ASSUME NEW c \in TokenCalls, StartWorker(c)
        PROVE  TokInvariant'
    BY <1>1, <1>4 DEF StartWorker, TokReturn
  <1>5. ASSUME NEW c \in TokenCalls, TokAbort(c)
        PROVE  TokInvariant'
    <2>1. CASE FinishAfterTermination(c, "cancelled")
      BY <1>0, <1>5, <2>1, TerminationKeepsThreads DEF TokAbort
    <2>2. CASE UNCHANGED <<containment, tokPhase, tokPending, tokAnswer>>
      BY <1>5, <2>2 DEF TokAbort
    <2> QED BY <1>5, <2>1, <2>2 DEF TokAbort
  <1>6. ASSUME NEW c \in TokenCalls, Deadline(c)
        PROVE  TokInvariant'
    BY <1>0, <1>6, TerminationKeepsThreads DEF Deadline
  <1>7. ASSUME NEW c \in TokenCalls, Message(c)
        PROVE  TokInvariant'
    <2>1. reply[c] \in Outcomes
      BY <1>7 DEF Message, Outcomes
    <2> QED BY <1>7, <2>1, TerminationKeepsThreads DEF Message
  <1>8. ASSUME NEW c \in TokenCalls, ErrorEvent(c)
        PROVE  TokInvariant'
    BY <1>0, <1>8, TerminationKeepsThreads DEF ErrorEvent
  <1>9. ASSUME NEW c \in TokenCalls, ExitEvent(c)
        PROVE  TokInvariant'
    BY <1>1, <1>9 DEF ExitEvent, TokReturn
  <1>10. ASSUME NEW c \in TokenCalls, Confirmed(c)
         PROVE  TokInvariant'
    <2>1. tokPending[c] \in Outcomes
      BY <1>10 DEF Confirmed
    <2> QED BY <1>10, <2>1, AnswerOfType DEF Confirmed, TokReturn
  <1>11. ASSUME NEW c \in TokenCalls, GraceExpires(c)
         PROVE  TokInvariant'
    BY <1>1, <1>11 DEF GraceExpires, TokReturn
  <1>12. ASSUME NEW c \in TokenCalls, ThreadPosts(c) \/ ThreadCrashes(c) \/ ThreadEnds(c)
         PROVE  TokInvariant'
    BY <1>12 DEF ThreadPosts, ThreadCrashes, ThreadEnds
  <1> QED BY <1>2, <1>3, <1>4, <1>5, <1>6, <1>7, <1>8, <1>9, <1>10, <1>11, <1>12 DEF TokNext

\* The action part of ThreadsAreContained.
SwitchIsFinal ==
  /\ ~containment => /\ ~containment'
                     /\ \A c \in TokenCalls : thread[c] = "none" => thread'[c] = "none"
  /\ \A c \in TokenCalls : tokPending[c] # "none" => tokPending'[c] = tokPending[c]

LEMMA TokSwitchStep ==
  ASSUME TokInvariant, [TokNext]_tokVars
  PROVE  SwitchIsFinal
  BY DEF SwitchIsFinal, TokInvariant, TokTypeOK, CallOwnsThread, tokVars, TokNext, AnswerAtOnce,
         StartWorker, TokAbort, Deadline, Message, ErrorEvent, ExitEvent, Confirmed, GraceExpires,
         ThreadPosts, ThreadCrashes, ThreadEnds, FinishAfterTermination, TokReturn

(* A worker thread outlives its call only when no further worker can start, a count comes
   only from a thread that has ended, and a closed switch stays closed
   (exact-tokenizer.ts), for any number of calls. *)
THEOREM WorkersAreContained == TokSpec => ThreadsAreContained
  <1>1. TokInit => TokInvariant
    BY DEF TokInit, TokInvariant, TokTypeOK, CallOwnsThread, NoAbandonedThread, ExactIsContained,
           Settled
  <1>2. TokInvariant /\ [TokNext]_tokVars => TokInvariant'
    BY TokStep
  <1>3. TokInvariant => NoAbandonedThread /\ ExactIsContained
    BY DEF TokInvariant
  <1>4. TokInvariant /\ [TokNext]_tokVars => [SwitchIsFinal]_tokVars
    BY TokSwitchStep
  <1> QED BY <1>1, <1>2, <1>3, <1>4, PTL DEF TokSpec, ThreadsAreContained, SwitchIsFinal

-----------------------------------------------------------------------------
(* The Git executor *)

GitTypeOK ==
  /\ gitPc \in {"new", "running", "recheck", "returned"}
  /\ child \in {"none", "alive", "dying", "exited", "closed"}
  /\ stopping \in BOOLEAN
  /\ outputBytes \in Nat
  /\ gitAborted \in BOOLEAN
  /\ drift \in {"none", "before", "after"}
  /\ response \in {"none", "failure", "output"}

(* Where the child can be while the command is at each of its places. *)
ChildFollowsCommand ==
  /\ gitPc = "new" => child = "none"
  /\ gitPc = "running" => child \in {"alive", "dying", "exited"}
  /\ gitPc = "recheck" => child = "closed"
  /\ gitPc = "returned" => child \in {"none", "closed"}

GitInvariant ==
  /\ GitTypeOK
  /\ ChildFollowsCommand
  /\ ~stopping => outputBytes <= MaxOutput
  /\ response = "output" => /\ gitPc = "returned" /\ child = "closed"
                            /\ ~stopping /\ drift # "before"

\* stop() sets its flag; a child it signals dies or ignores the signal.
LEMMA StopSignals ==
  ASSUME Stop
  PROVE  /\ stopping' = TRUE
         /\ child' = child \/ (child = "alive" /\ child' = "dying")
  <1>1. CASE stopping
    BY <1>1 DEF Stop
  <1>2. CASE ~stopping
    BY <1>2 DEF Stop, Signalled
  <1> QED BY <1>1, <1>2

LEMMA GitStep ==
  ASSUME GitInvariant, [GitNext]_gitVars
  PROVE  GitInvariant'
  <1> USE GitAssumption DEF GitInvariant, GitTypeOK, ChildFollowsCommand
  <1>1. CASE UNCHANGED gitVars
    BY <1>1 DEF gitVars
  <1>2. CASE Spawn
    BY <1>2 DEF Spawn, GitReturn
  <1>3. CASE CommandDeadline \/ ChildError
    BY <1>3, StopSignals DEF CommandDeadline, ChildError
  <1>4. CASE ContextAborts
    <2>1. CASE gitPc = "running" /\ Stop
      BY <1>4, <2>1, StopSignals DEF ContextAborts
    <2>2. CASE UNCHANGED <<child, stopping, forceTimer>>
      BY <1>4, <2>2 DEF ContextAborts
    <2> QED BY <1>4, <2>1, <2>2 DEF ContextAborts
  <1>5. CASE Data
    <2>1. CASE outputBytes' > MaxOutput
      BY <1>5, <2>1, StopSignals DEF Data
    <2>2. CASE ~(outputBytes' > MaxOutput)
      BY <1>5, <2>2 DEF Data
    <2> QED BY <2>1, <2>2
  <1>6. CASE ForceKill
    BY <1>6 DEF ForceKill, Signalled
  <1>7. CASE ChildEnds \/ ChildDies \/ Drift \/ Close
    BY <1>7 DEF ChildEnds, ChildDies, Drift, Close
  <1>8. CASE GitFinish
    BY <1>8 DEF GitFinish, GitReturn, IdentitiesMatch
  <1> QED BY <1>1, <1>2, <1>3, <1>4, <1>5, <1>6, <1>7, <1>8 DEF GitNext

(* No Git process outlives runGit, and its output is handed on only when the child was
   never stopped, stayed within the limit and ran with unchanged identities from beginning
   to end (git-metadata-executor.ts), for every output limit. *)
THEOREM GitOutputIsTrusted == GitSpec => []OutputIsTrusted
  <1>1. GitInit => GitInvariant
    <2> SUFFICES ASSUME GitInit PROVE GitInvariant
      OBVIOUS
    <2>1. GitTypeOK /\ ChildFollowsCommand /\ response # "output"
      BY DEF GitInit, GitTypeOK, ChildFollowsCommand
    <2>2. outputBytes <= MaxOutput
      BY GitAssumption DEF GitInit
    <2> QED BY <2>1, <2>2 DEF GitInvariant
  <1>2. GitInvariant /\ [GitNext]_gitVars => GitInvariant'
    BY GitStep
  <1>3. GitInvariant => OutputIsTrusted
    BY GitAssumption DEF GitInvariant, ChildFollowsCommand, OutputIsTrusted
  <1> QED BY <1>1, <1>2, <1>3, PTL DEF GitSpec

-----------------------------------------------------------------------------
(* The command router *)

CliTypeOK ==
  /\ cliPc \in {"start", "help", "handler", "report", "reporting", "returned"}
  /\ handler \in {"none", "running", "writing"} \cup Completions
  /\ pendingWrite \in {"none", "pending", "abandoned"}
  /\ totalBytes \in Nat
  /\ delivered \in Nat
  /\ interrupted \in BOOLEAN
  /\ sigintListener \in BOOLEAN
  /\ exitCode \in {"none", "success", "policy", "operational", "interrupted"}

(* The handler waits for the write it has submitted; one it no longer waits for was cut
   off, and its handler has failed. *)
WritesAreAwaited ==
  /\ totalBytes <= MaxOutputBytes
  /\ handler \notin {"writing", "output-failed"} => delivered = totalBytes
  /\ interrupted => handler # "writing"
  /\ pendingWrite = "pending" <=> handler = "writing"
  /\ pendingWrite = "abandoned" => handler = "output-failed"

(* The exit code follows from where the run ended, and the listener from where it is. *)
ExitFollowsRun ==
  /\ cliPc = "start" => ~sigintListener /\ ~interrupted
  /\ cliPc \in {"start", "help"} => handler = "none"
  /\ cliPc = "returned" /\ sigintListener => exitCode = "operational"
  /\ exitCode # "none" => cliPc = "returned"
  /\ exitCode \in {"success", "policy"} => handler \in {"none", "success", "policy"}
  /\ exitCode = "operational" /\ interrupted => sigintListener

CliInvariant == CliTypeOK /\ WritesAreAwaited /\ ExitFollowsRun

LEMMA CliStep ==
  ASSUME CliInvariant, [CliNext]_cliVars
  PROVE  CliInvariant'
  <1> USE CliAssumption DEF CliInvariant, CliTypeOK, WritesAreAwaited, ExitFollowsRun, Completions
  <1>1. CASE UNCHANGED cliVars
    BY <1>1 DEF cliVars
  <1>2. CASE Start
    BY <1>2 DEF Start, Exit
  <1>3. CASE HandlerWrites
    BY <1>3 DEF HandlerWrites
  <1>4. CASE StreamSettles \/ HandlerEnds
    BY <1>4 DEF StreamSettles, HandlerEnds
  <1>10. CASE AbandonedSettles
    BY <1>10 DEF AbandonedSettles
  <1>5. CASE Interrupt
    BY <1>5 DEF Interrupt, Exit
  <1>6. CASE RouterResumes
    <2>1. CASE handler \in {"success", "policy"}
      BY <1>6, <2>1 DEF RouterResumes, Exit
    <2>2. CASE handler \notin {"success", "policy"}
      BY <1>6, <2>2 DEF RouterResumes, Exit
    <2> QED BY <2>1, <2>2
  <1>7. CASE PrintHelp
    BY <1>7 DEF PrintHelp, Exit
  <1>8. CASE Report
    BY <1>8 DEF Report, Exit
  <1>9. CASE Reported
    <2>1. CASE interrupted
      BY <1>9, <2>1 DEF Reported, Exit
    <2>2. CASE ~interrupted
      BY <1>9, <2>2 DEF Reported, Exit
    <2> QED BY <2>1, <2>2
  <1> QED BY <1>1, <1>2, <1>3, <1>4, <1>5, <1>6, <1>7, <1>8, <1>9, <1>10
         DEF CliNext

LEMMA CliSilentStep ==
  ASSUME CliInvariant, [CliNext]_cliVars
  PROVE  SilentOnceInterrupted
  <1>1. CASE HandlerWrites
    BY <1>1 DEF HandlerWrites, SilentOnceInterrupted, CliInvariant, WritesAreAwaited
  <1>2. CASE StreamSettles
    BY <1>2 DEF StreamSettles, SilentOnceInterrupted, CliInvariant, WritesAreAwaited
  <1>3. CASE AbandonedSettles
    BY <1>3 DEF AbandonedSettles, SilentOnceInterrupted
  <1>4. CASE ~HandlerWrites /\ ~StreamSettles /\ ~AbandonedSettles
    <2>1. interrupted => pendingWrite' = pendingWrite /\ totalBytes' = totalBytes
                           /\ delivered' = delivered
      BY <1>4 DEF cliVars, CliNext, Start, HandlerEnds, Interrupt, RouterResumes,
                  PrintHelp, Report, Reported
    <2>2. interrupted => pendingWrite # "pending"
      BY DEF CliInvariant, WritesAreAwaited
    <2> QED BY <2>1, <2>2 DEF SilentOnceInterrupted
  <1> QED BY <1>1, <1>2, <1>3, <1>4

(* A run that reports success or a policy failure has delivered every byte its writer
   accepted; an interrupt is reported as one unless the SIGINT listener cannot be removed;
   and after it nothing is accepted or submitted, although an abandoned handler goes on and
   the stream may complete what it was given (command-router.ts, process-cli.ts), for every
   output limit. *)
THEOREM RunReportIsTrue == CliSpec => ReportIsTrue
  <1>1. CliInit => CliInvariant
    <2> SUFFICES ASSUME CliInit PROVE CliInvariant
      OBVIOUS
    <2>1. /\ CliTypeOK /\ ExitFollowsRun /\ handler = "none" /\ ~interrupted
          /\ pendingWrite = "none"
      BY DEF CliInit, CliTypeOK, ExitFollowsRun
    <2>2. totalBytes <= MaxOutputBytes /\ delivered = totalBytes
      BY CliAssumption DEF CliInit
    <2> QED BY <2>1, <2>2 DEF CliInvariant, WritesAreAwaited
  <1>2. CliInvariant /\ [CliNext]_cliVars => CliInvariant'
    BY CliStep
  <1>3. CliInvariant => ExitMeansDelivered /\ InterruptWins
    BY DEF CliInvariant, WritesAreAwaited, ExitFollowsRun, ExitMeansDelivered, InterruptWins
  <1>4. CliInvariant /\ [CliNext]_cliVars => [SilentOnceInterrupted]_cliVars
    BY CliSilentStep
  <1> QED BY <1>1, <1>2, <1>3, <1>4, PTL DEF CliSpec, ReportIsTrue, SilentOnceInterrupted

-----------------------------------------------------------------------------
(* The registry client *)

RegPlaces == {"new", "dns", "returned"} \cup InTransport \cup Cleaning

Failures ==
  {"cancelled", "timeout", "dns-failure", "tls-failure", "network-failure", "not-found",
   "protocol-failure", "resource-limit"}

RegResults ==
  Failures \cup {"ok", "invalid-input", "registry-unconfigured", "concurrency-limit",
                 "unsafe-address", "cleanup-failure"}

RegTypeOK ==
  /\ activeRequests \in Nat
  /\ regPc \in [Fetches -> RegPlaces]
  /\ regError \in [Fetches -> Failures \cup {"none"}]
  /\ regResult \in [Fetches -> RegResults \cup {"none"}]
  /\ resolver \in [Fetches -> {"none", "open", "done"}]
  /\ connection \in [Fetches -> {"none", "open", "closed"}]
  /\ bodyLeft \in [Fetches -> Nat]
  /\ chunks \in [Fetches -> Nat]
  /\ regAborted \in [Fetches -> BOOLEAN]

GaveUp(c) == regPc[c] = "returned" /\ regResult[c] = "cleanup-failure"

(* A call has a network operation open only where it can still abort it, or after it gave
   up; its connection starts when its resolver has ended; and it closes the connection of an
   object it will return only when no byte is missing. *)
CallOwnsOperations(c) ==
  /\ regPc[c] # "returned" => regResult[c] = "none"
  /\ resolver[c] = "open" => regPc[c] \in {"dns", "dnsAbort"} \/ GaveUp(c)
  /\ connection[c] = "open" => regPc[c] \in InTransport \cup {"closing"} \/ GaveUp(c)
  /\ regPc[c] \in {"new", "dns", "dnsAbort"} => connection[c] = "none"
  /\ connection[c] # "none" => resolver[c] = "done"
  /\ regPc[c] = "closing" /\ regError[c] = "none" => bodyLeft[c] = 0
  /\ regResult[c] = "ok" => connection[c] = "closed" /\ bodyLeft[c] = 0

Holders == {c \in Fetches : HoldsPermit(c)}

(* The permits in use are finite in number whether or not the calls are. *)
PermitsAreCounted ==
  /\ IsFiniteSet(Holders)
  /\ activeRequests = Cardinality(Holders)
  /\ activeRequests <= MaxRequests

RegInvariant ==
  /\ RegTypeOK
  /\ \A c \in Fetches : CallOwnsOperations(c)
  /\ PermitsAreCounted

-----------------------------------------------------------------------------
(* How the steps move the permits *)

LEMMA PermitStays ==
  ASSUME PermitsAreCounted, RegTypeOK, NEW c \in Fetches, NEW pc \in RegPlaces,
         HoldsPermit(c), pc \notin {"new", "returned"},
         regPc' = [regPc EXCEPT ![c] = pc], UNCHANGED activeRequests
  PROVE  PermitsAreCounted'
  <1>1. Holders' = Holders
    BY DEF Holders, HoldsPermit, RegTypeOK
  <1> QED BY <1>1 DEF PermitsAreCounted

LEMMA PermitIsTaken ==
  ASSUME PermitsAreCounted, RegTypeOK, NEW c \in Fetches, NEW pc \in RegPlaces,
         ~HoldsPermit(c), pc \notin {"new", "returned"},
         regPc' = [regPc EXCEPT ![c] = pc],
         activeRequests < MaxRequests, activeRequests' = activeRequests + 1
  PROVE  PermitsAreCounted'
  <1>1. Holders' = Holders \cup {c} /\ c \notin Holders
    BY DEF Holders, HoldsPermit, RegTypeOK
  <1>2. IsFiniteSet(Holders') /\ Cardinality(Holders') = Cardinality(Holders) + 1
    BY <1>1, FS_AddElement DEF PermitsAreCounted
  <1>3. activeRequests' <= MaxRequests
    BY RegistryAssumption DEF RegTypeOK
  <1> QED BY <1>2, <1>3 DEF PermitsAreCounted

LEMMA PermitIsReturned ==
  ASSUME PermitsAreCounted, RegTypeOK, NEW c \in Fetches, NEW code, RegReturn(c, code)
  PROVE  PermitsAreCounted' /\ activeRequests' \in Nat
  <1>1. CASE HoldsPermit(c)
    <2>1. Holders' = Holders \ {c} /\ c \in Holders
      BY <1>1 DEF Holders, HoldsPermit, RegTypeOK, RegReturn
    <2>2. /\ IsFiniteSet(Holders')
          /\ Cardinality(Holders') = Cardinality(Holders) - 1
          /\ Cardinality(Holders') \in Nat
      BY <2>1, FS_RemoveElement, FS_CardinalityType DEF PermitsAreCounted
    <2>3. activeRequests' = activeRequests - 1
      BY <1>1 DEF RegReturn
    <2>4. activeRequests' = Cardinality(Holders')
      BY <2>2, <2>3 DEF PermitsAreCounted
    <2>5. activeRequests' <= MaxRequests
      BY <2>3, RegistryAssumption DEF RegTypeOK, PermitsAreCounted
    <2> QED BY <2>2, <2>4, <2>5 DEF PermitsAreCounted
  <1>2. CASE ~HoldsPermit(c)
    <2>1. Holders' = Holders
      BY <1>2 DEF Holders, HoldsPermit, RegTypeOK, RegReturn
    <2>2. activeRequests' = activeRequests
      BY <1>2 DEF RegReturn, RegTypeOK
    <2> QED BY <2>1, <2>2 DEF PermitsAreCounted, RegTypeOK
  <1> QED BY <1>1, <1>2

-----------------------------------------------------------------------------
(* What a call may leave running *)

LEMMA ReturnKeepsCalls ==
  ASSUME RegInvariant, NEW c \in Fetches, NEW code \in RegResults, RegReturn(c, code),
         resolver[c] = "open" \/ connection[c] = "open" => code = "cleanup-failure",
         code = "ok" => connection[c] = "closed" /\ bodyLeft[c] = 0,
         UNCHANGED <<regError, resolver, connection, bodyLeft, chunks, regAborted>>
  PROVE  RegInvariant'
  <1>1. PermitsAreCounted' /\ activeRequests' \in Nat
    BY PermitIsReturned DEF RegInvariant
  <1>2. RegTypeOK'
    BY <1>1 DEF RegInvariant, RegTypeOK, RegReturn, RegPlaces
  <1>3. \A d \in Fetches : CallOwnsOperations(d)'
    BY <1>2 DEF RegInvariant, RegTypeOK, RegReturn, CallOwnsOperations, GaveUp
  <1> QED BY <1>1, <1>2, <1>3 DEF RegInvariant

LEMMA FailureKeepsCalls ==
  ASSUME RegInvariant, NEW c \in Fetches, NEW code \in Failures, FailPhase(c, code),
         UNCHANGED <<resolver, connection, bodyLeft, chunks>>,
         regAborted' \in [Fetches -> BOOLEAN]
  PROVE  RegInvariant'
  <1> USE DEF RegInvariant, RegTypeOK, RegPlaces, InTransport, Cleaning, HoldsPermit
  <1>1. PICK pc \in Cleaning : /\ GoTo(c, pc, code) /\ HoldsPermit(c)
                               /\ pc = "dnsAbort" => regPc[c] = "dns"
                               /\ pc = "closing" => regPc[c] \in InTransport
    BY DEF FailPhase
  <1>2. PermitsAreCounted'
    BY <1>1, PermitStays DEF GoTo
  <1>3. RegTypeOK'
    BY <1>1 DEF GoTo
  <1>4. code # "none"
    BY DEF Failures
  <1>5. \A d \in Fetches : CallOwnsOperations(d)'
    BY <1>1, <1>4 DEF GoTo, CallOwnsOperations, GaveUp
  <1> QED BY <1>2, <1>3, <1>5

LEMMA FetchKeepsCalls ==
  ASSUME RegInvariant, NEW c \in Fetches, Fetch(c)
  PROVE  RegInvariant'
  <1> USE DEF RegPlaces, InTransport, Cleaning, Failures, RegResults
  <1>1. resolver[c] # "open" /\ connection[c] # "open" /\ ~HoldsPermit(c)
    BY DEF Fetch, RegInvariant, CallOwnsOperations, GaveUp, HoldsPermit
  <1>2. CASE /\ \E code \in {"invalid-input", "registry-unconfigured", "concurrency-limit",
                             "network-failure"} : RegReturn(c, code)
             /\ UNCHANGED <<regError, resolver>>
    BY <1>1, <1>2, ReturnKeepsCalls DEF Fetch
  <1>3. CASE /\ activeRequests < MaxRequests
             /\ activeRequests' = activeRequests + 1
             /\ resolver' = [resolver EXCEPT ![c] = "open"]
             /\ regPc' = [regPc EXCEPT ![c] = IF regAborted[c] THEN "dnsAbort" ELSE "dns"]
             /\ regError' = [regError EXCEPT ![c] = IF regAborted[c] THEN "cancelled" ELSE "none"]
             /\ UNCHANGED regResult
    <2>1. PICK pc \in {"dnsAbort", "dns"} : regPc' = [regPc EXCEPT ![c] = pc]
      BY <1>3
    <2>2. PICK error \in {"cancelled", "none"} : regError' = [regError EXCEPT ![c] = error]
      BY <1>3
    <2>3. PermitsAreCounted'
      BY <1>1, <1>3, <2>1, PermitIsTaken DEF RegInvariant
    <2>4. RegTypeOK'
      BY <1>3, <2>1, <2>2 DEF RegInvariant, RegTypeOK, Fetch
    <2>5. connection[c] = "none"
      BY <1>1 DEF Fetch, RegInvariant, RegTypeOK, CallOwnsOperations
    <2>6. \A d \in Fetches : CallOwnsOperations(d)'
      BY <1>3, <2>1, <2>2, <2>5 DEF RegInvariant, RegTypeOK, Fetch, CallOwnsOperations, GaveUp
    <2> QED BY <2>3, <2>4, <2>6 DEF RegInvariant
  <1> QED BY <1>2, <1>3 DEF Fetch

LEMMA RegStep ==
  ASSUME RegInvariant, [RegNext]_regVars
  PROVE  RegInvariant'
  <1> USE DEF RegPlaces, InTransport, Cleaning, Failures
  <1>1. CASE UNCHANGED regVars
    BY <1>1 DEF regVars, RegInvariant, RegTypeOK, CallOwnsOperations, GaveUp, PermitsAreCounted,
                Holders, HoldsPermit
  <1>2. ASSUME NEW c \in Fetches, Fetch(c)
        PROVE  RegInvariant'
    BY <1>2, FetchKeepsCalls
  <1>3. ASSUME NEW c \in Fetches, PhaseTimeout(c)
        PROVE  RegInvariant'
    BY <1>3, FailureKeepsCalls DEF PhaseTimeout, RegInvariant, RegTypeOK
  <1>4. ASSUME NEW c \in Fetches, RegAbort(c)
        PROVE  RegInvariant'
    <2>1. regAborted' \in [Fetches -> BOOLEAN]
      BY <1>4 DEF RegAbort, RegInvariant, RegTypeOK
    <2>2. CASE FailPhase(c, "cancelled")
      BY <1>4, <2>1, <2>2, FailureKeepsCalls DEF RegAbort
    <2>3. CASE UNCHANGED <<activeRequests, regPc, regError, regResult>>
      BY <1>4, <2>1, <2>3 DEF RegAbort, RegInvariant, RegTypeOK, CallOwnsOperations, GaveUp,
                              PermitsAreCounted, Holders, HoldsPermit
    <2> QED BY <1>4, <2>2, <2>3 DEF RegAbort
  <1>5. ASSUME NEW c \in Fetches, ResolverSettles(c)
        PROVE  RegInvariant'
    <2>1. CASE regPc[c] = "dns"
      <3>1. PICK error \in {"none", "dns-failure"} : GoTo(c, "dnsAbort", error)
        BY <1>5, <2>1 DEF ResolverSettles
      <3>2. PermitsAreCounted'
        BY <2>1, <3>1, PermitStays DEF GoTo, HoldsPermit, RegInvariant
      <3>3. RegTypeOK' /\ \A d \in Fetches : CallOwnsOperations(d)'
        BY <1>5, <2>1, <3>1 DEF ResolverSettles, GoTo, RegInvariant, RegTypeOK,
                                CallOwnsOperations, GaveUp
      <3> QED BY <3>2, <3>3 DEF RegInvariant
    <2>2. CASE regPc[c] # "dns"
      BY <1>5, <2>2, SMTT(30) DEF ResolverSettles, RegInvariant, RegTypeOK, CallOwnsOperations, GaveUp,
                        PermitsAreCounted, Holders, HoldsPermit
    <2> QED BY <2>1, <2>2
  <1>6. ASSUME NEW c \in Fetches, Connect(c)
        PROVE  RegInvariant'
    <2>1. CASE /\ \E code \in Failures \cup {"unsafe-address"} : RegReturn(c, code)
               /\ UNCHANGED <<regError, connection>>
      <3>1. connection[c] # "open" /\ resolver[c] # "open"
        BY <1>6 DEF Connect, RegInvariant, CallOwnsOperations
      <3> QED BY <1>6, <2>1, <3>1, ReturnKeepsCalls DEF Connect, RegResults
    <2>2. CASE connection' = [connection EXCEPT ![c] = "open"] /\ Enter(c, "connect", "closing")
      <3>1. PICK pc \in {"connect", "closing"}, error \in {"none", "cancelled"} :
              GoTo(c, pc, error) /\ (pc = "closing" => error # "none")
        BY <2>2 DEF Enter
      <3>2. PermitsAreCounted'
        BY <1>6, <3>1, PermitStays DEF Connect, GoTo, HoldsPermit, RegInvariant
      <3>3. RegTypeOK' /\ \A d \in Fetches : CallOwnsOperations(d)'
        BY <1>6, <2>2, <3>1 DEF Connect, GoTo, RegInvariant, RegTypeOK, CallOwnsOperations, GaveUp
      <3> QED BY <3>2, <3>3 DEF RegInvariant
    <2>3. regError[c] \in Failures \cup {"none"}
      BY DEF RegInvariant, RegTypeOK
    <2> QED BY <1>6, <2>1, <2>2, <2>3 DEF Connect
  <1>7. ASSUME NEW c \in Fetches, Handshake(c)
        PROVE  RegInvariant'
    <2>1. PICK pc \in InTransport \cup {"closing"}, error \in {"none", "cancelled"} :
            GoTo(c, pc, error) /\ (pc = "closing" => error # "none")
      BY <1>7 DEF Handshake, Enter
    <2>2. regPc[c] \in InTransport
      BY <1>7 DEF Handshake
    <2>3. PermitsAreCounted'
      BY <2>1, <2>2, PermitStays DEF GoTo, HoldsPermit, RegInvariant
    <2>4. RegTypeOK' /\ \A d \in Fetches : CallOwnsOperations(d)'
      BY <1>7, <2>1, <2>2 DEF Handshake, GoTo, RegInvariant, RegTypeOK, CallOwnsOperations, GaveUp
    <2> QED BY <2>3, <2>4 DEF RegInvariant
  <1>8. ASSUME NEW c \in Fetches, ConnectionFails(c)
        PROVE  RegInvariant'
    BY <1>8, FailureKeepsCalls DEF ConnectionFails, RegInvariant, RegTypeOK
  <1>9. ASSUME NEW c \in Fetches, Response(c)
        PROVE  RegInvariant'
    <2>1. PICK pc \in {"body", "closing"}, error \in Failures \cup {"none"} :
            GoTo(c, pc, error) /\ (pc = "closing" => error # "none")
      BY <1>9 DEF Response, Enter
    <2>2. PermitsAreCounted'
      BY <1>9, <2>1, PermitStays DEF Response, GoTo, HoldsPermit, RegInvariant
    <2>3. bodyLeft' \in [Fetches -> Nat] /\ \A d \in Fetches \ {c} : bodyLeft'[d] = bodyLeft[d]
      BY <1>9, RegistryAssumption DEF Response, RegInvariant, RegTypeOK
    <2>4. RegTypeOK'
      BY <1>9, <2>1, <2>3 DEF Response, GoTo, RegInvariant, RegTypeOK
    <2>5. \A d \in Fetches \ {c} : CallOwnsOperations(d)'
      BY <1>9, <2>1, <2>3 DEF Response, GoTo, RegInvariant, RegTypeOK, CallOwnsOperations, GaveUp
    <2>6. CallOwnsOperations(c)'
      BY <1>9, <2>1, <2>3 DEF Response, GoTo, RegInvariant, RegTypeOK, CallOwnsOperations, GaveUp
    <2> QED BY <2>2, <2>4, <2>5, <2>6 DEF RegInvariant
  <1>10. ASSUME NEW c \in Fetches, ReadBody(c)
         PROVE  RegInvariant'
    <2>1. PICK pc \in {"body", "closing"}, error \in Failures \cup {"none"} :
            /\ GoTo(c, pc, error)
            /\ pc = "closing" /\ error = "none" => bodyLeft[c] = 0 /\ UNCHANGED bodyLeft
      BY <1>10 DEF ReadBody, Enter
    <2>2. PermitsAreCounted'
      BY <1>10, <2>1, PermitStays DEF ReadBody, GoTo, HoldsPermit, RegInvariant
    <2>3. /\ bodyLeft' \in [Fetches -> Nat] /\ chunks' \in [Fetches -> Nat]
          /\ \A d \in Fetches \ {c} : bodyLeft'[d] = bodyLeft[d]
      BY <1>10 DEF ReadBody, RegInvariant, RegTypeOK
    <2>4. RegTypeOK'
      BY <1>10, <2>1, <2>3 DEF ReadBody, GoTo, RegInvariant, RegTypeOK
    <2>5. \A d \in Fetches \ {c} : CallOwnsOperations(d)'
      BY <1>10, <2>1, <2>3 DEF ReadBody, GoTo, RegInvariant, RegTypeOK, CallOwnsOperations, GaveUp
    <2>6. CallOwnsOperations(c)'
      BY <1>10, <2>1, <2>3 DEF ReadBody, GoTo, RegInvariant, RegTypeOK, CallOwnsOperations, GaveUp
    <2> QED BY <2>2, <2>4, <2>5, <2>6 DEF RegInvariant
  <1>11. ASSUME NEW c \in Fetches, ConnectionCloses(c)
         PROVE  RegInvariant'
    BY <1>11 DEF ConnectionCloses, RegInvariant, RegTypeOK, CallOwnsOperations, GaveUp,
                 PermitsAreCounted, Holders, HoldsPermit
  <1>12. ASSUME NEW c \in Fetches, Finish(c)
         PROVE  RegInvariant'
    <2>1. resolver[c] # "open" /\ connection[c] = "closed"
      BY <1>12 DEF Finish, RegInvariant, CallOwnsOperations
    <2>2. CASE regError[c] = "none"
      BY <1>12, <2>1, <2>2, ReturnKeepsCalls
         DEF Finish, RegResults, RegInvariant, CallOwnsOperations
    <2>3. CASE regError[c] # "none"
      BY <1>12, <2>1, <2>3, ReturnKeepsCalls DEF Finish, RegResults, RegInvariant, RegTypeOK
    <2> QED BY <2>2, <2>3
  <1>13. ASSUME NEW c \in Fetches, CleanupTimeout(c)
         PROVE  RegInvariant'
    BY <1>13, ReturnKeepsCalls DEF CleanupTimeout, RegResults
  <1> QED BY <1>1, <1>2, <1>3, <1>4, <1>5, <1>6, <1>7, <1>8, <1>9, <1>10, <1>11, <1>12, <1>13
          DEF RegNext

LEMMA OneOperationAtATime ==
  ASSUME RegInvariant, NEW c \in Fetches
  PROVE  Cardinality(OpenOperations(c)) <= 1
  <1>1. PICK op : OpenOperations(c) \subseteq {op}
    <2>1. CASE resolver[c] = "open"
      <3>1. connection[c] # "open"
        BY <2>1 DEF RegInvariant, CallOwnsOperations
      <3>2. OpenOperations(c) \subseteq {"resolver"}
        BY <3>1 DEF OpenOperations
      <3> QED BY <3>2
    <2>2. CASE resolver[c] # "open"
      <3>1. OpenOperations(c) \subseteq {"connection"}
        BY <2>2 DEF OpenOperations
      <3> QED BY <3>1
    <2> QED BY <2>1, <2>2
  <1>2. IsFiniteSet({op}) /\ Cardinality({op}) = 1
    BY FS_Singleton
  <1> QED BY <1>1, <1>2, FS_Subset

LEMMA NothingRunsUnseen ==
  ASSUME RegInvariant
  PROVE  NothingLeftRunning
  <1>1. \A c \in Fetches : OpenOperations(c) # {} => HoldsPermit(c) \/ GaveUp(c)
    BY DEF RegInvariant, CallOwnsOperations, OpenOperations, HoldsPermit, InTransport
  <1> DEFINE Open == {c \in Fetches : OpenOperations(c) # {} /\ regResult[c] # "cleanup-failure"}
  <1>2. Open \subseteq Holders
    BY <1>1 DEF Holders, GaveUp
  <1>3. IsFiniteSet(Open) /\ Cardinality(Open) <= Cardinality(Holders)
    BY <1>2, FS_Subset DEF RegInvariant, PermitsAreCounted
  <1>4. Cardinality(Open) \in Nat
    BY <1>3, FS_CardinalityType
  <1>5. Cardinality(Open) <= MaxRequests
    BY <1>3, <1>4, RegistryAssumption DEF RegInvariant, PermitsAreCounted, RegTypeOK
  <1>6. RequestsBounded
    BY <1>5 DEF RequestsBounded, RegInvariant, PermitsAreCounted, Holders
  <1>7. ObjectIsWhole
    BY DEF ObjectIsWhole, RegInvariant, CallOwnsOperations
  <1>8. \A c \in Fetches : regPc[c] = "returned" /\ regResult[c] # "cleanup-failure"
                             => OpenOperations(c) = {}
    BY <1>1 DEF HoldsPermit, GaveUp
  <1> QED BY <1>6, <1>7, <1>8, OneOperationAtATime DEF NothingLeftRunning

(* The permits bound what is open on the network: a call that answers anything but a cleanup
   failure has left nothing running, none has two operations open, and an object is whole,
   whichever race each phase loses (registry-client.ts), for any number of calls, finite or
   not, and every limit. *)
THEOREM RegistryLeavesNothing == RegSpec => []NothingLeftRunning
  <1>1. RegInit => RegInvariant
    <2> SUFFICES ASSUME RegInit PROVE RegInvariant
      OBVIOUS
    <2>1. RegTypeOK
      BY DEF RegInit, RegTypeOK, RegPlaces
    <2>2. \A c \in Fetches : CallOwnsOperations(c)
      BY DEF RegInit, CallOwnsOperations, GaveUp
    <2>3. Holders = {}
      BY DEF RegInit, Holders, HoldsPermit
    <2>4. PermitsAreCounted
      BY <2>3, FS_EmptySet, RegistryAssumption DEF RegInit, PermitsAreCounted
    <2> QED BY <2>1, <2>2, <2>4 DEF RegInvariant
  <1>2. RegInvariant /\ [RegNext]_regVars => RegInvariant'
    BY RegStep
  <1>3. RegInvariant => NothingLeftRunning
    BY NothingRunsUnseen
  <1> QED BY <1>1, <1>2, <1>3, PTL DEF RegSpec

-----------------------------------------------------------------------------
(* The operation context *)

(* A macrotask starts one chain of reactions and waits for its end, so the queue of
   microtasks holds at most the two reactions of one promise. *)
Queues ==
  {<< >>, <<"opened">>, <<"rejected">>, <<"late", "settle-value">>, <<"settle-value">>,
   <<"settle-error">>, <<"resume">>}

CtxTypeOK ==
  /\ jobs \in Queues
  /\ request \in {"none", "pending", "completed", "failed"}
  /\ handle \in {"none", "open", "delivered", "closed"}
  /\ race \in {"unsettled", "value", "error"}
  /\ ctxFailed \in BOOLEAN
  /\ lostRace \in BOOLEAN

(* Which job will close or deliver a handle that is open. *)
HandleHasAnOwner ==
  /\ handle = "open" => jobs \notin {<< >>, <<"rejected">>, <<"settle-error">>}
  /\ handle = "open" /\ jobs = <<"settle-value">> => race = "unsettled"
  /\ handle = "open" /\ jobs = <<"resume">> => race = "value"

(* How the request, the race and the queue are tied together; the hook closes a late handle
   because a race that ended before the request did was lost to the context's failure. *)
RaceFollowsRequest ==
  /\ handle # "none" \/ race = "value" => request = "completed"
  /\ waiter = "idle" => request = "none" /\ race = "unsettled" /\ ~listening /\ jobs = << >>
  /\ waiter = "using" => request = "completed"
  /\ jobs = <<"resume">> => race # "unsettled"
  /\ jobs = <<"rejected">> => request = "failed"
  /\ jobs \in {<<"opened">>, <<"late", "settle-value">>} =>
       request = "completed" /\ (race = "unsettled" \/ (race = "error" /\ lostRace))
  /\ jobs = <<"settle-value">> => request = "completed"
  /\ jobs = <<"settle-error">> \/ (jobs = <<"resume">> /\ race = "error") =>
       ctxFailed \/ request = "failed"
  /\ request = "pending" /\ race = "error" /\ jobs # <<"resume">> => lostRace

CtxInvariant == CtxTypeOK /\ HandleHasAnOwner /\ RaceFollowsRequest

\* What running the first job leaves of each queue.
LEMMA QueueMoves ==
  /\ \A j : << >> # <<j>> /\ Head(<<j>>) = j /\ Tail(<<j>>) = << >>
  /\ \A j, k : << >> \o <<j, k>> = <<j, k>> /\ Append(<< >>, j) = <<j>>
  /\ \A j, k : << >> # <<j, k>> /\ Head(<<j, k>>) = j /\ Tail(<<j, k>>) = <<k>>
  /\ \A j, k, l : <<l>> # <<j, k>>
  /\ \A j, k : <<j>> = <<k>> => j = k
  OBVIOUS

LEMMA HeadDecidesQueue ==
  ASSUME jobs \in Queues, NEW job, Runs(job)
  PROVE  IF job = "late" THEN jobs = <<"late", "settle-value">> ELSE jobs = <<job>>
  <1>1. CASE jobs = << >>
    BY <1>1 DEF Runs
  <1>2. ASSUME NEW j, jobs = <<j>>, j # "late"
        PROVE  job # "late" /\ jobs = <<job>>
    BY <1>2 DEF Runs
  <1>3. CASE jobs = <<"late", "settle-value">>
    BY <1>3 DEF Runs
  <1>4. \/ jobs \in {<< >>, <<"late", "settle-value">>}
        \/ \E j : jobs = <<j>> /\ j # "late"
    BY DEF Queues
  <1> QED BY <1>1, <1>2, <1>3, <1>4

LEMMA CtxStep ==
  ASSUME CtxInvariant, [CtxNext]_ctxVars
  PROVE  CtxInvariant'
  <1> USE DEF CtxInvariant, CtxTypeOK, HandleHasAnOwner, RaceFollowsRequest
  <1>1. CASE UNCHANGED ctxVars
    BY <1>1 DEF ctxVars
  <1>2. CASE WaitOpen
    BY <1>2 DEF WaitOpen
  <1>3. CASE RequestCompletes
    BY <1>3 DEF RequestCompletes, Queues
  <1>4. CASE ContextFails
    BY <1>4 DEF ContextFails, Queues
  <1>5. CASE ContextClose
    BY <1>5 DEF ContextClose
  <1>6. CASE Opened
    <2>1. jobs = <<"opened">>
      BY <1>6, HeadDecidesQueue DEF Opened
    <2>2. jobs' = <<"late", "settle-value">>
      BY <1>6, <2>1, QueueMoves DEF Opened
    <2>3. jobs' \in Queues
      BY <2>2 DEF Queues
    <2> QED BY <1>6, <2>1, <2>2, <2>3 DEF Opened
  <1>7. CASE Rejected
    <2>1. jobs = <<"rejected">>
      BY <1>7, HeadDecidesQueue DEF Rejected
    <2>2. jobs' = <<"settle-error">>
      BY <1>7, <2>1, QueueMoves DEF Rejected
    <2>3. jobs' \in Queues
      BY <2>2 DEF Queues
    <2> QED BY <1>7, <2>1, <2>2, <2>3 DEF Rejected
  <1>8. CASE LateHook
    <2>1. jobs = <<"late", "settle-value">>
      BY <1>8, HeadDecidesQueue DEF LateHook
    <2>2. jobs' = <<"settle-value">>
      BY <1>8, <2>1, QueueMoves DEF LateHook
    <2>3. jobs' \in Queues
      BY <2>2 DEF Queues
    <2> QED BY <1>8, <2>1, <2>2, <2>3 DEF LateHook
  <1>9. CASE RaceSettles
    <2>1. PICK outcome \in {"value", "error"} :
            /\ Runs(IF outcome = "value" THEN "settle-value" ELSE "settle-error")
            /\ race' = IF race = "unsettled" THEN outcome ELSE race
      BY <1>9 DEF RaceSettles
    <2>2. jobs = <<IF outcome = "value" THEN "settle-value" ELSE "settle-error">>
      BY <2>1, HeadDecidesQueue
    <2>3. jobs' = IF race = "unsettled" THEN <<"resume">> ELSE << >>
      BY <1>9, <2>2, QueueMoves DEF RaceSettles
    <2>4. jobs' \in Queues
      BY <2>3 DEF Queues
    <2>5. CASE outcome = "value"
      BY <1>9, <2>1, <2>2, <2>3, <2>4, <2>5 DEF RaceSettles
    <2>6. CASE outcome = "error"
      <3>1. CASE race = "unsettled"
        BY <1>9, <2>1, <2>2, <2>3, <2>4, <2>6, <3>1 DEF RaceSettles
      <3>2. CASE race # "unsettled"
        BY <1>9, <2>1, <2>2, <2>3, <2>4, <2>6, <3>2 DEF RaceSettles
      <3> QED BY <3>1, <3>2
    <2> QED BY <2>5, <2>6
  <1>10. CASE WaitResumes
    <2>1. jobs = <<"resume">>
      BY <1>10, HeadDecidesQueue DEF WaitResumes
    <2>2. jobs' = << >>
      BY <1>10, <2>1, QueueMoves DEF WaitResumes
    <2>3. jobs' \in Queues
      BY <2>2 DEF Queues
    <2>4. CASE race = "value"
      <3>1. CASE handle' = "delivered" /\ waiter' = "using" /\ UNCHANGED <<ctxFailed, lostRace>>
        BY <1>10, <2>1, <2>2, <2>3, <2>4, <3>1 DEF WaitResumes
      <3>2. CASE handle' = "closed" /\ waiter' = "thrown" /\ ctxFailed' = TRUE /\ lostRace' = TRUE
        BY <1>10, <2>1, <2>2, <2>3, <2>4, <3>2 DEF WaitResumes
      <3> QED BY <1>10, <2>4, <3>1, <3>2 DEF WaitResumes
    <2>5. CASE race = "error" /\ ctxFailed
      <3>1. lostRace' /\ lostRace' \in BOOLEAN
        BY <1>10, <2>5 DEF WaitResumes
      <3> QED BY <1>10, <2>1, <2>2, <2>3, <2>5, <3>1 DEF WaitResumes
    <2>6. CASE race = "error" /\ ~ctxFailed
      <3>1. request = "failed" /\ lostRace' \in BOOLEAN
        BY <1>10, <2>1, <2>6 DEF WaitResumes
      <3> QED BY <1>10, <2>1, <2>2, <2>3, <2>6, <3>1 DEF WaitResumes
    <2> QED BY <2>1, <2>4, <2>5, <2>6
  <1> QED BY <1>1, <1>2, <1>3, <1>4, <1>5, <1>6, <1>7, <1>8, <1>9, <1>10 DEF CtxNext, Microtask

LEMMA ContextLeaksNoHandle == CtxSpec => []NoLeakedHandle
  <1>1. CtxInit => CtxInvariant
    <2> SUFFICES ASSUME CtxInit PROVE CtxInvariant
      OBVIOUS
    <2>1. CtxTypeOK
      BY DEF CtxInit, CtxTypeOK, Queues
    <2>2. HandleHasAnOwner /\ RaceFollowsRequest
      BY DEF CtxInit, HandleHasAnOwner, RaceFollowsRequest
    <2> QED BY <2>1, <2>2 DEF CtxInvariant
  <1>2. CtxInvariant /\ [CtxNext]_ctxVars => CtxInvariant'
    BY CtxStep
  <1>3. CtxInvariant => NoLeakedHandle
    BY DEF CtxInvariant, HandleHasAnOwner, NoLeakedHandle
  <1> QED BY <1>1, <1>2, <1>3, PTL DEF CtxSpec

-----------------------------------------------------------------------------
(* The read-only repository *)

Links == [kind : {"directory", "inside", "outside"}, stamp : Nat]
Things == [version : Nat, content : Seq(Nat)]
SeenThings == [place : Places, version : Nat, content : Seq(Nat)]

(* Where a call can be, by what it has learnt so far. *)
BeforeLink == {"root", "resolve-link"}
BeforeThing == {"read-link", "resolve-thing"}
Unread == {"pay", "open", "opening"}
Reading == {"stat", "read", "stat-again", "close"}
Rechecking == {"recheck-link", "recheck-thing", "root-again", "returned"}

Outside == [at : {"idle", "failed"}]
Started == [at : BeforeLink, op : Operations]
Linked == [at : BeforeThing, op : Operations, link : Links]
Resolved == [at : Unread \cup Rechecking, op : Operations, link : Links, thing : SeenThings,
             buffer : Seq(Nat)]
WithHandle == [at : Reading \cup Rechecking, op : {"file", "names"}, link : Links,
               thing : SeenThings, buffer : Seq(Nat), handle : Places]

RepoTypeOK ==
  /\ rootKept \in BOOLEAN /\ rootLeft \in BOOLEAN
  /\ link \in Links
  /\ things \in [Places -> Things]
  /\ changes \in Nat
  /\ expired \in BOOLEAN
  /\ usage \in [entries : Nat, bytes : Nat]
  /\ call \in Outside \cup Started \cup Linked \cup Resolved \cup WithHandle
  /\ fileHandle \in {"none", "pending", "open", "closed"}
  /\ received \in Nat

KnowsLink == call \in Linked \cup Resolved \cup WithHandle
KnowsThing == call \in Resolved \cup WithHandle

(* While a call is under way, the root is where it was unless that is known to the history. *)
RootStayed == InCall /\ call.at # "root" /\ ~rootLeft => rootKept

(* Stamps and versions come from one counter, so whatever changes differs for ever from what
   a call has seen. *)
StampsAreFresh ==
  /\ link.stamp <= changes
  /\ \A p \in Places : things[p].version <= changes
  /\ KnowsLink /\ ~rootLeft => call.link.stamp <= changes
  /\ KnowsThing => call.thing.version <= changes

(* The directory that a link, seen when the root was in place, led to. *)
Target == IF call.link.kind = "inside" THEN "alternative" ELSE "own"

LinkIsKept == ~rootLeft /\ link = call.link
ThingIsKept == things[call.thing.place].version = call.thing.version

(* While the link has not moved, what the call found and what it opened are in the directory
   the link led to; once the link was looked at again, they are there for good. *)
PlacesAgree ==
  /\ call.at = "resolve-thing" \/ KnowsThing => call.link.kind # "outside"
  /\ KnowsThing /\ LinkIsKept => call.thing.place = Target
  /\ call \in WithHandle /\ LinkIsKept => call.handle = Target
  /\ call.at \in {"recheck-thing", "root-again", "returned"} /\ ~rootLeft =>
       /\ call.thing.place = Target
       /\ call \in WithHandle => call.handle = Target

Prefix(s, t) == Len(s) <= Len(t) /\ \A i \in 1 .. Len(s) : s[i] = t[i]

(* While the thing has not changed, the buffer is the beginning of its content, and all of it
   after the last read; once the thing was looked at again, it is so for good.  Of a file
   the handle shows whether it is the thing. *)
BufferIsContent ==
  /\ KnowsThing /\ ThingIsKept => things[call.thing.place].content = call.thing.content
  /\ call \in WithHandle /\ call.handle = call.thing.place /\ ThingIsKept =>
       /\ Prefix(call.buffer, call.thing.content)
       /\ call.at \in {"stat-again", "close"} \cup Rechecking => call.buffer = call.thing.content
  /\ call \in WithHandle /\ call.at \in {"root-again", "returned"} /\ ~rootLeft =>
       call.buffer = call.thing.content
  /\ call \in WithHandle /\ call.op = "file" /\ call.at \in {"close"} \cup Rechecking =>
       call.buffer = call.thing.content
  /\ call \in Resolved => call.buffer = << >>
  /\ call \in Resolved => (call.at \in Rechecking <=> call.op = "inspect")

(* A file is paid for before it is read, a name when it is read. *)
CallIsPaidFor ==
  /\ ReceiptsWithinLimits
  /\ KnowsThing /\ call.at # "returned" =>
       /\ received + Len(call.buffer) <= usage.bytes + usage.entries
       /\ call.op = "file" =>
            /\ Len(call.buffer) <= Len(call.thing.content)
            /\ call.at # "pay" =>
                 received + Len(call.thing.content) <= usage.bytes + usage.entries

RepoInvariant ==
  /\ RepoTypeOK
  /\ RootStayed
  /\ StampsAreFresh
  /\ PlacesAgree
  /\ BufferIsContent
  /\ CallIsPaidFor
  /\ fileHandle = "open" => call.at \in Reading

-----------------------------------------------------------------------------
(* The shape of a call follows from its place, and a step that only moves it keeps all that
   it has learnt. *)

LEMMA ShapeFollowsPlace ==
  ASSUME RepoTypeOK
  PROVE  /\ call.at \in {"idle", "failed"} => call \in Outside
         /\ call.at \in BeforeLink => call \in Started
         /\ call.at \in BeforeThing => call \in Linked
         /\ call.at \in Unread => call \in Resolved
         /\ call.at \in Reading => call \in WithHandle
         /\ call.at \in Rechecking => call \in Resolved \cup WithHandle
  BY DEF RepoTypeOK, Outside, Started, Linked, Resolved, WithHandle, BeforeLink, BeforeThing,
         Unread, Reading, Rechecking

LEMMA PlaceFollowsShape ==
  ASSUME NEW c
  PROVE  /\ c \in Outside => c.at \in {"idle", "failed"}
         /\ c \in Started => c.at \in BeforeLink /\ c.op \in Operations
         /\ c \in Linked => c.at \in BeforeThing /\ c.op \in Operations /\ c.link \in Links
         /\ c \in Resolved => /\ c.at \in Unread \cup Rechecking
                              /\ c.op \in Operations /\ c.link \in Links
                              /\ c.thing \in SeenThings /\ c.buffer \in Seq(Nat)
         /\ c \in WithHandle => /\ c.at \in Reading \cup Rechecking
                                /\ c.op \in {"file", "names"} /\ c.link \in Links
                                /\ c.thing \in SeenThings /\ c.buffer \in Seq(Nat)
                                /\ c.handle \in Places
  BY DEF Outside, Started, Linked, Resolved, WithHandle

LEMMA ShapesAreDisjoint ==
  ASSUME NEW c
  PROVE  /\ c \in WithHandle => c \notin Resolved \cup Linked
         /\ c \in Resolved => c \notin Linked
  <1>1. /\ c \in Linked => DOMAIN c = {"at", "op", "link"}
        /\ c \in Resolved => DOMAIN c = {"at", "op", "link", "thing", "buffer"}
        /\ c \in WithHandle => DOMAIN c = {"at", "op", "link", "thing", "buffer", "handle"}
    BY DEF Linked, Resolved, WithHandle
  <1>2. /\ "buffer" \notin {"at", "op", "link"}
        /\ "handle" \notin {"at", "op", "link", "thing", "buffer"}
    OBVIOUS
  <1> QED BY <1>1, <1>2

LEMMA MoveKeepsResolved ==
  ASSUME NEW c \in Resolved, NEW at \in Unread \cup Rechecking, NEW d, d = [c EXCEPT !.at = at]
  PROVE  /\ d \in Resolved /\ d.at = at /\ d.op = c.op /\ d.link = c.link
         /\ d.thing = c.thing /\ d.buffer = c.buffer
  BY DEF Resolved

LEMMA MoveKeepsHandle ==
  ASSUME NEW c \in WithHandle, NEW at \in Reading \cup Rechecking, NEW d,
         d = [c EXCEPT !.at = at]
  PROVE  /\ d \in WithHandle /\ d.at = at /\ d.op = c.op /\ d.link = c.link
         /\ d.thing = c.thing /\ d.buffer = c.buffer /\ d.handle = c.handle
  BY DEF WithHandle

LEMMA MoveKeepsLink ==
  ASSUME NEW c \in Linked, NEW at \in BeforeThing, NEW d, d = [c EXCEPT !.at = at]
  PROVE  d \in Linked /\ d.at = at /\ d.op = c.op /\ d.link = c.link
  BY DEF Linked

-----------------------------------------------------------------------------
(* The steps of the facade *)

\* A call that ends without an answer, or that begins, knows nothing.
LEMMA IgnorantCall ==
  ASSUME RepoInvariant, UNCHANGED <<rootKept, link, things, changes, usage, received>>,
         expired' \in BOOLEAN, rootLeft' \in BOOLEAN,
         call' \in Outside \cup Started, call'.at = "resolve-link" => rootKept,
         fileHandle' \in {"none", "pending", "closed"}
  PROVE  RepoInvariant'
  <1>1. call'.at \in {"idle", "failed"} \cup BeforeLink
    BY PlaceFollowsShape
  <1>2. call' \notin Linked \cup Resolved \cup WithHandle
    BY <1>1, PlaceFollowsShape DEF BeforeLink, BeforeThing, Unread, Reading, Rechecking
  <1>3. RepoTypeOK' /\ RootStayed'
    BY <1>1 DEF RepoInvariant, RepoTypeOK, RootStayed, InCall, BeforeLink
  <1>4. StampsAreFresh'
    BY <1>2 DEF RepoInvariant, StampsAreFresh, KnowsLink, KnowsThing
  <1>5. PlacesAgree' /\ BufferIsContent' /\ CallIsPaidFor'
    BY <1>1, <1>2 DEF RepoInvariant, PlacesAgree, BufferIsContent, CallIsPaidFor,
                      ReceiptsWithinLimits, KnowsThing, BeforeLink
  <1> QED BY <1>3, <1>4, <1>5 DEF RepoInvariant

\* A call that has found the thing moves on with what it knows.
LEMMA KnowingCallMoves ==
  ASSUME RepoInvariant, KnowsThing, NEW at, call' = [call EXCEPT !.at = at],
         call \in Resolved => at \in Unread \cup Rechecking,
         call \in WithHandle => at \in Reading \cup Rechecking,
         UNCHANGED <<worldVars, expired, usage>>,
         fileHandle' \in {"none", "pending", "open", "closed"},
         fileHandle' = "open" => at \in Reading,
         received' \in Nat, CallIsPaidFor',
         call.at # "returned",
         at \in {"recheck-thing", "root-again", "returned"} /\ ~rootLeft =>
           call.thing.place = Target /\ (call \in WithHandle => call.handle = Target),
         call \in WithHandle /\ call.handle = call.thing.place /\ ThingIsKept
           /\ at \in {"stat-again", "close"} \cup Rechecking => call.buffer = call.thing.content,
         call \in WithHandle /\ at \in {"root-again", "returned"} /\ ~rootLeft =>
           call.buffer = call.thing.content,
         call \in WithHandle /\ call.op = "file" /\ at \in {"close"} \cup Rechecking =>
           call.buffer = call.thing.content,
         call \in Resolved => (at \in Rechecking <=> call.op = "inspect")
  PROVE  RepoInvariant'
  <1>1. /\ call'.at = at /\ call'.op = call.op /\ call'.link = call.link
        /\ call'.thing = call.thing /\ call'.buffer = call.buffer
        /\ KnowsThing'
    BY MoveKeepsResolved, MoveKeepsHandle DEF KnowsThing
  <1>2. call \in WithHandle <=> call' \in WithHandle
    BY MoveKeepsResolved, MoveKeepsHandle, ShapesAreDisjoint DEF KnowsThing
  <1>3. call \in WithHandle => call'.handle = call.handle
    BY MoveKeepsHandle
  <1>4. call \in Resolved <=> call' \in Resolved
    BY <1>1, <1>2, ShapesAreDisjoint DEF KnowsThing
  <1>5. RepoTypeOK'
    BY <1>1 DEF RepoInvariant, RepoTypeOK, worldVars, KnowsThing
  <1>6. StampsAreFresh'
    BY <1>1 DEF RepoInvariant, StampsAreFresh, worldVars, KnowsThing, KnowsLink
  <1>7. Target' = Target /\ LinkIsKept' = LinkIsKept /\ ThingIsKept' = ThingIsKept
    BY <1>1 DEF Target, LinkIsKept, ThingIsKept, worldVars
  <1>8. PlacesAgree'
    BY <1>1, <1>2, <1>3, <1>7 DEF RepoInvariant, PlacesAgree, worldVars
  <1>9. BufferIsContent'
    BY <1>1, <1>2, <1>3, <1>4, <1>7 DEF RepoInvariant, BufferIsContent, worldVars
  <1>10. RootStayed'
    <2>1. InCall /\ call.at # "root"
      BY PlaceFollowsShape DEF KnowsThing, InCall, Unread, Reading, Rechecking
    <2> QED BY <2>1 DEF RepoInvariant, RootStayed, worldVars
  <1> QED BY <1>1, <1>5, <1>6, <1>8, <1>9, <1>10 DEF RepoInvariant

\* Moving costs nothing.
LEMMA MovingIsFree ==
  ASSUME RepoInvariant, KnowsThing, NEW at, at # "returned", call' = [call EXCEPT !.at = at],
         call \in Resolved => at \in Unread \cup Rechecking,
         call \in WithHandle => at \in Reading \cup Rechecking,
         call.at \notin {"returned", "pay"}, at # "pay", UNCHANGED <<usage, received>>
  PROVE  CallIsPaidFor' /\ received' \in Nat
  <1>1. /\ call'.op = call.op /\ call'.thing = call.thing /\ call'.buffer = call.buffer
    BY MoveKeepsResolved, MoveKeepsHandle DEF KnowsThing
  <1> QED BY <1>1 DEF RepoInvariant, RepoTypeOK, CallIsPaidFor, ReceiptsWithinLimits, KnowsThing

LEMMA ResolvingSteps ==
  ASSUME RepoInvariant,
         AssertRoot \/ ResolveLink \/ ReadLink
  PROVE  RepoInvariant'
  <1>1. CASE AssertRoot
    <2>1. call \in Started
      BY <1>1, ShapeFollowsPlace DEF AssertRoot, Answered, RepoInvariant, BeforeLink
    <2>2. call' \in Started
      BY <1>1, <2>1 DEF AssertRoot, Started, BeforeLink
    <2>3. fileHandle' \in {"none", "pending", "closed"}
      BY <1>1 DEF AssertRoot, Answered, RepoInvariant, RepoTypeOK, Reading
    <2> QED BY <1>1, <2>2, <2>3, IgnorantCall DEF AssertRoot, RepoInvariant, RepoTypeOK
  <1>2. CASE ResolveLink
    <2>1. call \in Started
      BY <1>2, ShapeFollowsPlace DEF ResolveLink, Answered, RepoInvariant, BeforeLink
    <2>2. LinkStat \in Links /\ (~rootLeft => LinkStat = link)
      BY <1>2, RepositoryAssumption
         DEF LinkStat, Links, RepoInvariant, RepoTypeOK, RootStayed, InCall, ResolveLink, Answered
    <2>3. PICK at \in BeforeThing : /\ call' = [at |-> at, op |-> call.op, link |-> LinkStat]
                                    /\ at = "resolve-thing" => LinkStat.kind = "directory"
      BY <1>2 DEF ResolveLink, BeforeThing
    <2>4. call' \in Linked /\ call'.at = at /\ call'.link = LinkStat
      BY <2>1, <2>2, <2>3, PlaceFollowsShape DEF Linked
    <2>5. ~KnowsThing'
      BY <2>4, ShapesAreDisjoint DEF KnowsThing
    <2>6. RepoTypeOK'
      BY <1>2, <2>4 DEF ResolveLink, RepoInvariant, RepoTypeOK, worldVars
    <2>7. StampsAreFresh'
      BY <1>2, <2>2, <2>4, <2>5 DEF ResolveLink, RepoInvariant, StampsAreFresh, worldVars, KnowsLink
    <2>8. PlacesAgree' /\ BufferIsContent' /\ CallIsPaidFor'
      BY <1>2, <2>3, <2>4, <2>5 DEF ResolveLink, RepoInvariant, PlacesAgree, BufferIsContent,
           CallIsPaidFor, ReceiptsWithinLimits, KnowsThing, BeforeThing
    <2>9. fileHandle' # "open"
      BY <1>2 DEF ResolveLink, Answered, RepoInvariant, Reading
    <2>10. RootStayed'
      BY <1>2 DEF ResolveLink, Answered, RepoInvariant, RootStayed, InCall, worldVars
    <2> QED BY <2>6, <2>7, <2>8, <2>9, <2>10 DEF RepoInvariant
  <1>3. CASE ReadLink
    <2>1. call \in Linked
      BY <1>3, ShapeFollowsPlace DEF ReadLink, Answered, RepoInvariant, BeforeThing
    <2>2. call' \in Linked /\ call'.at = "resolve-thing" /\ call'.link = call.link
      BY <1>3, <2>1, MoveKeepsLink DEF ReadLink, BeforeThing
    <2>3. ~KnowsThing' /\ call.link.kind = "inside"
      BY <1>3, <2>2, ShapesAreDisjoint DEF KnowsThing, ReadLink
    <2>4. RepoTypeOK'
      BY <1>3, <2>2 DEF ReadLink, RepoInvariant, RepoTypeOK, worldVars
    <2>5. StampsAreFresh'
      BY <1>3, <2>1, <2>2, <2>3 DEF ReadLink, RepoInvariant, StampsAreFresh, worldVars, KnowsLink
    <2>6. PlacesAgree' /\ BufferIsContent' /\ CallIsPaidFor'
      BY <1>3, <2>2, <2>3 DEF ReadLink, RepoInvariant, PlacesAgree, BufferIsContent,
           CallIsPaidFor, ReceiptsWithinLimits, KnowsThing
    <2>7. fileHandle' # "open"
      BY <1>3 DEF ReadLink, Answered, RepoInvariant, Reading
    <2>8. RootStayed'
      BY <1>3 DEF ReadLink, Answered, RepoInvariant, RootStayed, InCall, worldVars
    <2> QED BY <2>4, <2>5, <2>6, <2>7, <2>8 DEF RepoInvariant
  <1> QED BY <1>1, <1>2, <1>3

\* Where the path leads while the link is the one the call has seen.
LEMMA ReachedIsTarget ==
  ASSUME RepoTypeOK, call.link \in Links, call.link.kind # "outside"
  PROVE  /\ Reached(call.link) \in Places
         /\ rootKept /\ LinkIsKept => Reached(call.link) = Target
  <1>1. /\ LeadsTo("inside") = IF rootKept THEN "alternative" ELSE "outside"
        /\ LeadsTo("directory") = IF rootKept THEN "own" ELSE "outside"
        /\ LeadsTo("outside") = "outside"
    <2>1. CASE rootKept
      BY <2>1 DEF LeadsTo
    <2>2. CASE ~rootKept
      BY <2>2 DEF LeadsTo
    <2> QED BY <2>1, <2>2
  <1>2. link.kind \in {"directory", "inside", "outside"}
    BY DEF RepoTypeOK, Links
  <1> QED BY <1>1, <1>2 DEF Reached, LinkIsKept, Target, Places, Links

LEMMA ResolveThingStep ==
  ASSUME RepoInvariant, ResolveThing
  PROVE  RepoInvariant'
  <1> DEFINE size == Len(Seen.content)
  <1>1. call \in Linked /\ call.link \in Links /\ call.op \in Operations
    BY ShapeFollowsPlace, PlaceFollowsShape DEF ResolveThing, Answered, RepoInvariant, BeforeThing
  <1>2. call.link.kind # "outside"
    BY DEF ResolveThing, Answered, RepoInvariant, PlacesAgree
  <1>3. Reached(call.link) \in Places /\ (LinkIsKept => Reached(call.link) = Target)
    BY <1>1, <1>2, ReachedIsTarget
       DEF RepoInvariant, RootStayed, InCall, ResolveThing, Answered, LinkIsKept
  <1>4. things[Reached(call.link)] \in Things
    BY <1>3 DEF RepoInvariant, RepoTypeOK
  <1>5. /\ Seen \in SeenThings
        /\ Seen.place = Reached(call.link)
        /\ Seen.version = things[Seen.place].version
        /\ Seen.content = things[Seen.place].content
    BY <1>3, <1>4 DEF Seen, SeenThings, ThingStat, Things
  <1>6. size \in Nat
    BY <1>5 DEF SeenThings
  <1>7. PICK at \in {"recheck-link", "open", "pay"} :
          /\ call' = [at |-> at, op |-> call.op, link |-> call.link, thing |-> Seen,
                      buffer |-> << >>]
          /\ at = "recheck-link" <=> call.op = "inspect"
          /\ at = "pay" <=> call.op = "file"
    BY <1>1 DEF ResolveThing, Operations
  <1>8. /\ call' \in Resolved /\ call'.at = at /\ call'.op = call.op /\ call'.link = call.link
        /\ call'.thing = Seen /\ call'.buffer = << >>
    BY <1>1, <1>5, <1>7 DEF Resolved, Unread, Rechecking
  <1>9. call' \notin WithHandle /\ KnowsThing' /\ KnowsLink'
    BY <1>8, ShapesAreDisjoint DEF KnowsThing, KnowsLink
  <1>10. /\ usage' \in [entries : Nat, bytes : Nat]
         /\ usage'.entries = usage.entries + 1
         /\ usage'.bytes = usage.bytes
    BY DEF ResolveThing, RepoInvariant, RepoTypeOK
  <1>11. RepoTypeOK'
    BY <1>8, <1>10 DEF ResolveThing, RepoInvariant, RepoTypeOK, worldVars
  <1>12. StampsAreFresh'
    BY <1>1, <1>3, <1>5, <1>8, <1>9 DEF ResolveThing, RepoInvariant, StampsAreFresh, worldVars,
         KnowsLink
  <1>13. PlacesAgree'
    <2>1. LinkIsKept' = LinkIsKept /\ Target' = Target
      BY <1>8 DEF LinkIsKept, Target, ResolveThing, worldVars
    <2> QED BY <1>2, <1>3, <1>5, <1>7, <1>8, <1>9, <2>1 DEF PlacesAgree
  <1>14. BufferIsContent'
    <2>1. things' = things
      BY DEF ResolveThing, worldVars
    <2>2. call'.at \in Rechecking <=> call.op = "inspect"
      BY <1>7, <1>8 DEF Rechecking
    <2> QED BY <1>5, <1>8, <1>9, <2>1, <2>2 DEF BufferIsContent
  <1>15. CallIsPaidFor'
    <2>1. received' = received /\ received \in Nat /\ usage.entries \in Nat /\ usage.bytes \in Nat
      BY DEF ResolveThing, RepoInvariant, RepoTypeOK
    <2>2. received <= usage.bytes + usage.entries
      BY DEF RepoInvariant, CallIsPaidFor, ReceiptsWithinLimits
    <2>3. ReceiptsWithinLimits'
      BY <1>10, <2>1, <2>2 DEF ResolveThing, RepoInvariant, CallIsPaidFor, ReceiptsWithinLimits
    <2>4. Len(call'.buffer) = 0
      BY <1>8
    <2>5. received' + 0 <= usage'.bytes + usage'.entries
      BY <1>10, <2>1, <2>2
    <2>6. call'.op = "file" => 0 <= Len(call'.thing.content) /\ call'.at = "pay"
      BY <1>6, <1>7, <1>8
    <2> QED BY <2>3, <2>4, <2>5, <2>6 DEF CallIsPaidFor
  <1>16. fileHandle' # "open"
    BY DEF ResolveThing, Answered, RepoInvariant, Reading
  <1>17. RootStayed'
    BY DEF ResolveThing, Answered, RepoInvariant, RootStayed, InCall, worldVars
  <1> QED BY <1>11, <1>12, <1>13, <1>14, <1>15, <1>16, <1>17 DEF RepoInvariant

LEMMA PayBytesStep ==
  ASSUME RepoInvariant, PayBytes
  PROVE  RepoInvariant'
  <1> DEFINE size == Len(call.thing.content)
  <1>1. call.at = "pay" /\ call \in Resolved
    BY ShapeFollowsPlace DEF PayBytes, RepoInvariant, Unread
  <1>2. call \notin WithHandle /\ KnowsThing /\ KnowsLink /\ call.op # "inspect" /\ call.buffer = << >>
    BY <1>1, ShapesAreDisjoint DEF KnowsThing, KnowsLink, RepoInvariant, BufferIsContent, Rechecking
  <1>3. size \in Nat
    BY <1>1, PlaceFollowsShape DEF SeenThings
  <1>4. /\ call' \in Resolved /\ call'.at = "open" /\ call'.op = call.op /\ call'.link = call.link
        /\ call'.thing = call.thing /\ call'.buffer = call.buffer
    BY <1>1, MoveKeepsResolved DEF PayBytes, Unread
  <1>5. call' \notin WithHandle /\ KnowsThing' /\ KnowsLink'
    BY <1>4, ShapesAreDisjoint DEF KnowsThing, KnowsLink
  <1>6. /\ UNCHANGED <<worldVars, expired, fileHandle, received>>
        /\ usage' \in [entries : Nat, bytes : Nat]
        /\ usage'.entries = usage.entries /\ usage'.bytes = usage.bytes + size
        /\ usage.bytes + size <= MaxRepositoryBytes
    BY <1>3 DEF PayBytes, RepoInvariant, RepoTypeOK
  <1>7. RepoTypeOK' /\ RootStayed'
    BY <1>1, <1>4, <1>6 DEF RepoInvariant, RepoTypeOK, RootStayed, InCall, worldVars
  <1>8. StampsAreFresh'
    BY <1>2, <1>4, <1>5, <1>6 DEF RepoInvariant, StampsAreFresh, worldVars
  <1>9. LinkIsKept' = LinkIsKept /\ Target' = Target /\ ThingIsKept' = ThingIsKept
    BY <1>4, <1>6 DEF LinkIsKept, Target, ThingIsKept, worldVars
  <1>10. PlacesAgree' /\ BufferIsContent'
    BY <1>2, <1>4, <1>5, <1>6, <1>9
       DEF RepoInvariant, PlacesAgree, BufferIsContent, worldVars, Rechecking
  <1>11. CallIsPaidFor'
    <2>1. /\ received' = received /\ received \in Nat
          /\ usage.entries \in Nat /\ usage.bytes \in Nat
      BY <1>6 DEF RepoInvariant, RepoTypeOK
    <2>2. /\ received <= usage.bytes + usage.entries
          /\ usage.entries <= MaxRepositoryEntries
      BY DEF RepoInvariant, CallIsPaidFor, ReceiptsWithinLimits
    <2> HIDE DEF size
    <2>3. received + size <= (usage.bytes + size) + usage.entries
      BY <1>3, <2>1, <2>2
    <2>4. received <= (usage.bytes + size) + usage.entries
      BY <1>3, <2>1, <2>2
    <2>5. ReceiptsWithinLimits'
      BY <1>6, <2>1, <2>2, <2>4 DEF ReceiptsWithinLimits
    <2>6. Len(call'.buffer) = 0 /\ Len(call'.thing.content) = size /\ received' + 0 = received
      BY <1>2, <1>4, <2>1 DEF size
    <2> QED BY <1>3, <1>6, <2>1, <2>3, <2>4, <2>5, <2>6 DEF CallIsPaidFor
  <1>12. fileHandle' # "open"
    BY <1>1, <1>6 DEF RepoInvariant, Reading
  <1> QED BY <1>7, <1>8, <1>10, <1>11, <1>12 DEF RepoInvariant

LEMMA OpenSettlesStep ==
  ASSUME RepoInvariant, OpenSettles
  PROVE  RepoInvariant'
  <1>1. call \in Resolved /\ call.at = "opening"
    BY ShapeFollowsPlace DEF OpenSettles, Answered, RepoInvariant, Unread
  <1>2. /\ call.link \in Links /\ call.thing \in SeenThings /\ call.op \in Operations
        /\ call.link.kind # "outside"
    BY <1>1, PlaceFollowsShape DEF RepoInvariant, PlacesAgree, KnowsThing
  <1>3. Reached(call.link) \in Places /\ (LinkIsKept => Reached(call.link) = Target)
    BY <1>1, <1>2, ReachedIsTarget DEF RepoInvariant, RootStayed, InCall, LinkIsKept
  <1>4. call.op \in {"file", "names"} /\ call.buffer = << >>
    BY <1>1, <1>2 DEF RepoInvariant, BufferIsContent, Rechecking, Operations
  <1>5. PICK at \in {"stat", "read"} :
          call' = [at |-> at, op |-> call.op, link |-> call.link, thing |-> call.thing,
                   buffer |-> << >>, handle |-> Reached(call.link)]
    BY DEF OpenSettles
  <1>6. /\ call' \in WithHandle /\ call'.at = at /\ call'.op = call.op /\ call'.link = call.link
        /\ call'.thing = call.thing /\ call'.buffer = << >> /\ call'.handle = Reached(call.link)
    BY <1>2, <1>3, <1>4, <1>5 DEF WithHandle, Reading
  <1>7. call' \notin Resolved /\ KnowsThing' /\ KnowsLink' /\ KnowsThing /\ KnowsLink
    BY <1>1, <1>6, ShapesAreDisjoint DEF KnowsThing, KnowsLink
  <1>8. RepoTypeOK'
    BY <1>6 DEF OpenSettles, RepoInvariant, RepoTypeOK, worldVars
  <1>9. StampsAreFresh'
    BY <1>6, <1>7 DEF OpenSettles, RepoInvariant, StampsAreFresh, worldVars
  <1>10. LinkIsKept' = LinkIsKept /\ Target' = Target /\ ThingIsKept' = ThingIsKept
    BY <1>6 DEF LinkIsKept, Target, ThingIsKept, OpenSettles, worldVars
  <1>11. PlacesAgree'
    BY <1>2, <1>3, <1>6, <1>7, <1>10 DEF RepoInvariant, PlacesAgree
  <1>12. BufferIsContent'
    <2>1. Prefix(<< >>, call.thing.content)
      BY <1>2 DEF Prefix, SeenThings
    <2>2. ThingIsKept => things'[call'.thing.place].content = call'.thing.content
      BY <1>6, <1>7 DEF OpenSettles, worldVars, RepoInvariant, BufferIsContent
    <2>3. call'.at \notin {"stat-again", "close", "root-again", "returned"} \cup Rechecking
      BY <1>5, <1>6 DEF Rechecking
    <2> QED BY <1>6, <1>7, <1>10, <2>1, <2>2, <2>3 DEF BufferIsContent, Rechecking
  <1>13. CallIsPaidFor'
    BY <1>1, <1>4, <1>6, <1>7 DEF OpenSettles, RepoInvariant, CallIsPaidFor, ReceiptsWithinLimits
  <1>14. RootStayed'
    BY <1>1 DEF OpenSettles, RepoInvariant, RootStayed, InCall, worldVars
  <1> QED BY <1>6, <1>8, <1>9, <1>11, <1>12, <1>13, <1>14 DEF RepoInvariant, Reading

LEMMA WholePrefix ==
  ASSUME NEW s \in Seq(Nat), NEW t \in Seq(Nat), Prefix(s, t), Len(s) >= Len(t)
  PROVE  s = t
  <1>1. Len(s) \in Nat /\ Len(t) \in Nat
    BY LenProperties
  <1>2. Len(s) = Len(t)
    BY <1>1 DEF Prefix
  <1> QED BY <1>2, SeqEqual DEF Prefix

LEMMA LongerPrefix ==
  ASSUME NEW s \in Seq(Nat), NEW t \in Seq(Nat), Prefix(s, t), Len(s) + 1 <= Len(t)
  PROVE  /\ Append(s, t[Len(s) + 1]) \in Seq(Nat)
         /\ Len(Append(s, t[Len(s) + 1])) = Len(s) + 1
         /\ Prefix(Append(s, t[Len(s) + 1]), t)
  <1>1. Len(s) \in Nat /\ Len(t) \in Nat
    BY LenProperties
  <1>2. t[Len(s) + 1] \in Nat
    BY <1>1, ElementOfSeq
  <1>3. /\ Append(s, t[Len(s) + 1]) \in Seq(Nat)
        /\ Len(Append(s, t[Len(s) + 1])) = Len(s) + 1
        /\ \A i \in 1 .. Len(s) + 1 :
             Append(s, t[Len(s) + 1])[i] = IF i <= Len(s) THEN s[i] ELSE t[Len(s) + 1]
    BY <1>2, AppendProperties
  <1>4. ASSUME NEW i \in 1 .. Len(s) + 1
        PROVE  Append(s, t[Len(s) + 1])[i] = t[i]
    <2>1. i <= Len(s) => i \in 1 .. Len(s)
      BY <1>1
    <2>2. ~(i <= Len(s)) => i = Len(s) + 1
      BY <1>1
    <2> QED BY <1>3, <2>1, <2>2 DEF Prefix
  <1> QED BY <1>3, <1>4 DEF Prefix

\* A call that has found the thing and looks at what it opened, or closes it.
LEMMA HandleSteps ==
  ASSUME RepoInvariant,
         \/ OpenStarts \/ StatHandle("stat", "read") \/ ReadEnds
         \/ StatHandle("stat-again", "close") \/ CloseHandle
  PROVE  RepoInvariant'
  <1>0. fileHandle \in {"none", "pending", "open", "closed"}
    BY DEF RepoInvariant, RepoTypeOK
  <1>1. CASE OpenStarts
    <2>1. call.at = "open" /\ call \in Resolved
      BY <1>1, ShapeFollowsPlace DEF OpenStarts, Answered, RepoInvariant, Unread
    <2>2. call \notin WithHandle /\ KnowsThing /\ call.op # "inspect"
      BY <2>1, ShapesAreDisjoint
         DEF KnowsThing, RepoInvariant, BufferIsContent, Rechecking
    <2>3. call' = [call EXCEPT !.at = "opening"] /\ UNCHANGED <<worldVars, expired, usage, received>>
          /\ fileHandle' = "pending"
      BY <1>1 DEF OpenStarts
    <2>4. CallIsPaidFor' /\ received' \in Nat
      BY <2>1, <2>2, <2>3, MovingIsFree DEF Unread
    <2> QED BY <2>1, <2>2, <2>3, <2>4, KnowingCallMoves DEF Unread, Rechecking
  <1>2. CASE StatHandle("stat", "read") \/ ReadEnds \/ StatHandle("stat-again", "close")
    <2>1. call.at \in Reading /\ call \in WithHandle
      BY <1>2, ShapeFollowsPlace DEF StatHandle, ReadEnds, Answered, RepoInvariant, Reading
    <2>2. call \notin Resolved /\ KnowsThing
      BY <2>1, ShapesAreDisjoint DEF KnowsThing
    <2>3. PICK at \in Reading :
            /\ call' = [call EXCEPT !.at = at]
            /\ at \in {"stat-again", "close"} => ReadEnds \/ call.at = "stat-again"
            /\ call.op = "file" /\ at = "close" => StatHandle("stat-again", "close")
      BY <1>2 DEF StatHandle, ReadEnds, Answered, Reading
    <2>4. UNCHANGED <<worldVars, expired, usage, fileHandle, received>>
      BY <1>2 DEF StatHandle, ReadEnds
    <2>5. at \notin Rechecking /\ call.at # "returned"
      BY <2>1 DEF Rechecking, Reading
    <2>6. CallIsPaidFor' /\ received' \in Nat
      BY <2>1, <2>2, <2>3, <2>4, <2>5, MovingIsFree DEF Rechecking, Reading
    <2>7. ASSUME call.handle = call.thing.place, ThingIsKept, at \in {"stat-again", "close"}
          PROVE  call.buffer = call.thing.content
      <3>1. /\ Prefix(call.buffer, call.thing.content)
            /\ things[call.handle].content = call.thing.content
        BY <2>1, <2>2, <2>7 DEF RepoInvariant, BufferIsContent
      <3>2. CASE ReadEnds
        <4>1. Len(call.buffer) >= Len(call.thing.content)
          BY <3>1, <3>2 DEF ReadEnds
        <4>2. call.buffer \in Seq(Nat) /\ call.thing.content \in Seq(Nat)
          BY <2>1, PlaceFollowsShape DEF SeenThings
        <4> QED BY <3>1, <4>1, <4>2, WholePrefix
      <3>3. CASE call.at = "stat-again"
        BY <2>1, <2>7, <3>3 DEF RepoInvariant, BufferIsContent
      <3> QED BY <2>3, <2>7, <3>2, <3>3
    <2>8. call.op = "file" /\ at = "close" => call.buffer = call.thing.content
      BY <2>3, <2>7 DEF StatHandle, HandleIsThing, ThingIsKept
    <2>9. at \notin {"recheck-thing", "root-again", "returned"}
      BY <2>5 DEF Rechecking
    <2> QED BY <1>0, <2>1, <2>2, <2>3, <2>4, <2>5, <2>6, <2>7, <2>8, <2>9, KnowingCallMoves
  <1>3. CASE CloseHandle
    <2>1. call.at = "close" /\ call \in WithHandle
      BY <1>3, ShapeFollowsPlace DEF CloseHandle, RepoInvariant, Reading
    <2>2. call \notin Resolved /\ KnowsThing
      BY <2>1, ShapesAreDisjoint DEF KnowsThing
    <2>3. CASE call' = [call EXCEPT !.at = "recheck-link"]
      <3>1. CallIsPaidFor' /\ received' \in Nat
        BY <1>3, <2>1, <2>2, <2>3, MovingIsFree DEF CloseHandle, Rechecking
      <3>2. call.op = "file" \/ (call.handle = call.thing.place /\ ThingIsKept)
              => call.buffer = call.thing.content
        BY <2>1 DEF RepoInvariant, BufferIsContent
      <3> QED BY <1>3, <2>1, <2>2, <2>3, <3>1, <3>2, KnowingCallMoves DEF CloseHandle, Rechecking
    <2>4. CASE call' = [at |-> "failed"]
      BY <1>3, <2>4, IgnorantCall DEF CloseHandle, Outside, RepoInvariant, RepoTypeOK, worldVars
    <2> QED BY <1>3, <2>3, <2>4 DEF CloseHandle
  <1> QED BY <1>1, <1>2, <1>3

LEMMA ReadFragmentStep ==
  ASSUME RepoInvariant, ReadFragment
  PROVE  RepoInvariant'
  <1> DEFINE content == things[call.handle].content
             i == Len(call.buffer) + 1
  <1>1. call.at = "read" /\ call \in WithHandle
    BY ShapeFollowsPlace DEF ReadFragment, Answered, RepoInvariant, Reading
  <1>2. /\ call.op \in {"file", "names"} /\ call.link \in Links /\ call.thing \in SeenThings
        /\ call.buffer \in Seq(Nat) /\ call.handle \in Places
    BY <1>1, PlaceFollowsShape
  <1>3. content \in Seq(Nat)
    BY <1>2 DEF RepoInvariant, RepoTypeOK, Things
  <1>4. i \in 1 .. Len(content)
    BY <1>2, <1>3, LenProperties DEF ReadFragment
  <1>5. content[i] \in Nat
    BY <1>3, <1>4, ElementOfSeq
  <1>6. call' = [call EXCEPT !.buffer = Append(call.buffer, content[i])]
    BY DEF ReadFragment
  <1>7. Append(call.buffer, content[i]) \in Seq(Nat) /\ Len(Append(call.buffer, content[i])) = i
    BY <1>2, <1>5, AppendProperties
  <1>8. /\ call' \in WithHandle /\ call'.at = call.at /\ call'.op = call.op
        /\ call'.link = call.link /\ call'.thing = call.thing /\ call'.handle = call.handle
        /\ call'.buffer = Append(call.buffer, content[i])
    BY <1>1, <1>6, <1>7 DEF WithHandle
  <1>9. call' \notin Resolved /\ KnowsThing' /\ KnowsLink' /\ KnowsThing /\ KnowsLink
    BY <1>1, <1>8, ShapesAreDisjoint DEF KnowsThing, KnowsLink
  <1>10. /\ UNCHANGED <<worldVars, expired, fileHandle, received>>
         /\ usage' \in [entries : Nat, bytes : Nat]
         /\ usage'.bytes = usage.bytes
         /\ usage'.entries = IF call.op = "names" THEN usage.entries + 1 ELSE usage.entries
    BY DEF ReadFragment, RepoInvariant, RepoTypeOK
  <1>11. RepoTypeOK'
    BY <1>8, <1>10 DEF RepoInvariant, RepoTypeOK, worldVars
  <1>12. StampsAreFresh'
    BY <1>8, <1>9, <1>10 DEF RepoInvariant, StampsAreFresh, worldVars
  <1>13. LinkIsKept' = LinkIsKept /\ Target' = Target /\ ThingIsKept' = ThingIsKept
    BY <1>8, <1>10 DEF LinkIsKept, Target, ThingIsKept, worldVars
  <1>14. PlacesAgree'
    BY <1>1, <1>8, <1>9, <1>13 DEF RepoInvariant, PlacesAgree
  <1>15. BufferIsContent'
    <2>1. ThingIsKept => things'[call'.thing.place].content = call'.thing.content
      BY <1>8, <1>9, <1>10 DEF worldVars, RepoInvariant, BufferIsContent
    <2>2. ASSUME call.handle = call.thing.place, ThingIsKept
          PROVE  Prefix(call'.buffer, call'.thing.content)
      <3>1. content = call.thing.content /\ Prefix(call.buffer, content)
        BY <1>1, <1>9, <2>2 DEF RepoInvariant, BufferIsContent
      <3>2. Prefix(Append(call.buffer, content[i]), content)
        BY <1>2, <1>3, <1>4, <3>1, LongerPrefix
      <3> QED BY <1>8, <3>1, <3>2
    <2>3. call'.at \notin {"stat-again", "close", "root-again", "returned"} \cup Rechecking
      BY <1>1, <1>8 DEF Rechecking
    <2> QED BY <1>8, <1>9, <1>13, <2>1, <2>2, <2>3 DEF BufferIsContent, Rechecking
  <1>16. CallIsPaidFor'
    <2>1. /\ received' = received /\ received \in Nat
          /\ usage.entries \in Nat /\ usage.bytes \in Nat
      BY <1>10 DEF RepoInvariant, RepoTypeOK
    <2>2. /\ Len(call.buffer) \in Nat /\ Len(call.thing.content) \in Nat
          /\ Len(call'.buffer) = Len(call.buffer) + 1
      BY <1>2, <1>7, <1>8, LenProperties DEF SeenThings
    <2>3. /\ received <= usage.bytes + usage.entries
          /\ received + Len(call.buffer) <= usage.bytes + usage.entries
          /\ call.op = "file" => received + Len(call.thing.content) <= usage.bytes + usage.entries
      BY <1>1, <1>9 DEF RepoInvariant, CallIsPaidFor, ReceiptsWithinLimits
    <2>4. /\ call.op = "file" => Len(call.buffer) + 1 <= Len(call.thing.content)
          /\ call.op = "names" => usage.entries + 1 <= MaxRepositoryEntries
      BY DEF ReadFragment
    <2>5. CASE call.op = "file"
      <3>1. usage'.entries = usage.entries /\ usage'.bytes = usage.bytes
        BY <1>10, <2>5
      <3>2. ReceiptsWithinLimits'
        BY <2>1, <3>1 DEF RepoInvariant, CallIsPaidFor, ReceiptsWithinLimits
      <3>3. received + Len(call.buffer) + 1 <= usage.bytes + usage.entries
        <4>1. /\ Len(call.buffer) + 1 <= Len(call.thing.content)
              /\ received + Len(call.thing.content) <= usage.bytes + usage.entries
          BY <2>3, <2>4, <2>5
        <4>2. \A r, b, t, u, e \in Nat : b + 1 <= t /\ r + t <= u + e => r + b + 1 <= u + e
          OBVIOUS
        <4> QED BY <2>1, <2>2, <4>1, <4>2
      <3> QED BY <1>8, <2>1, <2>2, <2>3, <2>4, <2>5, <3>1, <3>2, <3>3 DEF CallIsPaidFor
    <2>6. CASE call.op = "names"
      <3>1. usage'.entries = usage.entries + 1 /\ usage'.bytes = usage.bytes
        BY <1>10, <2>6
      <3>2. ReceiptsWithinLimits'
        <4>1. received <= usage.bytes + (usage.entries + 1)
          BY <2>1, <2>3
        <4>2. usage.bytes <= MaxRepositoryBytes
          BY DEF RepoInvariant, CallIsPaidFor, ReceiptsWithinLimits
        <4> QED BY <2>1, <2>4, <2>6, <3>1, <4>1, <4>2 DEF ReceiptsWithinLimits
      <3>3. received + Len(call.buffer) + 1 <= usage.bytes + (usage.entries + 1)
        BY <2>1, <2>2, <2>3, SMTT(30)
      <3> QED BY <1>8, <2>1, <2>2, <2>6, <3>1, <3>2, <3>3 DEF CallIsPaidFor
    <2> QED BY <1>2, <2>5, <2>6
  <1>17. RootStayed'
    BY <1>1, <1>10 DEF RepoInvariant, RootStayed, InCall, worldVars
  <1> QED BY <1>1, <1>8, <1>10, <1>11, <1>12, <1>14, <1>15, <1>16, <1>17 DEF RepoInvariant, Reading

\* The second look at every component of the path, and the return.
LEMMA RecheckSteps ==
  ASSUME RepoInvariant, RecheckLink \/ RecheckThing \/ CallReturns
  PROVE  RepoInvariant'
  <1>0. fileHandle \in {"none", "pending", "open", "closed"}
    BY DEF RepoInvariant, RepoTypeOK
  <1>1. call.at \in {"recheck-link", "recheck-thing", "root-again"}
    BY DEF RecheckLink, RecheckThing, CallReturns, Answered
  <1>2. KnowsThing /\ fileHandle # "open"
    BY <1>1, ShapeFollowsPlace DEF RepoInvariant, Rechecking, KnowsThing, Reading
  <1>3. call \in Resolved => call.op = "inspect"
    BY <1>1 DEF RepoInvariant, BufferIsContent, Rechecking
  <1>4. UNCHANGED <<worldVars, expired, usage, fileHandle>>
    BY DEF RecheckLink, RecheckThing, CallReturns
  <1>5. /\ call.link \in Links /\ call.thing \in SeenThings /\ call.buffer \in Seq(Nat)
        /\ call \in WithHandle => call.handle \in Places
    BY <1>2, PlaceFollowsShape DEF KnowsThing
  <1>9. call \in WithHandle /\ call.op = "file" => call.buffer = call.thing.content
    BY <1>1 DEF RepoInvariant, BufferIsContent, Rechecking
  <1>10. call \in WithHandle /\ call.handle = call.thing.place /\ ThingIsKept
           => call.buffer = call.thing.content
    BY <1>1 DEF RepoInvariant, BufferIsContent, Rechecking
  <1>6. CASE RecheckLink
    <2>1. call' = [call EXCEPT !.at = "recheck-thing"] /\ UNCHANGED received
      BY <1>6 DEF RecheckLink
    <2>2. ~rootLeft => LinkIsKept
      BY <1>1, <1>6 DEF RecheckLink, LinkStat, LinkIsKept, RepoInvariant, RootStayed, InCall
    <2>3. ~rootLeft => call.thing.place = Target /\ (call \in WithHandle => call.handle = Target)
      BY <1>2, <2>2 DEF RepoInvariant, PlacesAgree
    <2>4. call \in WithHandle /\ call.handle = call.thing.place /\ ThingIsKept
            => call.buffer = call.thing.content
      BY <1>1 DEF RepoInvariant, BufferIsContent, Rechecking
    <2>5. CallIsPaidFor' /\ received' \in Nat
      BY <1>1, <1>2, <2>1, <1>4, MovingIsFree DEF Rechecking
    <2> QED BY <1>0, <1>1, <1>2, <1>3, <1>4, <1>9, <2>1, <2>3, <2>4, <2>5, KnowingCallMoves DEF Rechecking
  <1>7. CASE RecheckThing
    <2>1. call' = [call EXCEPT !.at = "root-again"] /\ UNCHANGED received
      BY <1>7 DEF RecheckThing
    <2>2. call.at = "recheck-thing"
      BY <1>7 DEF RecheckThing, Answered
    <2>3. ~rootLeft => call.thing.place = Target /\ (call \in WithHandle => call.handle = Target)
      BY <2>2 DEF RepoInvariant, PlacesAgree
    <2>4. ThingIsKept
      <3>1. /\ Reached(call.link) = call.thing.place
            /\ things[Reached(call.link)].version = call.thing.version
        BY <1>7 DEF RecheckThing, ThingStat
      <3> QED BY <3>1 DEF ThingIsKept
    <2>5. call \in WithHandle /\ call.handle = call.thing.place => call.buffer = call.thing.content
      BY <1>1, <2>4 DEF RepoInvariant, BufferIsContent, Rechecking
    <2>6. CallIsPaidFor' /\ received' \in Nat
      BY <1>1, <1>2, <2>1, <1>4, MovingIsFree DEF Rechecking
    <2>7. call \in WithHandle /\ ~rootLeft => call.buffer = call.thing.content
      BY <2>3, <2>5
    <2> QED BY <1>0, <1>1, <1>2, <1>3, <1>4, <1>9, <1>10, <2>1, <2>3, <2>6, <2>7, KnowingCallMoves DEF Rechecking
  <1>8. CASE CallReturns
    <2>1. /\ call' = [call EXCEPT !.at = "returned"] /\ received' = received + Len(call.buffer)
          /\ call.at = "root-again"
      BY <1>8 DEF CallReturns, Answered
    <2>2. ~rootLeft => call.thing.place = Target /\ (call \in WithHandle => call.handle = Target)
      BY <2>1 DEF RepoInvariant, PlacesAgree
    <2>3. call \in WithHandle /\ ~rootLeft => call.buffer = call.thing.content
      BY <2>1 DEF RepoInvariant, BufferIsContent
    <2>4. received' \in Nat
      BY <1>5, <2>1, LenProperties DEF RepoInvariant, RepoTypeOK
    <2>5. CallIsPaidFor'
      <3>1. call'.at = "returned"
        BY <1>2, <2>1, MoveKeepsResolved, MoveKeepsHandle DEF KnowsThing, Rechecking
      <3>2. ReceiptsWithinLimits'
        BY <1>2, <1>4, <2>1 DEF RepoInvariant, CallIsPaidFor, ReceiptsWithinLimits
      <3> QED BY <3>1, <3>2 DEF CallIsPaidFor
    <2> QED BY <1>0, <1>1, <1>2, <1>3, <1>4, <1>9, <1>10, <2>1, <2>2, <2>3, <2>4, <2>5, KnowingCallMoves
            DEF Rechecking
  <1> QED BY <1>6, <1>7, <1>8

-----------------------------------------------------------------------------
(* Everybody else, and the deadline *)

\* What others change gets a number no call has seen.
LEMMA WorldSteps ==
  ASSUME RepoInvariant,
         \/ \E p \in Places : ThingChanges(p)
         \/ LinkMoves \/ RootReplaced \/ RootReturns \/ Expires
  PROVE  RepoInvariant'
  <1>1. ASSUME NEW p \in Places, ThingChanges(p)
        PROVE  RepoInvariant'
    <2>1. PICK content \in Seq(Nat) :
            things' = [things EXCEPT ![p] = [version |-> changes + 1, content |-> content]]
      <3>1. things[p].content \in Seq(Nat) /\ changes + 1 \in Nat
        BY DEF RepoInvariant, RepoTypeOK, Things
      <3>2. /\ \A i \in DOMAIN things[p].content :
                 [things[p].content EXCEPT ![i] = changes + 1] \in Seq(Nat)
            /\ Append(things[p].content, changes + 1) \in Seq(Nat)
        BY <3>1, ExceptSeq, LenProperties, AppendProperties
      <3>3. SubSeq(things[p].content, 1, Len(things[p].content) - 1) \in Seq(Nat)
        <4> DEFINE s == things[p].content
        <4>1. Len(s) \in Nat /\ \A i \in 1 .. Len(s) - 1 : s[i] \in Nat
          BY <3>1, LenProperties, ElementOfSeq
        <4> QED BY <4>1, SubSeqProperties
      <3> QED BY <1>1, <3>2, <3>3 DEF ThingChanges
    <2>2. /\ UNCHANGED <<rootKept, rootLeft, link, expired, usage, call, fileHandle, received>>
          /\ changes' = changes + 1 /\ changes \in Nat
      BY <1>1 DEF ThingChanges, RepoInvariant, RepoTypeOK
    <2>3. things' \in [Places -> Things]
      BY <2>1, <2>2 DEF RepoInvariant, RepoTypeOK, Things
    <2>4. /\ things'[p].version = changes + 1
          /\ \A q \in Places \ {p} : things'[q] = things[q]
      BY <2>1 DEF RepoInvariant, RepoTypeOK
    <2>5. RepoTypeOK' /\ RootStayed'
      BY <2>2, <2>3 DEF RepoInvariant, RepoTypeOK, RootStayed, InCall
    <2>6. \A q \in Places : things[q].version \in Nat /\ things[q].version <= changes
      BY DEF RepoInvariant, RepoTypeOK, StampsAreFresh, Things
    <2>7. /\ KnowsThing => call.thing.version \in Nat /\ call.thing.place \in Places
          /\ KnowsLink => call.link.stamp \in Nat
          /\ link.stamp \in Nat
      BY PlaceFollowsShape DEF KnowsThing, KnowsLink, SeenThings, Links, RepoInvariant, RepoTypeOK
    <2>8. KnowsThing' = KnowsThing /\ KnowsLink' = KnowsLink
      BY <2>2 DEF KnowsThing, KnowsLink
    <2>9. StampsAreFresh'
      BY <2>2, <2>4, <2>6, <2>7, <2>8 DEF RepoInvariant, StampsAreFresh
    <2>10. KnowsThing /\ ThingIsKept' =>
             ThingIsKept /\ things'[call.thing.place] = things[call.thing.place]
      BY <2>2, <2>4, <2>7 DEF ThingIsKept, RepoInvariant, StampsAreFresh
    <2>11. PlacesAgree'
      BY <2>2, <2>8 DEF RepoInvariant, PlacesAgree, LinkIsKept, Target
    <2>12. BufferIsContent'
      BY <2>2, <2>8, <2>10 DEF RepoInvariant, BufferIsContent, KnowsThing
    <2>13. CallIsPaidFor'
      BY <2>2, <2>8 DEF RepoInvariant, CallIsPaidFor, ReceiptsWithinLimits
    <2> QED BY <2>2, <2>5, <2>9, <2>11, <2>12, <2>13 DEF RepoInvariant
  <1>2. ASSUME LinkMoves \/ RootReplaced \/ RootReturns \/ Expires
        PROVE  RepoInvariant'
    <2>1. /\ UNCHANGED <<things, usage, call, fileHandle, received>>
          /\ expired' \in BOOLEAN /\ rootKept' \in BOOLEAN /\ link' \in Links
          /\ rootLeft' \in BOOLEAN /\ (rootLeft => rootLeft') /\ RootStayed'
          /\ changes \in Nat /\ changes' \in {changes, changes + 1}
          /\ link' = link \/ (link'.stamp = changes + 1 /\ changes' = changes + 1)
      <3>1. CASE LinkMoves
        BY <1>2, <3>1 DEF LinkMoves, RepoInvariant, RepoTypeOK, Links, RootStayed, InCall
      <3>2. CASE RootReplaced
        BY <1>2, <3>2 DEF RootReplaced, RepoInvariant, RepoTypeOK, RootStayed, InCall
      <3>3. CASE RootReturns
        BY <1>2, <3>3 DEF RootReturns, RepoInvariant, RepoTypeOK, RootStayed, InCall
      <3>4. CASE Expires
        BY <1>2, <3>4 DEF Expires, worldVars, RepoInvariant, RepoTypeOK, RootStayed, InCall
      <3> QED BY <1>2, <3>1, <3>2, <3>3, <3>4
    <2>2. RepoTypeOK'
      BY <2>1 DEF RepoInvariant, RepoTypeOK
    <2>3. /\ KnowsThing => call.thing.version \in Nat /\ call.thing.place \in Places
          /\ KnowsLink => call.link.stamp \in Nat
          /\ link.stamp \in Nat
          /\ \A q \in Places : things[q].version \in Nat
      BY PlaceFollowsShape
         DEF KnowsThing, KnowsLink, SeenThings, Links, RepoInvariant, RepoTypeOK, Things
    <2>4. KnowsThing' = KnowsThing /\ KnowsLink' = KnowsLink /\ (KnowsThing => KnowsLink)
      BY <2>1 DEF KnowsThing, KnowsLink
    <2>5. StampsAreFresh'
      BY <2>1, <2>3, <2>4 DEF RepoInvariant, StampsAreFresh
    <2>6. KnowsLink /\ LinkIsKept' => LinkIsKept
      BY <2>1, <2>3 DEF LinkIsKept, RepoInvariant, StampsAreFresh
    <2>7. PlacesAgree'
      BY <2>1, <2>4, <2>6 DEF RepoInvariant, PlacesAgree, Target, KnowsThing
    <2>8. BufferIsContent'
      BY <2>1, <2>4 DEF RepoInvariant, BufferIsContent, ThingIsKept
    <2>9. CallIsPaidFor'
      BY <2>1, <2>4 DEF RepoInvariant, CallIsPaidFor, ReceiptsWithinLimits
    <2> QED BY <2>1, <2>2, <2>5, <2>7, <2>8, <2>9 DEF RepoInvariant
  <1> QED BY <1>1, <1>2

LEMMA RepoStep ==
  ASSUME RepoInvariant, [RepoNext]_repoVars
  PROVE  RepoInvariant'
  <1>1. CASE UNCHANGED repoVars
    BY <1>1 DEF repoVars, RepoInvariant, RepoTypeOK, RootStayed, InCall, StampsAreFresh, KnowsLink, KnowsThing,
                PlacesAgree, LinkIsKept, Target, BufferIsContent, ThingIsKept, CallIsPaidFor,
                ReceiptsWithinLimits
  <1>2. ASSUME NEW op \in Operations, CallBegins(op)
        PROVE  RepoInvariant'
    <2>1. call' \in Started
      BY <1>2 DEF CallBegins, Started, BeforeLink
    <2> QED BY <1>2, <2>1, IgnorantCall DEF CallBegins, RepoInvariant, RepoTypeOK, worldVars
  <1>3. CASE CallFails
    <2>1. call' \in Outside
      BY <1>3 DEF CallFails, Fail, Outside
    <2>2. fileHandle' \in {"none", "pending", "closed"}
      BY <1>3 DEF CallFails, Fail, RepoInvariant, RepoTypeOK
    <2> QED BY <1>3, <2>1, <2>2, IgnorantCall DEF CallFails, Fail, RepoInvariant, RepoTypeOK, worldVars
  <1>4. CASE OpenSettlesLate
    BY <1>4 DEF OpenSettlesLate, worldVars, RepoInvariant, RepoTypeOK, RootStayed, InCall, StampsAreFresh, KnowsLink,
                KnowsThing, PlacesAgree, LinkIsKept, Target, BufferIsContent, ThingIsKept,
                CallIsPaidFor, ReceiptsWithinLimits
  <1> QED BY <1>1, <1>2, <1>3, <1>4, ResolvingSteps, ResolveThingStep, PayBytesStep, OpenSettlesStep,
             HandleSteps, ReadFragmentStep, RecheckSteps, WorldSteps DEF RepoNext

LEMMA RepoInvariantHolds == RepoSpec => []RepoInvariant
  <1>1. RepoInit => RepoInvariant
    <2> SUFFICES ASSUME RepoInit PROVE RepoInvariant
      OBVIOUS
    <2>1. call \in Outside /\ call.at = "idle"
      BY DEF RepoInit, Nothing, Outside
    <2>2. ~KnowsLink /\ ~KnowsThing /\ call \notin Resolved /\ call \notin WithHandle
      BY <2>1, PlaceFollowsShape
         DEF KnowsLink, KnowsThing, BeforeThing, Unread, Reading, Rechecking
    <2>3. <<0, 0>> \in Seq(Nat)
      OBVIOUS
    <2>4. RepoTypeOK /\ RootStayed
      BY <2>1, <2>3 DEF RepoInit, RepoTypeOK, Links, Things, RootStayed
    <2>5. StampsAreFresh
      BY <2>2 DEF RepoInit, StampsAreFresh
    <2>6. PlacesAgree /\ BufferIsContent
      BY <2>1, <2>2 DEF PlacesAgree, BufferIsContent
    <2>7. CallIsPaidFor
      BY <2>2, RepositoryAssumption DEF RepoInit, CallIsPaidFor, ReceiptsWithinLimits
    <2> QED BY <2>4, <2>5, <2>6, <2>7 DEF RepoInit, RepoInvariant
  <1>2. RepoInvariant /\ [RepoNext]_repoVars => RepoInvariant'
    BY RepoStep
  <1> QED BY <1>1, <1>2, PTL DEF RepoSpec

(* What a call of the read-only facade returns is what the path named at one moment of the
   call, whole, inside the root and paid for, while others move links, replace the root and
   rewrite things between any two system calls; when the root itself was away meanwhile, a
   file is still whole (read-only-filesystem.ts); for all limits, contents of any length and
   any number of changes. *)
THEOREM RepositoryReadsSnapshots == RepoSpec => []ReadIsASnapshot
  <1>1. RepoInvariant => ReadIsASnapshot
    <2> SUFFICES ASSUME RepoInvariant PROVE ReadIsASnapshot
      OBVIOUS
    <2>1. ReceiptsWithinLimits
      BY DEF RepoInvariant, CallIsPaidFor
    <2>2. ASSUME call.at = "returned"
          PROVE  /\ call.op = "file" => call.buffer = call.thing.content
                 /\ ~rootLeft => /\ call.thing.place # "outside"
                                 /\ call.op = "names" => call.buffer = call.thing.content
      <3>1. call \in Resolved \cup WithHandle
        BY <2>2, ShapeFollowsPlace DEF RepoInvariant, Rechecking
      <3>2. ~rootLeft => call.thing.place \in {"alternative", "own"}
        BY <2>2 DEF RepoInvariant, PlacesAgree, Target
      <3>3. call \in WithHandle /\ (~rootLeft \/ call.op = "file") => call.buffer = call.thing.content
        BY <2>2 DEF RepoInvariant, BufferIsContent, Rechecking
      <3>4. call \in Resolved => call.op = "inspect"
        BY <2>2 DEF RepoInvariant, BufferIsContent, Rechecking
      <3> QED BY <3>1, <3>2, <3>3, <3>4
    <2> QED BY <2>1, <2>2 DEF ReadIsASnapshot
  <1> QED BY <1>1, RepoInvariantHolds, PTL

-----------------------------------------------------------------------------
(* The components together *)

\* The components share no state: a behaviour of all of them is one of each.
LEMMA ComponentsAreIndependent ==
  Spec => CtxSpec /\ RepoSpec
  <1>1. Init => CtxInit /\ RepoInit
    BY DEF Init
  <1>2. [Next]_vars => [CtxNext]_ctxVars
    BY DEF Next, vars, ctxVars
  <1>3. [Next]_vars => [RepoNext]_repoVars
    BY DEF Next, vars, repoVars
  <1> QED BY <1>1, <1>2, <1>3, PTL DEF Spec, CtxSpec, RepoSpec

(* No file handle outlives its wait or its call, however late an open settles: neither the
   hook of OperationContext.wait (git-metadata-executor.ts) nor the continuation of
   #awaitBounded (read-only-filesystem.ts) misses one. *)
THEOREM HandlesDoNotLeak == Spec => []NoHandleLeaks
  <1>1. RepoInvariant => HandlesAreClosed
    BY DEF RepoInvariant, HandlesAreClosed, InCall, Reading
  <1>2. NoLeakedHandle /\ HandlesAreClosed => NoHandleLeaks
    BY DEF NoHandleLeaks
  <1> QED BY <1>1, <1>2, ContextLeaksNoHandle, RepoInvariantHolds, ComponentsAreIndependent, PTL

-----------------------------------------------------------------------------
(* Bounded resolution.  The bytes of the tasks of a batch: one more task adds its bytes, and
   more tasks take more. *)
TaskBytes(j, tasks) == [t \in Tasks |-> IF t \in tasks THEN j.fate[t].bytes ELSE 0]

LEMMA BytesAreNumbers ==
  ASSUME NEW j \in ResolutionJobs, NEW tasks
  PROVE  /\ TaskBytes(j, tasks) \in Seq(Nat) /\ Len(TaskBytes(j, tasks)) = NTasks
         /\ \A t \in Tasks : /\ j.fate[t].bytes \in Nat /\ j.fate[t] \in TaskOutcome
                             /\ j.fate[t].kind \in {"ok", "invalid", "execution"}
<1>1. \A t \in Tasks : /\ j.fate[t].bytes \in Nat /\ j.fate[t] \in TaskOutcome
                       /\ j.fate[t].kind \in {"ok", "invalid", "execution"}
  <2>1. j.fate \in [Tasks -> TaskOutcome]
    BY DEF ResolutionJobs
  <2>2. ASSUME NEW o \in TaskOutcome PROVE o.bytes \in Nat /\ o.kind \in {"ok", "invalid", "execution"}
    <3>1. CASE o \in [kind : {"ok"}, bytes : ResultSizes]
      BY <3>1, ResolutionAssumption
    <3>2. CASE o \in [kind : {"invalid", "execution"}, bytes : {0}]
      BY <3>2
    <3>. QED
      BY <3>1, <3>2 DEF TaskOutcome
  <2>. QED
    BY <2>1, <2>2
<1>2. TaskBytes(j, tasks) \in [1 .. NTasks -> Nat]
  BY <1>1 DEF TaskBytes, Tasks
<1>3. TaskBytes(j, tasks) \in Seq(Nat)
  BY <1>2, ResolutionAssumption, SeqDef
<1>4. Len(TaskBytes(j, tasks)) = NTasks
  BY <1>2, <1>3, ResolutionAssumption, LenProperties
<1>. QED
  BY <1>1, <1>3, <1>4

LEMMA BytesOfOneMore ==
  ASSUME NEW j \in ResolutionJobs, NEW tasks \in SUBSET Tasks, NEW t \in Tasks, t \notin tasks
  PROVE  BytesOf(j, tasks \cup {t}) = BytesOf(j, tasks) + j.fate[t].bytes
<1> DEFINE s == TaskBytes(j, tasks)
           u == TaskBytes(j, tasks \cup {t})
<1>1. s \in Seq(Nat) /\ u \in Seq(Nat) /\ Len(s) = NTasks /\ Len(u) = NTasks
  BY BytesAreNumbers
<1>2. s[t] = 0 /\ u[t] = j.fate[t].bytes /\ \A i \in Tasks : i # t => u[i] = s[i]
  BY DEF TaskBytes
<1> HIDE DEF s, u
<1>3. Total(u) = Total(s) + u[t]
  BY <1>1, <1>2, TotalOfChange, SMTT(30) DEF Tasks
<1>. QED
  BY <1>2, <1>3 DEF BytesOf, TaskBytes, s, u

LEMMA BytesAreMonotone ==
  ASSUME NEW j \in ResolutionJobs, NEW big \in SUBSET Tasks, NEW small \in SUBSET big
  PROVE  BytesOf(j, small) <= BytesOf(j, big) /\ BytesOf(j, small) \in Nat /\ BytesOf(j, big) \in Nat
<1> DEFINE s == TaskBytes(j, small)
           u == TaskBytes(j, big)
<1>1. s \in Seq(Nat) /\ u \in Seq(Nat) /\ Len(s) = NTasks /\ Len(u) = NTasks
  BY BytesAreNumbers
<1>2. \A i \in Tasks : s[i] <= u[i]
  <2>1. \A i \in Tasks : j.fate[i].bytes \in Nat
    BY BytesAreNumbers
  <2>. QED
    BY <2>1 DEF TaskBytes
<1> HIDE DEF s, u
<1>3. Total(s) <= Total(u) /\ Total(s) \in Nat /\ Total(u) \in Nat
  BY <1>1, <1>2, TotalIsMonotone, TotalIsNatural DEF Tasks
<1>. QED
  BY <1>3 DEF BytesOf, TaskBytes, s, u

LEMMA NoBytes ==
  ASSUME NEW j
  PROVE  BytesOf(j, {}) = 0
<1> DEFINE s == TaskBytes(j, {})
<1>1. s \in [1 .. NTasks -> Nat] /\ \A i \in 1 .. NTasks : s[i] = 0
  BY DEF TaskBytes, Tasks
<1> HIDE DEF s
<1>2. s \in Seq(Nat)
  BY <1>1, ResolutionAssumption, SeqDef
<1>3. Len(s) = NTasks
  BY <1>1, <1>2, ResolutionAssumption, LenProperties
<1>4. Total(s) = 0
  BY <1>1, <1>2, <1>3, TotalOfZeros
<1>. QED
  BY <1>4 DEF BytesOf, TaskBytes, s

(* A batch.  A task is taken by one worker, which awaits it until it is kept or has failed;
   while nothing stops the batch no task is skipped, and a worker only leaves when there is
   no task left. *)
ResTypeOK ==
  /\ resJob \in ResolutionJobs \cup {NoResolution}
  /\ nextIndex \in Nat \ {0}
  /\ busy \in [Workers -> Tasks \cup {0}]
  /\ stopped \in {"no", "cancelled", "deadline", "resource"}
  /\ retained \in Nat
  /\ resolutions \in SUBSET Tasks /\ failures \in SUBSET Tasks

NotSubmitted ==
  resJob = NoResolution =>
    /\ resolutions = {} /\ failures = {} /\ busy = [w \in Workers |-> 0]
    /\ stopped = "no" /\ resAnswer = NoAnswerYet

TakenOnce ==
  /\ \A v, w \in Workers : busy[v] # 0 /\ busy[v] = busy[w] => v = w
  /\ \A w \in Workers : busy[w] # 0 => busy[w] < nextIndex /\ busy[w] \notin resolutions \cup failures

SettledAsFated ==
  /\ \A t \in resolutions :
       /\ t < nextIndex /\ resJob.fate[t].kind = "ok" /\ resJob.fate[t].bytes <= MaxResultBytes
  /\ \A t \in failures : t < nextIndex /\ resJob.fate[t].kind # "ok"

BytesAreKept == retained = BytesOf(resJob, resolutions) /\ retained <= MaxTotalResultBytes

NothingSkipped ==
  Running /\ stopped = "no" =>
    /\ \A t \in Tasks : t < nextIndex => t \in resolutions \cup failures \/ \E w \in Workers : busy[w] = t
    /\ nextIndex <= NTasks => \A w \in 1 .. resJob.workers : busy[w] # 0

OkTasks(j) == {t \in Tasks : j.fate[t].kind = "ok"}

TooBig(j) ==
  \/ \E t \in OkTasks(j) : j.fate[t].bytes > MaxResultBytes
  \/ BytesOf(j, OkTasks(j)) > MaxTotalResultBytes

StoppedForSize == stopped = "resource" => resJob # NoResolution /\ TooBig(resJob)

ResInvariant ==
  /\ ResTypeOK /\ NotSubmitted /\ TakenOnce /\ SettledAsFated /\ BytesAreKept
  /\ NothingSkipped /\ StoppedForSize

LEMMA NoResolutionIsNoJob == NoResolution \notin ResolutionJobs
<1> SUFFICES ASSUME NoResolution \in ResolutionJobs PROVE FALSE
  OBVIOUS
<1>1. NoResolution.workers \in Workers /\ NoResolution.workers = 0
  BY DEF ResolutionJobs, NoResolution
<1>. QED
  BY <1>1, ResolutionAssumption DEF Workers

LEMMA SmallerOfTwo ==
  ASSUME NEW a \in Nat, NEW b \in Nat
  PROVE  Min({a, b}) = IF a <= b THEN a ELSE b
BY DEF Min

LEMMA ResInitially == ResInit => ResInvariant
<1> SUFFICES ASSUME ResInit PROVE ResInvariant
  OBVIOUS
<1>1. ResTypeOK
  BY DEF ResInit, ResTypeOK
<1>2. NotSubmitted /\ NothingSkipped /\ StoppedForSize /\ SettledAsFated
  BY DEF ResInit, NotSubmitted, NothingSkipped, Running, StoppedForSize, SettledAsFated
<1>3. TakenOnce
  BY DEF ResInit, TakenOnce
<1>4. BytesAreKept
  BY NoBytes, ResolutionAssumption DEF ResInit, BytesAreKept
<1>. QED
  BY <1>1, <1>2, <1>3, <1>4 DEF ResInvariant

(* The submission: the first workers take the first tasks. *)
LEMMA ResolveKeepsInvariant ==
  ASSUME ResInvariant, Resolve
  PROVE  ResInvariant'
<1>1. /\ resJob = NoResolution /\ resJob' \in ResolutionJobs /\ resJob' # NoResolution
      /\ UNCHANGED <<stopped, retained, resolutions, failures, resAborted>>
      /\ resolutions = {} /\ failures = {} /\ busy = [w \in Workers |-> 0] /\ stopped = "no"
      /\ resAnswer = NoAnswerYet /\ ResTypeOK
  BY NoResolutionIsNoJob DEF Resolve, ResInvariant, NotSubmitted
<1>2. SettledAsFated' /\ StoppedForSize' /\ NotSubmitted'
  BY <1>1 DEF SettledAsFated, StoppedForSize, NotSubmitted
<1>3. BytesAreKept'
  BY <1>1, NoBytes DEF BytesAreKept, ResInvariant
<1>4. CASE resAborted
  <2>1. resAnswer' = Stopped("cancelled") /\ UNCHANGED <<busy, nextIndex>>
    BY <1>4 DEF Resolve
  <2>2. resAnswer' # NoAnswerYet
    BY <2>1 DEF Stopped, NoAnswerYet
  <2>3. ResTypeOK'
    BY <1>1, <2>1 DEF ResTypeOK
  <2>4. TakenOnce' /\ NothingSkipped'
    BY <1>1, <2>1, <2>2 DEF TakenOnce, NothingSkipped, Running
  <2>. QED
    BY <1>2, <1>3, <2>3, <2>4 DEF ResInvariant
<1>5. CASE ~resAborted
  <2>1. PICK k \in Nat \ {0} : k = resJob'.workers /\ k <= MaxConcurrency
    BY <1>1, ResolutionAssumption DEF ResolutionJobs, Workers
  <2>2. /\ busy' = [w \in Workers |-> IF w <= k /\ w <= NTasks THEN w ELSE 0]
        /\ nextIndex' = Min({k, NTasks}) + 1 /\ UNCHANGED resAnswer
    BY <1>5, <2>1 DEF Resolve
  <2>3. PICK m \in Nat : /\ m = (IF k <= NTasks THEN k ELSE NTasks) /\ nextIndex' = m + 1
                         /\ m <= k /\ m <= NTasks /\ (m = k \/ m = NTasks)
    BY <2>1, <2>2, SmallerOfTwo, ResolutionAssumption
  <2>4. ASSUME NEW w \in Workers
        PROVE  /\ busy'[w] = IF w <= m THEN w ELSE 0
               /\ w <= m => w \in Tasks
    BY <2>1, <2>2, <2>3, ResolutionAssumption DEF Workers, Tasks
  <2>5. busy' \in [Workers -> Tasks \cup {0}]
    BY <2>2, <2>4
  <2>6. ResTypeOK'
    BY <1>1, <2>3, <2>5 DEF ResTypeOK
  <2>7. TakenOnce'
    BY <1>1, <2>3, <2>4 DEF TakenOnce, Workers
  <2>8. NothingSkipped'
    <3>1. ASSUME NEW t \in Tasks, t < nextIndex' PROVE \E w \in Workers : busy'[w] = t
      <4>1. t \in Workers /\ t <= m
        BY <2>1, <2>3, <3>1, ResolutionAssumption DEF Tasks, Workers
      <4>. QED
        BY <2>4, <4>1
    <3>2. ASSUME nextIndex' <= NTasks, NEW w \in 1 .. resJob'.workers PROVE busy'[w] # 0
      <4>1. w \in Workers /\ w <= m /\ w # 0
        BY <2>1, <2>3, <3>2, ResolutionAssumption DEF Workers
      <4>. QED
        BY <2>4, <4>1
    <3>. QED
      BY <3>1, <3>2 DEF NothingSkipped
  <2>. QED
    BY <1>2, <1>3, <2>6, <2>7, <2>8 DEF ResInvariant
<1>. QED
  BY <1>4, <1>5

(* A worker whose task was kept or has failed goes on with the next task. *)
LEMMA WorkerGoesOn ==
  ASSUME ResInvariant, NEW w \in Workers, busy[w] # 0, TakeNext(w, stopped),
         UNCHANGED <<resJob, stopped, resAnswer>>,
         resolutions' \cup failures' = (resolutions \cup failures) \cup {busy[w]}
  PROVE  /\ TakenOnce' /\ NothingSkipped' /\ busy' \in [Workers -> Tasks \cup {0}]
         /\ nextIndex' \in Nat \ {0} /\ nextIndex <= nextIndex'
<1>t. /\ nextIndex \in Nat \ {0} /\ busy \in [Workers -> Tasks \cup {0}] /\ Tasks \subseteq Nat
      /\ NTasks \in Nat /\ resolutions \cup failures \subseteq Tasks
      /\ TakenOnce /\ SettledAsFated /\ NothingSkipped
  BY ResolutionAssumption DEF ResInvariant, ResTypeOK, Tasks
<1> DEFINE over == stopped # "no" \/ nextIndex > NTasks
<1>1. /\ \A v \in Workers : v # w => busy'[v] = busy[v]
      /\ over => busy'[w] = 0 /\ nextIndex' = nextIndex
      /\ ~over => busy'[w] = nextIndex /\ nextIndex' = nextIndex + 1 /\ nextIndex \in Tasks
      /\ busy' \in [Workers -> Tasks \cup {0}]
  <2>1. CASE over
    BY <1>t, <2>1 DEF TakeNext
  <2>2. CASE ~over
    <3>1. nextIndex \in Tasks
      BY <1>t, <2>2 DEF Tasks
    <3>. QED
      BY <1>t, <2>2, <3>1 DEF TakeNext
  <2>. QED
    BY <2>1, <2>2
<1>2. nextIndex' \in Nat \ {0} /\ nextIndex <= nextIndex'
  BY <1>t, <1>1
<1>3. \A t \in resolutions \cup failures : t < nextIndex
  BY <1>t DEF SettledAsFated
<1>4. busy[w] < nextIndex /\ busy[w] \in Tasks
  BY <1>t DEF TakenOnce
<1>5. TakenOnce'
  <2>1. ASSUME NEW v \in Workers, busy'[v] # 0
        PROVE  busy'[v] < nextIndex' /\ busy'[v] \notin resolutions' \cup failures'
    <3>1. CASE v = w
      <4>1. ~over /\ busy'[v] = nextIndex /\ nextIndex' = nextIndex + 1
        BY <1>1, <2>1, <3>1
      <4>2. nextIndex \notin (resolutions \cup failures) \cup {busy[w]}
        BY <1>t, <1>3, <1>4
      <4>. QED
        BY <1>t, <4>1, <4>2
    <3>2. CASE v # w
      <4>1. busy'[v] = busy[v] /\ busy[v] < nextIndex /\ busy[v] \notin resolutions \cup failures
        BY <1>t, <1>1, <2>1, <3>2 DEF TakenOnce
      <4>2. busy[v] # busy[w] /\ busy[v] \in Nat
        BY <1>t, <2>1, <3>2, <4>1 DEF TakenOnce
      <4>. QED
        BY <1>t, <1>2, <4>1, <4>2
    <3>. QED
      BY <3>1, <3>2
  <2>2. ASSUME NEW v \in Workers, NEW u \in Workers, busy'[v] # 0, busy'[v] = busy'[u] PROVE v = u
    <3>1. CASE v # w /\ u # w
      BY <1>t, <1>1, <2>2, <3>1 DEF TakenOnce
    <3>2. ASSUME NEW x \in Workers, x # w, busy'[x] = busy'[w], busy'[w] # 0 PROVE FALSE
      <4>1. busy'[w] = nextIndex /\ busy'[x] = busy[x]
        BY <1>1, <3>2
      <4>2. busy[x] < nextIndex
        BY <1>t, <3>2, <4>1 DEF TakenOnce
      <4>. QED
        BY <1>t, <3>2, <4>1, <4>2
    <3>. QED
      BY <2>2, <3>1, <3>2
  <2>. QED
    BY <2>1, <2>2 DEF TakenOnce
<1>6. NothingSkipped'
  <2> SUFFICES ASSUME Running, stopped = "no"
               PROVE  /\ \A t \in Tasks : t < nextIndex' =>
                           t \in resolutions' \cup failures' \/ \E v \in Workers : busy'[v] = t
                      /\ nextIndex' <= NTasks => \A v \in 1 .. resJob.workers : busy'[v] # 0
    BY DEF NothingSkipped, Running
  <2>1. ASSUME NEW t \in Tasks, t < nextIndex'
        PROVE  t \in resolutions' \cup failures' \/ \E v \in Workers : busy'[v] = t
    <3>1. CASE t < nextIndex
      <4>1. t \in resolutions \cup failures \/ \E v \in Workers : busy[v] = t
        BY <1>t, <3>1 DEF NothingSkipped
      <4>2. ASSUME NEW v \in Workers, busy[v] = t, v # w PROVE busy'[v] = t
        BY <1>1, <4>2
      <4>. QED
        BY <4>1, <4>2
    <3>2. CASE ~(t < nextIndex)
      <4>1. t = nextIndex /\ ~over
        BY <1>t, <1>1, <2>1, <3>2
      <4>. QED
        BY <1>1, <4>1
    <3>. QED
      BY <3>1, <3>2
  <2>2. ASSUME nextIndex' <= NTasks, NEW v \in 1 .. resJob.workers PROVE busy'[v] # 0
    <3>1. nextIndex <= NTasks /\ ~over
      BY <1>t, <1>2, <2>2
    <3>2. v \in Workers /\ busy[v] # 0
      <4>1. resJob \in ResolutionJobs
        BY DEF ResInvariant, ResTypeOK, Running
      <4>2. resJob.workers \in Nat /\ resJob.workers <= MaxConcurrency
        BY <4>1, ResolutionAssumption DEF ResolutionJobs, Workers
      <4>3. v \in Workers
        BY <4>2, ResolutionAssumption DEF Workers
      <4>. QED
        BY <1>t, <3>1, <4>3 DEF NothingSkipped
    <3>. QED
      BY <1>t, <1>1, <3>1, <3>2
  <2>. QED
    BY <2>1, <2>2
<1>. QED
  BY <1>1, <1>2, <1>5, <1>6

LEMMA TaskKeepsInvariant ==
  ASSUME ResInvariant, NEW w \in Workers, TaskSettles(w)
  PROVE  ResInvariant'
<1> DEFINE t == busy[w]
<1>1. /\ t # 0 /\ t \in Tasks /\ t \notin resolutions /\ t \notin failures /\ t < nextIndex
      /\ UNCHANGED <<resJob, resAborted, resAnswer>>
  BY DEF TaskSettles, ResInvariant, TakenOnce, ResTypeOK
<1>2. resJob \in ResolutionJobs /\ resJob # NoResolution
  BY <1>1, NoResolutionIsNoJob DEF ResInvariant, NotSubmitted, ResTypeOK
<1>3. PICK b \in Nat : b = resJob.fate[t].bytes
  BY <1>1, <1>2, BytesAreNumbers
<1>4. /\ ResTypeOK /\ NotSubmitted /\ TakenOnce /\ SettledAsFated /\ BytesAreKept
      /\ NothingSkipped /\ StoppedForSize
      /\ nextIndex \in Nat /\ Tasks \subseteq Nat /\ NTasks \in Nat
  BY ResolutionAssumption DEF ResInvariant, ResTypeOK, Tasks
<1>5. NotSubmitted'
  BY <1>1, <1>2 DEF NotSubmitted
<1> HIDE DEF t
<1>6. CASE resJob.fate[t].kind # "ok"
  <2>1. /\ failures' = failures \cup {t} /\ TakeNext(w, stopped)
        /\ UNCHANGED <<stopped, retained, resolutions>>
    BY <1>6 DEF TaskSettles, t
  <2>2. /\ TakenOnce' /\ NothingSkipped' /\ busy' \in [Workers -> Tasks \cup {0}]
        /\ nextIndex' \in Nat \ {0} /\ nextIndex <= nextIndex'
    BY <1>1, <2>1, WorkerGoesOn DEF t
  <2>3. ResTypeOK'
    BY <1>1, <1>4, <2>1, <2>2 DEF ResTypeOK
  <2>4. SettledAsFated'
    BY <1>1, <1>4, <1>6, <2>1, <2>2 DEF SettledAsFated, ResTypeOK
  <2>5. BytesAreKept' /\ StoppedForSize'
    BY <1>1, <1>4, <2>1 DEF BytesAreKept, StoppedForSize
  <2>. QED
    BY <1>5, <2>2, <2>3, <2>4, <2>5 DEF ResInvariant
<1>7. CASE resJob.fate[t].kind = "ok" /\ Fits(b)
  <2>1. /\ retained' = retained + b /\ resolutions' = resolutions \cup {t} /\ TakeNext(w, stopped)
        /\ UNCHANGED <<stopped, failures>>
    BY <1>3, <1>7 DEF TaskSettles, t
  <2>2. /\ TakenOnce' /\ NothingSkipped' /\ busy' \in [Workers -> Tasks \cup {0}]
        /\ nextIndex' \in Nat \ {0} /\ nextIndex <= nextIndex'
    BY <1>1, <2>1, WorkerGoesOn DEF t
  <2>3. ResTypeOK'
    BY <1>1, <1>3, <1>4, <2>1, <2>2 DEF ResTypeOK
  <2>4. SettledAsFated'
    BY <1>1, <1>3, <1>4, <1>7, <2>1, <2>2 DEF SettledAsFated, ResTypeOK, Fits
  <2>5. BytesAreKept'
    <3>1. BytesOf(resJob, resolutions \cup {t}) = BytesOf(resJob, resolutions) + b
      BY <1>1, <1>2, <1>3, <1>4, BytesOfOneMore DEF ResTypeOK
    <3>. QED
      BY <1>1, <1>4, <1>7, <2>1, <3>1 DEF BytesAreKept, Fits
  <2>6. StoppedForSize'
    BY <1>1, <1>4, <2>1 DEF StoppedForSize
  <2>. QED
    BY <1>5, <2>2, <2>3, <2>4, <2>5, <2>6 DEF ResInvariant
<1>8. CASE resJob.fate[t].kind = "ok" /\ ~Fits(b)
  <2>1. /\ stopped' = (IF stopped = "no" THEN "resource" ELSE stopped) /\ busy' = [busy EXCEPT ![w] = 0]
        /\ UNCHANGED <<nextIndex, retained, resolutions, failures>>
    BY <1>3, <1>8 DEF TaskSettles, t
  <2>2. ResTypeOK' /\ SettledAsFated' /\ BytesAreKept'
    BY <1>1, <1>4, <2>1 DEF ResTypeOK, SettledAsFated, BytesAreKept
  <2>3. TakenOnce'
    BY <1>4, <2>1 DEF TakenOnce, ResTypeOK
  <2>4. stopped' # "no"
    BY <2>1
  <2>5. TooBig(resJob)
    <3>1. CASE b > MaxResultBytes
      BY <1>1, <1>3, <1>8, <3>1 DEF TooBig, OkTasks
    <3>2. CASE retained + b > MaxTotalResultBytes
      <4>1. resolutions \cup {t} \subseteq OkTasks(resJob)
        BY <1>1, <1>4, <1>8 DEF OkTasks, SettledAsFated, ResTypeOK
      <4>2. BytesOf(resJob, resolutions \cup {t}) = retained + b
        BY <1>1, <1>2, <1>3, <1>4, BytesOfOneMore DEF ResTypeOK, BytesAreKept
      <4>3. /\ BytesOf(resJob, resolutions \cup {t}) <= BytesOf(resJob, OkTasks(resJob))
            /\ BytesOf(resJob, OkTasks(resJob)) \in Nat
        <5>1. OkTasks(resJob) \in SUBSET Tasks
          BY DEF OkTasks
        <5>. QED
          BY <1>2, <4>1, <5>1, BytesAreMonotone
      <4>4. BytesOf(resJob, OkTasks(resJob)) > MaxTotalResultBytes
        BY <1>3, <1>4, <3>2, <4>2, <4>3, ResolutionAssumption DEF ResTypeOK
      <4>. QED
        BY <4>4 DEF TooBig
    <3>. QED
      BY <1>3, <1>4, <1>8, <3>1, <3>2, ResolutionAssumption DEF Fits, ResTypeOK
  <2>6. NothingSkipped' /\ StoppedForSize'
    <3>1. TooBig(resJob')
      BY <1>1, <2>5
    <3>. QED
      BY <1>1, <1>2, <2>4, <3>1 DEF NothingSkipped, StoppedForSize
  <2>. QED
    BY <1>5, <2>2, <2>3, <2>6 DEF ResInvariant
<1>. QED
  BY <1>6, <1>7, <1>8

LEMMA ResStep == ResInvariant /\ [ResNext]_resVars => ResInvariant'
<1> SUFFICES ASSUME ResInvariant, [ResNext]_resVars PROVE ResInvariant'
  OBVIOUS
<1>1. CASE Resolve
  BY <1>1, ResolveKeepsInvariant
<1>2. ASSUME NEW w \in Workers, TaskSettles(w) PROVE ResInvariant'
  BY <1>2, TaskKeepsInvariant
<1>3. CASE ResAbort \/ ResDeadline
  <2>1. /\ UNCHANGED <<resJob, nextIndex, busy, retained, resolutions, failures, resAnswer>>
        /\ \/ stopped' = stopped
           \/ Running /\ stopped = "no" /\ stopped' \in {"cancelled", "deadline"}
    BY <1>3 DEF ResAbort, ResDeadline
  <2>2. ResTypeOK' /\ TakenOnce' /\ SettledAsFated' /\ BytesAreKept'
    BY <2>1 DEF ResInvariant, ResTypeOK, TakenOnce, SettledAsFated, BytesAreKept
  <2>3. NotSubmitted' /\ NothingSkipped' /\ StoppedForSize'
    BY <2>1 DEF ResInvariant, NotSubmitted, NothingSkipped, StoppedForSize, Running
  <2>. QED
    BY <2>2, <2>3 DEF ResInvariant
<1>4. CASE ResReturn
  <2>1. /\ UNCHANGED <<resJob, nextIndex, busy, stopped, retained, resolutions, failures>>
        /\ resJob # NoResolution
    BY <1>4 DEF ResReturn, Running
  <2>2. ResTypeOK' /\ TakenOnce' /\ SettledAsFated' /\ BytesAreKept'
    BY <2>1 DEF ResInvariant, ResTypeOK, TakenOnce, SettledAsFated, BytesAreKept
  <2>3. resAnswer' # NoAnswerYet
    BY <1>4 DEF ResReturn, Stopped, CompleteAnswer, NoAnswerYet, ResInvariant, ResTypeOK
  <2>4. NotSubmitted' /\ NothingSkipped' /\ StoppedForSize'
    BY <2>1, <2>3 DEF ResInvariant, NotSubmitted, NothingSkipped, StoppedForSize, Running
  <2>. QED
    BY <2>2, <2>4 DEF ResInvariant
<1>5. CASE UNCHANGED resVars
  BY <1>5 DEF resVars, ResInvariant, ResTypeOK, TakenOnce, SettledAsFated, BytesAreKept, NotSubmitted,
     NothingSkipped, StoppedForSize, Running
<1>. QED
  BY <1>1, <1>2, <1>3, <1>4, <1>5 DEF ResNext

(* When nothing has stopped the batch and all workers have returned, every task has settled as
   it had to, so the answer is the one the tasks deserve. *)
LEMMA AnswerIsDeserved ==
  ASSUME ResInvariant, Running, stopped = "no", \A w \in Workers : busy[w] = 0
  PROVE  CompleteAnswer = ResolutionReference(resJob)
<1> DEFINE of(kind) == {t \in Tasks : resJob.fate[t].kind = kind}
<1>1. resJob \in ResolutionJobs
  BY DEF Running, ResInvariant, ResTypeOK
<1>2. \A t \in Tasks : resJob.fate[t].kind \in {"ok", "invalid", "execution"}
  BY <1>1, BytesAreNumbers
<1>3. nextIndex > NTasks
  <2>1. 1 \in Workers /\ 1 \in 1 .. resJob.workers
    BY <1>1, ResolutionAssumption DEF ResolutionJobs, Workers
  <2>. QED
    BY <2>1, ResolutionAssumption DEF ResInvariant, ResTypeOK, NothingSkipped
<1>4. \A t \in Tasks : t \in resolutions \cup failures
  <2>1. \A t \in Tasks : t < nextIndex
    BY <1>3, ResolutionAssumption DEF Tasks, ResInvariant, ResTypeOK
  <2>2. \A t \in Tasks : t # 0
    BY DEF Tasks
  <2>. QED
    BY <2>1, <2>2 DEF ResInvariant, NothingSkipped
<1>5. resolutions = of("ok") /\ failures = of("invalid") \cup of("execution")
  BY <1>2, <1>4 DEF ResInvariant, ResTypeOK, SettledAsFated
<1>6. ~TooBig(resJob)
  <2>1. OkTasks(resJob) = resolutions
    BY <1>5 DEF OkTasks
  <2>2. \A t \in resolutions : resJob.fate[t].bytes <= MaxResultBytes /\ resJob.fate[t].bytes \in Nat
    BY <1>1, BytesAreNumbers DEF ResInvariant, ResTypeOK, SettledAsFated
  <2>3. BytesOf(resJob, resolutions) <= MaxTotalResultBytes /\ BytesOf(resJob, resolutions) \in Nat
    BY DEF ResInvariant, ResTypeOK, BytesAreKept
  <2>. QED
    BY <2>1, <2>2, <2>3, ResolutionAssumption DEF TooBig
<1>7. {t \in failures : resJob.fate[t].kind = "invalid"} = of("invalid")
  BY <1>5
<1>8. of("invalid") = {} => failures = of("execution")
  BY <1>5
<1>9. of("invalid") = {} /\ of("execution") = {} => resolutions = Tasks
  BY <1>2, <1>5
<1>10. ResolutionReference(resJob) =
         IF of("invalid") # {} THEN [kind |-> "invalid", tasks |-> of("invalid")]
         ELSE IF of("execution") # {} THEN [kind |-> "failed", tasks |-> of("execution")]
         ELSE [kind |-> "entries", tasks |-> Tasks]
  BY <1>6, Zenon DEF ResolutionReference, TooBig, OkTasks
<1>11. CompleteAnswer =
         IF of("invalid") # {} THEN [kind |-> "invalid", tasks |-> of("invalid")]
         ELSE IF failures # {} THEN [kind |-> "failed", tasks |-> failures]
         ELSE IF resolutions # Tasks THEN [kind |-> "lost", tasks |-> Tasks \ resolutions]
         ELSE [kind |-> "entries", tasks |-> resolutions]
  BY <1>7, Zenon DEF CompleteAnswer
<1> HIDE DEF of
<1>. QED
  BY <1>8, <1>9, <1>10, <1>11, Zenon

(* For any tasks, result sizes, limits and number of workers, whatever order the tasks settle
   in: resolveEffectiveContextsBounded answers with a function of its tasks, or says that
   it was cancelled or too late; what it keeps is counted exactly and within the limits. *)
THEOREM BatchesAreDeterministic == ResSpec => ResolutionIsDeterministic
<1>1. ResInit => resJob = NoResolution /\ resAnswer = NoAnswerYet
  BY DEF ResInit
<1>2. ASSUME ResInvariant, [ResNext]_resVars
      PROVE  [ResolutionBatch!Submit \/ ResolutionBatch!Finish]_<<resJob, resAnswer>>
  <2>1. CASE Resolve
    <3>1. /\ resJob = NoResolution /\ resJob' \in ResolutionJobs /\ resAnswer = NoAnswerYet
          /\ resAnswer' \in {NoAnswerYet, Stopped("cancelled")}
      BY <1>2, <2>1 DEF Resolve, ResInvariant, NotSubmitted
    <3>. QED
      BY <3>1 DEF ResolutionBatch!Submit
  <2>2. CASE ResReturn
    <3>1. Running /\ UNCHANGED resJob
          /\ resAnswer' = IF stopped # "no" THEN Stopped(stopped) ELSE CompleteAnswer
      BY <2>2 DEF ResReturn
    <3>2. resAnswer' \in {ResolutionReference(resJob), Stopped("cancelled"), Stopped("deadline")}
      <4>1. CASE stopped = "no"
        BY <1>2, <2>2, <3>1, <4>1, AnswerIsDeserved DEF ResReturn
      <4>2. CASE stopped = "resource"
        <5>1. ResolutionReference(resJob) = Stopped("resource")
          BY <1>2, <4>2, Zenon DEF ResInvariant, StoppedForSize, TooBig, OkTasks, ResolutionReference
        <5>. QED
          BY <3>1, <4>2, <5>1
      <4>3. CASE stopped \in {"cancelled", "deadline"}
        BY <3>1, <4>3
      <4>. QED
        BY <1>2, <4>1, <4>2, <4>3 DEF ResInvariant, ResTypeOK
    <3>. QED
      BY <3>1, <3>2 DEF ResolutionBatch!Finish, Running
  <2>3. CASE ResAbort \/ ResDeadline \/ \E w \in Workers : TaskSettles(w)
    BY <2>3 DEF ResAbort, ResDeadline, TaskSettles
  <2>4. CASE UNCHANGED resVars
    BY <2>4 DEF resVars
  <2>. QED
    BY <1>2, <2>1, <2>2, <2>3, <2>4 DEF ResNext
<1>3. ResInvariant => ResolutionBounded
  BY DEF ResInvariant, ResolutionBounded, BytesAreKept, TakenOnce
<1>4. ResSpec => []ResInvariant
  BY ResInitially, ResStep, PTL DEF ResSpec
<1>5. ResSpec => ResolutionBatch!BatchSpec
  BY <1>1, <1>2, <1>4, PTL DEF ResSpec, ResolutionBatch!BatchSpec
<1>6. ResSpec => []ResolutionBounded
  BY <1>3, <1>4, PTL
<1>. QED
  BY <1>5, <1>6 DEF ResolutionIsDeterministic

-----------------------------------------------------------------------------
(* The rule scheduler.  Any families can be put in order ... *)
LEMMA OrderExists ==
  ASSUME NEW families \in SUBSET Families
  PROVE  /\ IsFiniteSet(families) /\ Cardinality(families) \in Nat
         /\ \E s \in [1 .. Cardinality(families) -> families] : IsInOrder(s, families)
<1> DEFINE Ordered(S) == \E s \in [1 .. Cardinality(S) -> S] : IsInOrder(s, S)
           T == {n \in Nat : \E S \in SUBSET Families : Cardinality(S) = n /\ ~Ordered(S)}
<1>1. ASSUME NEW S \in SUBSET Families PROVE IsFiniteSet(S) /\ Cardinality(S) \in Nat
  <2>1. IsFiniteSet(Families)
    BY SchedulerAssumption, FS_Interval DEF Families
  <2>. QED
    BY <2>1, FS_Subset, FS_CardinalityType
<1>2. ASSUME T # {} PROVE FALSE
  <2>1. T \subseteq Nat
    OBVIOUS
  <2>2. PICK n \in T : \A y \in T : n <= y
    BY <1>2, <2>1, LeastNatural
  <2>3. PICK S \in SUBSET Families : Cardinality(S) = n /\ ~Ordered(S)
    BY <2>2
  <2>4. S # {}
    <3> SUFFICES ASSUME S = {} PROVE FALSE
      OBVIOUS
    <3>1. Cardinality(S) = 0
      BY FS_EmptySet
    <3>2. [i \in 1 .. 0 |-> i] \in [1 .. Cardinality(S) -> S] /\ IsInOrder([i \in 1 .. 0 |-> i], S)
      BY <3>1 DEF IsInOrder
    <3>. QED
      BY <2>3, <3>2
  <2>5. PICK m \in S : \A f \in S : f <= m
    <3> DEFINE D == {NFamilies - f : f \in S}
    <3>0. NFamilies \in Nat /\ \A f \in S : f \in Nat /\ f <= NFamilies
      BY SchedulerAssumption DEF Families
    <3>1. D \subseteq Nat /\ D # {}
      BY <2>4, <3>0
    <3>2. PICK d \in D : \A y \in D : d <= y
      BY <3>1, LeastNatural
    <3>3. PICK x \in S : d = NFamilies - x
      BY <3>2
    <3>4. \A f \in S : d <= NFamilies - f
      BY <3>2
    <3>. QED
      BY <3>0, <3>3, <3>4
  <2> DEFINE R == S \ {m}
  <2>6. R \in SUBSET Families /\ Cardinality(R) = n - 1 /\ n - 1 \in Nat
    <3>1. Cardinality(R) = Cardinality(S) - 1
      BY <1>1, <2>5, FS_RemoveElement
    <3>2. Cardinality(R) \in Nat /\ n \in Nat
      BY <1>1, <2>2
    <3>. QED
      BY <2>3, <3>1, <3>2
  <2>7. PICK s \in [1 .. n - 1 -> R] : IsInOrder(s, R)
    <3>1. n - 1 \notin T
      BY <2>2, <2>6
    <3>2. Ordered(R)
      BY <2>6, <3>1
    <3>. QED
      BY <2>6, <3>2
  <2> DEFINE t == [i \in 1 .. n |-> IF i = n THEN m ELSE s[i]]
  <2>8. n \in Nat \ {0} /\ \A i \in 1 .. n : i # n => i \in 1 .. n - 1
    BY <2>2, <2>6
  <2>9. t \in [1 .. n -> S] /\ t[n] = m /\ \A i \in 1 .. n - 1 : t[i] = s[i] /\ s[i] \in R
    BY <2>5, <2>7, <2>8
  <2> HIDE DEF t
  <2>10. ASSUME NEW i \in 1 .. n, NEW j \in 1 .. n, i < j PROVE t[i] < t[j]
    <3>1. CASE j = n
      <4>1. i \in 1 .. n - 1
        BY <2>8, <2>10
      <4>2. t[i] \in S /\ t[i] # m /\ t[i] <= m
        <5>1. t[i] = s[i] /\ s[i] \in R
          BY <2>9, <4>1
        <5>. QED
          BY <2>5, <5>1
      <4>3. t[i] \in Nat /\ m \in Nat
        <5>1. \A f \in S : f \in Nat
          BY SchedulerAssumption DEF Families
        <5>. QED
          BY <4>2, <5>1
      <4>. QED
        BY <2>9, <3>1, <4>2, <4>3
    <3>2. CASE j # n
      <4>1. i \in 1 .. n - 1 /\ j \in 1 .. n - 1
        BY <2>8, <2>10, <3>2
      <4>2. s[i] < s[j]
        BY <2>6, <2>7, <2>10, <4>1 DEF IsInOrder
      <4>. QED
        BY <2>9, <4>1, <4>2
    <3>. QED
      BY <3>1, <3>2
  <2>11. ASSUME NEW f \in S PROVE \E i \in 1 .. n : t[i] = f
    <3>1. CASE f = m
      BY <2>8, <2>9, <3>1
    <3>2. CASE f # m
      <4>1. PICK i \in 1 .. n - 1 : s[i] = f
        BY <2>6, <2>7, <3>2 DEF IsInOrder
      <4>2. i \in 1 .. n
        BY <2>8
      <4>. QED
        BY <2>9, <4>1, <4>2
    <3>. QED
      BY <3>1, <3>2
  <2>12. IsInOrder(t, S)
    BY <2>3, <2>10, <2>11 DEF IsInOrder
  <2>. QED
    BY <2>3, <2>9, <2>12
<1>3. Ordered(families)
  BY <1>1, <1>2
<1>. QED
  BY <1>1, <1>3

LEMMA InOrderLists ==
  ASSUME NEW families \in SUBSET Families
  PROVE  /\ InOrder(families) \in Seq(families)
         /\ \A i, j \in 1 .. Len(InOrder(families)) :
              InOrder(families)[i] = InOrder(families)[j] => i = j
         /\ \A f \in families : \E i \in 1 .. Len(InOrder(families)) : InOrder(families)[i] = f
<1> DEFINE s == InOrder(families)
<1>1. PICK n \in Nat : n = Cardinality(families)
  BY OrderExists
<1>2. s \in [1 .. n -> families] /\ IsInOrder(s, families)
  BY <1>1, OrderExists DEF InOrder
<1> HIDE DEF s
<1>3. s \in Seq(families)
  BY <1>2, SeqDef
<1>4. Len(s) = n
  BY <1>2, <1>3, LenProperties
<1>5. ASSUME NEW i \in 1 .. n, NEW j \in 1 .. n, s[i] = s[j] PROVE i = j
  <2>1. s[i] \in Nat /\ s[j] \in Nat
    <3>1. families \subseteq Nat
      BY SchedulerAssumption DEF Families
    <3>. QED
      BY <1>2, <3>1
  <2>2. (i < j => s[i] < s[j]) /\ (j < i => s[j] < s[i])
    BY <1>1, <1>2 DEF IsInOrder
  <2>. QED
    BY <1>5, <2>1, <2>2
<1>6. \A f \in families : \E i \in 1 .. n : s[i] = f
  BY <1>1, <1>2 DEF IsInOrder
<1>. QED
  BY <1>3, <1>4, <1>5, <1>6 DEF s

LEMMA TwoInSequence ==
  ASSUME NEW a, NEW b
  PROVE  <<a>> \o <<>> = <<a>> /\ <<a>> \o <<b>> = <<a, b>>
<1> DEFINE S == {a, b}
<1>1. <<a>> \in Seq(S) /\ <<b>> \in Seq(S) /\ <<a, b>> \in Seq(S)
  OBVIOUS
<1>2. <<a>> \o <<>> = <<a>>
  BY <1>1, ConcatEmptySeq
<1>3. /\ <<a>> \o <<b>> \in Seq(S) /\ Len(<<a>> \o <<b>>) = 2
      /\ (<<a>> \o <<b>>)[1] = a /\ (<<a>> \o <<b>>)[2] = b
  <2>1. Len(<<a>>) = 1 /\ Len(<<b>>) = 1 /\ <<a>>[1] = a /\ <<b>>[1] = b
    OBVIOUS
  <2>2. /\ <<a>> \o <<b>> \in Seq(S) /\ Len(<<a>> \o <<b>>) = 1 + 1
        /\ \A i \in 1 .. 1 + 1 : (<<a>> \o <<b>>)[i] = IF i <= 1 THEN <<a>>[i] ELSE <<b>>[i - 1]
    BY <1>1, <2>1, ConcatProperties
  <2>. QED
    BY <2>1, <2>2
<1>4. Len(<<a, b>>) = 2 /\ <<a, b>>[1] = a /\ <<a, b>>[2] = b
  OBVIOUS
<1>5. \A i \in 1 .. 2 : i = 1 \/ i = 2
  OBVIOUS
<1>6. <<a>> \o <<b>> = <<a, b>>
  BY <1>1, <1>3, <1>4, <1>5, SeqEqual
<1>. QED
  BY <1>2, <1>6

(* ... and their levels are the syntax family and then all the others. *)
LEMMA LevelsAreTwo ==
  ASSUME NEW selected \in SUBSET Families, Syntax \in selected
  PROVE  Levels(selected) = IF selected = {Syntax} THEN <<InOrder({Syntax})>>
                            ELSE <<InOrder({Syntax}), InOrder(selected \ {Syntax})>>
<1> DEFINE ready(done) == {f \in selected \ done : Dependencies(f) \subseteq done}
           step(g) == [done \in SUBSET selected |->
                         IF ready(done) = {} THEN <<>>
                         ELSE <<InOrder(ready(done))>> \o g[done \cup ready(done)]]
           rest(done) == IF done = selected THEN <<>> ELSE <<InOrder(selected \ done)>>
           h == [done \in SUBSET selected |->
                   IF Syntax \in done THEN rest(done)
                   ELSE <<InOrder({Syntax})>> \o rest(done \cup {Syntax})]
<1>1. ASSUME NEW done \in SUBSET selected
      PROVE  /\ Syntax \in done => ready(done) = selected \ done
             /\ Syntax \notin done => ready(done) = {Syntax}
             /\ done \cup ready(done) \in SUBSET selected
  BY DEF Dependencies
<1> HIDE DEF ready
<1>2. ASSUME NEW done \in SUBSET selected PROVE h[done] = step(h)[done]
  <2>1. CASE Syntax \in done
    <3>1. CASE done = selected
      <4>1. ready(done) = {} /\ h[done] = <<>>
        BY <1>1, <2>1, <3>1
      <4>. QED
        BY <4>1
    <3>2. CASE done # selected
      <4>1. ready(done) = selected \ done /\ ready(done) # {} /\ done \cup ready(done) = selected
        BY <1>1, <2>1, <3>2
      <4>2. h[selected] = <<>> /\ h[done] = <<InOrder(selected \ done)>>
        BY <2>1, <3>2
      <4> HIDE DEF h
      <4>3. step(h)[done] = <<InOrder(selected \ done)>> \o h[selected]
        BY <4>1
      <4>. QED
        BY <4>2, <4>3, TwoInSequence
    <3>. QED
      BY <3>1, <3>2
  <2>2. CASE Syntax \notin done
    <3>1. ready(done) = {Syntax} /\ done \cup {Syntax} \in SUBSET selected
      BY <1>1, <2>2
    <3>2. /\ h[done] = <<InOrder({Syntax})>> \o rest(done \cup {Syntax})
          /\ h[done \cup {Syntax}] = rest(done \cup {Syntax})
      BY <2>2, <3>1
    <3> HIDE DEF h, rest
    <3>. QED
      BY <3>1, <3>2
  <2>. QED
    BY <2>1, <2>2
<1>3. h = step(h)
  <2> HIDE DEF rest
  <2>1. h = [done \in SUBSET selected |-> h[done]] /\ step(h) = [done \in SUBSET selected |-> step(h)[done]]
    OBVIOUS
  <2> HIDE DEF h, step
  <2>. QED
    BY <1>2, <2>1
<1> DEFINE p == CHOOSE g : g = step(g)
<1>4. Levels(selected) = p[{}]
  BY DEF Levels, ready
<1> HIDE DEF h
<1>5. p = step(p)
  BY <1>3
<1> HIDE DEF p
<1>6. \A done \in SUBSET selected :
        p[done] = IF ready(done) = {} THEN <<>> ELSE <<InOrder(ready(done))>> \o p[done \cup ready(done)]
  BY <1>5
<1>7. p[selected] = <<>>
  BY <1>1, <1>6
<1>8. p[{}] = <<InOrder({Syntax})>> \o p[{Syntax}]
  <2>1. {} \in SUBSET selected /\ Syntax \notin {} /\ {} \cup {Syntax} = {Syntax}
    OBVIOUS
  <2>2. ready({}) = {Syntax} /\ ready({}) # {}
    BY <1>1, <2>1
  <2>. QED
    BY <1>6, <2>1, <2>2
<1>9. selected # {Syntax} => p[{Syntax}] = <<InOrder(selected \ {Syntax})>> \o p[selected]
  <2>1. selected # {Syntax} => /\ ready({Syntax}) = selected \ {Syntax} /\ ready({Syntax}) # {}
                               /\ {Syntax} \cup ready({Syntax}) = selected
    BY <1>1
  <2>. QED
    BY <1>6, <2>1
<1>. QED
  BY <1>4, <1>7, <1>8, <1>9, TwoInSequence

(* The families of level n. *)
LevelSet(selected, n) == IF n = 1 THEN {Syntax} ELSE selected \ {Syntax}

LEMMA LevelsPartition ==
  ASSUME NEW selected \in SUBSET Families, Syntax \in selected
  PROVE  /\ Len(Levels(selected)) = IF selected = {Syntax} THEN 1 ELSE 2
         /\ \A n \in 1 .. Len(Levels(selected)) :
              Levels(selected)[n] = InOrder(LevelSet(selected, n)) /\ LevelSet(selected, n) \in SUBSET Families
<1>1. CASE selected = {Syntax}
  <2>1. Levels(selected) = <<InOrder({Syntax})>>
    BY <1>1, LevelsAreTwo
  <2>. QED
    BY <1>1, <2>1 DEF LevelSet
<1>2. CASE selected # {Syntax}
  <2>1. Levels(selected) = <<InOrder({Syntax}), InOrder(selected \ {Syntax})>>
    BY <1>2, LevelsAreTwo
  <2>. QED
    BY <1>2, <2>1 DEF LevelSet
<1>. QED
  BY <1>1, <1>2

LEMMA SchedulerJobFields ==
  ASSUME NEW j \in SchedulerJobs
  PROVE  /\ j.selected \in SUBSET Families /\ j # NoSchedule
         /\ j.workers \in SchedulerWorkers /\ SchedulerWorkers \subseteq Nat \ {0}
         /\ \A w \in 1 .. j.workers : w \in SchedulerWorkers
<1>1. PICK s \in (SUBSET Families) \ {{}} :
        j \in [selected : {s}, count : [s -> 0 .. MaxFamilyDiagnostics],
               bad : {{}} \cup {{f} : f \in s}, unused : 0 .. 1, workers : SchedulerWorkers]
  BY DEF SchedulerJobs
<1>2. j.selected = s /\ j.workers \in SchedulerWorkers
  BY <1>1
<1>3. j # NoSchedule
  <2>1. NoSchedule.selected = {}
    BY DEF NoSchedule
  <2>2. j.selected # {}
    BY <1>1, <1>2
  <2>. QED
    BY <2>1, <2>2
<1>4. SchedulerWorkers \subseteq Nat \ {0} /\ \A w \in 1 .. j.workers : w \in SchedulerWorkers
  BY <1>2, SchedulerAssumption DEF SchedulerWorkers
<1>. QED
  BY <1>2, <1>3, <1>4

LEMMA AdmittedHasSyntax ==
  ASSUME NEW j, Admission(j) = NoReport
  PROVE  Syntax \in j.selected
<1> SUFFICES ASSUME Syntax \notin j.selected PROVE FALSE
  OBVIOUS
<1>1. Admission(j) = Refused("dependency-failure")
  BY Zenon DEF Admission
<1>2. Refused("dependency-failure").kind # NoReport.kind
  BY DEF Refused, NoReport
<1>. QED
  BY <1>1, <1>2

(* The families of a level, as the workers meet them. *)
LEMMA LevelLists ==
  ASSUME NEW selected \in SUBSET Families, Syntax \in selected, NEW n \in 1 .. Len(Levels(selected))
  PROVE  /\ Levels(selected)[n] \in Seq(LevelSet(selected, n)) /\ Len(Levels(selected)[n]) \in Nat
         /\ \A i \in 1 .. Len(Levels(selected)[n]) :
              Levels(selected)[n][i] \in LevelSet(selected, n) /\ Levels(selected)[n][i] \in Families
         /\ \A i, j \in 1 .. Len(Levels(selected)[n]) : Levels(selected)[n][i] = Levels(selected)[n][j] => i = j
         /\ \A f \in LevelSet(selected, n) : \E i \in 1 .. Len(Levels(selected)[n]) : Levels(selected)[n][i] = f
<1>1. Levels(selected)[n] = InOrder(LevelSet(selected, n)) /\ LevelSet(selected, n) \in SUBSET Families
  BY LevelsPartition
<1> DEFINE fs == Levels(selected)[n]
           S == LevelSet(selected, n)
<1>2. fs = InOrder(S) /\ S \in SUBSET Families
  BY <1>1
<1> HIDE DEF fs, S
<1>3. /\ fs \in Seq(S)
      /\ \A i, j \in 1 .. Len(fs) : fs[i] = fs[j] => i = j
      /\ \A f \in S : \E i \in 1 .. Len(fs) : fs[i] = f
  BY <1>2, InOrderLists
<1>4. Len(fs) \in Nat /\ \A i \in 1 .. Len(fs) : fs[i] \in S /\ fs[i] \in Families
  BY <1>2, <1>3, LenProperties, ElementOfSeq
<1>. QED
  BY <1>3, <1>4 DEF fs, S

SchTypeOK ==
  /\ schJob \in SchedulerJobs \cup {NoSchedule}
  /\ level \in Nat /\ cursor \in Nat
  /\ holding \in [SchedulerWorkers -> Families \cup {0}]
  /\ completed \in SUBSET Families /\ executions \in SUBSET Families
  /\ schAborted \in BOOLEAN /\ late \in BOOLEAN

(* Before the submission nothing has happened; no worker is at work but while the job is
   being handed over. *)
AtRest ==
  /\ schJob = NoSchedule => executions = {} /\ completed = {} /\ schAnswer = NoReport
  /\ ~Scheduling => \A w \in SchedulerWorkers : holding[w] = 0

(* The level that is being handed over: those before it are complete. *)
InLevel ==
  Scheduling =>
    /\ Admission(schJob) = NoReport
    /\ level \in 1 .. Len(Levels(schJob.selected))
    /\ executions = IF level = 1 THEN {} ELSE {Syntax}
    /\ cursor <= Len(LevelOf(level))
    /\ completed \subseteq {LevelOf(level)[i] : i \in 1 .. cursor}

(* What a worker holds was taken from the level, by that worker alone. *)
HeldOnce ==
  Scheduling =>
    /\ \A w \in SchedulerWorkers : holding[w] # 0 => \E i \in 1 .. cursor : holding[w] = LevelOf(level)[i]
    /\ \A v, w \in SchedulerWorkers : holding[v] # 0 /\ holding[v] = holding[w] => v = w

(* Until the job is stopped, what was taken is complete or held, and workers leave only when
   everything has been taken. *)
NoneForgotten ==
  Scheduling /\ ~schAborted /\ ~late =>
    /\ \A i \in 1 .. cursor : \/ LevelOf(level)[i] \in completed
                              \/ \E w \in SchedulerWorkers : holding[w] = LevelOf(level)[i]
    /\ cursor < Len(LevelOf(level)) => \A w \in 1 .. schJob.workers : holding[w] # 0

SchInvariant == SchTypeOK /\ AtRest /\ InLevel /\ HeldOnce /\ NoneForgotten

LEMMA SchInitially == SchInit => SchInvariant
<1> SUFFICES ASSUME SchInit PROVE SchInvariant
  OBVIOUS
<1>1. SchTypeOK
  BY DEF SchInit, SchTypeOK
<1>2. ~Scheduling
  BY DEF SchInit, Scheduling
<1>3. AtRest
  BY DEF SchInit, AtRest
<1>. QED
  BY <1>1, <1>2, <1>3 DEF SchInvariant, InLevel, HeldOnce, NoneForgotten

(* A level begins: the first workers take its first families, unless the job is already stopped. *)
LEMMA LevelBegins ==
  ASSUME NEW n \in Nat \ {0}, NEW j \in SchedulerJobs, j = schJob', Syntax \in j.selected,
         n <= Len(Levels(j.selected)), HandOut(n, j.workers), schAborted' \in BOOLEAN, late' \in BOOLEAN,
         level' = n, completed' = {}, executions' = IF n = 1 THEN {} ELSE {Syntax},
         Admission(j) = NoReport, schAnswer' = NoReport
  PROVE  SchInvariant'
<1> DEFINE fs == Levels(j.selected)[n]
<1>1. /\ j.selected \in SUBSET Families /\ j # NoSchedule /\ j.workers \in Nat \ {0}
      /\ SchedulerWorkers \subseteq Nat \ {0} /\ \A w \in 1 .. j.workers : w \in SchedulerWorkers
  BY SchedulerJobFields
<1>2. /\ n \in 1 .. Len(Levels(j.selected))
      /\ LevelOf(level)' = fs /\ Scheduling'
  <2>1. Len(Levels(j.selected)) \in Nat
    BY <1>1, LevelsPartition
  <2>. QED
    BY <1>1, <2>1 DEF LevelOf, Scheduling
<1>3. /\ Len(fs) \in Nat /\ \A i \in 1 .. Len(fs) : fs[i] \in Families
      /\ \A i, k \in 1 .. Len(fs) : fs[i] = fs[k] => i = k
  BY <1>1, <1>2, LevelLists
<1>4. PICK m \in Nat : m = (IF j.workers <= Len(fs) THEN j.workers ELSE Len(fs))
  BY <1>1, <1>3
<1>5. m = Min({j.workers, Len(fs)}) /\ m <= Len(fs) /\ m <= j.workers /\ (m < Len(fs) => m = j.workers)
  BY <1>1, <1>3, <1>4, SmallerOfTwo
<1> DEFINE starting == IF schAborted' \/ late' THEN 0 ELSE m
<1>6. /\ cursor' = m
      /\ holding' = [w \in SchedulerWorkers |-> IF w <= starting THEN fs[w] ELSE 0]
  BY <1>5, Zenon DEF HandOut
<1> HIDE DEF fs
<1>7. ASSUME NEW w \in SchedulerWorkers
      PROVE  /\ holding'[w] \in Families \cup {0}
             /\ holding'[w] # 0 => w \in 1 .. m /\ holding'[w] = fs[w]
  <2>1. CASE w <= starting
    <3>1. w \in 1 .. m /\ w \in 1 .. Len(fs)
      BY <1>1, <1>3, <1>5, <2>1
    <3>. QED
      BY <1>3, <1>6, <2>1, <3>1
  <2>2. CASE ~(w <= starting)
    BY <1>6, <2>2
  <2>. QED
    BY <2>1, <2>2
<1>8. SchTypeOK'
  <2>1. holding' \in [SchedulerWorkers -> Families \cup {0}]
    BY <1>6, <1>7
  <2>2. executions' \in SUBSET Families /\ completed' \in SUBSET Families
    BY <1>1
  <2>. QED
    BY <1>6, <2>1, <2>2 DEF SchTypeOK
<1>9. AtRest' /\ InLevel'
  BY <1>1, <1>2, <1>5, <1>6 DEF AtRest, InLevel
<1>10. HeldOnce'
  <2>1. \A w \in SchedulerWorkers : holding'[w] # 0 => \E i \in 1 .. cursor' : holding'[w] = LevelOf(level)'[i]
    BY <1>2, <1>6, <1>7
  <2>2. ASSUME NEW v \in SchedulerWorkers, NEW w \in SchedulerWorkers, holding'[v] # 0, holding'[v] = holding'[w]
        PROVE  v = w
    <3>1. v \in 1 .. m /\ w \in 1 .. m /\ fs[v] = fs[w]
      BY <1>7, <2>2
    <3>2. v \in 1 .. Len(fs) /\ w \in 1 .. Len(fs)
      BY <1>3, <1>5, <3>1
    <3>. QED
      BY <1>3, <3>1, <3>2
  <2>. QED
    BY <2>1, <2>2 DEF HeldOnce
<1>11. NoneForgotten'
  <2> SUFFICES ASSUME ~schAborted', ~late'
               PROVE  /\ \A i \in 1 .. cursor' : \E w \in SchedulerWorkers : holding'[w] = LevelOf(level)'[i]
                      /\ cursor' < Len(LevelOf(level)') => \A w \in 1 .. j.workers : holding'[w] # 0
    BY DEF NoneForgotten
  <2>1. \A i \in 1 .. m : i \in SchedulerWorkers /\ holding'[i] = fs[i]
    BY <1>1, <1>5, <1>6
  <2>2. \A i \in 1 .. m : fs[i] # 0
    <3>1. \A f \in Families : f # 0
      BY DEF Families
    <3>. QED
      BY <1>3, <1>5, <3>1
  <2>. QED
    BY <1>2, <1>5, <1>6, <2>1, <2>2
<1>. QED
  BY <1>8, <1>9, <1>10, <1>11 DEF SchInvariant

LEMMA ScheduleKeepsInvariant ==
  ASSUME SchInvariant, Schedule
  PROVE  SchInvariant'
<1>1. /\ schJob = NoSchedule /\ schJob' \in SchedulerJobs /\ late' \in BOOLEAN
      /\ UNCHANGED <<schAborted, executions, completed>>
      /\ executions = {} /\ completed = {} /\ schAnswer = NoReport
      /\ \A w \in SchedulerWorkers : holding[w] = 0
      /\ SchTypeOK
  BY DEF Schedule, SchInvariant, AtRest, Scheduling, SchTypeOK
<1>2. CASE Admission(schJob') = NoReport /\ level' = 1 /\ HandOut(1, schJob'.workers) /\ UNCHANGED schAnswer
  <2>1. PICK j \in SchedulerJobs : j = schJob'
    BY <1>1
  <2>2. Syntax \in j.selected /\ Admission(j) = NoReport
    BY <1>2, <2>1, AdmittedHasSyntax
  <2>3. 1 <= Len(Levels(j.selected))
    <3>1. j.selected \in SUBSET Families
      BY SchedulerJobFields
    <3>. QED
      BY <2>2, <3>1, LevelsPartition
  <2>4. HandOut(1, j.workers)
    BY <1>2, <2>1
  <2>5. schAborted' \in BOOLEAN /\ schAnswer' = NoReport /\ level' = 1 /\ completed' = {} /\ executions' = {}
    BY <1>1, <1>2 DEF SchTypeOK
  <2>. QED
    BY <1>1, <2>1, <2>2, <2>3, <2>4, <2>5, LevelBegins
<1>3. CASE schAnswer' # NoReport /\ UNCHANGED <<level, cursor, holding>>
  <2>1. SchTypeOK'
    BY <1>1, <1>3 DEF SchTypeOK
  <2>2. schJob' # NoSchedule
    BY <1>1, SchedulerJobFields
  <2>. QED
    BY <1>1, <1>3, <2>1, <2>2 DEF SchInvariant, AtRest, InLevel, HeldOnce, NoneForgotten, Scheduling
<1>4. Refused("deadline-exceeded") # NoReport
  <2>1. Refused("deadline-exceeded").kind # NoReport.kind
    BY DEF Refused, NoReport
  <2>. QED
    BY <2>1
<1>. QED
  BY <1>2, <1>3, <1>4 DEF Schedule

LEMMA WorkerKeepsInvariant ==
  ASSUME SchInvariant, NEW w \in SchedulerWorkers, WorkerResumes(w)
  PROVE  SchInvariant'
<1>1. /\ holding[w] # 0 /\ Scheduling /\ SchTypeOK /\ AtRest /\ InLevel /\ HeldOnce /\ NoneForgotten
      /\ UNCHANGED <<schJob, level, executions, schAborted, late, schAnswer>>
  BY DEF WorkerResumes, SchInvariant, AtRest
<1>2. schJob \in SchedulerJobs /\ Admission(schJob) = NoReport /\ Syntax \in schJob.selected
  BY <1>1, AdmittedHasSyntax DEF SchTypeOK, InLevel, Scheduling
<1>3. /\ schJob.selected \in SUBSET Families /\ \A v \in 1 .. schJob.workers : v \in SchedulerWorkers
  BY <1>2, SchedulerJobFields
<1> DEFINE fs == LevelOf(level)
<1>4. /\ Len(fs) \in Nat /\ \A i \in 1 .. Len(fs) : fs[i] \in Families
      /\ \A i, k \in 1 .. Len(fs) : fs[i] = fs[k] => i = k
  BY <1>1, <1>2, <1>3, LevelLists DEF LevelOf, InLevel
<1>5. LevelOf(level)' = fs /\ Scheduling'
  BY <1>1 DEF LevelOf, Scheduling
<1>6. PICK c \in Nat : c = cursor /\ c <= Len(fs)
  BY <1>1 DEF SchTypeOK, InLevel
<1>7. PICK k \in 1 .. c : holding[w] = fs[k]
  BY <1>1, <1>6 DEF HeldOnce
<1>8. PICK f : f = holding[w] /\ f \in Families
  BY <1>1 DEF SchTypeOK
<1>9. /\ completed \subseteq {fs[i] : i \in 1 .. c}
      /\ \A v \in SchedulerWorkers : holding[v] # 0 => \E i \in 1 .. c : holding[v] = fs[i]
      /\ \A v, u \in SchedulerWorkers : holding[v] # 0 /\ holding[v] = holding[u] => v = u
  BY <1>1, <1>6 DEF InLevel, HeldOnce
<1>10. /\ level \in 1 .. Len(Levels(schJob.selected))
       /\ executions = IF level = 1 THEN {} ELSE {Syntax}
  BY <1>1 DEF InLevel
<1>11. ~schAborted /\ ~late =>
         /\ \A i \in 1 .. c : fs[i] \in completed \/ \E v \in SchedulerWorkers : holding[v] = fs[i]
         /\ c < Len(fs) => \A v \in 1 .. schJob.workers : holding[v] # 0
  BY <1>1, <1>6 DEF NoneForgotten
<1> HIDE DEF fs
<1>12. CASE schAborted /\ holding' = [holding EXCEPT ![w] = 0] /\ UNCHANGED <<completed, cursor>>
  <2>1. SchTypeOK'
    BY <1>1, <1>12 DEF SchTypeOK
  <2>2. AtRest' /\ NoneForgotten'
    BY <1>1, <1>5, <1>12 DEF AtRest, NoneForgotten, Scheduling
  <2>3. InLevel'
    BY <1>1, <1>2, <1>5, <1>6, <1>9, <1>10, <1>12 DEF InLevel
  <2>4. HeldOnce'
    BY <1>1, <1>5, <1>6, <1>9, <1>12 DEF HeldOnce, SchTypeOK
  <2>. QED
    BY <2>1, <2>2, <2>3, <2>4 DEF SchInvariant
<1> DEFINE more == c < Len(fs)
           taken == IF more /\ ~schAborted /\ ~late THEN fs[c + 1] ELSE 0
<1>13. CASE /\ completed' = completed \cup {f}
            /\ cursor' = (IF more THEN c + 1 ELSE c)
            /\ holding' = [holding EXCEPT ![w] = taken]
  <2>1. /\ taken \in Families \cup {0} /\ cursor' \in Nat /\ c <= cursor' /\ cursor' <= Len(fs)
        /\ taken # 0 => more /\ taken = fs[c + 1] /\ cursor' = c + 1 /\ c + 1 \in 1 .. Len(fs)
    BY <1>4, <1>6, <1>13
  <2>2. holding'[w] = taken /\ \A v \in SchedulerWorkers : v # w => holding'[v] = holding[v]
    BY <1>1, <1>13 DEF SchTypeOK
  <2>3. \A v \in SchedulerWorkers, i \in 1 .. c : holding[v] = fs[i] => holding[v] # fs[c + 1] \/ ~more
    <3>1. more => c + 1 \in 1 .. Len(fs) /\ \A i \in 1 .. c : i \in 1 .. Len(fs) /\ i # c + 1
      BY <1>4, <1>6
    <3>. QED
      BY <1>4, <3>1
  <2>4. SchTypeOK'
    BY <1>1, <1>8, <1>13, <2>1 DEF SchTypeOK
  <2>5. AtRest'
    BY <1>1, <1>5 DEF AtRest, Scheduling
  <2>6. InLevel'
    <3>1. completed' \subseteq {fs[i] : i \in 1 .. cursor'}
      <4>1. \A i \in 1 .. c : i \in 1 .. cursor'
        BY <1>6, <2>1
      <4>2. f = fs[k]
        BY <1>7, <1>8
      <4>. QED
        BY <1>9, <1>13, <4>1, <4>2
    <3>. QED
      BY <1>1, <1>2, <1>5, <1>10, <2>1, <3>1 DEF InLevel
  <2>7. HeldOnce'
    <3>1. ASSUME NEW v \in SchedulerWorkers, holding'[v] # 0
          PROVE  \E i \in 1 .. cursor' : holding'[v] = fs[i]
      <4>1. CASE v = w
        <5>1. holding'[v] = fs[c + 1] /\ cursor' = c + 1
          BY <2>1, <2>2, <3>1, <4>1
        <5>2. c + 1 \in 1 .. cursor'
          BY <5>1
        <5>. QED
          BY <5>1, <5>2
      <4>2. CASE v # w
        <5>1. PICK i \in 1 .. c : holding[v] = fs[i]
          BY <1>9, <2>2, <3>1, <4>2
        <5>2. i \in 1 .. cursor'
          BY <2>1
        <5>. QED
          BY <2>2, <4>2, <5>1, <5>2
      <4>. QED
        BY <4>1, <4>2
    <3>2. ASSUME NEW v \in SchedulerWorkers, v # w, holding'[v] # 0, holding'[v] = holding'[w] PROVE FALSE
      <4>1. PICK i \in 1 .. c : holding[v] = fs[i]
        BY <1>9, <2>2, <3>2
      <4>2. more /\ holding[v] = fs[c + 1]
        BY <2>1, <2>2, <3>2
      <4>. QED
        BY <2>3, <4>1, <4>2
    <3>3. ASSUME NEW v \in SchedulerWorkers, NEW u \in SchedulerWorkers, holding'[v] # 0, holding'[v] = holding'[u]
          PROVE  v = u
      <4>1. CASE v # w /\ u # w
        BY <1>9, <2>2, <3>3, <4>1
      <4>. QED
        BY <3>2, <3>3, <4>1
    <3>. QED
      BY <1>5, <3>1, <3>3 DEF HeldOnce
  <2>8. NoneForgotten'
    <3> SUFFICES ASSUME ~schAborted, ~late
                 PROVE  /\ \A i \in 1 .. cursor' : fs[i] \in completed' \/ \E v \in SchedulerWorkers : holding'[v] = fs[i]
                        /\ cursor' < Len(fs) => \A v \in 1 .. schJob.workers : holding'[v] # 0
      BY <1>1, <1>5 DEF NoneForgotten
    <3>1. ASSUME NEW i \in 1 .. cursor'
          PROVE  fs[i] \in completed' \/ \E v \in SchedulerWorkers : holding'[v] = fs[i]
      <4>1. CASE i \in 1 .. c
        <5>1. CASE fs[i] \in completed
          BY <1>13, <5>1
        <5>2. ASSUME NEW v \in SchedulerWorkers, holding[v] = fs[i]
              PROVE  fs[i] \in completed' \/ holding'[v] = fs[i]
          BY <1>8, <1>13, <2>2, <5>2
        <5>. QED
          BY <1>11, <4>1, <5>1, <5>2
      <4>2. CASE i \notin 1 .. c
        <5>1. more /\ i = c + 1
          BY <1>6, <1>13, <2>1, <4>2
        <5>. QED
          BY <2>2, <5>1
      <4>. QED
        BY <4>1, <4>2
    <3>2. ASSUME cursor' < Len(fs), NEW v \in 1 .. schJob.workers PROVE holding'[v] # 0
      <4>1. more
        BY <1>4, <1>6, <1>13, <3>2
      <4>2. fs[c + 1] \in Families /\ \A g \in Families : g # 0
        <5>1. c + 1 \in 1 .. Len(fs)
          BY <1>4, <1>6, <4>1
        <5>. QED
          BY <1>4, <5>1 DEF Families
      <4>3. v \in SchedulerWorkers /\ holding[v] # 0
        BY <1>3, <1>11, <4>1
      <4>. QED
        BY <2>2, <4>1, <4>2, <4>3
    <3>. QED
      BY <3>1, <3>2
  <2>. QED
    BY <2>4, <2>5, <2>6, <2>7, <2>8 DEF SchInvariant
<1>14. Min({cursor + 1, Len(fs)}) = IF more THEN c + 1 ELSE c
  BY <1>4, <1>6, SmallerOfTwo
<1>. QED
  BY <1>6, <1>8, <1>12, <1>13, <1>14 DEF WorkerResumes, fs

(* A level that ends before anything stopped the job has handed over all its families. *)
LEMMA LevelIsComplete ==
  ASSUME SchInvariant, Scheduling, ~schAborted, ~late, \A w \in SchedulerWorkers : holding[w] = 0
  PROVE  /\ schJob \in SchedulerJobs /\ schJob.selected \in SUBSET Families /\ Syntax \in schJob.selected
         /\ level \in 1 .. Len(Levels(schJob.selected))
         /\ completed = LevelSet(schJob.selected, level)
         /\ executions \cup completed = IF level = 1 THEN {Syntax} ELSE schJob.selected
<1>1. schJob \in SchedulerJobs /\ Admission(schJob) = NoReport /\ Syntax \in schJob.selected
  BY AdmittedHasSyntax DEF SchInvariant, SchTypeOK, InLevel, Scheduling
<1>2. /\ schJob.selected \in SUBSET Families
      /\ 1 \in 1 .. schJob.workers /\ 1 \in SchedulerWorkers
  BY <1>1, SchedulerJobFields
<1>3. level \in 1 .. Len(Levels(schJob.selected)) /\ executions = IF level = 1 THEN {} ELSE {Syntax}
  BY DEF SchInvariant, InLevel
<1> DEFINE fs == LevelOf(level)
           S == LevelSet(schJob.selected, level)
<1>4. /\ Len(fs) \in Nat /\ \A i \in 1 .. Len(fs) : fs[i] \in S /\ fs[i] \in Families
      /\ \A f \in S : \E i \in 1 .. Len(fs) : fs[i] = f
  BY <1>1, <1>2, <1>3, LevelLists DEF LevelOf
<1>5. /\ cursor \in Nat /\ cursor <= Len(fs) /\ completed \subseteq {fs[i] : i \in 1 .. cursor}
      /\ \A i \in 1 .. cursor : fs[i] \in completed \/ \E w \in SchedulerWorkers : holding[w] = fs[i]
      /\ cursor < Len(fs) => \A w \in 1 .. schJob.workers : holding[w] # 0
  BY DEF SchInvariant, SchTypeOK, InLevel, NoneForgotten
<1> HIDE DEF fs, S
<1>6. cursor = Len(fs)
  BY <1>2, <1>4, <1>5
<1>7. \A f \in Families : f # 0
  BY DEF Families
<1>8. \A i \in 1 .. Len(fs) : fs[i] \in completed
  BY <1>4, <1>5, <1>6, <1>7
<1>9. completed = S
  <2>1. \A f \in completed : f \in S
    BY <1>4, <1>5, <1>6
  <2>2. \A f \in S : f \in completed
    BY <1>4, <1>8
  <2>. QED
    BY <2>1, <2>2
<1>10. level # 1 => {Syntax} \cup (schJob.selected \ {Syntax}) = schJob.selected
  BY <1>1
<1>. QED
  BY <1>1, <1>2, <1>3, <1>9, <1>10 DEF S, LevelSet

LEMMA RefusalsAreReports ==
  ASSUME NEW kind, kind # "none"
  PROVE  Refused(kind) # NoReport
<1>1. Refused(kind).kind = kind /\ NoReport.kind = "none"
  BY DEF Refused, NoReport
<1>. QED
  BY <1>1

LEMMA ReportsAreReports ==
  ASSUME NEW done
  PROVE  FinishedReport(done) # NoReport
<1>1. Refused("resource-limit") # NoReport
  BY RefusalsAreReports
<1>2. [kind |-> "ok", families |-> done].kind # NoReport.kind
  BY DEF NoReport
<1>. QED
  BY <1>1, <1>2, Zenon DEF FinishedReport

(* What the checkpoint says. *)
LEMMA CheckpointSays ==
  /\ Checkpoint = NoReport <=> ~schAborted /\ ~late
  /\ Checkpoint \in {NoReport, Refused("cancelled"), Refused("deadline-exceeded")}
<1>1. Refused("cancelled") # NoReport /\ Refused("deadline-exceeded") # NoReport
  BY RefusalsAreReports
<1>. QED
  BY <1>1, Zenon DEF Checkpoint

LEMMA LevelEndsKeepsInvariant ==
  ASSUME SchInvariant, LevelEnds
  PROVE  SchInvariant'
<1>1. /\ Scheduling /\ SchTypeOK /\ UNCHANGED <<schJob, schAborted, late>>
      /\ \A w \in SchedulerWorkers : holding[w] = 0
  BY DEF LevelEnds, SchInvariant
<1>2. CASE /\ schAnswer' # NoReport /\ UNCHANGED holding /\ level' \in Nat /\ cursor' \in Nat
           /\ completed' \in SUBSET Families /\ executions' \in SUBSET Families
  <2>1. SchTypeOK'
    BY <1>1, <1>2 DEF SchTypeOK
  <2>2. schJob' # NoSchedule
    BY <1>1 DEF Scheduling
  <2>. QED
    BY <1>1, <1>2, <2>1, <2>2 DEF SchInvariant, AtRest, InLevel, HeldOnce, NoneForgotten, Scheduling
<1>3. CASE Checkpoint # NoReport
  <2>1. schAnswer' = Checkpoint /\ UNCHANGED <<level, cursor, holding, completed, executions>>
    BY <1>3 DEF LevelEnds
  <2>. QED
    BY <1>1, <1>2, <1>3, <2>1 DEF SchTypeOK
<1>4. CASE Checkpoint = NoReport
  <2>1. ~schAborted /\ ~late
    BY <1>4, CheckpointSays
  <2>2. /\ schJob \in SchedulerJobs /\ schJob.selected \in SUBSET Families /\ Syntax \in schJob.selected
        /\ level \in 1 .. Len(Levels(schJob.selected))
        /\ executions \cup completed = IF level = 1 THEN {Syntax} ELSE schJob.selected
    BY <1>1, <2>1, LevelIsComplete
  <2>3. executions' = executions \cup completed /\ completed' = {}
    BY <1>4 DEF LevelEnds
  <2>4. CASE level < Len(Levels(schJob.selected))
    <3>1. level' = level + 1 /\ HandOut(level + 1, schJob.workers) /\ UNCHANGED schAnswer
      BY <1>4, <2>4 DEF LevelEnds
    <3>2. Len(Levels(schJob.selected)) \in 1 .. 2
      BY <2>2, LevelsPartition
    <3>3. level = 1 /\ level + 1 = 2
      <4>1. PICK n \in 1 .. 2 : n = Len(Levels(schJob.selected))
        BY <3>2
      <4>2. level \in 1 .. n /\ level < n
        BY <2>2, <2>4, <4>1
      <4>. QED
        BY <4>2
    <3>4. PICK j \in SchedulerJobs : j = schJob /\ j = schJob'
      BY <1>1, <2>2
    <3>5. /\ HandOut(2, j.workers) /\ level' = 2 /\ completed' = {} /\ executions' = {Syntax}
          /\ 2 <= Len(Levels(j.selected)) /\ Syntax \in j.selected
      <4>1. HandOut(2, j.workers) /\ level' = 2
        BY <3>1, <3>3, <3>4, Zenon
      <4>2. completed' = {} /\ executions' = {Syntax}
        BY <2>2, <2>3, <3>3
      <4>3. 2 <= Len(Levels(j.selected)) /\ Syntax \in j.selected
        BY <2>2, <2>4, <3>2, <3>3, <3>4
      <4>. QED
        BY <4>1, <4>2, <4>3
    <3>6. schAborted' \in BOOLEAN /\ late' \in BOOLEAN /\ schAnswer' = NoReport /\ Admission(j) = NoReport
      BY <1>1, <3>1, <3>4 DEF SchTypeOK, Scheduling, SchInvariant, InLevel
    <3>. QED
      BY <3>4, <3>5, <3>6, LevelBegins
  <2>5. CASE ~(level < Len(Levels(schJob.selected)))
    <3>1. schAnswer' = FinishedReport(executions') /\ UNCHANGED <<level, cursor, holding>>
      BY <1>4, <2>5 DEF LevelEnds
    <3>2. schAnswer' # NoReport
      BY <3>1, ReportsAreReports
    <3>. QED
      BY <1>1, <1>2, <2>3, <3>1, <3>2 DEF SchTypeOK
  <2>. QED
    BY <2>4, <2>5
<1>. QED
  BY <1>3, <1>4

LEMMA SchStep == SchInvariant /\ [SchNext]_schVars => SchInvariant'
<1> SUFFICES ASSUME SchInvariant, [SchNext]_schVars PROVE SchInvariant'
  OBVIOUS
<1>1. CASE Schedule
  BY <1>1, ScheduleKeepsInvariant
<1>2. CASE LevelEnds
  BY <1>2, LevelEndsKeepsInvariant
<1>3. ASSUME NEW w \in SchedulerWorkers, WorkerResumes(w) PROVE SchInvariant'
  BY <1>3, WorkerKeepsInvariant
<1>4. CASE SchAbort \/ DeadlinePasses \/ UNCHANGED schVars
  <2>1. /\ UNCHANGED <<schJob, level, cursor, holding, completed, executions, schAnswer>>
        /\ schAborted' \in BOOLEAN /\ late' \in BOOLEAN
        /\ ~schAborted' /\ ~late' => ~schAborted /\ ~late
    BY <1>4 DEF SchAbort, DeadlinePasses, schVars, SchInvariant, SchTypeOK
  <2>2. SchTypeOK' /\ AtRest'
    BY <2>1 DEF SchInvariant, SchTypeOK, AtRest, Scheduling
  <2>3. InLevel' /\ HeldOnce' /\ NoneForgotten'
    BY <2>1 DEF SchInvariant, InLevel, HeldOnce, NoneForgotten, Scheduling, LevelOf
  <2>. QED
    BY <2>2, <2>3 DEF SchInvariant
<1>. QED
  BY <1>1, <1>2, <1>3, <1>4 DEF SchNext

(* For any families, diagnostics, limits and number of workers, whatever order the workers
   resume in and whenever the signal is aborted or the deadline passes: the report of
   scheduleRuleFamilies is a function of its job, or says that it was cancelled or too late;
   a family is handed over once, after those it depends on. *)
THEOREM SchedulesAreDeterministic == SchSpec => SchedulerIsDeterministic
<1>1. SchInit => schJob = NoSchedule /\ schAnswer = NoReport
  BY DEF SchInit
<1>2. ASSUME SchInvariant, [SchNext]_schVars
      PROVE  [SchedulerBatch!Submit \/ SchedulerBatch!Finish]_<<schJob, schAnswer>>
  <2>1. CASE Schedule
    <3>1. schJob = NoSchedule /\ schJob' \in SchedulerJobs /\ schAnswer = NoReport
      BY <1>2, <2>1 DEF Schedule, SchInvariant, AtRest
    <3>2. \/ schAnswer' = NoReport
          \/ schAnswer' \in {Refused("cancelled"), Refused("deadline-exceeded")}
          \/ Admission(schJob') # NoReport /\ schAnswer' = Admission(schJob')
      BY <2>1, <3>1, CheckpointSays DEF Schedule
    <3>3. Admission(schJob') # NoReport => SchedulerReference(schJob') = Admission(schJob')
      BY Zenon DEF SchedulerReference
    <3>. QED
      BY <3>1, <3>2, <3>3 DEF SchedulerBatch!Submit
  <2>2. CASE LevelEnds
    <3>1. Scheduling /\ UNCHANGED schJob /\ \A w \in SchedulerWorkers : holding[w] = 0
      BY <2>2 DEF LevelEnds
    <3>2. schAnswer' \in {NoReport, SchedulerReference(schJob), Refused("cancelled"), Refused("deadline-exceeded")}
      <4>1. CASE Checkpoint # NoReport
        BY <2>2, <4>1, CheckpointSays DEF LevelEnds
      <4>2. CASE Checkpoint = NoReport /\ level < Len(Levels(schJob.selected))
        BY <2>2, <3>1, <4>2 DEF LevelEnds, Scheduling
      <4>3. CASE Checkpoint = NoReport /\ ~(level < Len(Levels(schJob.selected)))
        <5>1. schAnswer' = FinishedReport(executions') /\ executions' = executions \cup completed
          BY <2>2, <4>3 DEF LevelEnds
        <5>2. executions' = schJob.selected
          <6>1. /\ schJob.selected \in SUBSET Families /\ Syntax \in schJob.selected
                /\ level \in 1 .. Len(Levels(schJob.selected))
                /\ executions \cup completed = IF level = 1 THEN {Syntax} ELSE schJob.selected
            BY <1>2, <3>1, <4>3, CheckpointSays, LevelIsComplete
          <6>2. Len(Levels(schJob.selected)) = IF schJob.selected = {Syntax} THEN 1 ELSE 2
            BY <6>1, LevelsPartition
          <6>. QED
            BY <4>3, <5>1, <6>1, <6>2
        <5>3. Admission(schJob) = NoReport
          BY <1>2, <3>1 DEF SchInvariant, InLevel
        <5>. QED
          BY <5>1, <5>2, <5>3, Zenon DEF FinishedReport, SchedulerReference
      <4>. QED
        BY <4>1, <4>2, <4>3
    <3>. QED
      BY <3>1, <3>2 DEF SchedulerBatch!Finish, Scheduling
  <2>3. CASE SchAbort \/ DeadlinePasses \/ (\E w \in SchedulerWorkers : WorkerResumes(w)) \/ UNCHANGED schVars
    BY <2>3 DEF SchAbort, DeadlinePasses, WorkerResumes, schVars
  <2>. QED
    BY <1>2, <2>1, <2>2, <2>3 DEF SchNext
<1>3. ASSUME SchInvariant PROVE DependenciesFirst
  <2>1. CASE ~Scheduling
    BY <1>3, <2>1 DEF SchInvariant, AtRest, DependenciesFirst
  <2>2. CASE Scheduling
    <3>1. schJob \in SchedulerJobs /\ Syntax \in schJob.selected
      BY <1>3, <2>2, AdmittedHasSyntax DEF SchInvariant, SchTypeOK, InLevel, Scheduling
    <3>2. schJob.selected \in SUBSET Families
      BY <3>1, SchedulerJobFields
    <3>3. /\ level \in 1 .. Len(Levels(schJob.selected)) /\ executions = IF level = 1 THEN {} ELSE {Syntax}
          /\ cursor \in Nat /\ cursor <= Len(LevelOf(level))
      BY <1>3, <2>2 DEF SchInvariant, SchTypeOK, InLevel
    <3>4. Len(LevelOf(level)) \in Nat
          /\ \A i \in 1 .. Len(LevelOf(level)) : LevelOf(level)[i] \in LevelSet(schJob.selected, level)
      BY <3>1, <3>2, <3>3, LevelLists DEF LevelOf
    <3>5. ASSUME NEW w \in SchedulerWorkers, holding[w] # 0 PROVE Dependencies(holding[w]) \subseteq executions
      <4>1. PICK i \in 1 .. cursor : holding[w] = LevelOf(level)[i]
        BY <1>3, <2>2, <3>5 DEF SchInvariant, HeldOnce
      <4>2. holding[w] \in LevelSet(schJob.selected, level)
        BY <3>3, <3>4, <4>1
      <4>. QED
        BY <3>3, <4>2 DEF LevelSet, Dependencies
    <3>. QED
      BY <1>3, <2>2, <3>5 DEF DependenciesFirst, SchInvariant, HeldOnce
  <2>. QED
    BY <2>1, <2>2
<1>4. SchSpec => []SchInvariant
  BY SchInitially, SchStep, PTL DEF SchSpec
<1>5. SchSpec => SchedulerBatch!BatchSpec
  BY <1>1, <1>2, <1>4, PTL DEF SchSpec, SchedulerBatch!BatchSpec
<1>6. SchSpec => []DependenciesFirst
  BY <1>3, <1>4, PTL
<1>. QED
  BY <1>5, <1>6, PTL DEF SchedulerIsDeterministic
=============================================================================
