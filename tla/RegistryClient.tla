--------------------------- MODULE RegistryClient ---------------------------
(***************************************************************************)
(* The standards registry client (packages/standards/src/registry-client). *)
(*                                                                         *)
(* fetchObject takes one of the process-wide permits, resolves the origin, *)
(* connects, and reads one object.  Every await is a phase that races the  *)
(* network against a timer and the caller's signal; what the lost race     *)
(* leaves running is aborted, for at most the cleanup timeout, before the  *)
(* call returns and gives its permit back.                                 *)
(*                                                                         *)
(* A timer may fire at any moment, so the phase deadlines and the overall  *)
(* deadline, tested again on entry of a phase, are one action.  A body is  *)
(* its number of missing bytes.                                            *)
(***************************************************************************)
EXTENDS Integers, FiniteSets

CONSTANTS Fetches,       \* calls of fetchObject in one process
          MaxRequests,   \* MAX_STANDARDS_REGISTRY_CONCURRENT_REQUESTS (4)
          MaxLength,     \* bodies tried: content lengths 0 .. MaxLength
          MaxChunks      \* chunks accepted (1024)

ASSUME RegistryAssumption ==
  MaxRequests \in Nat /\ MaxLength \in Nat /\ MaxChunks \in Nat

VARIABLES activeRequests,
          regPc,         \* call -> where it is
          regError,      \* call -> the failure to report after the cleanup
          regResult,     \* call -> the code of its result
          resolver,      \* call -> its DNS operation
          connection,    \* call -> its HTTPS request
          bodyLeft,      \* call -> content length not read yet
          chunks,        \* call -> chunks read
          regAborted     \* call -> its signal is aborted

regVars == <<activeRequests, regPc, regError, regResult, resolver, connection,
             bodyLeft, chunks, regAborted>>

InTransport == {"connect", "secure", "headers", "body"}
Cleaning == {"dnsAbort", "closing"}
HoldsPermit(c) == regPc[c] \notin {"new", "returned"}

RegInit ==
  /\ activeRequests = 0
  /\ regPc = [c \in Fetches |-> "new"]
  /\ regError = [c \in Fetches |-> "none"]
  /\ regResult = [c \in Fetches |-> "none"]
  /\ resolver = [c \in Fetches |-> "none"]
  /\ connection = [c \in Fetches |-> "none"]
  /\ bodyLeft = [c \in Fetches |-> 0]
  /\ chunks = [c \in Fetches |-> 0]
  /\ regAborted = [c \in Fetches |-> FALSE]

-----------------------------------------------------------------------------
(* Leave the call; the finally block gives the permit back. *)
RegReturn(c, code) ==
  /\ regPc' = [regPc EXCEPT ![c] = "returned"]
  /\ regResult' = [regResult EXCEPT ![c] = code]
  /\ activeRequests' = activeRequests - (IF HoldsPermit(c) THEN 1 ELSE 0)

(* Go on to pc, or, with a failure, to the cleanup of what is running. *)
GoTo(c, pc, error) ==
  /\ regPc' = [regPc EXCEPT ![c] = pc]
  /\ regError' = [regError EXCEPT ![c] = error]
  /\ UNCHANGED <<activeRequests, regResult>>

(* The entry of phase(): an aborted signal fails it at once. *)
Enter(c, pc, cleanup) ==
  IF regAborted[c] THEN GoTo(c, cleanup, "cancelled") ELSE GoTo(c, pc, "none")

(* fetchObject up to its first await. *)
Fetch(c) ==
  /\ regPc[c] = "new"
  /\ \/ /\ \E code \in {"invalid-input", "registry-unconfigured"} : RegReturn(c, code)
        /\ UNCHANGED <<regError, resolver>>
     \/ /\ activeRequests >= MaxRequests
        /\ RegReturn(c, "concurrency-limit")
        /\ UNCHANGED <<regError, resolver>>
     \/ /\ activeRequests < MaxRequests
        /\ RegReturn(c, "network-failure")     \* the resolver cannot be created
        /\ UNCHANGED <<regError, resolver>>
     \/ /\ activeRequests < MaxRequests
        /\ activeRequests' = activeRequests + 1
        /\ resolver' = [resolver EXCEPT ![c] = "open"]
        /\ regPc' = [regPc EXCEPT ![c] = IF regAborted[c] THEN "dnsAbort" ELSE "dns"]
        /\ regError' = [regError EXCEPT ![c] = IF regAborted[c] THEN "cancelled" ELSE "none"]
        /\ UNCHANGED regResult
  /\ UNCHANGED <<connection, bodyLeft, chunks, regAborted>>

(* A phase ends with a failure: the answer of the network, the timer, the abort. *)
FailPhase(c, code) ==
  \/ regPc[c] = "dns" /\ GoTo(c, "dnsAbort", code)
  \/ regPc[c] \in InTransport /\ GoTo(c, "closing", code)

PhaseTimeout(c) ==
  /\ FailPhase(c, "timeout")
  /\ UNCHANGED <<resolver, connection, bodyLeft, chunks, regAborted>>

(* The caller aborts: the listener exists only while a phase is awaited; during a
   cleanup the abort is seen by the next phase, if there is one. *)
RegAbort(c) ==
  /\ ~regAborted[c]
  /\ regAborted' = [regAborted EXCEPT ![c] = TRUE]
  /\ \/ FailPhase(c, "cancelled")
     \/ /\ regPc[c] \notin InTransport \cup {"dns"}
        /\ UNCHANGED <<activeRequests, regPc, regError, regResult>>
  /\ UNCHANGED <<resolver, connection, bodyLeft, chunks>>

(* The resolver settles: with the answer, or because it was cancelled. *)
ResolverSettles(c) ==
  /\ resolver[c] = "open"
  /\ resolver' = [resolver EXCEPT ![c] = "done"]
  /\ \/ /\ regPc[c] = "dns"
        /\ \E error \in {"none", "dns-failure"} : GoTo(c, "dnsAbort", error)
     \/ /\ regPc[c] # "dns"
        /\ UNCHANGED <<activeRequests, regPc, regError, regResult>>
  /\ UNCHANGED <<connection, bodyLeft, chunks, regAborted>>

(* The cleanup of the resolver has ended: report the failure, refuse the address,
   or start the HTTPS request. *)
Connect(c) ==
  /\ regPc[c] = "dnsAbort" /\ resolver[c] = "done"
  /\ \/ regError[c] # "none" /\ RegReturn(c, regError[c]) /\ UNCHANGED <<regError, connection>>
     \/ /\ regError[c] = "none"
        /\ \E code \in {"dns-failure", "unsafe-address", "network-failure"} : RegReturn(c, code)
        /\ UNCHANGED <<regError, connection>>
     \/ /\ regError[c] = "none"
        /\ connection' = [connection EXCEPT ![c] = "open"]
        /\ Enter(c, "connect", "closing")
  /\ UNCHANGED <<resolver, bodyLeft, chunks, regAborted>>

(* The socket connects; the TLS handshake ends. *)
Handshake(c) ==
  /\ connection[c] = "open"
  /\ \/ regPc[c] = "connect" /\ Enter(c, "secure", "closing")
     \/ regPc[c] = "secure" /\ Enter(c, "headers", "closing")
  /\ UNCHANGED <<resolver, connection, bodyLeft, chunks, regAborted>>

(* The request fails in any phase ("error" event, or the body iterator throws). *)
ConnectionFails(c) ==
  /\ regPc[c] \in InTransport
  /\ FailPhase(c, IF regPc[c] = "secure" THEN "tls-failure" ELSE "network-failure")
  /\ UNCHANGED <<resolver, connection, bodyLeft, chunks, regAborted>>

(* The response: validateResponse refuses it or yields its content length. *)
Response(c) ==
  /\ regPc[c] = "headers" /\ connection[c] = "open"
  /\ \/ /\ \E code \in {"not-found", "protocol-failure", "resource-limit"} :
             GoTo(c, "closing", code)
        /\ UNCHANGED bodyLeft
     \/ /\ \E n \in 0 .. MaxLength : bodyLeft' = [bodyLeft EXCEPT ![c] = n]
        /\ Enter(c, "body", "closing")
  /\ UNCHANGED <<resolver, connection, chunks, regAborted>>

(* One item of the body's iterator (readExactBody). *)
ReadBody(c) ==
  /\ regPc[c] = "body" /\ connection[c] = "open"
  /\ \/ /\ GoTo(c, "closing", IF bodyLeft[c] = 0 THEN "none" ELSE "protocol-failure")
        /\ UNCHANGED <<bodyLeft, chunks>>
     \/ /\ chunks[c] = MaxChunks
        /\ GoTo(c, "closing", "resource-limit")
        /\ UNCHANGED <<bodyLeft, chunks>>
     \/ /\ chunks[c] < MaxChunks
        /\ GoTo(c, "closing", "protocol-failure")   \* more bytes than announced
        /\ UNCHANGED <<bodyLeft, chunks>>
     \/ /\ chunks[c] < MaxChunks
        /\ \E n \in 0 .. bodyLeft[c] : bodyLeft' = [bodyLeft EXCEPT ![c] = @ - n]
        /\ chunks' = [chunks EXCEPT ![c] = @ + 1]
        /\ Enter(c, "body", "closing")
  /\ UNCHANGED <<resolver, connection, regAborted>>

(* The "close" event of the request. *)
ConnectionCloses(c) ==
  /\ connection[c] = "open"
  /\ connection' = [connection EXCEPT ![c] = "closed"]
  /\ UNCHANGED <<activeRequests, regPc, regError, regResult, resolver, bodyLeft, chunks,
                 regAborted>>

(* Faulty variant: the call returns before the connection is closed. *)
FinishUnclosed(c) ==
  /\ regPc[c] = "closing"
  /\ RegReturn(c, IF regError[c] = "none" THEN "ok" ELSE regError[c])
  /\ UNCHANGED <<regError, resolver, connection, bodyLeft, chunks, regAborted>>

(* The cleanup of the connection has ended: return the object or the failure. *)
Finish(c) ==
  /\ regPc[c] = "closing" /\ connection[c] = "closed"
  /\ RegReturn(c, IF regError[c] = "none" THEN "ok" ELSE regError[c])
  /\ UNCHANGED <<regError, resolver, connection, bodyLeft, chunks, regAborted>>

(* boundedAbort gives up. *)
CleanupTimeout(c) ==
  /\ regPc[c] \in Cleaning
  /\ RegReturn(c, "cleanup-failure")
  /\ UNCHANGED <<regError, resolver, connection, bodyLeft, chunks, regAborted>>

RegNext ==
  \E c \in Fetches :
     \/ Fetch(c) \/ PhaseTimeout(c) \/ RegAbort(c) \/ ResolverSettles(c) \/ Connect(c)
     \/ Handshake(c) \/ ConnectionFails(c) \/ Response(c) \/ ReadBody(c)
     \/ ConnectionCloses(c) \/ Finish(c) \/ CleanupTimeout(c)

(* Only the timers are fair: DNS, the peer and the caller owe nothing. *)
RegFairness ==
  \A c \in Fetches : WF_regVars(PhaseTimeout(c)) /\ WF_regVars(CleanupTimeout(c))

RegSpec == RegInit /\ [][RegNext]_regVars /\ RegFairness

-----------------------------------------------------------------------------
OpenOperations(c) ==
  {op \in {"resolver", "connection"} :
     IF op = "resolver" THEN resolver[c] = "open" ELSE connection[c] = "open"}

(* activeRequests counts the calls in flight and never exceeds the limit, and so
   does the number of calls with a network operation open, those that reported a
   cleanup failure aside. *)
RequestsBounded ==
  /\ activeRequests = Cardinality({c \in Fetches : HoldsPermit(c)})
  /\ activeRequests <= MaxRequests
  /\ Cardinality({c \in Fetches : /\ OpenOperations(c) # {}
                                  /\ regResult[c] # "cleanup-failure"}) <= MaxRequests

(* An object is returned only when exactly the announced bytes were read. *)
ObjectIsWhole ==
  \A c \in Fetches : regResult[c] = "ok" => connection[c] = "closed" /\ bodyLeft[c] = 0

(* A call that returns anything but cleanup-failure leaves nothing running, no call ever
   has its resolver and its connection open together, so that the permits bound what is
   open, and an object is whole, whichever race each phase loses. *)
NothingLeftRunning ==
  /\ RequestsBounded
  /\ ObjectIsWhole
  /\ \A c \in Fetches :
       /\ Cardinality(OpenOperations(c)) <= 1
       /\ regPc[c] = "returned" /\ regResult[c] # "cleanup-failure" => OpenOperations(c) = {}

(* Every call that has a permit gives it back, whatever the network does. *)
PermitReturns == \A c \in Fetches : HoldsPermit(c) ~> (regPc[c] = "returned")
=============================================================================
