--------------------------- MODULE GenerationLock ---------------------------
(***************************************************************************)
(* What the write lock of the standards cache promises, without files,     *)
(* slots, walks or probes: the lock is a succession of generations.  Each  *)
(* generation is new, is published by one caller while no other is served, *)
(* is granted at most once and only to its publisher, and is over for good *)
(* when its server has closed, which may be before it is published.        *)
(***************************************************************************)
CONSTANTS Procs, NoProc, Generations, NoGeneration

VARIABLES
  used,     \* the generations published so far
  current,  \* the last of them, or NoGeneration
  server,   \* the caller that serves the current generation, or NoProc
  status    \* "pending", "granted", "revoked" or "closed"

lvars == <<used, current, server, status>>

Init ==
  /\ used = {}
  /\ current = NoGeneration
  /\ server = NoProc
  /\ status = "closed"

\* Only when the previous generation is no longer served, and with a fresh one.
Publish(p, g) ==
  /\ status = "closed"
  /\ g \notin used
  /\ used' = used \cup {g}
  /\ current' = g
  /\ server' = p
  /\ status' = "pending"

\* The deadline has closed the publisher's server before the generation appears:
\* it is used up without ever having been served or granted.
PublishClosed(g) ==
  /\ status = "closed"
  /\ g \notin used
  /\ used' = used \cup {g}
  /\ current' = g
  /\ UNCHANGED <<server, status>>

\* acquireWriteLock returns the capability to the publisher.
Grant ==
  /\ status = "pending"
  /\ status' = "granted"
  /\ UNCHANGED <<used, current, server>>

\* The acquisition fails after its publication, or the holder releases.
Revoke ==
  /\ status \in {"pending", "granted"}
  /\ status' = "revoked"
  /\ UNCHANGED <<used, current, server>>

\* The server stops: after a revocation, at the deadline, or with its process.
Close ==
  /\ status # "closed"
  /\ status' = "closed"
  /\ server' = NoProc
  /\ UNCHANGED <<used, current>>

Next ==
  \/ \E p \in Procs, g \in Generations : Publish(p, g)
  \/ \E g \in Generations : PublishClosed(g)
  \/ Grant \/ Revoke \/ Close

Spec == Init /\ [][Next]_lvars
=============================================================================
