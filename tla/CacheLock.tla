------------------------------ MODULE CacheLock ------------------------------
(***************************************************************************)
(* The write lock of the standards cache                                   *)
(* (packages/standards/src/standards-cache.ts).                            *)
(*                                                                         *)
(* The lock is an append-only chain of generation files.  The initial path *)
(* and every successor path are created at most once, by a hard link of a  *)
(* private owner record, and each record nominates the path of the next    *)
(* generation.  A generation is held while the loopback server named in    *)
(* its record listens; a contender walks the chain over generations whose  *)
(* server refuses the connection and links the first absent path.          *)
(* Nothing is ever unlinked, so a slot directory identifies the inode of   *)
(* its record, the record's random next token and its server: a slot       *)
(* number stands for all of them.                                          *)
(*                                                                         *)
(* A member of Procs is one caller of acquireWriteLock; callers of one     *)
(* Node process and of several processes interleave at every await.        *)
(***************************************************************************)
EXTENDS Integers, FiniteSets

CONSTANTS
  Procs,        \* the callers of acquireWriteLock
  NoProc,       \* no caller: a server that does not listen
  LastSlot,     \* MAX_STANDARDS_CACHE_RELEASE_CLAIMS, the last slot number
  MaxAttempts,  \* options.maxAttempts
  MaxCrashes    \* bound: how many process deaths a behaviour contains

ASSUME ConstantsAssumption ==
  /\ NoProc \notin Procs
  /\ LastSlot \in Nat
  /\ MaxAttempts \in Nat \ {0}
  /\ MaxCrashes \in Nat

VARIABLES
  rec,        \* rec[s]: what slot directory s holds
  gen,        \* gen[x]: the slot whose record is linked at path x, or None
  listening,  \* listening[s]: the caller whose server for slot s listens
  pc,         \* pc[p]: the next step of p's acquisition or release
  expired,    \* expired[p]: the acquisition timer of p's holder has fired
  attempt,    \* attempt[p]: the loop variable of acquireWriteLock
  listed,     \* listed[p]: the generation paths p saw in locks/
  unscanned,  \* unscanned[p]: slots of p's debris scan still to be read
  cur,        \* cur[p]: the path p's walk stands at, later its target
  visited,    \* visited[p]: the generation paths p's walk has passed
  slot,       \* slot[p]: the slot p reserved in this attempt, or None
  result,     \* result[p]: the outcome p's last call returned, or will return
  crashes     \* how many processes have died

disk == <<rec, gen>>
walk == <<listed, unscanned, cur, visited>>
vars == <<rec, gen, listening, pc, expired, attempt, listed, unscanned, cur,
          visited, slot, result, crashes>>

Slots   == 0 .. LastSlot
None    == -1
Initial == -1                \* locks/writer.v0.json
Paths   == Slots \cup {Initial}  \* path s: the generation nominated by slot s

RecordStates == {"absent", "slot", "empty", "full"}

\* Every budget expiry, cancellation and sanitised I/O failure is "interrupted";
\* "busy" is the one error the attempt loop retries (LockBusy and EEXIST).
Results == {"none", "ok", "released", "busy", "lock-timeout", "interrupted",
            "unsafe-cache", "resource-limit"}

Select    == {"list", "scan", "walk", "reserve"}      \* inside #selectLockSlot
Publish   == {"create", "write", "check", "link", "verify"}  \* a holder runs
Acquiring == Select \cup Publish \cup {"listen", "cleanup", "wait"}
PCs       == Acquiring \cup {"idle", "held", "release"}

\* The generations that exist: the slots whose record has its second link.
Linked == {s \in Slots : \E x \in Paths : gen[x] = s}

\* The paths that exist, and the aliases a contender accepts: those of the
\* generations it listed.  An alias is never removed, so at the time of the
\* scan each listed generation still has both of its links.
Existing       == {x \in Paths : gen[x] # None}
Authorities(p) == {gen[x] : x \in listed[p]}

TypeOK ==
  /\ rec \in [Slots -> RecordStates]
  /\ gen \in [Paths -> Slots \cup {None}]
  /\ listening \in [Slots -> Procs \cup {NoProc}]
  /\ pc \in [Procs -> PCs]
  /\ expired \in [Procs -> BOOLEAN]
  /\ attempt \in [Procs -> 0 .. MaxAttempts]
  /\ listed \in [Procs -> SUBSET Paths]
  /\ unscanned \in [Procs -> SUBSET Slots]
  /\ cur \in [Procs -> Paths]
  /\ visited \in [Procs -> SUBSET Paths]
  /\ slot \in [Procs -> Slots \cup {None}]
  /\ result \in [Procs -> Results]
  /\ crashes \in 0 .. MaxCrashes

Init ==
  /\ rec = [s \in Slots |-> "absent"]
  /\ gen = [x \in Paths |-> None]
  /\ listening = [s \in Slots |-> NoProc]
  /\ pc = [p \in Procs |-> "idle"]
  /\ expired = [p \in Procs |-> FALSE]
  /\ attempt = [p \in Procs |-> 0]
  /\ listed = [p \in Procs |-> {}]
  /\ unscanned = [p \in Procs |-> {}]
  /\ cur = [p \in Procs |-> Initial]
  /\ visited = [p \in Procs |-> {}]
  /\ slot = [p \in Procs |-> None]
  /\ result = [p \in Procs |-> "none"]
  /\ crashes = 0

-----------------------------------------------------------------------------
(* Ways a step of acquireWriteLock ends. *)

\* A fresh attempt starts from an empty snapshot.
ResetWalk(p) ==
  /\ listed' = [listed EXCEPT ![p] = {}]
  /\ unscanned' = [unscanned EXCEPT ![p] = {}]
  /\ cur' = [cur EXCEPT ![p] = Initial]
  /\ visited' = [visited EXCEPT ![p] = {}]

\* The call returns code and forgets its local state.
Return(p, code) ==
  /\ pc' = [pc EXCEPT ![p] = "idle"]
  /\ result' = [result EXCEPT ![p] = code]
  /\ attempt' = [attempt EXCEPT ![p] = 0]
  /\ slot' = [slot EXCEPT ![p] = None]
  /\ expired' = [expired EXCEPT ![p] = FALSE]
  /\ ResetWalk(p)

\* The end of the catch block: only a busy error goes round the loop again.
Settle(p, code) ==
  IF code = "busy" /\ attempt[p] < MaxAttempts
  THEN /\ pc' = [pc EXCEPT ![p] = "wait"]
       /\ result' = [result EXCEPT ![p] = "busy"]
       /\ slot' = [slot EXCEPT ![p] = None]
       /\ ResetWalk(p)
       /\ UNCHANGED <<expired, attempt>>
  ELSE Return(p, IF code = "busy" THEN "lock-timeout" ELSE code)

\* The step continues: neither a deadline nor a cancellation was observed.
At(p, where) == pc[p] = where /\ ~expired[p]

Goto(p, where) == pc' = [pc EXCEPT ![p] = where]

-----------------------------------------------------------------------------
(* #selectLockSlot: list, scan, walk, reserve. *)

Acquire(p) ==
  /\ pc[p] = "idle"
  /\ Goto(p, "list")
  /\ attempt' = [attempt EXCEPT ![p] = 1]
  /\ result' = [result EXCEPT ![p] = "none"]
  /\ UNCHANGED <<disk, listening, expired, walk, slot, crashes>>

\* #lockGenerationNames, then the opening of temporary/.
ListGenerations(p) ==
  /\ At(p, "list")
  /\ Goto(p, "scan")
  /\ listed' = [listed EXCEPT ![p] = Existing]
  /\ UNCHANGED <<disk, listening, expired, attempt, unscanned, cur, visited, slot,
                 result, crashes>>

BeginScan(p) ==
  /\ At(p, "scan")
  /\ Goto(p, "walk")
  /\ unscanned' = [unscanned EXCEPT ![p] = {s \in Slots : rec[s] # "absent"}]
  /\ UNCHANGED <<disk, listening, expired, attempt, listed, cur, visited, slot,
                 result, crashes>>

\* validateAuthority rejects an empty record, and a record with two links that
\* is not one of the listed generations.
UnsafeDebris(p, s) ==
  \/ rec[s] = "empty"
  \/ s \in Linked /\ s \notin Authorities(p)

\* One slot of #validateLockTemporaryDebris; the directory is read entry by
\* entry, in any order, while other callers go on.
ScanSlot(p) ==
  /\ At(p, "walk")
  /\ \E s \in unscanned[p] :
       IF UnsafeDebris(p, s)
       THEN /\ Settle(p, "unsafe-cache")
            /\ UNCHANGED <<disk, listening, crashes>>
       ELSE /\ unscanned' = [unscanned EXCEPT ![p] = @ \ {s}]
            /\ UNCHANGED <<disk, listening, pc, expired, attempt, listed, cur,
                           visited, slot, result, crashes>>

\* A generation the walk reads must have an alias in the snapshot: one that was
\* linked after the scan has two links and no authority.
Unexplained(p) == cur[p] \in visited[p] \/ gen[cur[p]] \notin Authorities(p)

\* The record's server did not refuse the connection: it answered, or something
\* else uses its port, or it is at its connection limit.
ProbeNotDead(p) ==
  LET seen == visited[p] \cup {cur[p]} IN
  /\ At(p, "walk") /\ unscanned[p] = {}
  /\ gen[cur[p]] # None
  /\ ~Unexplained(p)
  /\ Settle(p, IF Cardinality(listed[p]) # Cardinality(seen) THEN "unsafe-cache"
               ELSE IF Cardinality(listed[p]) > LastSlot THEN "resource-limit"
               ELSE "busy")
  /\ UNCHANGED <<disk, listening, crashes>>

WalkUnexplained(p) ==
  /\ At(p, "walk") /\ unscanned[p] = {}
  /\ gen[cur[p]] # None
  /\ Unexplained(p)
  /\ Settle(p, "unsafe-cache")
  /\ UNCHANGED <<disk, listening, crashes>>

\* Faulty variant: any failed probe counts as proof of death.
ProbeDeadUnproven(p) ==
  /\ At(p, "walk") /\ unscanned[p] = {}
  /\ gen[cur[p]] # None
  /\ ~Unexplained(p)
  /\ visited' = [visited EXCEPT ![p] = @ \cup {cur[p]}]
  /\ cur' = [cur EXCEPT ![p] = gen[cur[p]]]
  /\ UNCHANGED <<disk, listening, pc, expired, attempt, listed, unscanned, slot,
                 result, crashes>>

\* ECONNREFUSED is the only proof of death; the walk goes to the nominated
\* successor.
ProbeDead(p) ==
  /\ At(p, "walk") /\ unscanned[p] = {}
  /\ gen[cur[p]] # None
  /\ ~Unexplained(p)
  /\ listening[gen[cur[p]]] = NoProc
  /\ visited' = [visited EXCEPT ![p] = @ \cup {cur[p]}]
  /\ cur' = [cur EXCEPT ![p] = gen[cur[p]]]
  /\ UNCHANGED <<disk, listening, pc, expired, attempt, listed, unscanned, slot,
                 result, crashes>>

\* Faulty variant: the generation limit is one too low.
WalkEndsEarly(p) ==
  /\ At(p, "walk") /\ unscanned[p] = {}
  /\ gen[cur[p]] = None
  /\ IF Cardinality(listed[p]) >= LastSlot /\ cur[p] # Initial
     THEN Settle(p, "resource-limit")
     ELSE /\ Goto(p, "reserve")
          /\ listed' = [listed EXCEPT ![p] = {}]
          /\ visited' = [visited EXCEPT ![p] = {}]
          /\ UNCHANGED <<expired, attempt, unscanned, cur, slot, result>>
  /\ UNCHANGED <<disk, listening, crashes>>

\* ENOENT: the walk has reached the end of the chain.
WalkEnds(p) ==
  /\ At(p, "walk") /\ unscanned[p] = {}
  /\ gen[cur[p]] = None
  /\ IF Cardinality(listed[p]) # Cardinality(visited[p])
     THEN Settle(p, "unsafe-cache")
     ELSE IF Cardinality(listed[p]) > LastSlot /\ cur[p] # Initial
     THEN Settle(p, "resource-limit")
     ELSE /\ Goto(p, "reserve")
          /\ listed' = [listed EXCEPT ![p] = {}]
          /\ visited' = [visited EXCEPT ![p] = {}]
          /\ UNCHANGED <<expired, attempt, unscanned, cur, slot, result>>
  /\ UNCHANGED <<disk, listening, crashes>>

\* Faulty variant: a recursive mkdir does not report an existing slot.
ReserveSharedSlot(p) ==
  /\ At(p, "reserve")
  /\ \E s \in Slots :
       /\ rec[s] \in {"absent", "slot"}
       /\ rec' = [rec EXCEPT ![s] = "slot"]
       /\ slot' = [slot EXCEPT ![p] = s]
  /\ Goto(p, "listen")
  /\ UNCHANGED <<gen, listening, expired, attempt, walk, result, crashes>>

\* #reserveLockAuthoritySlot: mkdir of the first slot that does not exist.  A
\* slot is never removed, so the loop over EEXIST ends at the lowest slot that
\* is free when its mkdir succeeds.
ReserveSlot(p) ==
  /\ At(p, "reserve")
  /\ IF \E s \in Slots : rec[s] = "absent"
     THEN \E s \in Slots :
            /\ rec[s] = "absent"
            /\ \A t \in Slots : rec[t] = "absent" => s <= t
            /\ rec' = [rec EXCEPT ![s] = "slot"]
            /\ slot' = [slot EXCEPT ![p] = s]
            /\ Goto(p, "listen")
            /\ UNCHANGED <<gen, expired, attempt, walk, result>>
     ELSE Settle(p, "resource-limit") /\ UNCHANGED disk
  /\ UNCHANGED <<listening, crashes>>

-----------------------------------------------------------------------------
(* Publication of the owner record. *)

\* startLockHolder
Listen(p) ==
  /\ At(p, "listen")
  /\ listening' = [listening EXCEPT ![slot[p]] = p]
  /\ Goto(p, "create")
  /\ UNCHANGED <<disk, expired, attempt, walk, slot, result, crashes>>

\* open(O_CREAT | O_EXCL): the record exists and is empty.
CreateRecord(p) ==
  /\ pc[p] = "create"
  /\ rec' = [rec EXCEPT ![slot[p]] = "empty"]
  /\ Goto(p, "write")
  /\ UNCHANGED <<gen, listening, expired, attempt, walk, slot, result, crashes>>

\* writeFile and sync; no budget is checked since the creation.
WriteRecord(p) ==
  /\ pc[p] = "write"
  /\ rec' = [rec EXCEPT ![slot[p]] = "full"]
  /\ Goto(p, "check")
  /\ UNCHANGED <<gen, listening, expired, attempt, walk, slot, result, crashes>>

\* The last look at the budget before the generation is published; an lstat and
\* a realpath are still awaited before the link.
CheckBudget(p) ==
  /\ At(p, "check")
  /\ Goto(p, "link")
  /\ UNCHANGED <<disk, listening, expired, attempt, walk, slot, result, crashes>>

\* Faulty variant: the loser of a race links below the winner without a probe.
LinkBelowWinner(p) ==
  /\ pc[p] = "link"
  /\ \E x \in {cur[p], gen[cur[p]]} \cap Paths :
       /\ gen[x] = None
       /\ gen' = [gen EXCEPT ![x] = slot[p]]
  /\ Goto(p, "verify")
  /\ UNCHANGED <<rec, listening, expired, attempt, walk, slot, result, crashes>>

\* link(temporaryOwnerPath, ownerPath) never overwrites: the loser gets EEXIST.
\* The timer may have closed the server since the budget was checked; the
\* generation is then published all the same, and is dead from the start.
LinkGeneration(p) ==
  /\ pc[p] = "link"
  /\ IF gen[cur[p]] = None
     THEN /\ gen' = [gen EXCEPT ![cur[p]] = slot[p]]
          /\ Goto(p, "verify")
          /\ UNCHANGED result
     ELSE /\ Goto(p, "cleanup")
          /\ result' = [result EXCEPT ![p] = "busy"]
          /\ UNCHANGED gen
  /\ UNCHANGED <<rec, listening, expired, attempt, walk, slot, crashes>>

\* The published record is reread, the acquisition timer is cleared and the
\* capability becomes active.
Complete(p) ==
  /\ At(p, "verify")
  /\ Goto(p, "held")
  /\ result' = [result EXCEPT ![p] = "ok"]
  /\ UNCHANGED <<disk, listening, expired, attempt, walk, slot, crashes>>

\* The acquisition timer closes the server at the deadline.  From then on every
\* check of the budget fails.
HolderTimer(p) ==
  /\ pc[p] \in Publish \cup {"cleanup"}
  /\ ~expired[p]
  /\ listening' = [listening EXCEPT ![slot[p]] = NoProc]
  /\ expired' = [expired EXCEPT ![p] = TRUE]
  /\ UNCHANGED <<disk, pc, attempt, walk, slot, result, crashes>>

\* The deadline, a cancellation or an I/O failure ends an awaited operation.
Interrupt(p) ==
  /\ \/ /\ pc[p] \in Select \cup {"listen", "wait"}
        /\ Return(p, "interrupted")
     \/ /\ pc[p] \in Publish
        /\ Goto(p, "cleanup")
        /\ result' = [result EXCEPT ![p] = "interrupted"]
        /\ UNCHANGED <<expired, attempt, walk, slot>>
  /\ UNCHANGED <<disk, listening, crashes>>

\* The catch block closes the server within the cleanup budget.
CloseHolder(p) ==
  /\ pc[p] = "cleanup"
  /\ listening' = [listening EXCEPT ![slot[p]] = NoProc]
  /\ Settle(p, result[p])
  /\ UNCHANGED <<disk, crashes>>

\* The cleanup deadline is over when closeLockHolder runs: the timer has just
\* been cleared, remainingCleanupBudget throws and the server is not closed.
CleanupLapses(p) ==
  /\ pc[p] = "cleanup"
  /\ ~expired[p]
  /\ Return(p, IF result[p] = "busy" THEN "lock-timeout" ELSE result[p])
  /\ UNCHANGED <<disk, listening, crashes>>

\* Faulty variant: the loop variable is not advanced.
RetryForever(p) ==
  /\ At(p, "wait")
  /\ Goto(p, "list")
  /\ UNCHANGED <<disk, listening, expired, attempt, walk, slot, result, crashes>>

\* The wait between two attempts is over.
Retry(p) ==
  /\ At(p, "wait")
  /\ Goto(p, "list")
  /\ attempt' = [attempt EXCEPT ![p] = @ + 1]
  /\ UNCHANGED <<disk, listening, expired, walk, slot, result, crashes>>

-----------------------------------------------------------------------------
(* #releaseLock and process death. *)

\* The capability is revoked before anything is awaited.
Release(p) ==
  /\ pc[p] = "held"
  /\ Goto(p, "release")
  /\ UNCHANGED <<disk, listening, expired, attempt, walk, slot, result, crashes>>

\* The lock identity holds; the server is closed and nothing on disk changes.
FinishRelease(p) ==
  /\ pc[p] = "release"
  /\ listening' = [listening EXCEPT ![slot[p]] = NoProc]
  /\ Return(p, "released")
  /\ UNCHANGED <<disk, crashes>>

\* Faulty variant: the capability is revoked only by a release that succeeds.
ReleaseReactivates(p) ==
  /\ pc[p] = "release"
  /\ Goto(p, "held")
  /\ UNCHANGED <<disk, listening, expired, attempt, walk, slot, result, crashes>>

\* An I/O failure of the first identity check returns before the server is
\* closed.
ReleaseFails(p) ==
  /\ pc[p] = "release"
  /\ Return(p, "interrupted")
  /\ UNCHANGED <<disk, listening, crashes>>

\* The operating system closes every server of a process that dies.
Crash(p) ==
  /\ pc[p] # "idle" \/ \E s \in Slots : listening[s] = p
  /\ crashes < MaxCrashes
  /\ crashes' = crashes + 1
  /\ listening' = [s \in Slots |-> IF listening[s] = p THEN NoProc ELSE listening[s]]
  /\ Return(p, "none")
  /\ UNCHANGED disk

Step(p) ==
  \/ ListGenerations(p) \/ BeginScan(p) \/ ScanSlot(p)
  \/ ProbeNotDead(p) \/ WalkUnexplained(p) \/ ProbeDead(p) \/ WalkEnds(p)
  \/ ReserveSlot(p) \/ Listen(p) \/ CreateRecord(p) \/ WriteRecord(p)
  \/ CheckBudget(p) \/ LinkGeneration(p) \/ Complete(p) \/ CloseHolder(p) \/ Retry(p)
  \/ FinishRelease(p)

\* What the environment or the caller may do to p, at any time or never.
Environment(p) ==
  \/ Acquire(p) \/ Release(p) \/ HolderTimer(p) \/ Interrupt(p)
  \/ CleanupLapses(p) \/ ReleaseFails(p) \/ Crash(p)

Next == \E p \in Procs : Step(p) \/ Environment(p)

Spec == Init /\ [][Next]_vars

\* The event loop runs every continuation that is ready, and a budget that has
\* expired is noticed at the next check.  Nothing obliges a caller to acquire or
\* to release, nor the environment to interrupt or to kill.
Fairness ==
  \A p \in Procs :
    /\ WF_vars(Step(p))
    /\ WF_vars(expired[p] /\ Interrupt(p))

FairSpec == Spec /\ Fairness

-----------------------------------------------------------------------------
(* Properties *)

\* At most one caller has an active write capability (LOCK_STATES.active), also
\* when processes die, timers fire and publications race.
MutualExclusion ==
  \A p, q \in Procs : pc[p] = "held" /\ pc[q] = "held" => p = q

\* The generation behind an active capability is published, has no successor
\* and is served by its owner: nobody has taken the lock over, so what
\* #verifyLockIdentity requires before a mutation is true.
CapabilityIsLiveTip ==
  \A p \in Procs : pc[p] = "held" =>
    /\ slot[p] \in Linked
    /\ gen[slot[p]] = None
    /\ listening[slot[p]] = p

\* The retained generations form one chain, however acquisitions race: a record
\* is linked at one path only, a nominated path exists only below a published
\* and dead generation, and exactly one generation has no successor.
OneChain ==
  /\ \A x, y \in Existing : gen[x] = gen[y] => x = y
  /\ \A t \in Slots : gen[t] # None => t \in Linked /\ listening[t] = NoProc
  /\ \A s, t \in Linked : gen[s] = None /\ gen[t] = None => s = t
  /\ Linked # {} => gen[Initial] # None /\ \E s \in Linked : gen[s] = None

\* "resource-limit" is returned only when every slot has been claimed: neither
\* the walk's generation count nor the slot search gives up early.
ExhaustionIsReal ==
  \A p \in Procs :
    result[p] = "resource-limit" => \A s \in Slots : rec[s] # "absent"

\* No step removes, renames or rewrites lock state: a published generation keeps
\* its inode, a claimed slot stays claimed and a complete record stays complete,
\* whichever step runs and whoever dies.
AppendOnly ==
  [][/\ \A x \in Paths : gen[x] # None => gen'[x] = gen[x]
     /\ \A s \in Slots :
          /\ rec[s] # "absent" => rec'[s] # "absent"
          /\ rec[s] = "full" => rec'[s] = "full"]_vars

\* A generation is published only when the server of every earlier generation
\* has stopped listening: no takeover of a live holder, also through a walk
\* whose probes are out of date when the link happens.
SuccessionAfterDeath ==
  [][gen' # gen => \A s \in Linked : listening[s] = NoProc]_vars

\* Every call of acquireWriteLock returns: the attempts, the walk and the
\* cleanup are bounded, and contenders cannot make each other wait for ever.
AcquisitionReturns ==
  \A p \in Procs : pc[p] \in Acquiring ~> pc[p] \notin Acquiring

-----------------------------------------------------------------------------
(* The inductive invariant behind the safety properties. *)

Owning   == {"listen", "cleanup", "held", "release"} \cup Publish
Unlinked == {"listen", "create", "write", "check", "link"}
Served   == {"verify", "held", "release"}

\* The walk has passed dead published generations only, and they stay dead: the
\* server of a generation never listens again.
WalkedOverDead ==
  \A p \in Procs :
    cur[p] # Initial => cur[p] \in Linked /\ listening[cur[p]] = NoProc

\* mkdir gives a slot to one attempt.
SlotsAreOwned ==
  /\ \A p \in Procs : (slot[p] # None) <=> (pc[p] \in Owning)
  /\ \A p, q \in Procs : slot[p] = slot[q] /\ slot[p] # None => p = q

\* Another attempt is waited for only while one is left.
AttemptLeft == \A p \in Procs : pc[p] = "wait" => attempt[p] < MaxAttempts

\* How far the record of a slot has got.
RecordProgress ==
  /\ \A s \in Linked : rec[s] = "full"
  /\ \A p \in Procs :
       /\ pc[p] \in Owning => rec[slot[p]] # "absent"
       /\ pc[p] \in {"listen", "create"} => rec[slot[p]] = "slot"
       /\ pc[p] = "write" => rec[slot[p]] = "empty"
       /\ pc[p] \in {"check", "link"} => rec[slot[p]] = "full"
       /\ pc[p] \in Unlinked => slot[p] \notin Linked
       /\ pc[p] \in Served => slot[p] \in Linked

\* Until its timer fires an acquisition is served, afterwards it is not, and a
\* capability always is.
HolderServes ==
  \A p \in Procs :
    /\ pc[p] \in Publish \cup Served /\ ~expired[p] => listening[slot[p]] = p
    /\ pc[p] \in Publish /\ expired[p] => listening[slot[p]] = NoProc
    /\ pc[p] \in {"held", "release"} => ~expired[p]

\* The slots, records and servers of callers and the chain fit together: what
\* has to be true before each step for the lock to stay exclusive after it.
LockInvariant ==
  /\ TypeOK
  /\ AttemptLeft
  /\ OneChain
  /\ WalkedOverDead
  /\ SlotsAreOwned
  /\ RecordProgress
  /\ HolderServes

-----------------------------------------------------------------------------
(* The lock as a succession of generations. *)

Tip == IF Linked = {} THEN None ELSE CHOOSE s \in Linked : gen[s] = None

TipServer == IF Tip = None THEN NoProc ELSE listening[Tip]

TipStatus ==
  IF TipServer = NoProc THEN "closed"
  ELSE IF slot[TipServer] # Tip THEN "revoked"
  ELSE CASE pc[TipServer] = "verify" -> "pending"
         [] pc[TipServer] = "held" -> "granted"
         [] OTHER -> "revoked"

Lock == INSTANCE GenerationLock WITH
          Generations <- Slots, NoGeneration <- None,
          used <- Linked, current <- Tip, server <- TipServer, status <- TipStatus

\* The files, walks and probes of the code implement that succession: every step
\* of an acquisition, a release or a crash is one of its steps or invisible.  A
\* link that a lapsed deadline has overtaken publishes a generation that is
\* already closed, and nobody is granted it.
ImplementsGenerationLock == Lock!Spec

-----------------------------------------------------------------------------
(* What the documentation says of the lock and the code does not do. *)

\* docs/api/standards-cache.md: private one-link pre-publication debris is
\* non-authoritative.  A cache that only this code has written, one caller at a
\* time, is then never reported as unsafe.
DebrisIsHarmless == \A p \in Procs : result[p] # "unsafe-cache"
=============================================================================
