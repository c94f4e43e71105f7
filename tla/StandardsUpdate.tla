--------------------------- MODULE StandardsUpdate ---------------------------
(***************************************************************************)
(* StandardsUpdater.activate and rollbackStandardsUpdate of                *)
(* packages/standards/src/standards-update.ts: a verified standards pack   *)
(* is published in the cache, the repository's standards lockfile is       *)
(* replaced, and an in-memory receipt can undo the replacement.            *)
(*                                                                         *)
(* The module composes the components below it by what they promise:       *)
(* CompareAndSwap for the repository writer (AtomicWriter implements it),  *)
(* an exclusive lock and entries that stay valid for the cache (CacheLock, *)
(* CacheStore).  A member of Calls is a sequence of API calls; all of them *)
(* run in one process, which may restart.                                  *)
(***************************************************************************)
EXTENDS Integers

CONSTANTS
  Calls, NoCall,
  Stuck,         \* a cache lock whose release failed: busy until the process ends
  Inodes,
  MaxVersion,    \* bound: trusted-state versions the registry publishes
  MaxTime,       \* bound: seconds of the checker's clock
  MaxReceipts    \* bound: receipts minted

ASSUME UpdateAssumption ==
  /\ NoCall \notin Calls /\ Stuck \notin Calls /\ NoCall # Stuck
  /\ MaxVersion \in Nat /\ MaxTime \in Nat /\ MaxReceipts \in Nat

Versions == 0 .. MaxVersion
Receipts == 1 .. MaxReceipts

\* The canonical bytes of a lockfile are determined by the trusted state, and with it
\* the pack, and by the second of the check (fixedStart drops the milliseconds).
Locks == [ver : Versions, time : 0 .. MaxTime]

Bundled == [ver |-> 0, time |-> 0]  \* the lockfile of the pack the linter ships with

VARIABLES
  file, phase, exp, new,  \* the lockfile and the writer's calls: CompareAndSwap
  pc,        \* pc[o]: the next step of call o
  seen,      \* seen[o]: options.expected, the identity and digest observed
  cur,       \* cur[o]: request.currentLockfile
  cand,      \* cand[o]: prepared.candidateLock
  wrote,     \* wrote[o]: write.identity, the inode the writer published for call o
  using,     \* using[o]: the receipt a rollback was given
  cache,     \* cache[v]: the cache entry of the pack of version v
  cacheLock, \* who holds the cache's write lock
  receipts,  \* ROLLBACK_BY_RECEIPT: the receipts with authority
  rollback,  \* rollback[r]: the RollbackState of receipt r
  minted,    \* how many receipts were minted
  latest,    \* the newest version the registry has signed
  now        \* the checker's clock, in seconds

writer == <<file, phase, exp, new>>
memory == <<receipts, rollback, minted>>
vars == <<writer, pc, seen, cur, cand, wrote, using, cache, cacheLock, memory, latest, now>>

Writer == INSTANCE CompareAndSwap WITH Contents <- Locks

PCs == {"idle", "read", "check", "lookup", "lock", "store", "reread", "release", "abandon",
        "replace", "activating", "rolling"}

TypeOK ==
  /\ file \in Writer!File
  /\ phase \in [Calls -> {"idle", "asked", "swapped"}]
  /\ exp \in [Calls -> Writer!File]
  /\ new \in [Calls -> Locks]
  /\ pc \in [Calls -> PCs]
  /\ seen \in [Calls -> Writer!File]
  /\ cur \in [Calls -> Locks]
  /\ cand \in [Calls -> Locks]
  /\ wrote \in [Calls -> Inodes]
  /\ using \in [Calls -> 0 .. MaxReceipts]
  /\ cache \in [Versions -> {"none", "valid", "broken"}]
  /\ cacheLock \in Calls \cup {NoCall, Stuck}
  /\ receipts \in SUBSET Receipts
  /\ rollback \in [Receipts -> [exp : Writer!File, previous : Locks]]
  /\ minted \in 0 .. MaxReceipts
  /\ latest \in Versions
  /\ now \in 0 .. MaxTime

\* A repository with a lockfile of the bundled version 0; the cache may be empty.
Init ==
  /\ \E i \in Inodes : file = [ino |-> i, body |-> Bundled]
  /\ phase = [o \in Calls |-> "idle"]
  /\ exp = [o \in Calls |-> file]
  /\ new = [o \in Calls |-> file.body]
  /\ pc = [o \in Calls |-> "idle"]
  /\ seen = [o \in Calls |-> file]
  /\ cur = [o \in Calls |-> file.body]
  /\ cand = [o \in Calls |-> file.body]
  /\ wrote = [o \in Calls |-> file.ino]
  /\ using = [o \in Calls |-> 0]
  /\ cache = [v \in Versions |-> "none"]
  /\ cacheLock = NoCall
  /\ receipts = {}
  /\ rollback = [r \in Receipts |-> [exp |-> file, previous |-> file.body]]
  /\ minted = 0
  /\ latest = 0
  /\ now = 0

-----------------------------------------------------------------------------

At(o, where)   == pc[o] = where
Goto(o, where) == pc' = [pc EXCEPT ![o] = where]

\* The caller observes the lockfile's identity and digest; nothing is left of what an
\* earlier call read or wrote ...
Observe(o) ==
  /\ At(o, "idle")
  /\ seen' = [seen EXCEPT ![o] = file]
  /\ cur' = [cur EXCEPT ![o] = Bundled]
  /\ cand' = [cand EXCEPT ![o] = Bundled]
  /\ wrote' = [wrote EXCEPT ![o] = file.ino]
  /\ using' = [using EXCEPT ![o] = 0]
  /\ Goto(o, "read")
  /\ UNCHANGED <<writer, cache, cacheLock, memory, latest, now>>

\* ... and reads its bytes: nothing makes the two one step.
ReadLock(o) ==
  /\ At(o, "read")
  /\ cur' = [cur EXCEPT ![o] = file.body]
  /\ Goto(o, "check")
  /\ UNCHANGED <<writer, seen, cand, wrote, using, cache, cacheLock, memory, latest, now>>

\* Faulty variant: the bytes are not bound to the observed digest.
PrepareUnbound(o) ==
  /\ At(o, "check")
  /\ \/ /\ \E v \in cur[o].ver .. latest :
             cand' = [cand EXCEPT ![o] = [ver |-> v, time |-> now]]
        /\ Goto(o, IF cand'[o] = cur[o] THEN "idle" ELSE "lookup")
     \/ Goto(o, "idle") /\ UNCHANGED cand
  /\ UNCHANGED <<writer, seen, cur, wrote, using, cache, cacheLock, memory, latest, now>>

\* #prepare.  The supplied bytes must have the observed digest; the checker must have
\* started from the lock's trusted state; TUF accepts any signed version from there on.
\* A candidate that is already active, byte for byte, ends the call.  Every other
\* refusal ends it too.
Prepare(o) ==
  /\ At(o, "check")
  /\ \/ /\ cur[o] = seen[o].body
        /\ \E v \in cur[o].ver .. latest :
             cand' = [cand EXCEPT ![o] = [ver |-> v, time |-> now]]
        /\ Goto(o, IF cand'[o] = cur[o] THEN "idle" ELSE "lookup")
     \/ Goto(o, "idle") /\ UNCHANGED cand
  /\ UNCHANGED <<writer, seen, cur, wrote, using, cache, cacheLock, memory, latest, now>>

\* ensureArtifact, readEntry: a valid entry is reused, only a miss goes on.
LookUp(o) ==
  /\ At(o, "lookup")
  /\ Goto(o, CASE cache[cand[o].ver] = "valid"  -> "replace"
               [] cache[cand[o].ver] = "none"   -> "lock"
               [] cache[cand[o].ver] = "broken" -> "idle")
  /\ UNCHANGED <<writer, seen, cur, cand, wrote, using, cache, cacheLock, memory, latest, now>>

\* acquireWriteLock: busy, timed out or aborted ends the call.
AcquireCacheLock(o) ==
  /\ At(o, "lock")
  /\ \/ cacheLock = NoCall /\ cacheLock' = o /\ Goto(o, "store")
     \/ Goto(o, "idle") /\ UNCHANGED cacheLock
  /\ UNCHANGED <<writer, seen, cur, cand, wrote, using, cache, memory, latest, now>>

\* storeEntry: published, already there, or failed; a failure after the link leaves an
\* entry that readers reject.
StoreEntry(o) ==
  /\ At(o, "store")
  /\ \/ /\ cache[cand[o].ver] = "none"
        /\ \/ cache' = [cache EXCEPT ![cand[o].ver] = "valid"] /\ Goto(o, "release")
           \/ cache' = [cache EXCEPT ![cand[o].ver] = "broken"] /\ Goto(o, "abandon")
     \/ cache[cand[o].ver] # "none" /\ Goto(o, "reread") /\ UNCHANGED cache
     \/ Goto(o, "abandon") /\ UNCHANGED cache
  /\ UNCHANGED <<writer, seen, cur, cand, wrote, using, cacheLock, memory, latest, now>>

\* Faulty variant: an entry that exists is taken for a valid one.
RereadTrusting(o) ==
  /\ At(o, "reread")
  /\ Goto(o, "release")
  /\ UNCHANGED <<writer, seen, cur, cand, wrote, using, cache, cacheLock, memory, latest, now>>

\* entry-exists: the entry that another writer published is read before it counts.
RereadEntry(o) ==
  /\ At(o, "reread")
  /\ Goto(o, IF cache[cand[o].ver] = "valid" THEN "release" ELSE "abandon")
  /\ UNCHANGED <<writer, seen, cur, cand, wrote, using, cache, cacheLock, memory, latest, now>>

\* release, which may fail: then the call fails although the entry is there.
ReleaseCacheLock(o) ==
  /\ \/ At(o, "release") /\ cacheLock' = NoCall /\ Goto(o, "replace")
     \/ At(o, "abandon") /\ cacheLock' = NoCall /\ Goto(o, "idle")
     \/ pc[o] \in {"release", "abandon"} /\ cacheLock' = Stuck /\ Goto(o, "idle")
  /\ UNCHANGED <<writer, seen, cur, cand, wrote, using, cache, memory, latest, now>>

\* updateStandardsLockfile(options.writer, ...): the writer is called ...
Replace(o) ==
  /\ At(o, "replace")
  /\ Writer!Request(o, seen[o], cand[o])
  /\ Goto(o, "activating")
  /\ UNCHANGED <<seen, cur, cand, wrote, using, cache, cacheLock, memory, latest, now>>

\* ... it replaces the file, for an activation or for a rollback ...
WriterCommits(o) ==
  /\ Writer!Swap(o)
  /\ wrote' = [wrote EXCEPT ![o] = file'.ino]
  /\ UNCHANGED <<pc, seen, cur, cand, using, cache, cacheLock, receipts, rollback, minted,
                 latest, now>>

\* ... and answers.  Only success mints a receipt; an error is thrown to the caller.
\* Beyond MaxReceipts the caller drops the receipt.
Activated(o) ==
  /\ At(o, "activating")
  /\ Writer!Return(o)
  /\ \E r \in Writer!Answers(o) :
       IF r = "ok" /\ minted < MaxReceipts
       THEN /\ minted' = minted + 1
            /\ receipts' = receipts \cup {minted + 1}
            /\ rollback' = [rollback EXCEPT ![minted + 1] =
                 [exp |-> [ino |-> wrote[o], body |-> cand[o]], previous |-> cur[o]]]
       ELSE UNCHANGED <<minted, receipts, rollback>>
  /\ Goto(o, "idle")
  /\ UNCHANGED <<seen, cur, cand, wrote, using, cache, cacheLock, latest, now>>

\* rollbackStandardsUpdate: the receipt's state is fetched before the writer is awaited,
RollBack(o) ==
  /\ At(o, "idle")
  /\ \E r \in receipts :
       /\ using' = [using EXCEPT ![o] = r]
       /\ Writer!Request(o, rollback[r].exp, rollback[r].previous)
  /\ Goto(o, "rolling")
  /\ UNCHANGED <<seen, cur, cand, wrote, cache, cacheLock, memory, latest, now>>

\* and the receipt is deleted after the writer's success.
RolledBack(o) ==
  /\ At(o, "rolling")
  /\ Writer!Return(o)
  /\ \E r \in Writer!Answers(o) :
       receipts' = IF r = "ok" THEN receipts \ {using[o]} ELSE receipts
  /\ Goto(o, "idle")
  /\ UNCHANGED <<seen, cur, cand, wrote, using, cache, cacheLock, rollback, minted, latest, now>>

Step(o) ==
  \/ Observe(o) \/ ReadLock(o) \/ Prepare(o) \/ LookUp(o) \/ AcquireCacheLock(o)
  \/ StoreEntry(o) \/ RereadEntry(o) \/ ReleaseCacheLock(o) \/ Replace(o)
  \/ WriterCommits(o) \/ Activated(o) \/ RollBack(o) \/ RolledBack(o)

\* The registry's maintainers sign a new version.
RegistryPublishes ==
  /\ latest < MaxVersion
  /\ latest' = latest + 1
  /\ UNCHANGED <<writer, pc, seen, cur, cand, wrote, using, cache, cacheLock, memory, now>>

Tick ==
  /\ now < MaxTime
  /\ now' = now + 1
  /\ UNCHANGED <<writer, pc, seen, cur, cand, wrote, using, cache, cacheLock, memory, latest>>

\* The process ends: receipts are in-memory capabilities, the cache lock's holder dies.
Restart ==
  /\ \E o \in Calls : pc[o] # "idle"
  /\ pc' = [o \in Calls |-> "idle"]
  /\ phase' = [o \in Calls |-> "idle"]
  /\ receipts' = {}
  /\ cacheLock' = NoCall
  /\ UNCHANGED <<file, exp, new, seen, cur, cand, wrote, using, cache, rollback, minted,
                 latest, now>>

Next ==
  \/ \E o \in Calls : Step(o)
  \/ RegistryPublishes
  \/ Tick
  \/ Restart

Spec == Init /\ [][Next]_vars

-----------------------------------------------------------------------------
(* Properties *)

\* Can the pack of lockfile l be read?  The bundled version needs no cache.
Available(l) == l.ver = 0 \/ cache[l.ver] = "valid"

\* The pack of the active lockfile can be read from the cache, whoever activated it,
\* whatever failed or was rolled back: an active lock never points at an unpublished
\* pack.
ActiveIsCached == Available(file.body)

\* An activation replaces exactly the lockfile it verified the candidate against, and
\* never by an older trusted state, however stale what its caller read.
ActivationNeverDowngrades ==
  [][\A o \in Calls : pc[o] = "activating" /\ file' # file /\ phase'[o] # phase[o]
       => file.body = cur[o] /\ file.body.ver <= file'.body.ver]_vars

-----------------------------------------------------------------------------
(* Why they hold *)

Prepared == {"lookup", "lock", "store", "reread", "release", "abandon", "replace", "activating"}

\* The writer works for a call exactly while the call awaits it, on what the call asked.
WriterServes ==
  \A o \in Calls :
    /\ phase[o] # "idle" <=> pc[o] \in {"activating", "rolling"}
    /\ pc[o] = "activating" => exp[o] = seen[o] /\ new[o] = cand[o]
    /\ pc[o] = "rolling" => using[o] \in Receipts /\ Available(new[o])

\* A candidate was verified against the bytes that were observed, and is no older.
CandidateIsBound ==
  \A o \in Calls : pc[o] \in Prepared => cur[o] = seen[o].body /\ cur[o].ver <= cand[o].ver

\* What may become active is published, and what was active stays published.
PacksArePublished ==
  /\ \A o \in Calls : Available(cur[o])
  /\ \A o \in Calls : pc[o] \in {"release", "replace", "activating"} => Available(cand[o])
  /\ \A r \in Receipts : Available(rollback[r].previous)

\* The inductive invariant: bound candidates, published packs, and a writer that does
\* what it was asked.
UpdateInvariant ==
  /\ TypeOK
  /\ WriterServes
  /\ CandidateIsBound
  /\ PacksArePublished
  /\ ActiveIsCached
=============================================================================
