----------------------------- MODULE CacheStore -----------------------------
(***************************************************************************)
(* The entries of the standards cache: storeEntry, readEntry and           *)
(* quarantineCorruptEntry of packages/standards/src/standards-cache.ts.    *)
(*                                                                         *)
(* An entry lives at an address (kind and SHA-256).  It is written to one  *)
(* fixed temporary path per address, published by a hard link and left     *)
(* with one link when the temporary name is removed; a corrupt entry is    *)
(* copied to quarantine and its name removed.  Files are inodes that one   *)
(* or two names point to; what an inode contains is all that matters of    *)
(* its bytes.                                                              *)
(*                                                                         *)
(* The write lock is what GenerationLock promises: one process at a time.  *)
(* A member of Ops is one call in flight, in the process Home[o].  With    *)
(* Overlap a process runs several calls on one capability and may release  *)
(* it while a call is in flight, which the interface does not prevent.     *)
(***************************************************************************)
EXTENDS Integers, FiniteSets

CONSTANTS
  Addrs,          \* content addresses
  Procs, NoProc,  \* the processes sharing the cache
  Ops,            \* the calls in flight
  Home,           \* Home[o]: the process of call o
  Overlap,        \* whether calls of one process overlap
  MaxQuarantine,  \* MAX_STANDARDS_CACHE_QUARANTINE_ENTRIES
  MaxInodes,      \* bound: how many temporary files a behaviour creates
  MaxCrashes      \* bound: how many process deaths a behaviour contains

ASSUME StoreAssumption ==
  /\ IsFiniteSet(Addrs)
  /\ NoProc \notin Procs
  /\ Home \in [Ops -> Procs]
  /\ Overlap \in BOOLEAN
  /\ MaxQuarantine \in Nat \ {0}
  /\ MaxInodes \in Nat
  /\ MaxCrashes \in Nat

VARIABLES
  lock,     \* the process whose capability is active, or NoProc
  temp,     \* temp[a]: the inode at temporary/<kind>-<sha256>.partial, or None
  final,    \* final[a]: the inode at the address, or None
  body,     \* body[i]: what inode i contains
  quar,     \* quar[a]: the quarantine copy of a corrupt entry of address a
  inodes,   \* how many inodes have been created
  pc,       \* pc[o]: the next step of call o
  addr,     \* addr[o]: the address call o is about
  seen,     \* seen[o]: the inode call o created or identified, or None
  valid,    \* valid[o]: the capability call o was given is still active
  result,   \* result[o]: what the last call o returned
  crashes   \* how many processes have died

files == <<temp, final, body, quar, inodes>>
vars  == <<lock, temp, final, body, quar, inodes, pc, addr, seen, valid, result,
           crashes>>

Inodes == 1 .. MaxInodes
None   == 0

Bodies  == {"partial", "good", "bad"}
Copies  == {"none", "partial", "full"}
Storing == {"s-lstat", "s-open", "s-write", "s-check", "s-link", "s-unlink", "s-verify"}
Quarantining == {"q-read", "q-capacity", "q-open", "q-write", "q-check", "q-unlink"}
TempHolding  == {"s-write", "s-check", "s-link", "s-unlink"}
PCs     == Storing \cup Quarantining \cup {"idle"}

Results == {"none", "stored", "read", "quarantined", "cache-miss", "unsafe-cache",
            "digest-mismatch", "concurrent-change", "entry-exists", "lock-invalid",
            "invalid-input", "quarantine-full", "io-failure"}

Quarantined == {a \in Addrs : quar[a] # "none"}

Links(i) == Cardinality({a \in Addrs : temp[a] = i})
              + Cardinality({a \in Addrs : final[a] = i})

TypeOK ==
  /\ lock \in Procs \cup {NoProc}
  /\ temp \in [Addrs -> Inodes \cup {None}]
  /\ final \in [Addrs -> Inodes \cup {None}]
  /\ body \in [Inodes -> Bodies]
  /\ quar \in [Addrs -> Copies]
  /\ inodes \in 0 .. MaxInodes
  /\ pc \in [Ops -> PCs]
  /\ addr \in [Ops -> Addrs]
  /\ seen \in [Ops -> Inodes \cup {None}]
  /\ valid \in [Ops -> BOOLEAN]
  /\ result \in [Ops -> Results]
  /\ crashes \in 0 .. MaxCrashes

Init ==
  /\ lock = NoProc
  /\ temp = [a \in Addrs |-> None]
  /\ final = [a \in Addrs |-> None]
  /\ body = [i \in Inodes |-> "partial"]
  /\ quar = [a \in Addrs |-> "none"]
  /\ inodes = 0
  /\ pc = [o \in Ops |-> "idle"]
  /\ addr \in [Ops -> Addrs]
  /\ seen = [o \in Ops |-> None]
  /\ valid = [o \in Ops |-> FALSE]
  /\ result = [o \in Ops |-> "none"]
  /\ crashes = 0

-----------------------------------------------------------------------------

Goto(o, where) == pc' = [pc EXCEPT ![o] = where]

Return(o, code) ==
  /\ Goto(o, "idle")
  /\ seen' = [seen EXCEPT ![o] = None]
  /\ valid' = [valid EXCEPT ![o] = FALSE]
  /\ result' = [result EXCEPT ![o] = code]

\* A call goes on to its next step with what it has seen so far.
Continue(o, where) == Goto(o, where) /\ UNCHANGED <<seen, valid, result>>

\* How a call ends when lstat finds nothing, or another file, at a path.
Mismatch(i) == IF i = None THEN "io-failure" ELSE "concurrent-change"

\* Does the capability of the call pass #requireLock?
HasLock(o) == valid[o]

Writers(p) == {o \in Ops : Home[o] = p /\ pc[o] \in Storing \cup Quarantining}

\* A process that works one call at a time starts a mutation, and releases the
\* capability, only when no mutation is in flight.
Quiet(p) == Overlap \/ Writers(p) = {}

\* A mutation begins with #requireLock.
Begin(o, first, a) ==
  /\ pc[o] = "idle"
  /\ addr' = [addr EXCEPT ![o] = a]
  /\ IF lock = Home[o]
     THEN /\ Goto(o, first)
          /\ valid' = [valid EXCEPT ![o] = TRUE]
          /\ result' = [result EXCEPT ![o] = "none"]
          /\ UNCHANGED seen
     ELSE Return(o, "lock-invalid")
  /\ UNCHANGED <<lock, files, crashes>>

StartStore(o)      == Quiet(Home[o]) /\ \E a \in Addrs : Begin(o, "s-lstat", a)
StartQuarantine(o) == Quiet(Home[o]) /\ \E a \in Addrs : Begin(o, "q-read", a)

-----------------------------------------------------------------------------
(* readEntry.  #readExact compares path and handle before and after it reads,  *)
(* so that what it returns is what the address held at one instant.            *)

ReadCode(a) ==
  LET i == final[a] IN
  IF i = None THEN "cache-miss"
  ELSE IF Links(i) # 1 THEN "unsafe-cache"
  ELSE IF body[i] # "good" THEN "digest-mismatch"
  ELSE "read"

ReadEntry(o) ==
  /\ pc[o] = "idle"
  /\ \E a \in Addrs : addr' = [addr EXCEPT ![o] = a] /\ Return(o, ReadCode(a))
  /\ UNCHANGED <<lock, files, crashes>>

-----------------------------------------------------------------------------
(* storeEntry *)

\* An existing destination is preserved.
StoreLstat(o) ==
  /\ pc[o] = "s-lstat"
  /\ IF final[addr[o]] # None THEN Return(o, "entry-exists")
     ELSE Continue(o, "s-open")
  /\ UNCHANGED <<lock, files, addr, crashes>>

\* open(O_CREAT | O_EXCL) of the one temporary path of the address.
StoreOpen(o) ==
  /\ pc[o] = "s-open"
  /\ IF temp[addr[o]] # None
     THEN Return(o, "io-failure") /\ UNCHANGED files
     ELSE /\ inodes < MaxInodes
          /\ inodes' = inodes + 1
          /\ temp' = [temp EXCEPT ![addr[o]] = inodes']
          /\ seen' = [seen EXCEPT ![o] = inodes']
          /\ Goto(o, "s-write")
          /\ UNCHANGED <<final, body, quar, valid, result>>
  /\ UNCHANGED <<lock, addr, crashes>>

\* writeFile, sync and close.
StoreWrite(o) ==
  /\ pc[o] = "s-write"
  /\ body' = [body EXCEPT ![seen[o]] = "good"]
  /\ Goto(o, "s-check")
  /\ UNCHANGED <<lock, temp, final, quar, inodes, addr, seen, valid, result, crashes>>

\* The temporary path still names the written inode, with one link, and the lock
\* is still held.
StoreCheck(o) ==
  /\ pc[o] = "s-check"
  /\ IF temp[addr[o]] # seen[o] \/ Links(seen[o]) # 1 THEN Return(o, Mismatch(temp[addr[o]]))
     ELSE IF ~HasLock(o) THEN Return(o, "lock-invalid")
     ELSE Continue(o, "s-link")
  /\ UNCHANGED <<lock, files, addr, crashes>>

\* link never overwrites; a failure leaves the temporary file behind.
StoreLink(o) ==
  /\ pc[o] = "s-link"
  /\ IF final[addr[o]] # None \/ temp[addr[o]] = None
     THEN Return(o, "io-failure") /\ UNCHANGED final
     ELSE /\ final' = [final EXCEPT ![addr[o]] = temp[addr[o]]]
          /\ Continue(o, "s-unlink")
  /\ UNCHANGED <<lock, temp, body, quar, inodes, addr, crashes>>

\* The temporary name is removed after a check of the two links.
StoreUnlink(o) ==
  /\ pc[o] = "s-unlink"
  /\ IF temp[addr[o]] # seen[o] \/ Links(seen[o]) # 2
     THEN Return(o, Mismatch(temp[addr[o]])) /\ UNCHANGED temp
     ELSE /\ temp' = [temp EXCEPT ![addr[o]] = None]
          /\ Continue(o, "s-verify")
  /\ UNCHANGED <<lock, final, body, quar, inodes, addr, crashes>>

\* The published inode is checked and read back with its digest.
StoreVerify(o) ==
  /\ pc[o] = "s-verify"
  /\ Return(o, IF final[addr[o]] # seen[o] \/ Links(seen[o]) # 1 THEN Mismatch(final[addr[o]])
               ELSE IF ReadCode(addr[o]) # "read" THEN ReadCode(addr[o])
               ELSE "stored")
  /\ UNCHANGED <<lock, files, addr, crashes>>

-----------------------------------------------------------------------------
(* quarantineCorruptEntry *)

\* Faulty variant: an entry is quarantined whatever its digest is.
QuarantineReadAny(o) ==
  /\ pc[o] = "q-read"
  /\ IF ReadCode(addr[o]) \in {"read", "digest-mismatch"}
     THEN /\ Goto(o, "q-capacity")
          /\ seen' = [seen EXCEPT ![o] = final[addr[o]]]
          /\ UNCHANGED <<valid, result>>
     ELSE Return(o, ReadCode(addr[o]))
  /\ UNCHANGED <<lock, files, addr, crashes>>

\* Only a readable entry whose digest differs is quarantined.
QuarantineRead(o) ==
  LET code == ReadCode(addr[o]) IN
  /\ pc[o] = "q-read"
  /\ IF code = "digest-mismatch"
     THEN /\ Goto(o, "q-capacity")
          /\ seen' = [seen EXCEPT ![o] = final[addr[o]]]
          /\ UNCHANGED <<valid, result>>
     ELSE Return(o, IF code = "read" THEN "invalid-input" ELSE code)
  /\ UNCHANGED <<lock, files, addr, crashes>>

\* Faulty variant: the limit is compared with > instead of >=.
QuarantineCapacityOff(o) ==
  /\ pc[o] = "q-capacity"
  /\ IF Cardinality(Quarantined) > MaxQuarantine
     THEN Return(o, "quarantine-full")
     ELSE IF ~HasLock(o) THEN Return(o, "lock-invalid")
     ELSE Continue(o, "q-open")
  /\ UNCHANGED <<lock, files, addr, crashes>>

\* #assertQuarantineCapacity, then #requireLock.
QuarantineCapacity(o) ==
  /\ pc[o] = "q-capacity"
  /\ IF Cardinality(Quarantined) >= MaxQuarantine
     THEN Return(o, "quarantine-full")
     ELSE IF ~HasLock(o) THEN Return(o, "lock-invalid")
     ELSE Continue(o, "q-open")
  /\ UNCHANGED <<lock, files, addr, crashes>>

\* The copy is created exclusively; an existing one is reused only when it is
\* complete and equal.
QuarantineOpen(o) ==
  /\ pc[o] = "q-open"
  /\ \/ /\ quar[addr[o]] = "none"
        /\ quar' = [quar EXCEPT ![addr[o]] = "partial"]
        /\ Continue(o, "q-write")
     \/ /\ quar[addr[o]] = "partial"
        /\ Return(o, "unsafe-cache") /\ UNCHANGED quar
     \/ /\ quar[addr[o]] = "full"
        /\ Continue(o, "q-check") /\ UNCHANGED quar
  /\ UNCHANGED <<lock, temp, final, body, inodes, addr, crashes>>

\* Faulty variant: nobody waits for the copy to be written.
QuarantineWriteUnawaited(o) ==
  /\ pc[o] = "q-write"
  /\ Goto(o, "q-check")
  /\ UNCHANGED <<lock, files, addr, seen, valid, result, crashes>>

QuarantineWrite(o) ==
  /\ pc[o] = "q-write"
  /\ quar' = [quar EXCEPT ![addr[o]] = "full"]
  /\ Goto(o, "q-check")
  /\ UNCHANGED <<lock, temp, final, body, inodes, addr, seen, valid, result, crashes>>

\* The lock is still held and the path still names the corrupt inode.
QuarantineCheck(o) ==
  /\ pc[o] = "q-check"
  /\ IF ~HasLock(o) THEN Return(o, "lock-invalid")
     ELSE IF final[addr[o]] # seen[o] THEN Return(o, Mismatch(final[addr[o]]))
     ELSE Continue(o, "q-unlink")
  /\ UNCHANGED <<lock, files, addr, crashes>>

\* unlink removes whatever the path names by now.
QuarantineUnlink(o) ==
  /\ pc[o] = "q-unlink"
  /\ final' = [final EXCEPT ![addr[o]] = None]
  /\ Return(o, IF final[addr[o]] = None THEN "io-failure" ELSE "quarantined")
  /\ UNCHANGED <<lock, temp, body, quar, inodes, addr, crashes>>

-----------------------------------------------------------------------------
(* The lock, failures and the disk *)

AcquireLock(p) ==
  /\ lock = NoProc
  /\ lock' = p
  /\ UNCHANGED <<files, pc, addr, seen, valid, result, crashes>>

ReleaseLock(p) ==
  /\ lock = p
  /\ Quiet(p)
  /\ lock' = NoProc
  /\ valid' = [o \in Ops |-> Home[o] # p /\ valid[o]]
  /\ UNCHANGED <<files, pc, addr, seen, result, crashes>>

\* A file system call of a mutation fails; nothing is cleaned up.
IoFails(o) ==
  /\ pc[o] \in Storing \cup Quarantining
  /\ Return(o, "io-failure")
  /\ UNCHANGED <<lock, files, addr, crashes>>

\* Bytes of a published entry rot without a change of length.
Corrupt(a) ==
  /\ final[a] # None
  /\ body[final[a]] = "good"
  /\ body' = [body EXCEPT ![final[a]] = "bad"]
  /\ UNCHANGED <<lock, temp, final, quar, inodes, pc, addr, seen, valid, result, crashes>>

Crash(p) ==
  /\ lock = p \/ \E o \in Ops : Home[o] = p /\ pc[o] # "idle"
  /\ crashes < MaxCrashes
  /\ crashes' = crashes + 1
  /\ lock' = IF lock = p THEN NoProc ELSE lock
  /\ pc' = [o \in Ops |-> IF Home[o] = p THEN "idle" ELSE pc[o]]
  /\ seen' = [o \in Ops |-> IF Home[o] = p THEN None ELSE seen[o]]
  /\ valid' = [o \in Ops |-> Home[o] # p /\ valid[o]]
  /\ UNCHANGED <<files, addr, result>>

Call(o) ==
  \/ StartStore(o) \/ StoreLstat(o) \/ StoreOpen(o) \/ StoreWrite(o) \/ StoreCheck(o)
  \/ StoreLink(o) \/ StoreUnlink(o) \/ StoreVerify(o)
  \/ ReadEntry(o)
  \/ StartQuarantine(o) \/ QuarantineRead(o) \/ QuarantineCapacity(o)
  \/ QuarantineOpen(o) \/ QuarantineWrite(o) \/ QuarantineCheck(o) \/ QuarantineUnlink(o)
  \/ IoFails(o)

Next ==
  \/ \E o \in Ops : Call(o)
  \/ \E p \in Procs : AcquireLock(p) \/ ReleaseLock(p) \/ Crash(p)
  \/ \E a \in Addrs : Corrupt(a)

Spec == Init /\ [][Next]_vars

-----------------------------------------------------------------------------
(* Properties *)

\* A name in the content store never points to an incomplete file, whenever a
\* process dies and whichever calls race: storeEntry publishes after the bytes
\* are written and synchronised.
PublishedIsComplete ==
  \A a \in Addrs : final[a] # None => body[final[a]] # "partial"

\* Valid data is never replaced or removed: storeEntry preserves an existing
\* entry and quarantineCorruptEntry removes only the corrupt entry it copied.
ValidDataPreserved ==
  [][\A a \in Addrs : final[a] # None /\ body[final[a]] = "good" /\ body' = body
       => final'[a] = final[a]]_vars

\* A corrupt entry disappears only after a complete copy of it is in quarantine,
\* also when an earlier quarantine of the same address was interrupted.
EvidenceKept ==
  [][\A a \in Addrs : final[a] # None /\ final'[a] = None => quar[a] = "full"]_vars

\* quarantine/ never holds more files than its limit, although the count and the
\* creation are separate steps.
QuarantineBounded ==
  Cardinality(Quarantined) <= MaxQuarantine

-----------------------------------------------------------------------------
(* Why they hold *)

Mutating(o) == pc[o] \in Storing \cup Quarantining

\* A capability that passes #requireLock is the one of the current generation.
CallsHoldLock == \A o \in Ops : valid[o] => lock = Home[o]

\* The exclusive temporary file belongs to the one call that created it.
TempIsOwned ==
  /\ \A o \in Ops : pc[o] \in TempHolding => seen[o] # None /\ temp[addr[o]] = seen[o]
  /\ \A o, w \in Ops :
       pc[o] \in TempHolding /\ pc[w] \in TempHolding /\ addr[o] = addr[w] => o = w

WrittenBeforeLink ==
  \A o \in Ops : pc[o] \in TempHolding \ {"s-write"} => body[seen[o]] # "partial"

CopiedBeforeRemoval ==
  \A o \in Ops :
    /\ pc[o] = "q-write" => quar[addr[o]] # "none"
    /\ pc[o] \in {"q-check", "q-unlink"} => quar[addr[o]] = "full"

\* Callers that await each call before the next never have two in flight.
OneMutation ==
  ~Overlap =>
    /\ \A o \in Ops : Mutating(o) => valid[o]
    /\ \A o, w \in Ops : Mutating(o) /\ Mutating(w) => o = w

\* What quarantine is about to remove is the corrupt inode it read, and the room it
\* counted is still there.
QuarantineIsCurrent ==
  ~Overlap =>
    \A o \in Ops :
      /\ pc[o] \in Quarantining \ {"q-read"} =>
           seen[o] # None /\ final[addr[o]] = seen[o] /\ body[seen[o]] = "bad"
      /\ pc[o] = "q-open" => Cardinality(Quarantined) < MaxQuarantine

\* The inductive invariant of the entry store: every call in flight owns its
\* temporary file and has done what its next step relies on; it is what makes
\* publication and quarantine of standards-cache.ts safe without a rollback.
StoreInvariant ==
  /\ TypeOK
  /\ CallsHoldLock
  /\ TempIsOwned
  /\ WrittenBeforeLink
  /\ PublishedIsComplete
  /\ CopiedBeforeRemoval
  /\ OneMutation
  /\ QuarantineIsCurrent
  /\ ~Overlap => QuarantineBounded
=============================================================================
