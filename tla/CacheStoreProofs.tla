-------------------------- MODULE CacheStoreProofs --------------------------
EXTENDS CacheStore, FiniteSetTheorems, TLAPS

LEMMA NotAnInode == None \notin Inodes
  BY DEF None, Inodes

LEMMA MismatchType == \A i : Mismatch(i) \in Results
  BY DEF Mismatch, Results

LEMMA ReadCodeType == \A a \in Addrs : ReadCode(a) \in Results
  BY DEF ReadCode, Results

-----------------------------------------------------------------------------
(* Types *)

\* What the end of a call and the change of one program counter leave well typed.
LEMMA ReturnType ==
  ASSUME TypeOK, NEW o \in Ops, NEW code \in Results, Return(o, code)
  PROVE  /\ pc' \in [Ops -> PCs]
         /\ seen' \in [Ops -> Inodes \cup {None}]
         /\ valid' \in [Ops -> BOOLEAN]
         /\ result' \in [Ops -> Results]
  BY DEF TypeOK, Return, Goto, PCs

LEMMA ContinueType ==
  ASSUME TypeOK, NEW o \in Ops, NEW where \in PCs, Continue(o, where)
  PROVE  /\ pc' \in [Ops -> PCs]
         /\ seen' \in [Ops -> Inodes \cup {None}]
         /\ valid' \in [Ops -> BOOLEAN]
         /\ result' \in [Ops -> Results]
  BY DEF TypeOK, Continue, Goto

LEMMA BeginType ==
  ASSUME TypeOK, NEW o \in Ops, NEW where \in PCs, NEW a \in Addrs, Begin(o, where, a)
  PROVE  TypeOK'
  <1>1. "lock-invalid" \in Results
    BY DEF Results
  <1>2. CASE lock = Home[o]
    BY <1>2 DEF Begin, Goto, TypeOK, Results, files
  <1>3. CASE lock # Home[o]
    <2>1. Return(o, "lock-invalid")
      BY <1>3 DEF Begin
    <2> QED BY <1>1, <2>1, ReturnType DEF Begin, TypeOK, files
  <1> QED BY <1>2, <1>3

\* A call that only looks at the disk moves on or returns.
LEMMA LooksType ==
  ASSUME TypeOK, NEW o \in Ops, UNCHANGED <<lock, files, addr, crashes>>,
         \/ \E where \in PCs : Continue(o, where)
         \/ \E code \in Results : Return(o, code)
  PROVE  TypeOK'
  BY ContinueType, ReturnType DEF TypeOK, files

LEMMA CallType ==
  ASSUME TypeOK, NEW o \in Ops, Call(o)
  PROVE  TypeOK'
  <1> USE DEF Storing, Quarantining
  <1>1. CASE StartStore(o) \/ StartQuarantine(o)
    BY <1>1, BeginType DEF StartStore, StartQuarantine, PCs
  <1>2. CASE StoreLstat(o) \/ StoreCheck(o) \/ QuarantineCapacity(o) \/ QuarantineCheck(o)
             \/ IoFails(o)
    <2>1. /\ UNCHANGED <<lock, files, addr, crashes>>
          /\ \/ \E where \in PCs : Continue(o, where)
             \/ \E code \in Results : Return(o, code)
      BY <1>2, MismatchType
         DEF StoreLstat, StoreCheck, QuarantineCapacity, QuarantineCheck, IoFails, PCs, Results
    <2> QED BY <2>1, LooksType
  <1>3. CASE StoreVerify(o)
    <2>1. \E code \in Results : Return(o, code)
      BY <1>3, ReadCodeType, MismatchType DEF StoreVerify, Results, TypeOK
    <2> QED BY <1>3, <2>1, LooksType DEF StoreVerify
  <1>4. CASE ReadEntry(o)
    <2>1. PICK a \in Addrs : addr' = [addr EXCEPT ![o] = a] /\ Return(o, ReadCode(a))
      BY <1>4 DEF ReadEntry
    <2> QED BY <1>4, <2>1, ReadCodeType, ReturnType DEF ReadEntry, TypeOK, files
  <1>5. CASE QuarantineRead(o)
    <2>1. CASE ReadCode(addr[o]) = "digest-mismatch"
      BY <1>5, <2>1 DEF QuarantineRead, TypeOK, Goto, PCs, files
    <2>2. CASE ReadCode(addr[o]) # "digest-mismatch"
      <3>1. \E code \in Results : Return(o, code)
        BY <1>5, <2>2, ReadCodeType DEF QuarantineRead, Results, TypeOK
      <3> QED BY <1>5, <3>1, LooksType DEF QuarantineRead
    <2> QED BY <2>1, <2>2
  <1>6. CASE StoreOpen(o)
    <2>1. CASE temp[addr[o]] # None
      <3>1. Return(o, "io-failure") /\ UNCHANGED <<lock, files, addr, crashes>>
        BY <1>6, <2>1 DEF StoreOpen
      <3> QED BY <3>1, LooksType DEF Results
    <2>2. CASE temp[addr[o]] = None
      <3>1. inodes + 1 \in Inodes
        BY <1>6, <2>2, StoreAssumption DEF StoreOpen, TypeOK, Inodes
      <3>2. inodes' \in 0 .. MaxInodes
        BY <1>6, <2>2, <3>1, StoreAssumption DEF StoreOpen, Inodes
      <3> QED BY <1>6, <2>2, <3>1, <3>2 DEF StoreOpen, TypeOK, Goto, PCs
    <2> QED BY <2>1, <2>2
  <1>7. CASE StoreWrite(o)
    BY <1>7 DEF StoreWrite, TypeOK, Goto, PCs, Bodies
  <1>8. CASE StoreLink(o) \/ StoreUnlink(o) \/ QuarantineOpen(o) \/ QuarantineUnlink(o)
    <2>1. \/ \E where \in PCs : Continue(o, where)
          \/ \E code \in Results : Return(o, code)
      BY <1>8, MismatchType
         DEF StoreLink, StoreUnlink, QuarantineOpen, QuarantineUnlink, PCs, Results
    <2>2. /\ pc' \in [Ops -> PCs]
          /\ seen' \in [Ops -> Inodes \cup {None}]
          /\ valid' \in [Ops -> BOOLEAN]
          /\ result' \in [Ops -> Results]
      BY <2>1, ContinueType, ReturnType
    <2>3. temp' \in [Addrs -> Inodes \cup {None}] /\ final' \in [Addrs -> Inodes \cup {None}]
      BY <1>8 DEF TypeOK, StoreLink, StoreUnlink, QuarantineOpen, QuarantineUnlink
    <2>4. quar' \in [Addrs -> Copies]
      BY <1>8 DEF TypeOK, StoreLink, StoreUnlink, QuarantineOpen, QuarantineUnlink, Copies
    <2>5. UNCHANGED <<lock, body, inodes, addr, crashes>>
      BY <1>8 DEF StoreLink, StoreUnlink, QuarantineOpen, QuarantineUnlink
    <2> QED BY <2>2, <2>3, <2>4, <2>5 DEF TypeOK
  <1>9. CASE QuarantineWrite(o)
    BY <1>9 DEF QuarantineWrite, TypeOK, Goto, PCs, Copies
  <1> QED BY <1>1, <1>2, <1>3, <1>4, <1>5, <1>6, <1>7, <1>8, <1>9 DEF Call

LEMMA TypeStep == TypeOK /\ [Next]_vars => TypeOK'
  <1> SUFFICES ASSUME TypeOK, [Next]_vars PROVE TypeOK'
    OBVIOUS
  <1>1. ASSUME NEW p \in Procs, AcquireLock(p) \/ ReleaseLock(p) PROVE TypeOK'
    BY <1>1 DEF AcquireLock, ReleaseLock, TypeOK, files
  <1>2. ASSUME NEW p \in Procs, Crash(p) PROVE TypeOK'
    BY <1>2, StoreAssumption DEF Crash, TypeOK, files, PCs
  <1>3. ASSUME NEW a \in Addrs, Corrupt(a) PROVE TypeOK'
    BY <1>3 DEF Corrupt, TypeOK, Bodies
  <1>4. CASE UNCHANGED vars
    BY <1>4 DEF vars, TypeOK
  <1> QED BY <1>1, <1>2, <1>3, <1>4, CallType DEF Next

-----------------------------------------------------------------------------
(* Frames: what a call leaves alone *)

\* A call touches neither the lock nor the local state of another call.
LEMMA OtherCallsKeep ==
  ASSUME TypeOK, NEW o \in Ops, Call(o), NEW w \in Ops, w # o
  PROVE  pc'[w] = pc[w] /\ addr'[w] = addr[w] /\ seen'[w] = seen[w] /\ valid'[w] = valid[w]
  BY DEF TypeOK, Call, StartStore, StoreLstat, StoreOpen, StoreWrite, StoreCheck, StoreLink,
         StoreUnlink, StoreVerify, ReadEntry, StartQuarantine, QuarantineRead,
         QuarantineCapacity, QuarantineOpen, QuarantineWrite, QuarantineCheck,
         QuarantineUnlink, IoFails, Begin, Return, Continue, Goto

LEMMA LockKept ==
  ASSUME NEW o \in Ops, Call(o)
  PROVE  lock' = lock
  BY DEF Call, StartStore, StoreLstat, StoreOpen, StoreWrite, StoreCheck, StoreLink,
         StoreUnlink, StoreVerify, ReadEntry, StartQuarantine, QuarantineRead,
         QuarantineCapacity, QuarantineOpen, QuarantineWrite, QuarantineCheck,
         QuarantineUnlink, IoFails, Begin

\* Each of the files is written by two steps at most.
LEMMA FilesKept ==
  ASSUME NEW o \in Ops, Call(o)
  PROVE  /\ temp' = temp \/ StoreOpen(o) \/ StoreUnlink(o)
         /\ final' = final \/ StoreLink(o) \/ QuarantineUnlink(o)
         /\ body' = body \/ StoreWrite(o)
         /\ quar' = quar \/ QuarantineOpen(o) \/ QuarantineWrite(o)
  BY DEF Call, StartStore, StoreLstat, StoreOpen, StoreWrite, StoreCheck, StoreLink,
         StoreUnlink, StoreVerify, ReadEntry, StartQuarantine, QuarantineRead,
         QuarantineCapacity, QuarantineOpen, QuarantineWrite, QuarantineCheck,
         QuarantineUnlink, IoFails, Begin, Return, Continue, Goto, files

\* What a completed file contains never becomes incomplete again.
LEMMA BodiesGrow ==
  ASSUME TypeOK, NEW o \in Ops, Call(o), NEW i \in Inodes, body[i] # "partial"
  PROVE  body'[i] # "partial"
  BY FilesKept DEF TypeOK, StoreWrite

LEMMA CopiesGrow ==
  ASSUME TypeOK, NEW o \in Ops, Call(o), NEW a \in Addrs
  PROVE  /\ quar[a] # "none" => quar'[a] # "none"
         /\ quar[a] = "full" => quar'[a] = "full"
  <1>1. CASE quar' = quar
    BY <1>1
  <1>2. CASE QuarantineOpen(o)
    BY <1>2 DEF QuarantineOpen, TypeOK
  <1>3. CASE QuarantineWrite(o)
    BY <1>3 DEF QuarantineWrite, TypeOK
  <1> QED BY <1>1, <1>2, <1>3, FilesKept

-----------------------------------------------------------------------------
(* The conjuncts of StoreInvariant, one lemma each: a call preserves them *)

LEMMA CallKeepsLock ==
  ASSUME TypeOK, CallsHoldLock, NEW o \in Ops, Call(o)
  PROVE  CallsHoldLock'
  <1>1. valid'[o] => lock = Home[o]
    BY DEF TypeOK, CallsHoldLock, Call, StartStore, StoreLstat, StoreOpen, StoreWrite,
           StoreCheck, StoreLink, StoreUnlink, StoreVerify, ReadEntry, StartQuarantine,
           QuarantineRead, QuarantineCapacity, QuarantineOpen, QuarantineWrite,
           QuarantineCheck, QuarantineUnlink, IoFails, Begin, Return, Continue, Goto
  <1> QED BY <1>1, OtherCallsKeep, LockKept DEF CallsHoldLock

\* A call that holds a temporary file after its step either held it before, with
\* the same address and inode, or has just created it.
LEMMA HoldsTemp ==
  ASSUME TypeOK, NEW o \in Ops, Call(o), pc'[o] \in TempHolding
  PROVE  /\ addr'[o] = addr[o]
         /\ \/ /\ pc[o] \in TempHolding /\ seen'[o] = seen[o] /\ temp' = temp
               /\ pc'[o] # "s-write"
               /\ pc[o] = "s-write" => body' = [body EXCEPT ![seen[o]] = "good"]
            \/ /\ pc'[o] = "s-write" /\ temp[addr[o]] = None /\ inodes' \in Inodes
               /\ seen'[o] = inodes' /\ temp' = [temp EXCEPT ![addr[o]] = inodes']
  <1>1. CASE StoreOpen(o)
    BY <1>1, StoreAssumption DEF StoreOpen, TypeOK, Goto, TempHolding, Return, Inodes
  <1>2. CASE StoreWrite(o)
    BY <1>2 DEF StoreWrite, TypeOK, Goto, TempHolding
  <1>3. CASE StoreCheck(o)
    BY <1>3 DEF StoreCheck, TypeOK, Goto, TempHolding, Continue, Return, files
  <1>4. CASE StoreLink(o)
    BY <1>4 DEF StoreLink, TypeOK, Goto, TempHolding, Continue, Return
  <1>5. pc'[o] \notin TempHolding \/ StoreOpen(o) \/ StoreWrite(o) \/ StoreCheck(o)
        \/ StoreLink(o)
    BY DEF TypeOK, TempHolding, Call, StartStore, StoreLstat, StoreUnlink, StoreVerify,
           ReadEntry, StartQuarantine, QuarantineRead, QuarantineCapacity, QuarantineOpen,
           QuarantineWrite, QuarantineCheck, QuarantineUnlink, IoFails, Begin, Return,
           Continue, Goto
  <1> QED BY <1>1, <1>2, <1>3, <1>4, <1>5

LEMMA CallKeepsTemp ==
  ASSUME TypeOK, TempIsOwned, NEW o \in Ops, Call(o)
  PROVE  TempIsOwned'
  <1>1. ASSUME NEW w \in Ops, w # o, pc'[w] \in TempHolding
        PROVE  seen'[w] # None /\ temp'[addr'[w]] = seen'[w]
    <2>1. /\ pc[w] \in TempHolding /\ addr'[w] = addr[w] /\ seen'[w] = seen[w]
          /\ temp[addr[w]] = seen[w] /\ seen[w] # None
      BY <1>1, OtherCallsKeep DEF TempIsOwned
    <2>2. CASE temp' = temp
      BY <2>1, <2>2
    <2>3. CASE StoreOpen(o)
      BY <2>1, <2>3 DEF StoreOpen, TypeOK, files
    <2>4. CASE StoreUnlink(o)
      <3>1. addr[o] # addr[w]
        BY <1>1, <2>1, <2>4 DEF StoreUnlink, TempIsOwned, TempHolding
      <3> QED BY <2>1, <2>4, <3>1 DEF StoreUnlink, TypeOK
    <2> QED BY <2>2, <2>3, <2>4, FilesKept
  <1>2. ASSUME pc'[o] \in TempHolding
        PROVE  seen'[o] # None /\ temp'[addr'[o]] = seen'[o]
    BY <1>2, HoldsTemp, NotAnInode DEF TempIsOwned, TypeOK
  <1>3. ASSUME NEW w \in Ops, w # o, pc'[w] \in TempHolding, pc'[o] \in TempHolding
        PROVE  addr'[o] # addr'[w]
    <2>1. pc[w] \in TempHolding /\ addr'[w] = addr[w] /\ temp[addr[w]] # None
      BY <1>3, OtherCallsKeep DEF TempIsOwned
    <2> QED BY <1>3, <2>1, HoldsTemp DEF TempIsOwned
  <1>4. ASSUME NEW v \in Ops, NEW w \in Ops, v # w, v # o, w # o,
               pc'[v] \in TempHolding, pc'[w] \in TempHolding
        PROVE  addr'[v] # addr'[w]
    BY <1>4, OtherCallsKeep DEF TempIsOwned
  <1> QED BY <1>1, <1>2, <1>3, <1>4 DEF TempIsOwned

LEMMA CallKeepsWritten ==
  ASSUME TypeOK, TempIsOwned, WrittenBeforeLink, NEW o \in Ops, Call(o)
  PROVE  WrittenBeforeLink'
  <1> SUFFICES ASSUME NEW w \in Ops, pc'[w] \in TempHolding \ {"s-write"}
               PROVE  body'[seen'[w]] # "partial"
    BY DEF WrittenBeforeLink
  <1>1. CASE w # o
    <2>1. seen'[w] = seen[w] /\ pc[w] \in TempHolding \ {"s-write"}
      BY <1>1, OtherCallsKeep
    <2>2. seen[w] \in Inodes /\ body[seen[w]] # "partial"
      BY <2>1 DEF TempIsOwned, WrittenBeforeLink, TypeOK
    <2> QED BY <2>1, <2>2, BodiesGrow
  <1>2. CASE w = o
    <2>1. seen'[o] = seen[o] /\ pc[o] \in TempHolding
          /\ (pc[o] = "s-write" => body' = [body EXCEPT ![seen[o]] = "good"])
      BY <1>2, HoldsTemp
    <2>2. seen[o] \in Inodes
      BY <2>1 DEF TempIsOwned, TypeOK
    <2>3. CASE pc[o] = "s-write"
      BY <1>2, <2>1, <2>2, <2>3 DEF TypeOK
    <2>4. CASE pc[o] # "s-write"
      BY <1>2, <2>1, <2>2, <2>4, BodiesGrow DEF WrittenBeforeLink
    <2> QED BY <2>3, <2>4
  <1> QED BY <1>1, <1>2

LEMMA CallKeepsPublished ==
  ASSUME TypeOK, TempIsOwned, WrittenBeforeLink, PublishedIsComplete, NEW o \in Ops, Call(o)
  PROVE  PublishedIsComplete'
  <1> SUFFICES ASSUME NEW a \in Addrs, final'[a] # None
               PROVE  body'[final'[a]] # "partial"
    BY DEF PublishedIsComplete
  <1>1. CASE final'[a] = final[a]
    BY <1>1, BodiesGrow DEF PublishedIsComplete, TypeOK
  <1>2. CASE final'[a] # final[a]
    <2>1. StoreLink(o)
      BY <1>2, FilesKept DEF QuarantineUnlink, TypeOK
    <2>2. a = addr[o] /\ final'[a] = seen[o] /\ seen[o] \in Inodes /\ body' = body
      BY <1>2, <2>1 DEF StoreLink, TypeOK, TempIsOwned, TempHolding
    <2> QED BY <2>1, <2>2 DEF StoreLink, WrittenBeforeLink, TempHolding
  <1> QED BY <1>1, <1>2

LEMMA CallKeepsCopied ==
  ASSUME TypeOK, CopiedBeforeRemoval, NEW o \in Ops, Call(o)
  PROVE  CopiedBeforeRemoval'
  <1>1. ASSUME NEW w \in Ops, w # o
        PROVE  /\ pc'[w] = "q-write" => quar'[addr'[w]] # "none"
               /\ pc'[w] \in {"q-check", "q-unlink"} => quar'[addr'[w]] = "full"
    <2>1. addr[w] \in Addrs /\ addr'[w] = addr[w] /\ pc'[w] = pc[w]
      BY <1>1, OtherCallsKeep DEF TypeOK
    <2> QED BY <2>1, CopiesGrow DEF CopiedBeforeRemoval
  <1>2. /\ pc'[o] = "q-write" => quar'[addr'[o]] # "none"
        /\ pc'[o] \in {"q-check", "q-unlink"} => quar'[addr'[o]] = "full"
    <2>1. CASE QuarantineOpen(o)
      BY <2>1 DEF QuarantineOpen, TypeOK, Goto, Return, Continue
    <2>2. CASE QuarantineWrite(o)
      BY <2>2 DEF QuarantineWrite, TypeOK, Goto
    <2>3. CASE QuarantineCheck(o)
      BY <2>3 DEF QuarantineCheck, CopiedBeforeRemoval, TypeOK, Goto, Return, Continue, files
    <2>4. \/ pc'[o] \notin {"q-write", "q-check", "q-unlink"}
          \/ QuarantineOpen(o) \/ QuarantineWrite(o) \/ QuarantineCheck(o)
      BY DEF TypeOK, Call, StartStore, StoreLstat, StoreOpen, StoreWrite, StoreCheck,
             StoreLink, StoreUnlink, StoreVerify, ReadEntry, StartQuarantine, QuarantineRead,
             QuarantineCapacity, QuarantineUnlink, IoFails, Begin, Return, Continue, Goto
    <2> QED BY <2>1, <2>2, <2>3, <2>4
  <1> QED BY <1>1, <1>2 DEF CopiedBeforeRemoval

\* A call in flight was in flight before, on the same capability, or has just
\* begun with the lock held and nothing else in flight in its process.
LEMMA MutatesOrBegins ==
  ASSUME TypeOK, NEW o \in Ops, Call(o), pc'[o] \in Storing \cup Quarantining
  PROVE  \/ Mutating(o) /\ valid'[o] = valid[o]
         \/ Quiet(Home[o]) /\ lock = Home[o] /\ valid'[o] = TRUE
  <1>1. CASE StartStore(o) \/ StartQuarantine(o)
    BY <1>1 DEF StartStore, StartQuarantine, Begin, Return, Goto, TypeOK, Storing, Quarantining
  <1>2. CASE ReadEntry(o) \/ IoFails(o) \/ StoreVerify(o) \/ QuarantineUnlink(o)
    BY <1>2 DEF ReadEntry, IoFails, StoreVerify, QuarantineUnlink, Return, Goto, TypeOK,
                Storing, Quarantining
  <1>3. CASE ~(StartStore(o) \/ StartQuarantine(o) \/ ReadEntry(o) \/ IoFails(o)
               \/ StoreVerify(o) \/ QuarantineUnlink(o))
    <2>1. Mutating(o)
      BY <1>3 DEF Call, StoreLstat, StoreOpen, StoreWrite, StoreCheck, StoreLink, StoreUnlink,
             QuarantineRead, QuarantineCapacity, QuarantineOpen, QuarantineWrite,
             QuarantineCheck, Mutating, Storing, Quarantining
    <2>2. valid'[o] = valid[o]
      BY <1>3 DEF Call, StoreLstat, StoreOpen, StoreWrite, StoreCheck, StoreLink, StoreUnlink,
             QuarantineRead, QuarantineCapacity, QuarantineOpen, QuarantineWrite,
             QuarantineCheck, Return, Continue, Goto, TypeOK, Storing, Quarantining
    <2> QED BY <2>1, <2>2
  <1> QED BY <1>1, <1>2, <1>3

LEMMA CallKeepsOneMutation ==
  ASSUME TypeOK, CallsHoldLock, OneMutation, NEW o \in Ops, Call(o)
  PROVE  OneMutation'
  <1> SUFFICES ASSUME ~Overlap
               PROVE  /\ \A w \in Ops : Mutating(w)' => valid'[w]
                      /\ \A v, w \in Ops : Mutating(v)' /\ Mutating(w)' => v = w
    BY DEF OneMutation
  <1>1. ASSUME NEW w \in Ops, w # o, Mutating(w)'
        PROVE  Mutating(w) /\ valid[w] /\ valid'[w] /\ lock = Home[w]
    BY <1>1, OtherCallsKeep DEF Mutating, OneMutation, CallsHoldLock
  <1>2. ASSUME Mutating(o)'
        PROVE  valid'[o] /\ \A w \in Ops : Mutating(w)' => w = o
    <2>1. \/ Mutating(o) /\ valid'[o] = valid[o]
          \/ Quiet(Home[o]) /\ lock = Home[o] /\ valid'[o] = TRUE
      BY <1>2, MutatesOrBegins DEF Mutating
    <2>2. CASE Mutating(o) /\ valid'[o] = valid[o]
      BY <1>1, <2>2 DEF OneMutation
    <2>3. CASE Quiet(Home[o]) /\ lock = Home[o] /\ valid'[o] = TRUE
      <3>1. ASSUME NEW w \in Ops, w # o, Mutating(w)' PROVE FALSE
        BY <1>1, <2>3, <3>1 DEF Quiet, Writers, Mutating
      <3> QED BY <2>3, <3>1
    <2> QED BY <2>1, <2>2, <2>3
  <1> QED BY <1>1, <1>2 DEF OneMutation

LEMMA QuarantineCount ==
  /\ IsFiniteSet(Quarantined) /\ Cardinality(Quarantined) \in Nat
  /\ IsFiniteSet(Quarantined') /\ Cardinality(Quarantined') \in Nat
  BY StoreAssumption, FS_Subset, FS_CardinalityType DEF Quarantined

\* A call that is not in flight leaves every file alone.
LEMMA IdleKeepsFiles ==
  ASSUME NEW o \in Ops, Call(o), ~Mutating(o)
  PROVE  UNCHANGED files
  BY DEF Mutating, Storing, Quarantining, Call, StartStore, StoreLstat, StoreOpen, StoreWrite,
         StoreCheck, StoreLink, StoreUnlink, StoreVerify, ReadEntry, StartQuarantine,
         QuarantineRead, QuarantineCapacity, QuarantineOpen, QuarantineWrite,
         QuarantineCheck, QuarantineUnlink, IoFails, Begin

LEMMA CallKeepsCurrent ==
  ASSUME TypeOK, PublishedIsComplete, OneMutation, QuarantineIsCurrent, NEW o \in Ops, Call(o)
  PROVE  QuarantineIsCurrent'
  <1> DEFINE Current(w) ==
        /\ pc[w] \in Quarantining \ {"q-read"} =>
             seen[w] # None /\ final[addr[w]] = seen[w] /\ body[seen[w]] = "bad"
        /\ pc[w] = "q-open" => Cardinality(Quarantined) < MaxQuarantine
  <1> SUFFICES ASSUME ~Overlap, NEW w \in Ops PROVE Current(w)'
    BY DEF QuarantineIsCurrent
  <1>0. Current(w) /\ Current(o)
    BY DEF QuarantineIsCurrent
  <1>1. CASE w # o
    <2>1. pc'[w] = pc[w] /\ addr'[w] = addr[w] /\ seen'[w] = seen[w]
      BY <1>1, OtherCallsKeep
    <2>2. CASE Mutating(w)
      <3>1. UNCHANGED files
        BY <1>1, <2>2, IdleKeepsFiles DEF OneMutation
      <3>2. Quarantined' = Quarantined
        BY <3>1 DEF Quarantined, files
      <3> QED BY <1>0, <2>1, <3>1, <3>2 DEF files
    <2>3. CASE ~Mutating(w)
      BY <2>1, <2>3 DEF Mutating, Quarantining
    <2> QED BY <2>2, <2>3
  <1>2. CASE w = o
    <2>1. CASE QuarantineRead(o)
      <3>1. CASE ReadCode(addr[o]) = "digest-mismatch"
        <4>1. final[addr[o]] \in Inodes /\ body[final[addr[o]]] = "bad"
          BY <3>1 DEF ReadCode, PublishedIsComplete, TypeOK, Bodies
        <4> QED BY <1>2, <2>1, <3>1, <4>1, NotAnInode DEF QuarantineRead, Goto, TypeOK, files
      <3>2. CASE ReadCode(addr[o]) # "digest-mismatch"
        BY <1>2, <2>1, <3>2 DEF QuarantineRead, Return, Goto, TypeOK, Quarantining
      <3> QED BY <3>1, <3>2
    <2>2. CASE QuarantineCapacity(o)
      <3>1. CASE pc'[o] = "idle"
        BY <1>2, <3>1 DEF Quarantining
      <3>2. CASE pc'[o] # "idle"
        <4>1. Continue(o, "q-open") /\ ~(Cardinality(Quarantined) >= MaxQuarantine)
          BY <2>2, <3>2 DEF QuarantineCapacity, Return, Goto, TypeOK
        <4>2. Quarantined' = Quarantined /\ UNCHANGED <<files, addr, seen>>
          BY <2>2, <4>1 DEF QuarantineCapacity, Continue, Quarantined, files
        <4>3. Cardinality(Quarantined)' < MaxQuarantine
          BY <4>1, <4>2, QuarantineCount, StoreAssumption
        <4>4. pc[o] = "q-capacity" /\ pc'[o] = "q-open"
          BY <2>2, <4>1 DEF QuarantineCapacity, Continue, Goto, TypeOK
        <4> QED BY <1>0, <1>2, <4>2, <4>3, <4>4 DEF files, Quarantining
      <3> QED BY <3>1, <3>2
    <2>3. CASE QuarantineOpen(o) \/ QuarantineWrite(o) \/ QuarantineCheck(o)
      <3>1. pc[o] \in Quarantining \ {"q-read"} /\ pc'[o] # "q-open"
        BY <2>3 DEF QuarantineOpen, QuarantineWrite, QuarantineCheck, Return, Continue, Goto,
                    TypeOK, Quarantining
      <3>2. UNCHANGED <<final, body, addr>> /\ (pc'[o] = "idle" \/ UNCHANGED seen)
        BY <2>3 DEF QuarantineOpen, QuarantineWrite, QuarantineCheck, Return, Continue, Goto,
                    TypeOK, files
      <3> QED BY <1>0, <1>2, <3>1, <3>2 DEF Quarantining
    <2>4. \/ pc'[o] \notin Quarantining \ {"q-read"}
          \/ QuarantineRead(o) \/ QuarantineCapacity(o)
          \/ QuarantineOpen(o) \/ QuarantineWrite(o) \/ QuarantineCheck(o)
      BY DEF TypeOK, Quarantining, Call, StartStore, StoreLstat, StoreOpen, StoreWrite,
             StoreCheck, StoreLink, StoreUnlink, StoreVerify, ReadEntry, StartQuarantine,
             QuarantineUnlink, IoFails, Begin, Return, Continue, Goto
    <2> QED BY <1>2, <2>1, <2>2, <2>3, <2>4 DEF Quarantining
  <1> QED BY <1>1, <1>2

LEMMA CallKeepsBound ==
  ASSUME TypeOK, CopiedBeforeRemoval, QuarantineIsCurrent, ~Overlap, QuarantineBounded,
         NEW o \in Ops, Call(o)
  PROVE  QuarantineBounded'
  <1>1. CASE quar' = quar
    BY <1>1 DEF QuarantineBounded, Quarantined
  <1>2. CASE QuarantineOpen(o)
    <2>1. Cardinality(Quarantined) < MaxQuarantine
      BY <1>2 DEF QuarantineOpen, QuarantineIsCurrent
    <2>2. Quarantined' \in SUBSET (Quarantined \cup {addr[o]})
      BY <1>2 DEF QuarantineOpen, Quarantined, TypeOK
    <2>3. /\ IsFiniteSet(Quarantined \cup {addr[o]})
          /\ Cardinality(Quarantined \cup {addr[o]}) <= Cardinality(Quarantined) + 1
      <3>1. /\ IsFiniteSet(Quarantined \cup {addr[o]})
            /\ \/ Cardinality(Quarantined \cup {addr[o]}) = Cardinality(Quarantined)
               \/ Cardinality(Quarantined \cup {addr[o]}) = Cardinality(Quarantined) + 1
        BY QuarantineCount, FS_AddElement, Zenon
      <3> QED BY <3>1, QuarantineCount
    <2>4. Cardinality(Quarantined') <= Cardinality(Quarantined \cup {addr[o]})
      BY <2>2, <2>3, FS_Subset
    <2>5. Cardinality(Quarantined \cup {addr[o]}) \in Nat
      BY <2>3, FS_CardinalityType
    <2> QED BY <2>1, <2>3, <2>4, <2>5, QuarantineCount, StoreAssumption DEF QuarantineBounded
  <1>3. CASE QuarantineWrite(o)
    <2>1. Quarantined' = Quarantined
      BY <1>3 DEF QuarantineWrite, Quarantined, TypeOK, CopiedBeforeRemoval
    <2> QED BY <2>1 DEF QuarantineBounded
  <1> QED BY <1>1, <1>2, <1>3, FilesKept

LEMMA CallKeepsInvariant ==
  ASSUME StoreInvariant, NEW o \in Ops, Call(o)
  PROVE  StoreInvariant'
  BY CallType, CallKeepsLock, CallKeepsTemp, CallKeepsWritten, CallKeepsPublished,
     CallKeepsCopied, CallKeepsOneMutation, CallKeepsCurrent, CallKeepsBound
     DEF StoreInvariant

-----------------------------------------------------------------------------
(* The steps that are not calls *)

\* The lock changes hands only while no call in flight relies on it.
LEMMA LockStep ==
  ASSUME StoreInvariant, NEW p \in Procs, AcquireLock(p) \/ ReleaseLock(p)
  PROVE  StoreInvariant'
  <1>1. TypeOK'
    BY TypeStep DEF StoreInvariant, Next
  <1>2. UNCHANGED <<files, pc, addr, seen>>
    BY DEF AcquireLock, ReleaseLock
  <1>3. \A o \in Ops : valid'[o] => valid[o]
    BY DEF AcquireLock, ReleaseLock
  <1>4. CallsHoldLock'
    BY <1>3, StoreAssumption
       DEF AcquireLock, ReleaseLock, CallsHoldLock, StoreInvariant
  <1>5. OneMutation'
    <2> SUFFICES ASSUME ~Overlap, NEW o \in Ops, Mutating(o) PROVE valid'[o]
      BY <1>2 DEF StoreInvariant, OneMutation, Mutating
    <2>1. valid[o] /\ lock = Home[o]
      BY DEF StoreInvariant, OneMutation, CallsHoldLock
    <2>2. CASE AcquireLock(p)
      BY <2>1, <2>2 DEF AcquireLock
    <2>3. CASE ReleaseLock(p)
      BY <2>1, <2>3 DEF ReleaseLock, Quiet, Writers, Mutating
    <2> QED BY <2>2, <2>3
  <1>6. TempIsOwned' /\ WrittenBeforeLink' /\ PublishedIsComplete' /\ CopiedBeforeRemoval'
    BY <1>2 DEF StoreInvariant, TempIsOwned, WrittenBeforeLink, PublishedIsComplete,
                CopiedBeforeRemoval, files
  <1>7. QuarantineIsCurrent' /\ (~Overlap => QuarantineBounded')
    <2>1. Quarantined' = Quarantined
      BY <1>2 DEF Quarantined, files
    <2> QED BY <1>2, <2>1 DEF StoreInvariant, QuarantineIsCurrent, QuarantineBounded, files
  <1> QED BY <1>1, <1>4, <1>5, <1>6, <1>7 DEF StoreInvariant

\* A process death forgets the calls of the process and leaves the disk alone.
LEMMA CrashStep ==
  ASSUME StoreInvariant, NEW p \in Procs, Crash(p)
  PROVE  StoreInvariant'
  <1>1. TypeOK'
    BY TypeStep DEF StoreInvariant, Next
  <1>2. UNCHANGED <<files, addr>>
    BY DEF Crash
  <1>3. ASSUME NEW o \in Ops
        PROVE  \/ pc'[o] = "idle" /\ ~valid'[o]
               \/ /\ pc'[o] = pc[o] /\ seen'[o] = seen[o] /\ valid'[o] = valid[o]
                  /\ Home[o] # p
    BY <1>3 DEF Crash, StoreInvariant, TypeOK
  <1>4. CallsHoldLock'
    BY <1>3 DEF Crash, CallsHoldLock, StoreInvariant
  <1>5. OneMutation'
    BY <1>3 DEF StoreInvariant, OneMutation, Mutating, Storing, Quarantining
  <1>6. TempIsOwned' /\ WrittenBeforeLink'
    BY <1>2, <1>3 DEF StoreInvariant, TempIsOwned, WrittenBeforeLink, TempHolding, files
  <1>7. PublishedIsComplete' /\ CopiedBeforeRemoval'
    BY <1>2, <1>3 DEF StoreInvariant, PublishedIsComplete, CopiedBeforeRemoval, files
  <1>8. QuarantineIsCurrent' /\ (~Overlap => QuarantineBounded')
    <2>1. Quarantined' = Quarantined
      BY <1>2 DEF Quarantined, files
    <2> QED BY <1>2, <1>3, <2>1
            DEF StoreInvariant, QuarantineIsCurrent, QuarantineBounded, Quarantining, files
  <1> QED BY <1>1, <1>4, <1>5, <1>6, <1>7, <1>8 DEF StoreInvariant

LEMMA CorruptStep ==
  ASSUME StoreInvariant, NEW a \in Addrs, Corrupt(a)
  PROVE  StoreInvariant'
  <1>1. TypeOK'
    BY TypeStep DEF StoreInvariant, Next
  <1>2. UNCHANGED <<lock, temp, final, quar, pc, addr, seen, valid>>
    BY DEF Corrupt
  <1>3. \A i \in Inodes : /\ body[i] # "partial" => body'[i] # "partial"
                          /\ body[i] = "bad" => body'[i] = "bad"
    BY DEF Corrupt, StoreInvariant, TypeOK
  <1>4. CallsHoldLock' /\ TempIsOwned' /\ CopiedBeforeRemoval' /\ OneMutation'
    BY <1>2 DEF StoreInvariant, CallsHoldLock, TempIsOwned, CopiedBeforeRemoval,
                OneMutation, Mutating
  <1>5. WrittenBeforeLink'
    BY <1>2, <1>3 DEF StoreInvariant, WrittenBeforeLink, TempIsOwned, TypeOK
  <1>6. PublishedIsComplete'
    BY <1>2, <1>3 DEF StoreInvariant, PublishedIsComplete, TypeOK
  <1>7. QuarantineIsCurrent' /\ (~Overlap => QuarantineBounded')
    <2>1. Quarantined' = Quarantined
      BY <1>2 DEF Quarantined
    <2> QED BY <1>2, <1>3, <2>1 DEF StoreInvariant, QuarantineIsCurrent, QuarantineBounded, TypeOK
  <1> QED BY <1>1, <1>4, <1>5, <1>6, <1>7 DEF StoreInvariant

LEMMA StutterStep == StoreInvariant /\ UNCHANGED vars => StoreInvariant'
  <1> SUFFICES ASSUME StoreInvariant, UNCHANGED vars PROVE StoreInvariant'
    OBVIOUS
  <1>1. Quarantined' = Quarantined
    BY DEF vars, Quarantined
  <1>2. TypeOK' /\ CallsHoldLock' /\ TempIsOwned' /\ WrittenBeforeLink'
    BY DEF StoreInvariant, vars, TypeOK, CallsHoldLock, TempIsOwned, WrittenBeforeLink
  <1>3. PublishedIsComplete' /\ CopiedBeforeRemoval' /\ OneMutation'
    BY DEF StoreInvariant, vars, PublishedIsComplete, CopiedBeforeRemoval, OneMutation, Mutating
  <1>4. QuarantineIsCurrent' /\ (~Overlap => QuarantineBounded')
    BY <1>1 DEF StoreInvariant, vars, QuarantineIsCurrent, QuarantineBounded
  <1> QED BY <1>2, <1>3, <1>4 DEF StoreInvariant

LEMMA InitInvariant == Init => StoreInvariant
  <1> SUFFICES ASSUME Init PROVE StoreInvariant
    OBVIOUS
  <1>1. TypeOK
    BY StoreAssumption DEF Init, TypeOK, Inodes, Bodies, Copies, PCs, Results
  <1>2. CallsHoldLock /\ TempIsOwned /\ WrittenBeforeLink /\ PublishedIsComplete
    BY DEF Init, CallsHoldLock, TempIsOwned, WrittenBeforeLink, PublishedIsComplete, TempHolding
  <1>3. CopiedBeforeRemoval /\ OneMutation /\ QuarantineIsCurrent
    BY DEF Init, CopiedBeforeRemoval, OneMutation, QuarantineIsCurrent, Mutating, Storing,
           Quarantining
  <1>4. QuarantineBounded
    <2>1. Quarantined = {}
      BY DEF Init, Quarantined
    <2> QED BY <2>1, FS_EmptySet, StoreAssumption DEF QuarantineBounded
  <1> QED BY <1>1, <1>2, <1>3, <1>4 DEF StoreInvariant

-----------------------------------------------------------------------------
(* Theorems *)

\* Whatever calls overlap, fail or die, each call in flight owns its temporary file
\* and has done what its next step relies on.
THEOREM StoreInvariantHolds == Spec => []StoreInvariant
  <1>1. StoreInvariant /\ [Next]_vars => StoreInvariant'
    BY CallKeepsInvariant, LockStep, CrashStep, CorruptStep, StutterStep DEF Next
  <1> QED BY InitInvariant, <1>1, PTL DEF Spec

\* storeEntry never publishes an incomplete file, for any number of processes,
\* calls, addresses and crashes, also when calls share a capability or outlive it.
THEOREM EntriesAreComplete == Spec => []PublishedIsComplete
  <1>1. StoreInvariant => PublishedIsComplete
    BY DEF StoreInvariant
  <1> QED BY StoreInvariantHolds, <1>1, PTL

\* The only step that removes a name from the content store is the unlink of a
\* quarantine whose copy is complete.
LEMMA RemovalIsQuarantine ==
  ASSUME StoreInvariant, [Next]_vars, NEW a \in Addrs, final[a] # None, final'[a] # final[a]
  PROVE  \E o \in Ops : QuarantineUnlink(o) /\ addr[o] = a
  <1>1. PICK o \in Ops : Call(o)
    BY DEF Next, AcquireLock, ReleaseLock, Crash, Corrupt, vars, files
  <1>2. QuarantineUnlink(o) \/ StoreLink(o)
    BY <1>1, FilesKept
  <1>3. CASE QuarantineUnlink(o)
    BY <1>3 DEF QuarantineUnlink, StoreInvariant, TypeOK
  <1>4. CASE StoreLink(o)
    BY <1>4 DEF StoreLink, StoreInvariant, TypeOK
  <1> QED BY <1>2, <1>3, <1>4

\* quarantineCorruptEntry removes an entry only when its complete copy is in
\* quarantine, also after interrupted quarantines of the same address.
THEOREM CorruptEvidenceIsKept == Spec => EvidenceKept
  <1> DEFINE Kept == \A a \in Addrs : final[a] # None /\ final'[a] = None => quar[a] = "full"
  <1>1. StoreInvariant /\ [Next]_vars => [Kept]_vars
    BY RemovalIsQuarantine DEF QuarantineUnlink, StoreInvariant, CopiedBeforeRemoval
  <1> QED BY StoreInvariantHolds, <1>1, PTL DEF Spec, EvidenceKept

\* Callers that await each call keep valid data: nothing replaces or removes an
\* entry whose digest is right.
THEOREM SequentialUseKeepsData ==
  ASSUME ~Overlap
  PROVE  Spec => ValidDataPreserved
  <1> DEFINE Preserved ==
        \A a \in Addrs : final[a] # None /\ body[final[a]] = "good" /\ body' = body
          => final'[a] = final[a]
  <1>1. StoreInvariant /\ [Next]_vars => [Preserved]_vars
    <2> SUFFICES ASSUME StoreInvariant, [Next]_vars, NEW a \in Addrs,
                        final[a] # None, body[final[a]] = "good", final'[a] # final[a]
                 PROVE  FALSE
      OBVIOUS
    <2>1. PICK o \in Ops : QuarantineUnlink(o) /\ addr[o] = a
      BY RemovalIsQuarantine
    <2> QED BY <2>1 DEF QuarantineUnlink, StoreInvariant, QuarantineIsCurrent, Quarantining
  <1> QED BY StoreInvariantHolds, <1>1, PTL DEF Spec, ValidDataPreserved

\* Callers that await each call never overfill quarantine/, although the count and
\* the creation of the copy are separate steps.
THEOREM SequentialUseBoundsQuarantine ==
  ASSUME ~Overlap
  PROVE  Spec => []QuarantineBounded
  <1>1. StoreInvariant => QuarantineBounded
    BY DEF StoreInvariant
  <1> QED BY StoreInvariantHolds, <1>1, PTL
=============================================================================
