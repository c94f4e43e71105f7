------------------------- MODULE AtomicWriterProofs -------------------------
EXTENDS AtomicWriter, TLAPS

-----------------------------------------------------------------------------
(* Types and frames *)

LEMMA StepType ==
  ASSUME TypeOK, TemporariesArePrivate, NEW o \in Calls, Step(o)
  PROVE  TypeOK'
  <1> USE DEF At, Goto, Abort, disk
  <1>1. CASE Write(o)
    BY <1>1 DEF Write, TypeOK, PCs, Codes
  <1>2. CASE AcquireLock(o)
    BY <1>2 DEF AcquireLock, TypeOK, PCs, Codes
  <1>3. CASE Observe(o) \/ VerifyPublished(o)
    BY <1>3 DEF Observe, VerifyPublished, TypeOK, PCs, Codes, Preparing, Finishing
  <1>4. CASE CreateTemporary(o)
    <2>1. CASE \E i \in Free : /\ temp' = [temp EXCEPT ![o] = i]
                               /\ body' = [body EXCEPT ![i] = Partial]
                               /\ Goto(o, "fill")
                               /\ UNCHANGED code
      BY <1>4, <2>1 DEF CreateTemporary, TypeOK, PCs, Preparing, Free
    <2>2. CASE Abort(o, "collision") /\ UNCHANGED <<temp, body>>
      BY <1>4, <2>2 DEF CreateTemporary, TypeOK, PCs, Codes
    <2> QED BY <1>4, <2>1, <2>2 DEF CreateTemporary
  <1>5. CASE FillTemporary(o)
    BY <1>5 DEF FillTemporary, TypeOK, PCs, Preparing
  <1>6. CASE Recheck(o)
    BY <1>6 DEF Recheck, TypeOK, PCs, Codes, Preparing
  <1>7. CASE SyncDirectory(o)
    BY <1>7 DEF SyncDirectory, TypeOK, PCs, Codes, Finishing
  <1>8. CASE ReleaseLock(o)
    BY <1>8 DEF ReleaseLock, TypeOK, PCs, Codes, Finishing
  <1>9. CASE Fails(o)
    BY <1>9 DEF Fails, TypeOK, PCs, Codes
  <1>10. CASE CleanTemporary(o)
    BY <1>10 DEF CleanTemporary, TypeOK, PCs, Codes, Holds
  <1>11. CASE CleanLock(o)
    BY <1>11 DEF CleanLock, TypeOK, PCs, Codes
  <1>12. CASE Rename(o)
    <2>1. temp[o] \in Inodes
      BY <1>12 DEF Rename, TemporariesArePrivate, Holds, TypeOK
    <2> QED BY <1>12, <2>1 DEF Rename, TypeOK, PCs, Finishing
  <1> QED BY <1>1, <1>2, <1>3, <1>4, <1>5, <1>6, <1>7, <1>8, <1>9, <1>10, <1>11, <1>12
          DEF Step

\* A step of one call leaves the local state of the others alone.
LEMMA OthersKeep ==
  ASSUME TypeOK, NEW o \in Calls, Step(o), NEW q \in Calls, q # o
  PROVE  /\ pc'[q] = pc[q] /\ exp'[q] = exp[q] /\ new'[q] = new[q] /\ temp'[q] = temp[q]
         /\ committed'[q] = committed[q] /\ code'[q] = code[q] /\ (Holds(q)' <=> Holds(q))
  <1>1. /\ pc'[q] = pc[q] /\ exp'[q] = exp[q] /\ new'[q] = new[q] /\ temp'[q] = temp[q]
        /\ committed'[q] = committed[q] /\ code'[q] = code[q]
    BY DEF TypeOK, Step, Write, AcquireLock, Observe, CreateTemporary, FillTemporary, Recheck,
           Rename, VerifyPublished, SyncDirectory, ReleaseLock, Fails, CleanTemporary,
           CleanLock, Goto, Abort, disk
  <1> QED BY <1>1 DEF Holds

\* What a step does to the shared files.
LEMMA SharedFiles ==
  ASSUME TypeOK, TemporariesArePrivate, NEW o \in Calls, Step(o)
  PROVE  /\ target' = target \/ Rename(o)
         /\ orphans' = orphans \/ CleanTemporary(o)
         /\ \/ body' = body
            \/ CreateTemporary(o) /\ \E i \in Free : body' = [body EXCEPT ![i] = Partial]
            \/ FillTemporary(o) /\ body' = [body EXCEPT ![temp[o]] = new[o]]
  BY DEF Step, Write, AcquireLock, Observe, CreateTemporary, FillTemporary, Recheck,
         Rename, VerifyPublished, SyncDirectory, ReleaseLock, Fails, CleanTemporary,
         CleanLock, Goto, Abort, disk

-----------------------------------------------------------------------------
(* The conjuncts of WriterInvariant: a step of a call preserves them *)

LEMMA StepKeepsLock ==
  ASSUME TypeOK, LockIsExclusive, NEW o \in Calls, Step(o)
  PROVE  LockIsExclusive'
  <1> USE WriterAssumption DEF At, Goto, Abort, disk
  <1>1. /\ pc'[o] \in Locked => lock' = o
        /\ lock' = o => pc'[o] \in Locked \cup {"clean-temp", "clean-lock"}
    <2>1. CASE Write(o) \/ AcquireLock(o) \/ ReleaseLock(o) \/ CleanLock(o)
      BY <2>1 DEF TypeOK, LockIsExclusive, Locked, Preparing, Write, AcquireLock, ReleaseLock,
                  CleanLock
    <2>2. CASE Observe(o) \/ CreateTemporary(o) \/ FillTemporary(o) \/ Recheck(o) \/ Rename(o)
      BY <2>2 DEF TypeOK, LockIsExclusive, Locked, Preparing, Observe, CreateTemporary,
                  FillTemporary, Recheck, Rename
    <2>3. CASE VerifyPublished(o) \/ SyncDirectory(o) \/ Fails(o) \/ CleanTemporary(o)
      BY <2>3 DEF TypeOK, LockIsExclusive, Locked, Preparing, VerifyPublished, SyncDirectory,
                  Fails, CleanTemporary
    <2> QED BY <2>1, <2>2, <2>3 DEF Step
  <1>2. lock' = lock \/ lock = o \/ (lock = NoCall /\ lock' = o)
    BY DEF LockIsExclusive, Locked, Step, Write, AcquireLock, Observe, CreateTemporary,
           FillTemporary, Recheck, Rename, VerifyPublished, SyncDirectory, ReleaseLock, Fails,
           CleanTemporary, CleanLock
  <1>3. lock' \in {lock, o, NoCall, Stale}
    BY DEF Step, Write, AcquireLock, Observe, CreateTemporary,
           FillTemporary, Recheck, Rename, VerifyPublished, SyncDirectory, ReleaseLock, Fails,
           CleanTemporary, CleanLock
  <1>4. ASSUME NEW q \in Calls, q # o
        PROVE  /\ pc'[q] \in Locked => lock' = q
               /\ lock' = q => pc'[q] \in Locked \cup {"clean-temp", "clean-lock"}
    BY <1>2, <1>3, <1>4, OthersKeep DEF LockIsExclusive
  <1> QED BY <1>1, <1>4 DEF LockIsExclusive

\* The step's own call keeps its temporary file to itself.
LEMMA OwnTemporary ==
  ASSUME TypeOK, TemporariesArePrivate, NEW o \in Calls, Step(o)
  PROVE  /\ pc'[o] \in {"fill", "recheck1", "recheck2", "rename"} => Holds(o)'
         /\ pc'[o] \in Preparing \cup {"lock", "observe"} => ~committed'[o]
         /\ pc'[o] \in Finishing => committed'[o]
         /\ pc'[o] \in {"idle", "lock", "observe", "create", "clean-lock"} => ~Holds(o)'
  <1> USE WriterAssumption DEF At, Goto, Abort, disk, TypeOK, TemporariesArePrivate, Holds,
                               Preparing, Finishing
  <1>1. CASE Write(o) \/ AcquireLock(o) \/ Observe(o)
    BY <1>1 DEF Write, AcquireLock, Observe
  <1>2. CASE CreateTemporary(o)
    BY <1>2 DEF CreateTemporary, Free
  <1>3. CASE FillTemporary(o) \/ Recheck(o) \/ Rename(o)
    BY <1>3 DEF FillTemporary, Recheck, Rename
  <1>4. CASE VerifyPublished(o)
    BY <1>4 DEF VerifyPublished
  <1>5. CASE SyncDirectory(o)
    BY <1>5 DEF SyncDirectory
  <1>6. CASE ReleaseLock(o)
    BY <1>6 DEF ReleaseLock
  <1>7. CASE Fails(o)
    BY <1>7 DEF Fails
  <1>8. CASE CleanTemporary(o) \/ CleanLock(o)
    BY <1>8 DEF CleanTemporary, CleanLock
  <1> QED BY <1>1, <1>2, <1>3, <1>4, <1>5, <1>6, <1>7, <1>8 DEF Step

\* Only CreateTemporary gives a call a temporary file.
LEMMA TemporaryOnlyCreated ==
  ASSUME TypeOK, NEW o \in Calls, Step(o), Holds(o)', ~CreateTemporary(o)
  PROVE  Holds(o) /\ temp'[o] = temp[o]
  <1> USE WriterAssumption DEF At, Goto, Abort, disk, TypeOK, Holds
  <1>1. CASE Write(o) \/ AcquireLock(o) \/ Observe(o) \/ FillTemporary(o) \/ Recheck(o)
    BY <1>1 DEF Write, AcquireLock, Observe, FillTemporary, Recheck
  <1>2. CASE Rename(o) \/ VerifyPublished(o) \/ SyncDirectory(o) \/ ReleaseLock(o) \/ Fails(o)
    BY <1>2 DEF Rename, VerifyPublished, SyncDirectory, ReleaseLock, Fails
  <1>3. CASE CleanTemporary(o) \/ CleanLock(o)
    BY <1>3 DEF CleanTemporary, CleanLock
  <1> QED BY <1>1, <1>2, <1>3 DEF Step

\* Temporary files, target and orphans stay apart.
LEMMA FilesStayApart ==
  ASSUME TypeOK, TemporariesArePrivate, NEW o \in Calls, Step(o)
  PROVE  /\ \A p \in Calls : Holds(p)' => temp'[p] # target' /\ temp'[p] \notin orphans'
         /\ \A p, q \in Calls : Holds(p)' /\ Holds(q)' /\ temp'[p] = temp'[q] => p = q
         /\ target' \notin orphans'
  <1>1. CASE Rename(o)
    <2>1. target' = temp[o] /\ orphans' = orphans /\ ~Holds(o)' /\ Holds(o)
      BY <1>1 DEF Rename, At, TemporariesArePrivate, Holds, TypeOK
    <2> QED BY <2>1, OthersKeep DEF TemporariesArePrivate
  <1>2. CASE CleanTemporary(o)
    <2>1. ~Holds(o)' /\ target' = target
      BY <1>2 DEF CleanTemporary, Holds, TypeOK
    <2>2. orphans' = orphans \/ (Holds(o) /\ orphans' = orphans \cup {temp[o]})
      BY <1>2 DEF CleanTemporary
    <2> QED BY <2>1, <2>2, OthersKeep DEF TemporariesArePrivate
  <1>3. CASE CreateTemporary(o)
    <2>1. target' = target /\ orphans' = orphans
      BY <1>3 DEF CreateTemporary
    <2>2. Holds(o)' => temp'[o] \in Free
      <3>1. ~Holds(o)
        BY <1>3 DEF CreateTemporary, At, TemporariesArePrivate
      <3> QED BY <1>3, <3>1 DEF CreateTemporary, Holds, TypeOK
    <2>3. ASSUME Holds(o)'
          PROVE  /\ temp'[o] # target /\ temp'[o] \notin orphans
                 /\ \A q \in Calls : Holds(q) => temp'[o] # temp[q]
      BY <2>2, <2>3 DEF Free, InUse
    <2> QED BY <2>1, <2>3, OthersKeep DEF TemporariesArePrivate
  <1>4. CASE ~Rename(o) /\ ~CleanTemporary(o) /\ ~CreateTemporary(o)
    <2>1. target' = target /\ orphans' = orphans
      BY <1>4, SharedFiles
    <2>2. \A p \in Calls : Holds(p)' => Holds(p) /\ temp'[p] = temp[p]
      BY <1>4, OthersKeep, TemporaryOnlyCreated
    <2> QED BY <2>1, <2>2 DEF TemporariesArePrivate
  <1> QED BY <1>1, <1>2, <1>3, <1>4

LEMMA StepKeepsPrivate ==
  ASSUME TypeOK, TemporariesArePrivate, NEW o \in Calls, Step(o)
  PROVE  TemporariesArePrivate'
  <1>1. ASSUME NEW q \in Calls
        PROVE  /\ pc'[q] \in {"fill", "recheck1", "recheck2", "rename"} => Holds(q)'
               /\ pc'[q] \in Preparing \cup {"lock", "observe"} => ~committed'[q]
               /\ pc'[q] \in Finishing => committed'[q]
               /\ pc'[q] \in {"idle", "lock", "observe", "create", "clean-lock"} => ~Holds(q)'
    BY OthersKeep, OwnTemporary DEF TemporariesArePrivate
  <1> QED BY <1>1, FilesStayApart DEF TemporariesArePrivate, Holds

\* A step never changes the contents of the target or of a prepared file of another
\* call.
LEMMA OtherContentsKept ==
  ASSUME TypeOK, TemporariesArePrivate, NEW o \in Calls, Step(o)
  PROVE  /\ body'[target] = body[target]
         /\ \A q \in Calls : q # o /\ Holds(q) => body'[temp[q]] = body[temp[q]]
  <1>1. CASE body' = body
    BY <1>1
  <1>2. CASE \E i \in Free : body' = [body EXCEPT ![i] = Partial]
    BY <1>2 DEF Free, InUse, TypeOK, Holds
  <1>3. CASE FillTemporary(o) /\ body' = [body EXCEPT ![temp[o]] = new[o]]
    <2>1. Holds(o)
      BY <1>3 DEF FillTemporary, At, TemporariesArePrivate
    <2> QED BY <1>3, <2>1 DEF TemporariesArePrivate, TypeOK, Holds
  <1> QED BY <1>1, <1>2, <1>3, SharedFiles

LEMMA StepKeepsFilled ==
  ASSUME TypeOK, TemporariesArePrivate, FilledBeforeCommit, NEW o \in Calls, Step(o)
  PROVE  FilledBeforeCommit'
  <1> DEFINE Filled == {"recheck1", "recheck2", "rename"}
  <1>1. ASSUME NEW q \in Calls, q # o, pc'[q] \in Filled
        PROVE  body'[temp'[q]] = new'[q]
    <2>1. pc[q] \in Filled /\ temp'[q] = temp[q] /\ new'[q] = new[q]
      BY <1>1, OthersKeep
    <2>2. Holds(q) /\ body[temp[q]] = new[q]
      BY <2>1 DEF TemporariesArePrivate, FilledBeforeCommit
    <2> QED BY <1>1, <2>1, <2>2, OtherContentsKept
  <1>2. ASSUME pc'[o] \in Filled
        PROVE  body'[temp'[o]] = new'[o]
    <2>1. FillTemporary(o) \/ Recheck(o)
      BY <1>2 DEF TypeOK, Step, Write, AcquireLock, Observe, CreateTemporary, Rename,
                  VerifyPublished, SyncDirectory, ReleaseLock, Fails, CleanTemporary,
                  CleanLock, Goto, Abort, At
    <2>2. CASE FillTemporary(o)
      <3>1. temp[o] \in Inodes /\ new[o] \in Contents
        BY <2>2 DEF FillTemporary, At, TemporariesArePrivate, Holds, TypeOK
      <3> QED BY <2>2, <3>1 DEF FillTemporary, TypeOK
    <2>3. CASE Recheck(o)
      BY <1>2, <2>3 DEF Recheck, Goto, Abort, At, disk, TypeOK, FilledBeforeCommit
    <2> QED BY <2>1, <2>2, <2>3
  <1> QED BY <1>1, <1>2 DEF FilledBeforeCommit

LEMMA StepKeepsWhole ==
  ASSUME TypeOK, TemporariesArePrivate, FilledBeforeCommit, TargetIsWhole, NEW o \in Calls, Step(o)
  PROVE  TargetIsWhole'
  <1>1. CASE Rename(o)
    BY <1>1 DEF Rename, At, FilledBeforeCommit, TargetIsWhole, TypeOK
  <1>2. CASE target' = target
    BY <1>2, OtherContentsKept DEF TargetIsWhole
  <1> QED BY <1>1, <1>2, SharedFiles

LEMMA StepKeepsComparison ==
  ASSUME TypeOK, LockIsExclusive, TemporariesArePrivate, ComparisonHolds, MaxEdits = 0,
         NEW o \in Calls, Step(o)
  PROVE  ComparisonHolds'
  <1> SUFFICES ASSUME NEW q \in Calls, pc'[q] \in Preparing
               PROVE  Matches(q)'
    BY DEF ComparisonHolds
  <1>1. CASE q # o
    <2>1. pc[q] \in Preparing /\ exp'[q] = exp[q]
      BY <1>1, OthersKeep
    <2>2. lock = q /\ Matches(q)
      BY <2>1 DEF LockIsExclusive, Locked, ComparisonHolds
    <2>3. ~Rename(o)
      BY <1>1, <2>2 DEF Rename, At, LockIsExclusive, Locked, Preparing
    <2>4. target' = target
      BY <2>3, SharedFiles
    <2> QED BY <2>1, <2>2, <2>4, OtherContentsKept DEF Matches
  <1>2. CASE q = o
    <2> USE DEF At, Goto, Abort, disk, TypeOK, Preparing
    <2>1. Observe(o) \/ CreateTemporary(o) \/ FillTemporary(o) \/ Recheck(o)
      BY <1>2 DEF Step, Write, AcquireLock, Rename, VerifyPublished, SyncDirectory,
                  ReleaseLock, Fails, CleanTemporary, CleanLock
    <2>2. target' = target /\ exp' = exp
      BY <2>1 DEF Observe, CreateTemporary, FillTemporary, Recheck
    <2>3. Matches(o)
      <3>1. CASE Observe(o)
        BY <1>2, <3>1 DEF Observe
      <3>2. CASE CreateTemporary(o) \/ FillTemporary(o) \/ Recheck(o)
        BY <3>2 DEF CreateTemporary, FillTemporary, Recheck, ComparisonHolds
      <3> QED BY <2>1, <3>1, <3>2
    <2> QED BY <1>2, <2>2, <2>3, OtherContentsKept DEF Matches
  <1> QED BY <1>1, <1>2

LEMMA StepKeepsSuccess ==
  ASSUME TypeOK, TemporariesArePrivate, SuccessIsCommitted, NEW o \in Calls, Step(o)
  PROVE  SuccessIsCommitted'
  <1> USE DEF At, Goto, Abort, disk, TypeOK, SuccessIsCommitted
  <1>1. CASE Write(o) \/ AcquireLock(o) \/ Observe(o) \/ CreateTemporary(o) \/ FillTemporary(o)
    BY <1>1 DEF Write, AcquireLock, Observe, CreateTemporary, FillTemporary
  <1>2. CASE Recheck(o) \/ Rename(o) \/ VerifyPublished(o)
    BY <1>2 DEF Recheck, Rename, VerifyPublished
  <1>3. CASE SyncDirectory(o) \/ ReleaseLock(o) \/ Fails(o)
    BY <1>3 DEF SyncDirectory, ReleaseLock, Fails, TemporariesArePrivate, Finishing
  <1>4. CASE CleanTemporary(o) \/ CleanLock(o)
    BY <1>4 DEF CleanTemporary, CleanLock
  <1> QED BY <1>1, <1>2, <1>3, <1>4 DEF Step

-----------------------------------------------------------------------------
(* Death, recovery and outsiders *)

LEMMA CrashKeeps ==
  ASSUME WriterInvariant, NEW o \in Calls, Crash(o)
  PROVE  WriterInvariant'
  <1> USE DEF WriterInvariant
  <1>1. TypeOK'
    BY WriterAssumption DEF Crash, TypeOK, PCs, Holds
  <1>2. /\ pc'[o] = "idle" /\ ~Holds(o)' /\ lock' # o
        /\ target' = target /\ body' = body /\ exp' = exp /\ committed' = committed
    BY WriterAssumption DEF Crash, TypeOK, Holds
  <1>3. ASSUME NEW q \in Calls, q # o
        PROVE  /\ pc'[q] = pc[q] /\ temp'[q] = temp[q] /\ (Holds(q)' <=> Holds(q))
               /\ lock' = q <=> lock = q
    BY <1>3, WriterAssumption DEF Crash, TypeOK, Holds
  <1>4. orphans' = orphans \/ (Holds(o) /\ orphans' = orphans \cup {temp[o]})
    BY DEF Crash
  <1>5. LockIsExclusive'
    BY <1>2, <1>3 DEF LockIsExclusive, Locked, Preparing
  <1>6. TemporariesArePrivate'
    <2>1. /\ \A p \in Calls : Holds(p)' => temp'[p] # target' /\ temp'[p] \notin orphans'
          /\ \A p, q \in Calls : Holds(p)' /\ Holds(q)' /\ temp'[p] = temp'[q] => p = q
          /\ target' \notin orphans'
      BY <1>2, <1>3, <1>4 DEF TemporariesArePrivate
    <2>2. ASSUME NEW q \in Calls
          PROVE  /\ pc'[q] \in {"fill", "recheck1", "recheck2", "rename"} => Holds(q)'
                 /\ pc'[q] \in Preparing \cup {"lock", "observe"} => ~committed'[q]
                 /\ pc'[q] \in Finishing => committed'[q]
                 /\ pc'[q] \in {"idle", "lock", "observe", "create", "clean-lock"} => ~Holds(q)'
      BY <1>2, <1>3 DEF TemporariesArePrivate, Preparing, Finishing
    <2> QED BY <2>1, <2>2 DEF TemporariesArePrivate, Holds
  <1>7. FilledBeforeCommit'
    BY <1>2, <1>3 DEF Crash, FilledBeforeCommit
  <1>8. TargetIsWhole'
    BY <1>2 DEF TargetIsWhole
  <1>9. ComparisonHolds'
    BY <1>2, <1>3 DEF ComparisonHolds, Matches, Preparing
  <1>10. SuccessIsCommitted'
    BY <1>2, <1>3 DEF Crash, SuccessIsCommitted
  <1> QED BY <1>1, <1>5, <1>6, <1>7, <1>8, <1>9, <1>10

LEMMA RecoveryKeeps ==
  ASSUME WriterInvariant, OperatorRecovers
  PROVE  WriterInvariant'
  <1> USE DEF WriterInvariant, OperatorRecovers
  <1>1. TypeOK'
    BY DEF TypeOK
  <1>2. LockIsExclusive'
    BY WriterAssumption DEF LockIsExclusive, Locked, Preparing
  <1>3. TemporariesArePrivate'
    BY DEF TemporariesArePrivate, Holds
  <1>4. FilledBeforeCommit' /\ TargetIsWhole' /\ ComparisonHolds' /\ SuccessIsCommitted'
    BY DEF FilledBeforeCommit, TargetIsWhole, ComparisonHolds, Matches, SuccessIsCommitted
  <1> QED BY <1>1, <1>2, <1>3, <1>4

\* An outsider can change the target, but no file of a writer.
LEMMA OutsiderKeeps ==
  ASSUME WriterInvariant, OutsiderEdits
  PROVE  WriterInvariant'
  <1> USE DEF WriterInvariant
  <1>1. PICK c \in Contents, i \in Free \cup {target} :
             target' = i /\ body' = [body EXCEPT ![i] = c]
    BY DEF OutsiderEdits
  <1>2. i \in Inodes /\ i \notin orphans /\ \A q \in Calls : Holds(q) => temp[q] # i
    BY DEF Free, InUse, TypeOK, TemporariesArePrivate
  <1>3. TypeOK'
    BY <1>1, <1>2, WriterAssumption DEF OutsiderEdits, TypeOK
  <1>4. LockIsExclusive'
    BY DEF OutsiderEdits, LockIsExclusive
  <1>5. TemporariesArePrivate'
    BY <1>1, <1>2 DEF OutsiderEdits, TemporariesArePrivate, Holds
  <1>6. FilledBeforeCommit'
    BY <1>1, <1>2 DEF OutsiderEdits, FilledBeforeCommit, TemporariesArePrivate, TypeOK, Holds
  <1>7. TargetIsWhole'
    BY <1>1, <1>2 DEF TargetIsWhole, TypeOK
  <1>8. ComparisonHolds'
    <2>1. MaxEdits # 0
      BY WriterAssumption DEF OutsiderEdits, TypeOK
    <2> QED BY <2>1 DEF ComparisonHolds
  <1>9. SuccessIsCommitted'
    BY DEF OutsiderEdits, SuccessIsCommitted
  <1> QED BY <1>3, <1>4, <1>5, <1>6, <1>7, <1>8, <1>9

-----------------------------------------------------------------------------
(* The theorems *)

LEMMA WriterInvariantInit == Init => WriterInvariant
  <1> SUFFICES ASSUME Init PROVE WriterInvariant
    OBVIOUS
  <1>1. TypeOK
    BY WriterAssumption DEF Init, TypeOK, PCs, Codes
  <1>2. LockIsExclusive
    BY WriterAssumption DEF Init, LockIsExclusive, Locked, Preparing
  <1>3. TemporariesArePrivate
    BY DEF Init, TemporariesArePrivate, Holds, Preparing, Finishing
  <1>4. FilledBeforeCommit /\ TargetIsWhole /\ ComparisonHolds /\ SuccessIsCommitted
    BY DEF Init, FilledBeforeCommit, TargetIsWhole, ComparisonHolds, Preparing, SuccessIsCommitted
  <1> QED BY <1>1, <1>2, <1>3, <1>4 DEF WriterInvariant

LEMMA WriterInvariantStep == WriterInvariant /\ [Next]_vars => WriterInvariant'
  <1> SUFFICES ASSUME WriterInvariant, [Next]_vars PROVE WriterInvariant'
    OBVIOUS
  <1>1. ASSUME NEW o \in Calls, Step(o)
        PROVE  WriterInvariant'
    <2> USE <1>1 DEF WriterInvariant
    <2>1. TypeOK'
      BY StepType
    <2>2. LockIsExclusive'
      BY StepKeepsLock
    <2>3. TemporariesArePrivate'
      BY StepKeepsPrivate
    <2>4. FilledBeforeCommit' /\ TargetIsWhole'
      BY StepKeepsFilled, StepKeepsWhole
    <2>5. ComparisonHolds'
      <3>1. CASE MaxEdits = 0
        BY <3>1, StepKeepsComparison
      <3>2. CASE MaxEdits # 0
        BY <3>2 DEF ComparisonHolds
      <3> QED BY <3>1, <3>2
    <2>6. SuccessIsCommitted'
      BY StepKeepsSuccess
    <2> QED BY <2>1, <2>2, <2>3, <2>4, <2>5, <2>6
  <1>2. ASSUME NEW o \in Calls, Crash(o)
        PROVE  WriterInvariant'
    BY <1>2, CrashKeeps
  <1>3. CASE OperatorRecovers
    BY <1>3, RecoveryKeeps
  <1>4. CASE OutsiderEdits
    BY <1>4, OutsiderKeeps
  <1>5. CASE UNCHANGED vars
    BY <1>5 DEF vars, WriterInvariant, TypeOK, LockIsExclusive, TemporariesArePrivate, Holds,
                FilledBeforeCommit, TargetIsWhole, ComparisonHolds, Matches, SuccessIsCommitted
  <1> QED BY <1>1, <1>2, <1>3, <1>4, <1>5 DEF Next

\* The inductive invariant of write, for any number of calls, crashes and outsiders.
THEOREM WriterInvariantHolds == Spec => []WriterInvariant
  BY WriterInvariantInit, WriterInvariantStep, PTL DEF Spec

\* Whatever dies, fails or interferes, a reader of the target path sees a complete
\* file: the old one, the outsider's or the whole replacement, as the rename of a
\* filled temporary file promises.
THEOREM TargetIsAlwaysWhole == Spec => []TargetIsWhole
  <1>1. WriterInvariant => TargetIsWhole
    BY DEF WriterInvariant
  <1> QED BY <1>1, WriterInvariantHolds, PTL

\* Without outsiders write is a compare-and-swap, however many writers interleave,
\* die and are cleaned up after, and although inode numbers are reused: a rename
\* replaces only the file and the contents its caller analysed.
THEOREM CooperatingWritersNeverLoseAnUpdate ==
  ASSUME MaxEdits = 0
  PROVE  Spec => ReplacesOnlyAnalysed
  <1> DEFINE Replaces == target' # target =>
               \E o \in Calls : /\ committed'[o] /\ ~committed[o]
                                /\ target = exp[o].ino /\ body[target] = exp[o].body
  <1>1. WriterInvariant /\ [Next]_vars => [Replaces]_vars
    <2> SUFFICES ASSUME WriterInvariant, Next, target' # target
                 PROVE  Replaces
      BY DEF vars
    <2> USE DEF WriterInvariant
    <2>1. ~OutsiderEdits
      BY WriterAssumption DEF OutsiderEdits, TypeOK
    <2>2. PICK o \in Calls : Rename(o)
      BY <2>1, SharedFiles DEF Next, Crash, OperatorRecovers
    <2>3. Matches(o) /\ ~committed[o]
      BY <2>2 DEF Rename, At, ComparisonHolds, TemporariesArePrivate, Preparing
    <2>4. committed'[o]
      BY <2>2 DEF Rename, TypeOK
    <2> QED BY <2>3, <2>4 DEF Matches
  <1> QED BY <1>1, WriterInvariantHolds, PTL DEF Spec, ReplacesOnlyAnalysed

\* The hidden files a call creates survive it only if its process died or the call
\* reported ATOMIC_WRITE_CLEANUP_FAILED: no silent leftover blocks later writers.
THEOREM LeftoversAreNeverSilent == Spec => LeftoversAreReported
  <1> DEFINE Reported ==
        (lock' = Stale /\ lock # Stale) \/ ~(orphans' \subseteq orphans)
          => crashes' # crashes \/ \E o \in Calls : pc[o] # "idle" /\ code'[o] = "cleanup"
  <1>1. WriterInvariant /\ [Next]_vars => [Reported]_vars
    <2> SUFFICES ASSUME TypeOK, Next
                 PROVE  Reported
      BY DEF WriterInvariant
    <2> USE WriterAssumption
    <2>1. ASSUME NEW o \in Calls, Step(o)
          PROVE  Reported
      <3>1. CASE ReleaseLock(o) \/ CleanTemporary(o) \/ CleanLock(o)
        BY <3>1 DEF ReleaseLock, CleanTemporary, CleanLock, Abort, At, Goto, TypeOK
      <3>2. CASE Write(o) \/ AcquireLock(o) \/ Observe(o) \/ CreateTemporary(o)
                 \/ FillTemporary(o) \/ Recheck(o) \/ Rename(o) \/ VerifyPublished(o)
                 \/ SyncDirectory(o) \/ Fails(o)
        BY <3>2 DEF Write, AcquireLock, Observe, CreateTemporary, FillTemporary, Recheck,
                    Rename, VerifyPublished, SyncDirectory, Fails, disk
      <3> QED BY <2>1, <3>1, <3>2 DEF Step
    <2>2. ASSUME NEW o \in Calls, Crash(o)
          PROVE  Reported
      BY <2>2 DEF Crash, TypeOK
    <2>3. CASE OperatorRecovers \/ OutsiderEdits
      BY <2>3 DEF OperatorRecovers, OutsiderEdits
    <2> QED BY <2>1, <2>2, <2>3 DEF Next
  <1> QED BY <1>1, WriterInvariantHolds, PTL DEF Spec, LeftoversAreReported

-----------------------------------------------------------------------------
(* Refinement *)

\* Steps that no caller can see: the call stays under way, and the target stays.
LEMMA InvisibleStep ==
  ASSUME WriterInvariant, NEW o \in Calls, Step(o),
         ~Write(o), ~Rename(o), pc'[o] # "idle"
  PROVE  UNCHANGED Promise!vars
  <1> USE DEF WriterInvariant
  <1>1. /\ pc[o] # "idle" /\ exp' = exp /\ new' = new /\ committed'[o] = committed[o]
    BY DEF Step, AcquireLock, Observe, CreateTemporary, FillTemporary, Recheck,
           VerifyPublished, SyncDirectory, ReleaseLock, Fails, CleanTemporary, CleanLock, At,
           Preparing
  <1>2. target' = target /\ body'[target'] = body[target]
    BY SharedFiles, OtherContentsKept
  <1>3. \A q \in Calls : Phase(q)' = Phase(q)
    BY <1>1, OthersKeep DEF Phase
  <1> QED BY <1>1, <1>2, <1>3 DEF Promise!vars

\* The end of a call: success after the second directory sync, the end of cleanup, or
\* death.
LEMMA ReturnStep ==
  ASSUME WriterInvariant, NEW o \in Calls, pc[o] # "idle",
         SyncDirectory(o) \/ CleanLock(o) \/ Crash(o), pc'[o] = "idle"
  PROVE  Promise!Return(o)
  <1> USE DEF WriterInvariant
  <1>1. /\ UNCHANGED <<target, body, exp, new, committed>>
        /\ \A q \in Calls \ {o} : pc'[q] = pc[q]
    BY DEF SyncDirectory, CleanLock, Crash, Goto, Abort, disk, TypeOK
  <1>2. Phase(o) # "idle" /\ Phase(o)' = "idle"
        /\ \A q \in Calls \ {o} : Phase(q)' = Phase(q)
    BY <1>1 DEF Phase
  <1> QED BY <1>1, <1>2 DEF Promise!Return

LEMMA RequestStep ==
  ASSUME WriterInvariant, NEW o \in Calls, Write(o)
  PROVE  \E e \in Promise!File, c \in Contents : Promise!Request(o, e, c)
  <1> USE DEF WriterInvariant
  <1> DEFINE seen == [ino |-> target, body |-> body[target]]
  <1>1. seen \in Promise!File
    BY DEF Promise!File, TypeOK, TargetIsWhole
  <1>2. PICK c \in Contents : new' = [new EXCEPT ![o] = c]
    BY DEF Write
  <1>3. /\ exp' = [exp EXCEPT ![o] = seen] /\ UNCHANGED <<target, body>>
        /\ \A q \in Calls \ {o} : Phase(q)' = Phase(q)
        /\ Phase(o) = "idle" /\ Phase(o)' = "asked"
    BY DEF Write, At, Goto, disk, TypeOK, Phase
  <1>4. Promise!Request(o, seen, c)
    BY <1>2, <1>3 DEF Promise!Request
  <1> QED BY <1>1, <1>4

LEMMA SwapStep ==
  ASSUME WriterInvariant, MaxEdits = 0, NEW o \in Calls, Rename(o)
  PROVE  Promise!Swap(o)
  <1> USE DEF WriterInvariant
  <1>1. Matches(o) /\ ~committed[o] /\ temp[o] # target /\ temp[o] \in Inodes /\ body[temp[o]] = new[o]
    BY DEF Rename, At, ComparisonHolds, TemporariesArePrivate, FilledBeforeCommit, Holds, Preparing,
           TypeOK
  <1>2. exp[o] = [ino |-> target, body |-> body[target]]
    BY <1>1 DEF Matches, TypeOK
  <1>3. /\ target' = temp[o] /\ UNCHANGED <<body, exp, new>>
        /\ \A q \in Calls \ {o} : Phase(q)' = Phase(q)
        /\ Phase(o) = "asked" /\ Phase(o)' = "swapped"
    BY <1>1 DEF Rename, At, Goto, TypeOK, Phase
  <1> QED BY <1>1, <1>2, <1>3 DEF Promise!Swap

\* Without outsiders every interleaving of the file protocol, deaths, failures and
\* operator recovery included, is a behaviour of the compare-and-swap that callers see.
THEOREM AtomicWriteIsCompareAndSwap ==
  ASSUME MaxEdits = 0
  PROVE  Spec => ImplementsCompareAndSwap
  <1>1. Init => Promise!Init
    BY WriterAssumption DEF Init, Promise!Init, Promise!File, Phase
  <1>2. WriterInvariant /\ [Next]_vars => [Promise!Next]_(Promise!vars)
    <2> SUFFICES ASSUME WriterInvariant, [Next]_vars
                 PROVE  [Promise!Next]_(Promise!vars)
      OBVIOUS
    <2>1. ASSUME NEW o \in Calls, Step(o)
          PROVE  [Promise!Next]_(Promise!vars)
      <3>1. CASE Write(o)
        BY <3>1, RequestStep DEF Promise!Next
      <3>2. CASE Rename(o)
        BY <3>2, SwapStep DEF Promise!Next
      <3>3. CASE ~Write(o) /\ ~Rename(o) /\ pc'[o] # "idle"
        BY <2>1, <3>3, InvisibleStep
      <3>4. CASE ~Write(o) /\ ~Rename(o) /\ pc'[o] = "idle"
        <4>1. pc[o] # "idle" /\ (SyncDirectory(o) \/ CleanLock(o))
          BY <2>1, <3>4 DEF WriterInvariant, TypeOK, Step, AcquireLock, Observe,
             CreateTemporary, FillTemporary, Recheck, VerifyPublished, SyncDirectory,
             ReleaseLock, Fails, CleanTemporary, CleanLock, At, Goto, Abort
        <4> QED BY <3>4, <4>1, ReturnStep DEF Promise!Next
      <3> QED BY <3>1, <3>2, <3>3, <3>4
    <2>2. ASSUME NEW o \in Calls, Crash(o)
          PROVE  [Promise!Next]_(Promise!vars)
      <3>1. pc[o] # "idle" /\ pc'[o] = "idle"
        BY <2>2 DEF Crash, WriterInvariant, TypeOK
      <3> QED BY <2>2, <3>1, ReturnStep DEF Promise!Next
    <2>3. CASE OperatorRecovers
      BY <2>3 DEF OperatorRecovers, Promise!vars, Phase
    <2>4. CASE OutsiderEdits
      BY <2>4, WriterAssumption DEF OutsiderEdits, WriterInvariant, TypeOK
    <2>5. CASE UNCHANGED vars
      BY <2>5 DEF vars, Promise!vars, Phase
    <2> QED BY <2>1, <2>2, <2>3, <2>4, <2>5 DEF Next
  <1> QED BY <1>1, <1>2, WriterInvariantHolds, PTL DEF Spec, ImplementsCompareAndSwap, Promise!Spec
=============================================================================
