---------------------------- MODULE AtomicWriter ----------------------------
(***************************************************************************)
(* RepositoryAtomicWriter.write of packages/evidence/src/atomic-writer.ts  *)
(* for one target file: the compare-and-swap under every fix and every     *)
(* standards lockfile update.                                              *)
(*                                                                         *)
(* A member of Calls is one write call.  Its caller analysed the target    *)
(* earlier and passes the identity and the digest it saw.  The call takes  *)
(* an exclusive lock file that is never stolen, prepares a temporary file, *)
(* compares the target twice more and renames the temporary file over it.  *)
(* Inode numbers are reused as file systems do.  An outsider is a program  *)
(* that ignores the lock, such as an editor; an operator removes what a    *)
(* dead writer left behind.                                                *)
(***************************************************************************)
EXTENDS Integers

CONSTANTS
  Calls, NoCall,  \* the write calls
  Stale,          \* the lock file outlives its writer
  Inodes, None,   \* the inode numbers of the file system, and no inode
  Contents,       \* what a complete file can contain
  Partial,        \* what an unfinished temporary file contains
  MaxCrashes,     \* bound: how many writers die
  MaxEdits        \* bound: how often an outsider changes the target

ASSUME WriterAssumption ==
  /\ NoCall \notin Calls /\ Stale \notin Calls /\ NoCall # Stale
  /\ None \notin Inodes
  /\ Partial \notin Contents
  /\ MaxCrashes \in Nat
  /\ MaxEdits \in Nat

VARIABLES
  target,     \* the inode the target path names
  body,       \* body[i]: the content of inode i
  lock,       \* whose lock file exists, if any
  orphans,    \* temporary files that no call will remove
  pc,         \* pc[o]: the next step of call o
  exp,        \* exp[o]: request.expected, the identity and content analysed
  new,        \* new[o]: request.replacement
  temp,       \* temp[o]: the inode of the temporary file the call prepared
  committed,  \* committed[o]: the flag of write and of AtomicWriteError
  code,       \* code[o]: what the call returns, or returned last
  crashes, edits

vars == <<target, body, lock, orphans, pc, exp, new, temp, committed, code, crashes, edits>>

Preparing == {"create", "fill", "recheck1", "recheck2", "rename"}
Finishing == {"published", "sync1", "release", "sync2"}
PCs       == {"idle", "lock", "observe", "clean-temp", "clean-lock"} \cup Preparing \cup Finishing

\* AtomicWriteErrorCode: "failed" stands for every error that is not a lost
\* comparison, a temporary collision, a durability or a cleanup failure.
Codes == {"none", "ok", "conflict", "collision", "failed", "durability", "cleanup"}

\* A temporary path of a call exists until the rename.
Holds(o) == temp[o] # None /\ ~committed[o]
InUse    == {target} \cup orphans \cup {temp[o] : o \in {c \in Calls : Holds(c)}}
Free     == Inodes \ InUse

TypeOK ==
  /\ target \in Inodes
  /\ body \in [Inodes -> Contents \cup {Partial}]
  /\ lock \in Calls \cup {NoCall, Stale}
  /\ orphans \in SUBSET Inodes
  /\ pc \in [Calls -> PCs]
  /\ exp \in [Calls -> [ino : Inodes, body : Contents \cup {Partial}]]
  /\ new \in [Calls -> Contents]
  /\ temp \in [Calls -> Inodes \cup {None}]
  /\ committed \in [Calls -> BOOLEAN]
  /\ code \in [Calls -> Codes]
  /\ crashes \in 0 .. MaxCrashes
  /\ edits \in 0 .. MaxEdits

Init ==
  /\ target \in Inodes
  /\ \E c \in Contents : body = [i \in Inodes |-> c]
  /\ lock = NoCall
  /\ orphans = {}
  /\ pc = [o \in Calls |-> "idle"]
  /\ exp = [o \in Calls |-> [ino |-> target, body |-> body[target]]]
  /\ new \in [Calls -> Contents]
  /\ temp = [o \in Calls |-> None]
  /\ committed = [o \in Calls |-> FALSE]
  /\ code = [o \in Calls |-> "none"]
  /\ crashes = 0
  /\ edits = 0

-----------------------------------------------------------------------------

At(o, where)   == pc[o] = where
Goto(o, where) == pc' = [pc EXCEPT ![o] = where]
disk           == <<target, body, lock, orphans>>

\* The catch block of write: the primary error is kept while cleanup runs.
Abort(o, why) ==
  /\ Goto(o, "clean-temp")
  /\ code' = [code EXCEPT ![o] = why]

\* Does #observeTarget find the file that was analysed?  The later observations also
\* compare timestamps with the first one: a difference in nothing else is one of the
\* conflicts of Fails, and a clock too coarse to show it is covered by not relying on it.
Matches(o) == target = exp[o].ino /\ body[target] = exp[o].body

\* The caller has read the target and asks for a replacement of what it saw.
Write(o) ==
  /\ At(o, "idle")
  /\ \E c \in Contents : new' = [new EXCEPT ![o] = c]
  /\ exp' = [exp EXCEPT ![o] = [ino |-> target, body |-> body[target]]]
  /\ temp' = [temp EXCEPT ![o] = None]
  /\ committed' = [committed EXCEPT ![o] = FALSE]
  /\ code' = [code EXCEPT ![o] = "none"]
  /\ Goto(o, "lock")
  /\ UNCHANGED <<disk, crashes, edits>>

\* #acquireLock: any existing lock file, a dead writer's too, is a conflict.
AcquireLock(o) ==
  /\ At(o, "lock")
  /\ \/ /\ lock = NoCall
        /\ lock' = o /\ Goto(o, "observe") /\ UNCHANGED code
     \/ /\ lock # NoCall
        /\ Abort(o, "conflict") /\ UNCHANGED lock
  /\ UNCHANGED <<target, body, orphans, exp, new, temp, committed, crashes, edits>>

\* The first #observeTarget.
Observe(o) ==
  /\ At(o, "observe")
  /\ IF Matches(o) THEN Goto(o, "create") /\ UNCHANGED code ELSE Abort(o, "conflict")
  /\ UNCHANGED <<disk, exp, new, temp, committed, crashes, edits>>

\* #prepareTemporary: an exclusive random name; names of leftovers may collide until
\* the attempts are exhausted.
CreateTemporary(o) ==
  /\ At(o, "create")
  /\ \/ \E i \in Free :
          /\ temp' = [temp EXCEPT ![o] = i]
          /\ body' = [body EXCEPT ![i] = Partial]
          /\ Goto(o, "fill")
          /\ UNCHANGED code
     \/ orphans # {} /\ Abort(o, "collision") /\ UNCHANGED <<temp, body>>
  /\ UNCHANGED <<target, lock, orphans, exp, new, committed, crashes, edits>>

\* Faulty variant: the write loop stops after the first short write.
FillShort(o) ==
  /\ At(o, "fill")
  /\ Goto(o, "recheck1")
  /\ UNCHANGED <<disk, exp, new, temp, committed, code, crashes, edits>>

\* The bytes are written and synchronised, the mode applied, the handle closed.
FillTemporary(o) ==
  /\ At(o, "fill")
  /\ body' = [body EXCEPT ![temp[o]] = new[o]]
  /\ Goto(o, "recheck1")
  /\ UNCHANGED <<target, lock, orphans, exp, new, temp, committed, code, crashes, edits>>

\* Target, temporary file and lock are compared again, twice, before the commit.
Recheck(o) ==
  /\ \/ At(o, "recheck1") /\ Matches(o) /\ lock = o
        /\ Goto(o, "recheck2") /\ UNCHANGED code
     \/ At(o, "recheck2") /\ Matches(o) /\ lock = o
        /\ Goto(o, "rename") /\ UNCHANGED code
     \/ pc[o] \in {"recheck1", "recheck2"} /\ ~(Matches(o) /\ lock = o)
        /\ Abort(o, "conflict")
  /\ UNCHANGED <<disk, exp, new, temp, committed, crashes, edits>>

\* Faulty variant: the committed flag is left for a later step to set.
RenameUncommitted(o) ==
  /\ At(o, "rename")
  /\ target' = temp[o]
  /\ temp' = [temp EXCEPT ![o] = None]
  /\ Goto(o, "sync1")
  /\ UNCHANGED <<body, lock, orphans, exp, new, committed, code, crashes, edits>>

\* The commit.  The inode the target had is free from now on.
Rename(o) ==
  /\ At(o, "rename")
  /\ target' = temp[o]
  /\ committed' = [committed EXCEPT ![o] = TRUE]
  /\ Goto(o, "published")
  /\ UNCHANGED <<body, lock, orphans, exp, new, temp, code, crashes, edits>>

\* The published inode is the prepared one.
VerifyPublished(o) ==
  /\ At(o, "published")
  /\ IF target = temp[o] THEN Goto(o, "sync1") /\ UNCHANGED code ELSE Abort(o, "conflict")
  /\ UNCHANGED <<disk, exp, new, temp, committed, crashes, edits>>

\* #syncDirectory after the rename, and again after the lock file is gone.
SyncDirectory(o) ==
  /\ \/ At(o, "sync1") /\ Goto(o, "release") /\ UNCHANGED code
     \/ At(o, "sync2") /\ Goto(o, "idle") /\ code' = [code EXCEPT ![o] = "ok"]
     \/ pc[o] \in {"sync1", "sync2"} /\ Abort(o, "durability")
  /\ UNCHANGED <<disk, exp, new, temp, committed, crashes, edits>>

\* #releaseArtifact; a failed release closes the handle, so that the catch block
\* cannot release either.
ReleaseLock(o) ==
  /\ At(o, "release")
  /\ \/ lock' = NoCall /\ Goto(o, "sync2") /\ UNCHANGED code
     \/ lock' = Stale /\ Abort(o, "cleanup")
  /\ UNCHANGED <<target, body, orphans, exp, new, temp, committed, crashes, edits>>

\* A file system call fails, a parent directory or the mode is refused, or the signal
\* aborted.  At "observe" it includes a lock file that fails its own check in
\* #acquireLock, at "fill" a temporary file that #prepareTemporary gives up: both go
\* through #cleanupOpenedPath, which removes the file or reports that it could not.
Fails(o) ==
  /\ pc[o] \in {"lock", "observe", "published"} \cup Preparing
  /\ \E why \in {"failed", "conflict"} : Abort(o, why)
  /\ UNCHANGED <<disk, exp, new, temp, committed, crashes, edits>>

\* #cleanupFailure, first part: the temporary file; a failure is reported instead of
\* the primary error.
CleanTemporary(o) ==
  /\ At(o, "clean-temp")
  /\ Goto(o, "clean-lock")
  /\ \/ UNCHANGED <<orphans, code>>
     \/ /\ Holds(o)
        /\ orphans' = orphans \cup {temp[o]}
        /\ code' = [code EXCEPT ![o] = "cleanup"]
  /\ temp' = [temp EXCEPT ![o] = IF committed[o] THEN @ ELSE None]
  /\ UNCHANGED <<target, body, lock, exp, new, committed, crashes, edits>>

\* Faulty variant: a failed release is not reported.
CleanLockSilent(o) ==
  /\ At(o, "clean-lock")
  /\ Goto(o, "idle")
  /\ \/ lock' = IF lock = o THEN NoCall ELSE lock
     \/ lock = o /\ lock' = Stale
  /\ UNCHANGED <<target, body, orphans, exp, new, temp, committed, code, crashes, edits>>

\* #cleanupFailure, second part: the lock, if this call still has it.
CleanLock(o) ==
  /\ At(o, "clean-lock")
  /\ Goto(o, "idle")
  /\ \/ /\ lock' = IF lock = o THEN NoCall ELSE lock
        /\ UNCHANGED code
     \/ /\ lock = o
        /\ lock' = Stale
        /\ code' = [code EXCEPT ![o] = "cleanup"]
  /\ UNCHANGED <<target, body, orphans, exp, new, temp, committed, crashes, edits>>

Step(o) ==
  \/ Write(o) \/ AcquireLock(o) \/ Observe(o) \/ CreateTemporary(o) \/ FillTemporary(o)
  \/ Recheck(o) \/ Rename(o) \/ VerifyPublished(o) \/ SyncDirectory(o) \/ ReleaseLock(o)
  \/ Fails(o) \/ CleanTemporary(o) \/ CleanLock(o)

\* The process of a call dies: what it created stays.
Crash(o) ==
  /\ pc[o] # "idle"
  /\ crashes < MaxCrashes
  /\ crashes' = crashes + 1
  /\ pc' = [pc EXCEPT ![o] = "idle"]
  /\ lock' = IF lock = o THEN Stale ELSE lock
  /\ orphans' = IF Holds(o) THEN orphans \cup {temp[o]} ELSE orphans
  /\ temp' = [temp EXCEPT ![o] = None]
  /\ UNCHANGED <<target, body, exp, new, committed, code, edits>>

\* docs/api/atomic-writer.md: an operator may remove what is stale after confirming
\* that no writer is active.
OperatorRecovers ==
  /\ \A o \in Calls : pc[o] = "idle"
  /\ lock = Stale \/ orphans # {}
  /\ lock' = NoCall
  /\ orphans' = {}
  /\ UNCHANGED <<target, body, pc, exp, new, temp, committed, code, crashes, edits>>

\* An editor writes the file in place or replaces it.
OutsiderEdits ==
  /\ edits < MaxEdits
  /\ edits' = edits + 1
  /\ \E c \in Contents, i \in Free \cup {target} :
       target' = i /\ body' = [body EXCEPT ![i] = c]
  /\ UNCHANGED <<lock, orphans, pc, exp, new, temp, committed, code, crashes>>

Next ==
  \/ \E o \in Calls : Step(o) \/ Crash(o)
  \/ OperatorRecovers
  \/ OutsiderEdits

Spec == Init /\ [][Next]_vars

-----------------------------------------------------------------------------
(* Properties *)

\* Compare and swap among cooperating writers: a rename replaces exactly the file
\* the caller analysed, however long ago that was and whatever inode numbers were
\* reused since, so that no fix or lockfile update is lost.
ReplacesOnlyAnalysed ==
  [][target' # target =>
       \E o \in Calls : /\ committed'[o] /\ ~committed[o]
                        /\ target = exp[o].ino /\ body[target] = exp[o].body]_vars

\* The target always has complete contents: also when a writer dies, fails or an
\* outsider interferes, nobody reads half of a replacement.
TargetIsWhole == body[target] \in Contents

\* A lock file or a temporary file outlives its call only when the writer died or
\* the call reported ATOMIC_WRITE_CLEANUP_FAILED.
LeftoversAreReported ==
  [][(lock' = Stale /\ lock # Stale) \/ ~(orphans' \subseteq orphans)
       => crashes' # crashes \/ \E o \in Calls : pc[o] # "idle" /\ code'[o] = "cleanup"]_vars

\* Seen by its callers, write is CompareAndSwap.
Phase(o) ==
  IF pc[o] = "idle" THEN "idle" ELSE IF committed[o] THEN "swapped" ELSE "asked"

Promise == INSTANCE CompareAndSwap WITH
  file   <- [ino |-> target, body |-> body[target]],
  phase  <- [o \in Calls |-> Phase(o)]

\* Without outsiders the file protocol implements the compare-and-swap that the fix
\* pipeline and the standards update rely on, and AtomicWriteError.committed is the
\* truth about the rename whatever failed afterwards.
ImplementsCompareAndSwap == Promise!Spec

-----------------------------------------------------------------------------
(* Why they hold *)

Locked == {"observe", "release"} \cup Preparing \cup {"published", "sync1"}

\* Only the call that created the lock file works on the target.
LockIsExclusive ==
  /\ \A o \in Calls : pc[o] \in Locked => lock = o
  /\ \A o \in Calls : lock = o => pc[o] \in Locked \cup {"clean-temp", "clean-lock"}

\* A temporary file is private to its call until the rename.
TemporariesArePrivate ==
  /\ \A o \in Calls : Holds(o) => temp[o] # target /\ temp[o] \notin orphans
  /\ \A o, q \in Calls : Holds(o) /\ Holds(q) /\ temp[o] = temp[q] => o = q
  /\ \A o \in Calls : pc[o] \in {"fill", "recheck1", "recheck2", "rename"} => Holds(o)
  /\ \A o \in Calls : pc[o] \in Preparing \cup {"lock", "observe"} => ~committed[o]
  /\ \A o \in Calls : pc[o] \in Finishing => committed[o]
  /\ \A o \in Calls : pc[o] \in {"idle", "lock", "observe", "create", "clean-lock"} => ~Holds(o)
  /\ target \notin orphans

\* What is renamed is the whole replacement.
FilledBeforeCommit ==
  \A o \in Calls : pc[o] \in {"recheck1", "recheck2", "rename"} => body[temp[o]] = new[o]

\* Without an outsider the first comparison stays true until the commit.
ComparisonHolds ==
  MaxEdits = 0 => \A o \in Calls : pc[o] \in Preparing => Matches(o)

\* Success is reported only by a call that committed, and ends it.
SuccessIsCommitted ==
  \A o \in Calls : code[o] = "ok" => pc[o] = "idle" /\ committed[o]

\* The inductive invariant of the writer: exclusive lock, private temporary files,
\* and a comparison with the target that is still true at the rename.
WriterInvariant ==
  /\ TypeOK
  /\ LockIsExclusive
  /\ TemporariesArePrivate
  /\ FilledBeforeCommit
  /\ TargetIsWhole
  /\ ComparisonHolds
  /\ SuccessIsCommitted
=============================================================================
