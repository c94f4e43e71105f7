---------------------------- MODULE DecisionProofs ----------------------------
(***************************************************************************)
(* Proofs about the components that decide from what came before: the      *)
(* standards update, the synchronisation of vendor files, the weekly       *)
(* check, baselines of diagnostics, the activation of rules and the        *)
(* ignore engine.                                                          *)
(***************************************************************************)
EXTENDS MCDecisions, IgnoreEngine, NumberLemmas, FiniteSetTheorems, SequenceTheorems, TLAPS

-----------------------------------------------------------------------------
(* The standards update: types. *)

\* The lockfiles and files of the writer.
LEMMA FileType ==
  ASSUME NEW f \in Writer!File
  PROVE  f.ino \in Inodes /\ f.body \in Locks /\ f.body.ver \in Versions
  BY DEF Writer!File, Locks

\* The lockfile of the bundled pack is one of them.
LEMMA BundledType == Bundled \in Locks /\ Bundled.ver = 0
  BY UpdateAssumption DEF Bundled, Locks, Versions

LEMMA StepType ==
  ASSUME TypeOK, WriterServes, NEW o \in Calls, Step(o)
  PROVE  TypeOK'
  <1> USE UpdateAssumption DEF At, Goto, writer, memory
  <1>1. CASE Observe(o) \/ ReadLock(o)
    <2>1. file \in Writer!File /\ file.ino \in Inodes /\ file.body \in Locks
      BY FileType DEF TypeOK
    <2> QED BY <1>1, <2>1, BundledType DEF Observe, ReadLock, TypeOK, PCs
  <1>2. CASE Prepare(o)
    <2>1. \A v \in cur[o].ver .. latest : [ver |-> v, time |-> now] \in Locks
      BY DEF TypeOK, Locks, Versions
    <2> QED BY <1>2, <2>1, SMTT(30) DEF Prepare, TypeOK, PCs
  <1>3. CASE LookUp(o) \/ RereadEntry(o)
    <2>1. pc' \in [Calls -> PCs]
      <3>1. cand[o].ver \in Versions
        BY DEF TypeOK, Locks
      <3>2. cache[cand[o].ver] \in {"none", "valid", "broken"}
        BY <3>1 DEF TypeOK
      <3> QED BY <1>3, <3>2 DEF LookUp, RereadEntry, TypeOK, PCs
    <2> QED BY <1>3, <2>1 DEF LookUp, RereadEntry, TypeOK
  <1>4. CASE AcquireCacheLock(o) \/ ReleaseCacheLock(o)
    BY <1>4 DEF AcquireCacheLock, ReleaseCacheLock, TypeOK, PCs
  <1>5. CASE StoreEntry(o)
    BY <1>5 DEF StoreEntry, TypeOK, PCs
  <1>6. CASE Replace(o)
    BY <1>6 DEF Replace, Writer!Request, TypeOK, PCs
  <1>7. CASE WriterCommits(o)
    <2>1. /\ file' \in Writer!File
          /\ phase' \in [Calls -> {"idle", "asked", "swapped"}]
          /\ exp' = exp /\ new' = new
      BY <1>7 DEF WriterCommits, Writer!Swap, Writer!File, TypeOK
    <2>2. wrote' \in [Calls -> Inodes]
      BY <1>7, <2>1, FileType DEF WriterCommits, TypeOK
    <2> QED BY <1>7, <2>1, <2>2 DEF WriterCommits, TypeOK
  <1>8. CASE Activated(o)
    <2>1. [exp |-> [ino |-> wrote[o], body |-> cand[o]], previous |-> cur[o]]
            \in [exp : Writer!File, previous : Locks]
      BY DEF TypeOK, Writer!File
    <2>2. /\ minted' \in 0 .. MaxReceipts
          /\ receipts' \in SUBSET Receipts
          /\ rollback' \in [Receipts -> [exp : Writer!File, previous : Locks]]
      <3>1. CASE UNCHANGED <<minted, receipts, rollback>>
        BY <3>1 DEF TypeOK
      <3>2. CASE /\ minted < MaxReceipts
                 /\ minted' = minted + 1
                 /\ receipts' = receipts \cup {minted + 1}
                 /\ rollback' = [rollback EXCEPT ![minted + 1] =
                      [exp |-> [ino |-> wrote[o], body |-> cand[o]], previous |-> cur[o]]]
        <4>1. minted + 1 \in Receipts /\ minted + 1 \in 0 .. MaxReceipts
          BY <3>2 DEF TypeOK, Receipts
        <4> QED BY <2>1, <3>2, <4>1 DEF TypeOK
      <3> QED BY <1>8, <3>1, <3>2 DEF Activated
    <2> QED BY <1>8, <2>2 DEF Activated, Writer!Return, TypeOK, PCs
  <1>9. CASE RollBack(o)
    <2>1. PICK r \in receipts : /\ using' = [using EXCEPT ![o] = r]
                                /\ Writer!Request(o, rollback[r].exp, rollback[r].previous)
      BY <1>9 DEF RollBack
    <2>2. r \in Receipts /\ r \in 0 .. MaxReceipts
      BY DEF TypeOK, Receipts
    <2>3. rollback[r].exp \in Writer!File /\ rollback[r].previous \in Locks
      BY <2>2 DEF TypeOK
    <2> QED BY <1>9, <2>1, <2>2, <2>3 DEF RollBack, Writer!Request, TypeOK, PCs
  <1>10. CASE RolledBack(o)
    BY <1>10 DEF RolledBack, Writer!Return, TypeOK, PCs
  <1> QED BY <1>1, <1>2, <1>3, <1>4, <1>5, <1>6, <1>7, <1>8, <1>9, <1>10 DEF Step

\* A step of one call leaves the local state of the others alone.
LEMMA OthersKeep ==
  ASSUME TypeOK, NEW o \in Calls, Step(o), NEW q \in Calls, q # o
  PROVE  /\ pc'[q] = pc[q] /\ seen'[q] = seen[q] /\ cur'[q] = cur[q] /\ cand'[q] = cand[q]
         /\ using'[q] = using[q]
         /\ phase'[q] = phase[q] /\ exp'[q] = exp[q] /\ new'[q] = new[q]
  BY DEF TypeOK, Step, Observe, ReadLock, Prepare, LookUp, AcquireCacheLock, StoreEntry,
         RereadEntry, ReleaseCacheLock, Replace, WriterCommits, Activated, RollBack, RolledBack,
         Writer!Request, Writer!Swap, Writer!Return, Goto, writer, memory

\* The pack of lockfile l can be read after the step.
StillAvailable(l) == l.ver = 0 \/ cache'[l.ver] = "valid"

\* A published pack stays published: storeEntry never touches an existing entry.
LEMMA AvailableStays ==
  ASSUME TypeOK, NEW l \in Locks, Available(l), NEW o \in Calls, Step(o)
  PROVE  StillAvailable(l)
  <1>1. cache' = cache \/ StoreEntry(o)
    BY DEF Step, Observe, ReadLock, Prepare, LookUp, AcquireCacheLock,
           RereadEntry, ReleaseCacheLock, Replace, WriterCommits, Activated, RollBack, RolledBack
  <1>2. \A v \in Versions : cache[v] = "valid" => cache'[v] = "valid"
    BY <1>1 DEF StoreEntry, TypeOK
  <1>3. l.ver \in Versions
    BY DEF Locks
  <1> QED BY <1>2, <1>3 DEF Available, StillAvailable

-----------------------------------------------------------------------------
(* The conjuncts of UpdateInvariant: a step of a call preserves them *)

LEMMA StepKeepsServes ==
  ASSUME UpdateInvariant, NEW o \in Calls, Step(o)
  PROVE  WriterServes'
  <1> USE DEF UpdateInvariant
  <1>1. ASSUME NEW q \in Calls, q # o
        PROVE  /\ phase'[q] # "idle" <=> pc'[q] \in {"activating", "rolling"}
               /\ pc'[q] = "activating" => exp'[q] = seen'[q] /\ new'[q] = cand'[q]
               /\ pc'[q] = "rolling" => using'[q] \in Receipts /\ StillAvailable(new'[q])
    <2>1. pc[q] = "rolling" => StillAvailable(new[q])
      BY AvailableStays DEF WriterServes, TypeOK
    <2> QED BY <1>1, <2>1, OthersKeep DEF WriterServes
  <1>2. /\ phase'[o] # "idle" <=> pc'[o] \in {"activating", "rolling"}
        /\ pc'[o] = "activating" => exp'[o] = seen'[o] /\ new'[o] = cand'[o]
        /\ pc'[o] = "rolling" => using'[o] \in Receipts /\ StillAvailable(new'[o])
    <2> USE DEF At, Goto, writer, memory
    <2>1. CASE Observe(o) \/ ReadLock(o) \/ Prepare(o)
      BY <2>1 DEF Observe, ReadLock, Prepare, WriterServes, TypeOK
    <2>2. CASE AcquireCacheLock(o) \/ StoreEntry(o) \/ RereadEntry(o) \/ ReleaseCacheLock(o)
      BY <2>2 DEF AcquireCacheLock, StoreEntry, RereadEntry, ReleaseCacheLock, WriterServes, TypeOK
    <2>3. CASE Replace(o)
      BY <2>3 DEF Replace, Writer!Request, WriterServes, TypeOK
    <2>4. CASE WriterCommits(o)
      BY <2>4 DEF WriterCommits, Writer!Swap, WriterServes, TypeOK, Available, StillAvailable
    <2>5. CASE Activated(o) \/ RolledBack(o)
      BY <2>5 DEF Activated, RolledBack, Writer!Return, WriterServes, TypeOK
    <2>6. CASE RollBack(o)
      <3>1. PICK r \in receipts : /\ using' = [using EXCEPT ![o] = r]
                                  /\ Writer!Request(o, rollback[r].exp, rollback[r].previous)
        BY <2>6 DEF RollBack
      <3>2. r \in Receipts /\ Available(rollback[r].previous) /\ cache' = cache
        BY <2>6 DEF TypeOK, PacksArePublished, RollBack
      <3> QED BY <2>6, <3>1, <3>2 DEF RollBack, Writer!Request, TypeOK, Available, StillAvailable
    <2>7. CASE LookUp(o)
      <3>1. cache[cand[o].ver] \in {"none", "valid", "broken"}
        BY DEF TypeOK, Locks
      <3> QED BY <2>7, <3>1 DEF LookUp, WriterServes, TypeOK
    <2> QED BY <2>1, <2>2, <2>3, <2>4, <2>5, <2>6, <2>7 DEF Step
  <1> QED BY <1>1, <1>2 DEF WriterServes, Available, StillAvailable

LEMMA StepKeepsBound ==
  ASSUME UpdateInvariant, NEW o \in Calls, Step(o)
  PROVE  CandidateIsBound'
  <1> USE DEF UpdateInvariant
  <1>1. ASSUME NEW q \in Calls, q # o, pc'[q] \in Prepared
        PROVE  cur'[q] = seen'[q].body /\ cur'[q].ver <= cand'[q].ver
    BY <1>1, OthersKeep DEF CandidateIsBound
  <1>2. ASSUME pc'[o] \in Prepared
        PROVE  cur'[o] = seen'[o].body /\ cur'[o].ver <= cand'[o].ver
    <2> USE DEF At, Goto
    <2>1. CASE Prepare(o)
      <3>1. /\ cur' = cur /\ seen' = seen /\ cur[o] = seen[o].body
            /\ \E v \in cur[o].ver .. latest : cand'[o] = [ver |-> v, time |-> now]
        BY <1>2, <2>1 DEF Prepare, Prepared, TypeOK
      <3>2. cur[o].ver \in Int /\ latest \in Int
        BY DEF TypeOK, Locks, Versions
      <3> QED BY <3>1, <3>2
    <2>2. CASE ~Prepare(o)
      <3>1. pc[o] \in Prepared /\ cur' = cur /\ seen' = seen /\ cand' = cand
        BY <1>2, <2>2 DEF Step, Observe, ReadLock, LookUp, AcquireCacheLock, StoreEntry,
           RereadEntry, ReleaseCacheLock, Replace, WriterCommits, Activated, RollBack, RolledBack,
           Prepared, TypeOK
      <3> QED BY <3>1 DEF CandidateIsBound
    <2> QED BY <2>1, <2>2
  <1> QED BY <1>1, <1>2 DEF CandidateIsBound

LEMMA StepKeepsPublished ==
  ASSUME UpdateInvariant, NEW o \in Calls, Step(o)
  PROVE  PacksArePublished'
  <1> USE DEF UpdateInvariant, At, Goto
  <1> DEFINE Chosen == {"release", "replace", "activating"}
  <1>1. ASSUME NEW q \in Calls
        PROVE  StillAvailable(cur'[q])
    <2>1. cur'[q] \in {cur[q], file.body, Bundled}
      BY DEF Step, Observe, ReadLock, Prepare, LookUp, AcquireCacheLock, StoreEntry,
             RereadEntry, ReleaseCacheLock, Replace, WriterCommits, Activated, RollBack,
             RolledBack, TypeOK
    <2>2. cur[q] \in Locks /\ file.body \in Locks /\ Bundled \in Locks
      BY FileType, BundledType DEF TypeOK
    <2>3. Available(cur[q]) /\ Available(file.body) /\ Available(Bundled)
      BY BundledType DEF PacksArePublished, ActiveIsCached, Available
    <2> QED BY <2>1, <2>2, <2>3, AvailableStays
  <1>2. ASSUME NEW q \in Calls, pc'[q] \in Chosen
        PROVE  StillAvailable(cand'[q])
    <2>1. CASE pc[q] \in Chosen /\ cand'[q] = cand[q]
      <3>1. cand[q] \in Locks /\ Available(cand[q])
        BY <2>1 DEF PacksArePublished, TypeOK
      <3> QED BY <2>1, <3>1, AvailableStays
    <2>2. CASE q = o /\ pc[o] \notin Chosen
      <3>1. LookUp(o) \/ StoreEntry(o) \/ RereadEntry(o)
        BY <1>2, <2>2 DEF Step, Observe, ReadLock, Prepare, AcquireCacheLock, ReleaseCacheLock,
           Replace, WriterCommits, Activated, RollBack, RolledBack, TypeOK
      <3>2. cand' = cand /\ cand[o].ver \in Versions
        BY <3>1 DEF LookUp, StoreEntry, RereadEntry, TypeOK, Locks
      <3>3. cache'[cand[o].ver] = "valid"
        BY <1>2, <2>2, <3>1, <3>2 DEF LookUp, StoreEntry, RereadEntry, TypeOK
      <3> QED BY <2>2, <3>2, <3>3 DEF StillAvailable
    <2>3. CASE q = o /\ pc[o] \in Chosen
      <3>1. cand' = cand
        BY <2>3 DEF Step, Observe, ReadLock, Prepare, LookUp, AcquireCacheLock, StoreEntry,
           RereadEntry, ReleaseCacheLock, Replace, WriterCommits, Activated, RollBack, RolledBack
      <3> QED BY <2>1, <2>3, <3>1
    <2>4. CASE q # o
      BY <1>2, <2>1, <2>4, OthersKeep
    <2> QED BY <2>2, <2>3, <2>4
  <1>3. ASSUME NEW r \in Receipts
        PROVE  StillAvailable(rollback'[r].previous)
    <2>1. rollback'[r].previous \in {rollback[r].previous, cur[o]}
      BY SMTT(30) DEF Step, Observe, ReadLock, Prepare, LookUp, AcquireCacheLock, StoreEntry,
             RereadEntry, ReleaseCacheLock, Replace, WriterCommits, Activated, RollBack,
             RolledBack, TypeOK, memory
    <2>2. cur[o] \in Locks /\ rollback[r].previous \in Locks
      BY DEF TypeOK
    <2>3. Available(cur[o]) /\ Available(rollback[r].previous)
      BY DEF PacksArePublished
    <2> QED BY <2>1, <2>2, <2>3, AvailableStays
  <1> QED BY <1>1, <1>2, <1>3 DEF PacksArePublished, Available, StillAvailable

LEMMA StepKeepsCached ==
  ASSUME UpdateInvariant, NEW o \in Calls, Step(o)
  PROVE  ActiveIsCached'
  <1> USE DEF UpdateInvariant
  <1>1. file' = file \/ WriterCommits(o)
    BY DEF Step, Observe, ReadLock, Prepare, LookUp, AcquireCacheLock, StoreEntry,
           RereadEntry, ReleaseCacheLock, Replace, Activated, RollBack, RolledBack,
           Writer!Request, Writer!Return, writer
  <1>2. CASE file' = file
    <2>1. file.body \in Locks /\ Available(file.body)
      BY FileType DEF TypeOK, ActiveIsCached
    <2> QED BY <1>2, <2>1, AvailableStays DEF ActiveIsCached, Available, StillAvailable
  <1>3. CASE WriterCommits(o)
    <2>1. file'.body = new[o] /\ phase[o] = "asked" /\ cache' = cache
      BY <1>3 DEF WriterCommits, Writer!Swap
    <2>2. Available(new[o])
      BY <2>1 DEF WriterServes, PacksArePublished
    <2> QED BY <2>1, <2>2 DEF ActiveIsCached, Available
  <1> QED BY <1>1, <1>2, <1>3

-----------------------------------------------------------------------------
(* The theorems *)

LEMMA UpdateInvariantInit == Init => UpdateInvariant
  <1> SUFFICES ASSUME Init PROVE UpdateInvariant
    OBVIOUS
  <1>1. file \in Writer!File /\ file.body \in Locks /\ file.body.ver = 0
    BY BundledType DEF Init, Writer!File
  <1>2. TypeOK
    BY <1>1, UpdateAssumption, FileType DEF Init, TypeOK, PCs, Versions, Receipts
  <1>3. WriterServes /\ CandidateIsBound
    BY DEF Init, WriterServes, CandidateIsBound, Prepared
  <1>4. PacksArePublished /\ ActiveIsCached
    BY <1>1 DEF Init, PacksArePublished, ActiveIsCached, Available
  <1> QED BY <1>2, <1>3, <1>4 DEF UpdateInvariant

LEMMA UpdateInvariantStep == UpdateInvariant /\ [Next]_vars => UpdateInvariant'
  <1> SUFFICES ASSUME UpdateInvariant, [Next]_vars PROVE UpdateInvariant'
    OBVIOUS
  <1> USE UpdateAssumption DEF UpdateInvariant
  <1>1. ASSUME NEW o \in Calls, Step(o)
        PROVE  UpdateInvariant'
    BY <1>1, StepType, StepKeepsServes, StepKeepsBound, StepKeepsPublished, StepKeepsCached
  <1>2. CASE RegistryPublishes \/ Tick \/ UNCHANGED vars
    <2>1. /\ UNCHANGED <<writer, pc, seen, cur, cand, wrote, using, cache, cacheLock, memory>>
          /\ latest' \in Versions /\ now' \in 0 .. MaxTime
      BY <1>2 DEF RegistryPublishes, Tick, vars, TypeOK, Versions
    <2> USE <2>1 DEF writer, memory
    <2>2. TypeOK'
      BY DEF TypeOK
    <2>3. WriterServes' /\ CandidateIsBound'
      BY DEF WriterServes, CandidateIsBound, Available
    <2>4. PacksArePublished' /\ ActiveIsCached'
      BY DEF PacksArePublished, ActiveIsCached, Available
    <2> QED BY <2>2, <2>3, <2>4
  <1>3. CASE Restart
    <2> USE <1>3 DEF Restart
    <2>1. TypeOK'
      BY DEF TypeOK, PCs
    <2>2. WriterServes' /\ CandidateIsBound'
      BY DEF WriterServes, CandidateIsBound, Prepared
    <2>3. PacksArePublished' /\ ActiveIsCached'
      BY DEF PacksArePublished, ActiveIsCached, Available
    <2> QED BY <2>1, <2>2, <2>3
  <1> QED BY <1>1, <1>2, <1>3 DEF Next

\* The inductive invariant of activation and rollback.
THEOREM UpdateInvariantHolds == Spec => []UpdateInvariant
  BY UpdateInvariantInit, UpdateInvariantStep, PTL DEF Spec

\* For any number of concurrent activations, rollbacks, failures and restarts, the
\* active standards lockfile names a pack that is published in the cache.
THEOREM ActiveLockIsAlwaysCached == Spec => []ActiveIsCached
  <1>1. UpdateInvariant => ActiveIsCached
    BY DEF UpdateInvariant
  <1> QED BY <1>1, UpdateInvariantHolds, PTL

\* However stale the observation an activation started from, it replaces the lockfile it
\* verified its candidate against, never with an older trusted state.
THEOREM ActivationsMoveForward == Spec => ActivationNeverDowngrades
  <1> DEFINE Forward(o) == pc[o] = "activating" /\ file' # file /\ phase'[o] # phase[o]
                             => file.body = cur[o] /\ file.body.ver <= file'.body.ver
  <1>1. UpdateInvariant /\ [Next]_vars => [\A o \in Calls : Forward(o)]_vars
    <2> SUFFICES ASSUME UpdateInvariant, Next, NEW o \in Calls, pc[o] = "activating",
                        file' # file, phase'[o] # phase[o]
                 PROVE  file.body = cur[o] /\ file.body.ver <= file'.body.ver
      OBVIOUS
    <2> USE DEF UpdateInvariant
    <2>1. PICK q \in Calls : WriterCommits(q)
      BY DEF Next, Step, Observe, ReadLock, Prepare, LookUp, AcquireCacheLock, StoreEntry,
             RereadEntry, ReleaseCacheLock, Replace, Activated, RollBack, RolledBack,
             Writer!Request, Writer!Return, writer, RegistryPublishes, Tick, Restart
    <2>2. q = o
      BY <2>1 DEF WriterCommits, Writer!Swap, TypeOK
    <2>3. file = exp[o] /\ file'.body = new[o]
      BY <2>1, <2>2 DEF WriterCommits, Writer!Swap
    <2>4. exp[o] = seen[o] /\ new[o] = cand[o]
      BY DEF WriterServes
    <2>5. cur[o] = seen[o].body /\ cur[o].ver <= cand[o].ver
      BY DEF CandidateIsBound, Prepared
    <2> QED BY <2>3, <2>4, <2>5
  <1> QED BY <1>1, UpdateInvariantHolds, PTL DEF Spec, ActivationNeverDowngrades

-----------------------------------------------------------------------------
(* Synchronisation of vendor files.  The base the caller keeps is a generated text or
   none, so that a file which equals it is not work done by hand; between a comparison
   and its rename only an edit changes the file. *)
VendorTexts == [by : {"generator", "hand", "nobody"}, of : Nat]

MergeStates ==
  {"unrepresentable", "create-preview", "missing-current", "malformed-current",
   "malformed-prior-base", "already-current", "untracked-existing", "hand-edit-conflict",
   "clean-update"}

IdleSync == [pc : {"idle", "failed"}]
ReadSync == [pc : {"read"}, owner : Synchronizers, version : Nat \ {0}]
IssuedSync ==
  [pc : {"issued", "pipeline", "rename", "applied", "failed"}, owner : Synchronizers,
   version : Nat \ {0}, before : VendorTexts, state : MergeStates]

SyncTypeOK ==
  /\ canonical \in Nat \ {0} /\ vendor \in VendorTexts /\ priorBase \in VendorTexts
  /\ sync \in [SyncCalls -> IdleSync \cup ReadSync \cup IssuedSync]

BaseIsGenerated == priorBase \in {NoBase, Damaged} \/ priorBase.by = "generator"

(* A target whose replacement is ready, or under way, was previewed as generated. *)
ReplacesGenerated(call) ==
  call.pc \in {"pipeline", "rename"} \/ (call.pc = "issued" /\ call.state = "clean-update")
    => call.before.by = "generator"

(* A target found current was previewed with the text that is generated for it. *)
CurrentIsGenerated(call) ==
  call.pc = "issued" /\ call.state = "already-current"
    => call.before = Generated(call.version)

(* The file is still what was compared, until an edit or the rename. *)
RenamesCompared ==
  \A c \in SyncCalls : SyncAt(c, "rename") /\ c \notin overtaken => vendor = sync[c].before

OneRenames ==
  \A c, d \in SyncCalls : SyncAt(c, "rename") /\ SyncAt(d, "rename") => c = d

StepsShowFile ==
  \A c \in inStep \cap SyncCalls :
    /\ SyncAt(c, "issued") => vendor = sync[c].before
    /\ SyncAt(c, "applied") => vendor = Generated(sync[c].version)

SettledIsFile == settled => priorBase = vendor /\ vendor.by = "generator" /\ vendor.of # 0

SyncInvariant ==
  /\ SyncTypeOK /\ BaseIsGenerated
  /\ \A c \in SyncCalls : ReplacesGenerated(sync[c]) /\ CurrentIsGenerated(sync[c])
  /\ RenamesCompared /\ OneRenames /\ StepsShowFile /\ SettledIsFile

LEMMA CleanUpdateIsOfBase ==
  ASSUME NEW version, NEW current \in VendorTexts, NEW prior \in VendorTexts,
         prior \in {NoBase, Damaged} \/ prior.by = "generator",
         MergeState(version, current, prior) = "clean-update"
  PROVE  current.by = "generator"
BY DEF MergeState, ValidSyntax, Missing, NoBase, Damaged, VendorTexts

LEMMA CurrentIsExact ==
  ASSUME NEW version, NEW current, NEW prior,
         MergeState(version, current, prior) = "already-current"
  PROVE  current = Generated(version)
BY DEF MergeState

LEMMA MergeStateIsWord ==
  ASSUME NEW version, NEW current, NEW prior
  PROVE  MergeState(version, current, prior) \in MergeStates
BY DEF MergeState, MergeStates

LEMMA SyncShapes ==
  ASSUME SyncTypeOK, NEW c \in SyncCalls
  PROVE  /\ sync[c].pc = "read" => sync[c] \in ReadSync
         /\ sync[c].pc \in {"issued", "pipeline", "rename", "applied"} => sync[c] \in IssuedSync
BY DEF SyncTypeOK, IdleSync, ReadSync, IssuedSync

LEMMA SyncInitially == SyncInit => SyncInvariant
BY DEF SyncInit, SyncInvariant, SyncTypeOK, BaseIsGenerated, ReplacesGenerated, CurrentIsGenerated,
       RenamesCompared, OneRenames, StepsShowFile, SettledIsFile, SyncAt, IdleSync, VendorTexts,
       Missing, NoBase

(* A step of one call that leaves the texts alone: what is left to show of the call. *)
LEMMA SyncOfCall ==
  ASSUME SyncInvariant, NEW c \in SyncCalls, NEW call \in IdleSync \cup ReadSync \cup IssuedSync,
         sync' = [sync EXCEPT ![c] = call],
         UNCHANGED <<canonical, vendor, priorBase, settled>>,
         ReplacesGenerated(call), CurrentIsGenerated(call),
         inStep' \subseteq inStep \cup {c},
         c \in inStep' /\ call.pc = "issued" => vendor = call.before,
         call.pc # "applied",
         overtaken' \in {overtaken, overtaken \ {c}},
         call.pc = "rename" => vendor = call.before /\ \A d \in SyncCalls : ~SyncAt(d, "rename")
  PROVE  SyncInvariant'
<1> USE DEF SyncInvariant
<1>1. sync'[c] = call /\ \A d \in SyncCalls \ {c} : sync'[d] = sync[d]
  BY DEF SyncTypeOK
<1>2. SyncTypeOK' /\ BaseIsGenerated' /\ SettledIsFile'
  BY DEF SyncTypeOK, BaseIsGenerated, SettledIsFile
<1>3. \A d \in SyncCalls : (ReplacesGenerated(sync[d]) /\ CurrentIsGenerated(sync[d]))'
  BY <1>1 DEF ReplacesGenerated, CurrentIsGenerated
<1>4. RenamesCompared' /\ OneRenames'
  BY <1>1 DEF RenamesCompared, OneRenames, SyncAt
<1>5. StepsShowFile'
  BY <1>1 DEF StepsShowFile, SyncAt
<1>. QED
  BY <1>2, <1>3, <1>4, <1>5

(* A step that writes the text generated for a call. *)
LEMMA SyncWrites ==
  ASSUME SyncInvariant, NEW c \in SyncCalls, Writes(c), sync[c] \in IssuedSync,
         NEW outcome \in {"applied", "failed"}, sync' = [sync EXCEPT ![c].pc = outcome],
         UNCHANGED <<canonical, priorBase>>, overtaken' \in {overtaken, overtaken \ {c}},
         \A d \in SyncCalls \ {c} : SyncAt(d, "rename") => d \in overtaken
  PROVE  SyncInvariant'
<1> USE DEF SyncInvariant
<1>1. sync'[c] = [sync[c] EXCEPT !.pc = outcome] /\ \A d \in SyncCalls \ {c} : sync'[d] = sync[d]
  BY DEF SyncTypeOK
<1>2. sync'[c] \in IssuedSync /\ sync'[c].pc = outcome /\ sync'[c].version = sync[c].version
  BY <1>1 DEF IssuedSync
<1>3. vendor' \in VendorTexts
  BY DEF Writes, Generated, VendorTexts, IssuedSync
<1>4. SyncTypeOK' /\ BaseIsGenerated' /\ SettledIsFile'
  BY <1>2, <1>3 DEF SyncTypeOK, BaseIsGenerated, SettledIsFile, Writes
<1>5. \A d \in SyncCalls : (ReplacesGenerated(sync[d]) /\ CurrentIsGenerated(sync[d]))'
  BY <1>1, <1>2 DEF ReplacesGenerated, CurrentIsGenerated
<1>6. RenamesCompared' /\ OneRenames'
  BY <1>1, <1>2 DEF RenamesCompared, OneRenames, SyncAt
<1>7. StepsShowFile'
  BY <1>2 DEF StepsShowFile, SyncAt, Writes
<1>. QED
  BY <1>4, <1>5, <1>6, <1>7

LEMMA SyncStep == SyncInvariant /\ [SyncNext]_syncVars => SyncInvariant'
<1> SUFFICES ASSUME SyncInvariant, [SyncNext]_syncVars PROVE SyncInvariant'
  OBVIOUS
<1>t. SyncTypeOK
  BY DEF SyncInvariant
<1>1. ASSUME NEW c \in SyncCalls, NEW s \in Synchronizers, ReadCanonical(c, s) PROVE SyncInvariant'
  <2> DEFINE call == [pc |-> "read", owner |-> s, version |-> canonical]
  <2>1. call \in ReadSync /\ ReplacesGenerated(call) /\ CurrentIsGenerated(call)
    BY <1>t DEF SyncTypeOK, ReadSync, ReplacesGenerated, CurrentIsGenerated
  <2>2. sync' = [sync EXCEPT ![c] = call]
    BY <1>1 DEF ReadCanonical
  <2>3. call.pc = "read"
    OBVIOUS
  <2> HIDE DEF call
  <2>. QED
    BY <1>1, <2>1, <2>2, <2>3, SyncOfCall DEF ReadCanonical, history
<1>2. ASSUME NEW c \in SyncCalls, NEW s \in Synchronizers, Apply(c, s) PROVE SyncInvariant'
  <2>1. sync[c] \in IssuedSync
    BY <1>2, <1>t, SyncShapes DEF Apply, SyncAt
  <2> DEFINE to == IF sync[c].state = "clean-update" THEN "pipeline" ELSE sync[c].pc
             call == [sync[c] EXCEPT !.pc = to]
  <2>2. to \in {"pipeline", "issued"} /\ (to = "pipeline" => sync[c].state = "clean-update")
    BY <1>2 DEF Apply, SyncAt
  <2>3. sync' = [sync EXCEPT ![c] = call]
    BY <1>2, <1>t DEF Apply, SyncTypeOK
  <2> HIDE DEF to
  <2>4. call \in IssuedSync /\ call.pc = to /\ call.before = sync[c].before
    BY <2>1, <2>2 DEF IssuedSync
  <2>5. ReplacesGenerated(call) /\ CurrentIsGenerated(call)
    BY <1>2, <2>1, <2>2 DEF SyncInvariant, ReplacesGenerated, CurrentIsGenerated, Apply, SyncAt, IssuedSync
  <2>6. c \in inStep => vendor = call.before
    BY <1>2, <2>4 DEF SyncInvariant, StepsShowFile, Apply
  <2> HIDE DEF call
  <2>. QED
    BY <1>2, <2>2, <2>3, <2>4, <2>5, <2>6, SyncOfCall DEF Apply, history
<1>3. ASSUME NEW c \in SyncCalls, Preview(c) PROVE SyncInvariant'
  <2>1. sync[c] \in ReadSync
    BY <1>3, <1>t, SyncShapes DEF Preview, SyncAt
  <2>2. CASE sync' = [sync EXCEPT ![c] = [pc |-> "failed"]] /\ UNCHANGED inStep
    <3> DEFINE call == [pc |-> "failed"]
    <3>1. call \in IdleSync /\ ReplacesGenerated(call) /\ CurrentIsGenerated(call)
      BY DEF IdleSync, ReplacesGenerated, CurrentIsGenerated
    <3>2. sync' = [sync EXCEPT ![c] = call] /\ call.pc = "failed"
      BY <2>2
    <3> HIDE DEF call
    <3>. QED
      BY <1>3, <2>2, <3>1, <3>2, SyncOfCall DEF Preview
  <2>3. CASE /\ sync' = [sync EXCEPT ![c] =
                  [pc |-> "issued", owner |-> @.owner, version |-> @.version, before |-> vendor,
                   state |-> MergeState(@.version, vendor, priorBase)]]
             /\ inStep' = inStep \cup {c}
    <3> DEFINE state == MergeState(sync[c].version, vendor, priorBase)
               call == [pc |-> "issued", owner |-> sync[c].owner, version |-> sync[c].version,
                        before |-> vendor, state |-> state]
    <3>1. state \in MergeStates
      BY MergeStateIsWord
    <3>2. state = "clean-update" => vendor.by = "generator"
      BY CleanUpdateIsOfBase DEF SyncInvariant, SyncTypeOK, BaseIsGenerated
    <3>3. state = "already-current" => vendor = Generated(sync[c].version)
      BY CurrentIsExact
    <3>4. sync' = [sync EXCEPT ![c] = call]
      BY <2>3
    <3> HIDE DEF state
    <3>5. call \in IssuedSync /\ call.pc = "issued" /\ call.before = vendor
      BY <1>t, <2>1, <3>1 DEF SyncTypeOK, ReadSync, IssuedSync
    <3>6. ReplacesGenerated(call) /\ CurrentIsGenerated(call)
      BY <3>2, <3>3 DEF ReplacesGenerated, CurrentIsGenerated
    <3> HIDE DEF call
    <3>. QED
      BY <1>3, <2>3, <3>4, <3>5, <3>6, SyncOfCall DEF Preview
  <2>. QED
    BY <1>3, <2>2, <2>3 DEF Preview
<1>4. ASSUME NEW c \in SyncCalls, KeepBase(c) PROVE SyncInvariant'
  <2>1. sync[c] \in IssuedSync
    BY <1>4, <1>t, SyncShapes DEF KeepBase, SyncAt
  <2>2. priorBase' \in VendorTexts /\ priorBase'.by = "generator" /\ priorBase'.of # 0
    BY <1>4, <2>1 DEF KeepBase, IssuedSync, Generated, VendorTexts
  <2>3. c \in inStep => vendor = priorBase'
    BY <1>4 DEF KeepBase, SyncInvariant, StepsShowFile, CurrentIsGenerated, SyncAt
  <2>4. SettledIsFile'
    BY <1>4, <2>2, <2>3 DEF KeepBase, SettledIsFile
  <2>5. UNCHANGED <<canonical, vendor, sync, overtaken, inStep>>
    BY <1>4 DEF KeepBase
  <2>. QED
    BY <2>2, <2>4, <2>5 DEF SyncInvariant, SyncTypeOK, BaseIsGenerated, RenamesCompared, OneRenames,
          StepsShowFile, SyncAt, ReplacesGenerated, CurrentIsGenerated
<1>5. ASSUME NEW c \in SyncCalls, PipelineCompares(c) PROVE SyncInvariant'
  <2>1. sync[c] \in IssuedSync
    BY <1>5, <1>t, SyncShapes DEF PipelineCompares, SyncAt
  <2>2. PICK to \in {"rename", "failed"} :
          /\ sync' = [sync EXCEPT ![c].pc = to]
          /\ to = "rename" => vendor = sync[c].before /\ \A d \in SyncCalls : ~SyncAt(d, "rename")
    BY <1>5 DEF PipelineCompares
  <2> DEFINE call == [sync[c] EXCEPT !.pc = to]
  <2>3. sync' = [sync EXCEPT ![c] = call]
    BY <2>2, <1>t DEF SyncTypeOK
  <2>4. call \in IssuedSync /\ call.pc = to /\ call.before = sync[c].before
    BY <2>1 DEF IssuedSync
  <2>5. ReplacesGenerated(call) /\ CurrentIsGenerated(call)
    BY <1>5, <2>1, <2>4 DEF SyncInvariant, ReplacesGenerated, CurrentIsGenerated, PipelineCompares, SyncAt
  <2> HIDE DEF call
  <2>. QED
    BY <1>5, <2>2, <2>3, <2>4, <2>5, SyncOfCall DEF PipelineCompares, history
<1>6. ASSUME NEW c \in SyncCalls, PipelineReplaces(c) PROVE SyncInvariant'
  <2>1. sync[c] \in IssuedSync
    BY <1>6, <1>t, SyncShapes DEF PipelineReplaces, SyncAt
  <2>2. CASE Writes(c) /\ \E outcome \in {"applied", "failed"} : sync' = [sync EXCEPT ![c].pc = outcome]
    <3>1. \A d \in SyncCalls \ {c} : ~SyncAt(d, "rename")
      BY <1>6 DEF PipelineReplaces, SyncInvariant, OneRenames
    <3>. QED
      BY <1>6, <2>1, <2>2, <3>1, SyncWrites DEF PipelineReplaces
  <2>3. CASE sync' = [sync EXCEPT ![c].pc = "failed"] /\ UNCHANGED <<vendor, inStep, settled>>
    <3> DEFINE call == [sync[c] EXCEPT !.pc = "failed"]
    <3>1. sync' = [sync EXCEPT ![c] = call]
      BY <2>3, <1>t DEF SyncTypeOK
    <3>2. call \in IssuedSync /\ call.pc = "failed"
      BY <2>1 DEF IssuedSync
    <3>3. ReplacesGenerated(call) /\ CurrentIsGenerated(call)
      BY <3>2 DEF ReplacesGenerated, CurrentIsGenerated
    <3> HIDE DEF call
    <3>. QED
      BY <1>6, <2>3, <3>1, <3>2, <3>3, SyncOfCall DEF PipelineReplaces
  <2>. QED
    BY <1>6, <2>2, <2>3 DEF PipelineReplaces
<1>7. ASSUME NEW c \in SyncCalls, CreateReviewed(c) PROVE SyncInvariant'
  <2>1. sync[c] \in IssuedSync
    BY <1>7, <1>t, SyncShapes DEF CreateReviewed, SyncAt
  <2>2. ASSUME NEW d \in SyncCalls, SyncAt(d, "rename"), d \notin overtaken PROVE FALSE
    BY <1>7, <2>2 DEF CreateReviewed, Missing, SyncInvariant, RenamesCompared, ReplacesGenerated, SyncAt
  <2>. QED
    BY <1>7, <2>1, <2>2, SyncWrites DEF CreateReviewed
<1>8. CASE CanonicalChanges
  BY <1>8, SyncAssumption DEF CanonicalChanges, PolicyVersions, SyncInvariant, SyncTypeOK,
     BaseIsGenerated, RenamesCompared, OneRenames, StepsShowFile, SettledIsFile, SyncAt, history,
     ReplacesGenerated, CurrentIsGenerated
<1>9. CASE EditByHand
  <2>1. vendor' \in VendorTexts
    BY <1>9, <1>t DEF EditByHand, ByHand, Missing, VendorTexts, SyncTypeOK
  <2>. QED
    BY <1>9, <2>1 DEF EditByHand, SyncInvariant, SyncTypeOK,
       BaseIsGenerated, RenamesCompared, OneRenames, StepsShowFile, SettledIsFile, SyncAt,
       ReplacesGenerated, CurrentIsGenerated
<1>10. CASE LoseBase
  BY <1>10 DEF LoseBase, NoBase, Damaged, VendorTexts, SyncInvariant, SyncTypeOK,
     BaseIsGenerated, RenamesCompared, OneRenames, StepsShowFile, SettledIsFile, SyncAt,
     ReplacesGenerated, CurrentIsGenerated
<1>11. CASE UNCHANGED syncVars
  BY <1>11 DEF syncVars, SyncInvariant, SyncTypeOK,
     BaseIsGenerated, RenamesCompared, OneRenames, StepsShowFile, SettledIsFile, SyncAt,
     ReplacesGenerated, CurrentIsGenerated
<1>. QED
  BY <1>1, <1>2, <1>3, <1>4, <1>5, <1>6, <1>7, <1>8, <1>9, <1>10, <1>11 DEF SyncNext

LEMMA SyncInvariantHolds == SyncSpec => []SyncInvariant
BY SyncInitially, SyncStep, PTL DEF SyncSpec

(* For any number of calls, synchronizers and versions: apply() and the reviewed creation
   replace nothing but generated text, save an edit made between the comparison and the
   rename of that apply() (canonical-policy-sync.ts preview(), apply()). *)
THEOREM SyncKeepsHandEdits == SyncSpec => HandEditsSurvive
<1> DEFINE Kept == \A c \in SyncCalls :
             vendor' # vendor /\ sync'[c] # sync[c] =>
               vendor = Missing \/ vendor.by = "generator" \/ c \in overtaken
<1>1. SyncInvariant /\ [SyncNext]_syncVars => [Kept]_syncVars
  <2> SUFFICES ASSUME SyncInvariant, SyncNext, NEW c \in SyncCalls,
                      vendor' # vendor, sync'[c] # sync[c]
               PROVE  vendor = Missing \/ vendor.by = "generator" \/ c \in overtaken
    BY DEF SyncInvariant
  <2>1. PICK d \in SyncCalls : PipelineReplaces(d) \/ CreateReviewed(d)
    BY DEF SyncNext, ReadCanonical, Apply, Preview, KeepBase, PipelineCompares, CanonicalChanges,
           EditByHand, LoseBase
  <2>2. d = c
    BY <2>1 DEF PipelineReplaces, CreateReviewed, SyncInvariant, SyncTypeOK
  <2>3. CASE PipelineReplaces(c)
    BY <2>3 DEF PipelineReplaces, SyncAt, SyncInvariant, ReplacesGenerated, RenamesCompared
  <2>4. CASE CreateReviewed(c)
    BY <2>4 DEF CreateReviewed
  <2>. QED
    BY <2>1, <2>2, <2>3, <2>4
<1>. QED
  BY <1>1, SyncInvariantHolds, PTL DEF SyncSpec, HandEditsSurvive

(* For any number of calls, versions and lost or damaged bases: a base kept of the file as
   it is lets the next preview go on (canonical-policy-sync.ts preview(), nextBase). *)
THEOREM KeptBasesServe == SyncSpec => []KeptBaseServes
<1>1. SyncInvariant => KeptBaseServes
  <2> SUFFICES ASSUME SyncInvariant, settled, NEW v \in PolicyVersions \ Unrepresentable
               PROVE  MergeState(v, vendor, priorBase) \in {"already-current", "clean-update"}
    BY DEF KeptBaseServes
  <2>1. priorBase = vendor /\ vendor.by = "generator" /\ vendor.of # 0
    BY DEF SyncInvariant, SettledIsFile
  <2>. QED
    BY <2>1 DEF MergeState, ValidSyntax, Missing, NoBase, Damaged
<1>. QED
  BY <1>1, SyncInvariantHolds, PTL

-----------------------------------------------------------------------------
(* The weekly check.  Only the maintainer ever replaces the baseline, so nothing else is in
   its place while it is moved aside, and what is aside then is the baseline that was. *)
Places == {"baseline", "candidate", "review"}
PlacesOf(w) == IF w = Scheduler THEN Places \ {"baseline"} ELSE Places
EntriesOf(w) == [name : PlacesOf(w), content : Int]
Aside == [name : Places \cup {"none"}, content : Int]

IdleCommand == [pc : {"idle"}]
AcceptCommand(w) == [pc : IF w = Scheduler THEN {} ELSE {"accept"}, candidate : Int]
Statuses == {"baseline-initialized", "baseline-accepted", "changed", "unchanged"}
WorkCommand(w) ==
  [pc : {"replace", "moved", "placed", "catch"}, todo : Seq(EntriesOf(w)),
   status : Statuses, candidate : Int, reviewed : Int]

Working == {"moved", "placed", "catch"}

WeeklyTypeOK ==
  /\ directory \in [Places -> Int] /\ failures \in Nat
  /\ DOMAIN weekly = Weekly
  /\ \A w \in Weekly : weekly[w] \in IdleCommand \cup AcceptCommand(w) \cup WorkCommand(w)
  /\ old \in [Weekly -> Aside]

HasTarget(w) == weekly[w].pc \in Working => weekly[w].todo # <<>>
AsideIsTarget(w) == weekly[w].pc = "moved" => old[w].name = Target(w)
BaselineIsOut(w) == weekly[w].pc = "moved" /\ Target(w) = "baseline" => directory["baseline"] = Nothing
CatchMeansFailure(w) == weekly[w].pc = "catch" /\ Target(w) = "baseline" => failures > 0

AcceptedIsSomewhere ==
  failures = 0 /\ accepted # Nothing =>
    \/ directory["baseline"] = accepted
    \/ Entry("baseline", accepted) \in stray
    \/ \E w \in Weekly : weekly[w].pc = "moved" /\ old[w] = Entry("baseline", accepted)

WeeklyInvariant ==
  /\ WeeklyTypeOK
  /\ \A w \in Weekly :
       HasTarget(w) /\ AsideIsTarget(w) /\ BaselineIsOut(w) /\ CatchMeansFailure(w)
  /\ AcceptedIsSomewhere

LEMMA CommandShapes ==
  ASSUME WeeklyTypeOK, NEW w \in Weekly
  PROVE  /\ weekly[w].pc = "accept" => weekly[w] \in AcceptCommand(w)
         /\ weekly[w].pc \in {"replace"} \cup Working => weekly[w] \in WorkCommand(w)
BY DEF WeeklyTypeOK, IdleCommand, AcceptCommand, WorkCommand, Working

LEMMA TargetIsPlace ==
  ASSUME NEW w \in Weekly, weekly[w] \in WorkCommand(w), weekly[w].todo # <<>>
  PROVE  /\ Target(w) \in PlacesOf(w) /\ Target(w) \in Places
         /\ Head(weekly[w].todo).content \in Int
         /\ Tail(weekly[w].todo) \in Seq(EntriesOf(w))
<1>1. weekly[w].todo \in Seq(EntriesOf(w))
  BY DEF WorkCommand
<1>2. Head(weekly[w].todo) \in EntriesOf(w) /\ Tail(weekly[w].todo) \in Seq(EntriesOf(w))
  BY <1>1, HeadTailProperties
<1>. QED
  BY <1>2 DEF EntriesOf, Target, PlacesOf

LEMMA OnlyOneReplacesBaseline ==
  ASSUME NEW v \in Weekly, NEW w \in Weekly, "baseline" \in PlacesOf(v), "baseline" \in PlacesOf(w)
  PROVE  v = w
BY OneMaintainer DEF PlacesOf, Places

LEMMA WeeklyInitially == WeeklyInit => WeeklyInvariant
<1> SUFFICES ASSUME WeeklyInit PROVE WeeklyInvariant
  OBVIOUS
<1>1. directory \in [Places -> Int]
  BY DEF WeeklyInit, Places, Nothing
<1>2. WeeklyTypeOK
  BY <1>1 DEF WeeklyInit, WeeklyTypeOK, IdleCommand, NoCommand, Aside, NoEntry, Entry, Nothing
<1>. QED
  BY <1>2 DEF WeeklyInit, WeeklyInvariant, HasTarget, AsideIsTarget, BaselineIsOut, CatchMeansFailure,
              AcceptedIsSomewhere, NoCommand, Working

(* A command that goes on without touching a directory. *)
LEMMA CommandGoesOn ==
  ASSUME WeeklyInvariant, NEW w \in Weekly, weekly[w].pc # "moved", NEW command,
         command \in IdleCommand \cup AcceptCommand(w) \cup WorkCommand(w), command.pc \notin Working,
         weekly' = [weekly EXCEPT ![w] = command],
         directory' = directory, old' = old, stray' = stray, accepted' = accepted,
         failures' \in {failures, failures + 1}
  PROVE  WeeklyInvariant'
<1>1. WeeklyTypeOK'
  BY DEF WeeklyInvariant, WeeklyTypeOK
<1>2. ASSUME NEW v \in Weekly
      PROVE  HasTarget(v)' /\ AsideIsTarget(v)' /\ BaselineIsOut(v)' /\ CatchMeansFailure(v)'
  <2>1. CASE v = w
    BY <2>1 DEF WeeklyInvariant, WeeklyTypeOK, HasTarget, AsideIsTarget, BaselineIsOut,
                CatchMeansFailure, Working
  <2>2. CASE v # w
    BY <2>2 DEF WeeklyInvariant, WeeklyTypeOK, HasTarget, AsideIsTarget, BaselineIsOut,
                CatchMeansFailure, Target
  <2>. QED
    BY <2>1, <2>2
<1>3. AcceptedIsSomewhere'
  BY DEF WeeklyInvariant, WeeklyTypeOK, AcceptedIsSomewhere
<1>. QED
  BY <1>1, <1>2, <1>3 DEF WeeklyInvariant

(* A command that leaves the directories alone and ends a replacement, or its run. *)
LEMMA CommandEnds ==
  ASSUME WeeklyInvariant, NEW w \in Weekly,
         weekly'[w] \in IdleCommand \cup AcceptCommand(w) \cup WorkCommand(w), weekly'[w].pc \notin Working,
         DOMAIN weekly' = Weekly, \A v \in Weekly : v # w => weekly'[v] = weekly[v],
         old' \in [Weekly -> Aside], \A v \in Weekly : v # w => old'[v] = old[v],
         UNCHANGED <<directory, failures, accepted>>,
         \/ stray' = stray /\ weekly[w].pc # "moved"
         \/ stray' = stray \cup {old[w]}
  PROVE  WeeklyInvariant'
<1>1. WeeklyTypeOK'
  BY DEF WeeklyInvariant, WeeklyTypeOK
<1>2. ASSUME NEW v \in Weekly
      PROVE  HasTarget(v)' /\ AsideIsTarget(v)' /\ BaselineIsOut(v)' /\ CatchMeansFailure(v)'
  <2>1. CASE v = w
    BY <2>1 DEF HasTarget, AsideIsTarget, BaselineIsOut, CatchMeansFailure, Working
  <2>2. CASE v # w
    BY <2>2 DEF WeeklyInvariant, HasTarget, AsideIsTarget, BaselineIsOut, CatchMeansFailure, Target
  <2>. QED
    BY <2>1, <2>2
<1>3. AcceptedIsSomewhere'
  BY DEF WeeklyInvariant, AcceptedIsSomewhere
<1>. QED
  BY <1>1, <1>2, <1>3 DEF WeeklyInvariant

(* A step of replaceDirectory leaves the command its target, and every other command as it is. *)
LEMMA StepKeepsTarget ==
  ASSUME WeeklyInvariant, NEW w \in Weekly, weekly[w] \in WorkCommand(w), weekly[w].todo # <<>>,
         NEW next \in Working, weekly' = [weekly EXCEPT ![w].pc = next]
  PROVE  /\ weekly'[w] \in WorkCommand(w) /\ weekly'[w].pc = next
         /\ Target(w)' = Target(w) /\ weekly'[w].todo # <<>> /\ DOMAIN weekly' = Weekly
         /\ \A v \in Weekly : v # w => weekly'[v] = weekly[v] /\ Target(v)' = Target(v)
<1>1. weekly'[w] = [weekly[w] EXCEPT !.pc = next] /\ DOMAIN weekly' = Weekly
  BY DEF WeeklyInvariant, WeeklyTypeOK
<1>2. \A v \in Weekly : v # w => weekly'[v] = weekly[v]
  BY DEF WeeklyInvariant, WeeklyTypeOK
<1>3. /\ weekly'[w] \in WorkCommand(w) /\ weekly'[w].pc = next
      /\ weekly'[w].todo = weekly[w].todo
  BY <1>1 DEF WorkCommand, Working
<1>. QED
  BY <1>1, <1>2, <1>3 DEF Target

LEMMA WeeklyStep == WeeklyInvariant /\ [WeeklyNext]_weeklyVars => WeeklyInvariant'
<1> SUFFICES ASSUME WeeklyInvariant, [WeeklyNext]_weeklyVars PROVE WeeklyInvariant'
  OBVIOUS
<1>t. WeeklyTypeOK
  BY DEF WeeklyInvariant
<1>i. NoCommand \in IdleCommand /\ NoCommand.pc \notin Working
  BY DEF NoCommand, IdleCommand, Working
<1>c. Captures \subseteq Int
  BY WeeklyAssumption
<1>1. ASSUME NEW w \in Weekly, NEW initialize \in BOOLEAN, NEW s \in Captures, Check(w, initialize, s)
      PROVE  WeeklyInvariant'
  <2> DEFINE first == <<Entry("candidate", s), Entry("baseline", s)>>
             again == <<Entry("candidate", s)>> \o
                        IF s # directory.baseline THEN <<Entry("review", s)>> ELSE <<>>
  <2>1. w # Scheduler => first \in Seq(EntriesOf(w))
    BY <1>c DEF EntriesOf, PlacesOf, Places, Entry
  <2>2. again \in Seq(EntriesOf(w))
    <3>1. Entry("candidate", s) \in EntriesOf(w) /\ Entry("review", s) \in EntriesOf(w)
      BY <1>c DEF EntriesOf, PlacesOf, Places, Entry
    <3>. QED
      BY <3>1
  <2>3. ASSUME NEW todo \in Seq(EntriesOf(w)), NEW status \in Statuses
        PROVE  /\ Replacing(todo, status, s, Nothing) \in WorkCommand(w)
               /\ Replacing(todo, status, s, Nothing).pc \notin Working
    BY <1>c DEF Replacing, WorkCommand, Working, Nothing
  <2>4. \E command \in WorkCommand(w) :
          command.pc \notin Working /\ weekly' = [weekly EXCEPT ![w] = command]
    <3>1. CASE initialize /\ weekly' = [weekly EXCEPT ![w] =
                 Replacing(first, "baseline-initialized", s, Nothing)]
      <4>1. first \in Seq(EntriesOf(w))
        BY <1>1, <2>1, <3>1 DEF Check
      <4> HIDE DEF first
      <4> DEFINE command == Replacing(first, "baseline-initialized", s, Nothing)
      <4>2. command \in WorkCommand(w) /\ command.pc \notin Working
        BY <2>3, <4>1 DEF Statuses
      <4>3. weekly' = [weekly EXCEPT ![w] = command]
        BY <3>1 DEF first
      <4> HIDE DEF command
      <4>. QED
        BY <4>2, <4>3
    <3>2. CASE weekly' = [weekly EXCEPT ![w] =
                 Replacing(again, IF s # directory.baseline THEN "changed" ELSE "unchanged", s, Nothing)]
      <4> DEFINE status == IF s # directory.baseline THEN "changed" ELSE "unchanged"
      <4>1. status \in Statuses
        BY DEF Statuses
      <4>2. weekly' = [weekly EXCEPT ![w] = Replacing(again, status, s, Nothing)]
        BY <3>2
      <4> HIDE DEF status, again
      <4> DEFINE command == Replacing(again, status, s, Nothing)
      <4>3. command \in WorkCommand(w) /\ command.pc \notin Working
        BY <2>2, <2>3, <4>1
      <4>4. weekly' = [weekly EXCEPT ![w] = command]
        BY <4>2
      <4> HIDE DEF command
      <4>. QED
        BY <4>3, <4>4
    <3>. QED
      BY <1>1, <3>1, <3>2 DEF Check
  <2>5. weekly[w].pc # "moved"
    BY <1>1 DEF Check, Starts, WeeklyAt
  <2>. QED
    BY <1>1, <2>4, <2>5, CommandGoesOn DEF Check
<1>2. ASSUME NEW w \in Weekly, Accept(w) PROVE WeeklyInvariant'
  <2>1. [pc |-> "accept", candidate |-> directory.candidate] \in AcceptCommand(w)
    BY <1>2, <1>c DEF Accept, AcceptCommand
  <2>2. weekly[w].pc # "moved"
    BY <1>2 DEF Accept, Starts, WeeklyAt
  <2>. QED
    BY <1>2, <2>1, <2>2, CommandGoesOn DEF Accept, Working
<1>3. ASSUME NEW w \in Weekly, AcceptChanged(w) PROVE WeeklyInvariant'
  <2>1. weekly[w] \in AcceptCommand(w) /\ weekly[w].pc # "moved"
    BY <1>3, <1>t, CommandShapes DEF AcceptChanged, WeeklyAt
  <2>2. CASE stateFile.status = "changed"
    <3> DEFINE command == Replacing(<<Entry("baseline", weekly[w].candidate)>>, "baseline-accepted",
                                    weekly[w].candidate, directory.review)
    <3>1. command \in WorkCommand(w) /\ command.pc \notin Working
      <4>1. w # Scheduler /\ weekly[w].candidate \in Int
        BY <2>1 DEF AcceptCommand
      <4>2. directory.review \in Int
        BY <1>t DEF WeeklyTypeOK, Places
      <4>3. <<Entry("baseline", weekly[w].candidate)>> \in Seq(EntriesOf(w))
        BY <4>1 DEF EntriesOf, PlacesOf, Places, Entry
      <4>. QED
        BY <4>1, <4>2, <4>3 DEF Replacing, WorkCommand, Working, Statuses
    <3>2. weekly' = [weekly EXCEPT ![w] = command]
      BY <1>3, <2>2 DEF AcceptChanged
    <3> HIDE DEF command
    <3>. QED
      BY <1>3, <2>1, <3>1, <3>2, CommandGoesOn DEF AcceptChanged
  <2>3. CASE stateFile.status # "changed"
    BY <1>3, <1>i, <2>1, <2>3, CommandGoesOn DEF AcceptChanged, WeeklyEnds
  <2>. QED
    BY <2>2, <2>3
<1>4. ASSUME NEW w \in Weekly, MoveAside(w) PROVE WeeklyInvariant'
  <2>1. weekly[w] \in WorkCommand(w) /\ weekly[w].todo # <<>>
    BY <1>4, <1>t, CommandShapes DEF MoveAside, WeeklyAt
  <2>2. Target(w) \in Places
    BY <2>1, TargetIsPlace
  <2>3. /\ weekly'[w] \in WorkCommand(w) /\ weekly'[w].pc = "moved"
        /\ Target(w)' = Target(w) /\ weekly'[w].todo # <<>> /\ DOMAIN weekly' = Weekly
        /\ \A v \in Weekly : v # w => weekly'[v] = weekly[v] /\ Target(v)' = Target(v)
    BY <1>4, <2>1, StepKeepsTarget DEF MoveAside, Working
  <2>4. /\ directory' = [directory EXCEPT ![Target(w)] = Nothing]
        /\ old' = [old EXCEPT ![w] = Entry(Target(w), directory[Target(w)])]
        /\ UNCHANGED <<stray, failures, accepted>>
    BY <1>4 DEF MoveAside
  <2>5. directory' \in [Places -> Int] /\ old' \in [Weekly -> Aside]
    BY <1>t, <2>2, <2>4 DEF WeeklyTypeOK, Nothing, Aside, Entry
  <2>6. WeeklyTypeOK'
    BY <1>t, <2>3, <2>4, <2>5 DEF WeeklyTypeOK
  <2>7. ASSUME NEW v \in Weekly
        PROVE  HasTarget(v)' /\ AsideIsTarget(v)' /\ BaselineIsOut(v)' /\ CatchMeansFailure(v)'
    <3>1. directory'["baseline"] \in {Nothing, directory["baseline"]}
      BY <1>t, <2>4 DEF WeeklyTypeOK, Places
    <3>2. CASE v = w
      BY <1>t, <2>2, <2>3, <2>4, <3>2 DEF WeeklyTypeOK, HasTarget, AsideIsTarget, BaselineIsOut,
         CatchMeansFailure, Entry
    <3>3. CASE v # w
      BY <1>t, <2>3, <2>4, <3>1, <3>3 DEF WeeklyInvariant, WeeklyTypeOK, HasTarget, AsideIsTarget,
         BaselineIsOut, CatchMeansFailure
    <3>. QED
      BY <3>2, <3>3
  <2>8. AcceptedIsSomewhere'
    <3> SUFFICES ASSUME failures = 0, accepted # Nothing
                 PROVE  \/ directory'["baseline"] = accepted
                        \/ Entry("baseline", accepted) \in stray
                        \/ \E v \in Weekly : weekly'[v].pc = "moved" /\ old'[v] = Entry("baseline", accepted)
      BY <2>4 DEF AcceptedIsSomewhere
    <3>1. CASE directory["baseline"] = accepted
      <4>1. CASE Target(w) = "baseline"
        BY <1>t, <2>3, <2>4, <3>1, <4>1 DEF WeeklyTypeOK
      <4>2. CASE Target(w) # "baseline"
        BY <1>t, <2>4, <3>1, <4>2 DEF WeeklyTypeOK, Places
      <4>. QED
        BY <4>1, <4>2
    <3>2. ASSUME NEW v \in Weekly, weekly[v].pc = "moved", old[v] = Entry("baseline", accepted)
          PROVE  weekly'[v].pc = "moved" /\ old'[v] = Entry("baseline", accepted)
      BY <1>4, <1>t, <2>3, <2>4, <3>2 DEF MoveAside, WeeklyAt, WeeklyTypeOK
    <3>. QED
      BY <3>1, <3>2 DEF WeeklyInvariant, AcceptedIsSomewhere
  <2>. QED
    BY <2>6, <2>7, <2>8 DEF WeeklyInvariant
<1>5. ASSUME NEW w \in Weekly, MoveInto(w) PROVE WeeklyInvariant'
  <2>1. weekly[w] \in WorkCommand(w) /\ weekly[w].todo # <<>>
    BY <1>5, <1>t, CommandShapes DEF MoveInto, WeeklyAt, Working, WeeklyInvariant, HasTarget
  <2>2. Target(w) \in Places /\ Target(w) \in PlacesOf(w) /\ Head(weekly[w].todo).content \in Int
    BY <2>1, TargetIsPlace
  <2>3. /\ weekly'[w] \in WorkCommand(w) /\ weekly'[w].pc = "placed"
        /\ Target(w)' = Target(w) /\ weekly'[w].todo # <<>> /\ DOMAIN weekly' = Weekly
        /\ \A v \in Weekly : v # w => weekly'[v] = weekly[v] /\ Target(v)' = Target(v)
    BY <1>5, <2>1, StepKeepsTarget DEF MoveInto, Working
  <2>4. /\ directory' = [directory EXCEPT ![Target(w)] = Head(weekly[w].todo).content]
        /\ accepted' = IF Target(w) = "baseline" THEN directory'.baseline ELSE accepted
        /\ UNCHANGED <<old, stray, failures>>
    BY <1>5 DEF MoveInto, PlacesBaseline
  <2>5. directory' \in [Places -> Int]
    BY <1>t, <2>2, <2>4 DEF WeeklyTypeOK
  <2>6. WeeklyTypeOK'
    BY <1>t, <2>3, <2>4, <2>5 DEF WeeklyTypeOK
  <2>7. ASSUME NEW v \in Weekly
        PROVE  HasTarget(v)' /\ AsideIsTarget(v)' /\ BaselineIsOut(v)' /\ CatchMeansFailure(v)'
    <3>1. CASE v = w
      BY <2>3, <3>1 DEF HasTarget, AsideIsTarget, BaselineIsOut, CatchMeansFailure
    <3>2. CASE v # w
      <4>1. ASSUME weekly[v].pc = "moved", Target(v) = "baseline" PROVE Target(w) # "baseline"
        <5>1. weekly[v] \in WorkCommand(v) /\ weekly[v].todo # <<>>
          BY <1>t, <4>1, CommandShapes DEF Working, WeeklyInvariant, HasTarget
        <5>2. "baseline" \in PlacesOf(v)
          BY <4>1, <5>1, TargetIsPlace
        <5>. QED
          BY <2>2, <3>2, <5>2, OnlyOneReplacesBaseline
      <4>2. Target(w) # "baseline" => directory'["baseline"] = directory["baseline"]
        BY <1>t, <2>4 DEF WeeklyTypeOK, Places
      <4>. QED
        BY <2>3, <2>4, <3>2, <4>1, <4>2 DEF WeeklyInvariant, HasTarget, AsideIsTarget,
           BaselineIsOut, CatchMeansFailure
    <3>. QED
      BY <3>1, <3>2
  <2>8. AcceptedIsSomewhere'
    <3>1. CASE Target(w) = "baseline"
      BY <2>4, <3>1 DEF AcceptedIsSomewhere
    <3>2. CASE Target(w) # "baseline"
      <4>1. directory'["baseline"] = directory["baseline"] /\ accepted' = accepted
        BY <1>t, <2>4, <3>2 DEF WeeklyTypeOK, Places
      <4>2. ~(weekly[w].pc = "moved" /\ old[w] = Entry("baseline", accepted))
        BY <3>2, <1>5 DEF WeeklyInvariant, AsideIsTarget, Entry
      <4>. QED
        BY <2>3, <2>4, <4>1, <4>2 DEF WeeklyInvariant, AcceptedIsSomewhere
    <3>. QED
      BY <3>1, <3>2
  <2>. QED
    BY <2>6, <2>7, <2>8 DEF WeeklyInvariant
<1>6. ASSUME NEW w \in Weekly, RemoveOld(w) PROVE WeeklyInvariant'
  <2>1. weekly[w] \in WorkCommand(w) /\ weekly[w].todo # <<>>
    BY <1>6, <1>t, CommandShapes DEF RemoveOld, WeeklyAt, Working, WeeklyInvariant, HasTarget
  <2>2. Tail(weekly[w].todo) \in Seq(EntriesOf(w))
    BY <2>1, TargetIsPlace
  <2>3. weekly'[w] = [weekly[w] EXCEPT !.pc = "replace", !.todo = Tail(weekly[w].todo)]
    BY <1>6, <1>t DEF RemoveOld, WeeklyTypeOK
  <2>4. weekly'[w] \in WorkCommand(w) /\ weekly'[w].pc = "replace"
    BY <2>1, <2>2, <2>3 DEF WorkCommand
  <2>5. DOMAIN weekly' = Weekly /\ \A v \in Weekly : v # w => weekly'[v] = weekly[v]
    BY <1>6, <1>t DEF RemoveOld, WeeklyTypeOK
  <2>6. /\ old' \in [Weekly -> Aside] /\ \A v \in Weekly : v # w => old'[v] = old[v]
        /\ UNCHANGED <<directory, stray, failures, accepted>>
    BY <1>6, <1>t DEF RemoveOld, WeeklyTypeOK, Aside, NoEntry, Entry, Nothing
  <2>. QED
    BY <1>6, <1>t, <2>4, <2>5, <2>6, CommandEnds DEF RemoveOld, WeeklyAt, Working
<1>7. ASSUME NEW w \in Weekly, ReplaceFails(w) PROVE WeeklyInvariant'
  <2>1. weekly[w] \in WorkCommand(w) /\ weekly[w].todo # <<>>
    BY <1>7, <1>t, CommandShapes DEF ReplaceFails, WeeklyAt, Working, WeeklyInvariant, HasTarget
  <2>2. Target(w) \in Places
    BY <2>1, TargetIsPlace
  <2>3. /\ weekly'[w] \in WorkCommand(w) /\ weekly'[w].pc = "catch"
        /\ Target(w)' = Target(w) /\ weekly'[w].todo # <<>> /\ DOMAIN weekly' = Weekly
        /\ \A v \in Weekly : v # w => weekly'[v] = weekly[v] /\ Target(v)' = Target(v)
    BY <1>7, <2>1, StepKeepsTarget DEF ReplaceFails, Working
  <2>4. /\ directory' = [directory EXCEPT ![Target(w)] = Nothing]
        /\ UNCHANGED <<stray, accepted>>
    BY <1>7 DEF ReplaceFails
  <2>5. /\ old' \in [Weekly -> Aside] /\ \A v \in Weekly : v # w => old'[v] = old[v]
    <3>1. CASE old' = old
      BY <1>t, <3>1 DEF WeeklyTypeOK
    <3>2. CASE old' = [old EXCEPT ![w].content = Broken]
      <4>1. old[w] \in Aside /\ old' = [old EXCEPT ![w] = [old[w] EXCEPT !.content = Broken]]
        BY <1>t, <3>2 DEF WeeklyTypeOK
      <4>2. [old[w] EXCEPT !.content = Broken] \in Aside
        BY <4>1 DEF Aside, Broken
      <4>. QED
        BY <1>t, <4>1, <4>2 DEF WeeklyTypeOK
    <3>. QED
      BY <1>7, <3>1, <3>2 DEF ReplaceFails
  <2>6. /\ failures' \in Nat /\ failures' >= failures
        /\ \/ failures' > 0
           \/ weekly[w].pc = "moved" /\ directory[Target(w)] # Nothing /\ failures' = failures
    BY <1>7, <1>t DEF ReplaceFails, WeeklyAt, WeeklyTypeOK
  <2>7. directory' \in [Places -> Int]
    BY <1>t, <2>2, <2>4 DEF WeeklyTypeOK, Nothing
  <2>8. WeeklyTypeOK'
    BY <1>t, <2>3, <2>5, <2>6, <2>7 DEF WeeklyTypeOK
  <2>9. failures' > 0 \/ Target(w) # "baseline"
    BY <2>6 DEF WeeklyInvariant, BaselineIsOut
  <2>10. ASSUME NEW v \in Weekly
         PROVE  HasTarget(v)' /\ AsideIsTarget(v)' /\ BaselineIsOut(v)' /\ CatchMeansFailure(v)'
    <3>1. directory'["baseline"] \in {Nothing, directory["baseline"]}
      BY <1>t, <2>4 DEF WeeklyTypeOK, Places
    <3>2. CASE v = w
      BY <2>3, <2>9, <3>2 DEF HasTarget, AsideIsTarget, BaselineIsOut, CatchMeansFailure
    <3>3. CASE v # w
      <4>1. HasTarget(v)' /\ AsideIsTarget(v)' /\ BaselineIsOut(v)'
        BY <2>3, <2>5, <3>1, <3>3 DEF WeeklyInvariant, HasTarget, AsideIsTarget, BaselineIsOut
      <4>2. CatchMeansFailure(v)'
        BY <1>t, <2>3, <2>6, <3>3 DEF WeeklyInvariant, WeeklyTypeOK, CatchMeansFailure
      <4>. QED
        BY <4>1, <4>2
    <3>. QED
      BY <3>2, <3>3
  <2>11. AcceptedIsSomewhere'
    <3>1. CASE failures' > 0
      BY <3>1 DEF AcceptedIsSomewhere
    <3>2. CASE ~(failures' > 0)
      <4>1. Target(w) # "baseline" /\ weekly[w].pc = "moved" /\ failures' = failures
        BY <2>6, <2>9, <3>2
      <4>2. directory'["baseline"] = directory["baseline"]
        BY <1>t, <2>4, <4>1 DEF WeeklyTypeOK, Places
      <4>3. old[w] # Entry("baseline", accepted)
        BY <4>1 DEF WeeklyInvariant, AsideIsTarget, Entry
      <4>. QED
        BY <2>3, <2>4, <2>5, <4>1, <4>2, <4>3 DEF WeeklyInvariant, AcceptedIsSomewhere
    <3>. QED
      BY <3>1, <3>2
  <2>. QED
    BY <2>8, <2>10, <2>11 DEF WeeklyInvariant
<1>8. ASSUME NEW w \in Weekly, CatchRestores(w) PROVE WeeklyInvariant'
  <2>1. weekly[w] \in WorkCommand(w) /\ weekly[w].todo # <<>>
    BY <1>8, <1>t, CommandShapes DEF CatchRestores, WeeklyAt, Working, WeeklyInvariant, HasTarget
  <2>2. Target(w) \in Places /\ Target(w) \in PlacesOf(w)
    BY <2>1, TargetIsPlace
  <2>3. DOMAIN weekly' = Weekly /\ weekly'[w] = NoCommand /\ \A v \in Weekly : v # w => weekly'[v] = weekly[v]
    BY <1>8, <1>t DEF CatchRestores, WeeklyEnds, WeeklyTypeOK
  <2>4. old' \in [Weekly -> Aside] /\ \A v \in Weekly : v # w => old'[v] = old[v]
    BY <1>8, <1>t DEF CatchRestores, WeeklyTypeOK, Aside, NoEntry, Entry, Nothing
  <2>5. UNCHANGED <<failures, accepted>> /\ stray \subseteq stray'
    BY <1>8 DEF CatchRestores
  <2>6. /\ directory' \in [Places -> Int]
        /\ Target(w) # "baseline" => directory'["baseline"] = directory["baseline"]
    <3>1. CASE directory' = directory
      BY <1>t, <3>1 DEF WeeklyTypeOK
    <3>2. CASE directory' = [directory EXCEPT ![Target(w)] = old[w].content]
      <4>1. old[w].content \in Int
        BY <1>t DEF WeeklyTypeOK, Aside
      <4>. QED
        BY <1>t, <2>2, <3>2, <4>1 DEF WeeklyTypeOK, Places
    <3>. QED
      BY <1>8, <3>1, <3>2 DEF CatchRestores
  <2>7. Target(w) = "baseline" => failures > 0
    BY <1>8 DEF CatchRestores, WeeklyAt, WeeklyInvariant, CatchMeansFailure
  <2>8. WeeklyTypeOK'
    BY <1>t, <1>i, <2>3, <2>4, <2>5, <2>6 DEF WeeklyTypeOK
  <2>9. ASSUME NEW v \in Weekly
        PROVE  HasTarget(v)' /\ AsideIsTarget(v)' /\ BaselineIsOut(v)' /\ CatchMeansFailure(v)'
    <3>1. CASE v = w
      BY <2>3, <3>1 DEF HasTarget, AsideIsTarget, BaselineIsOut, CatchMeansFailure, NoCommand, Working
    <3>2. CASE v # w
      <4>1. ASSUME weekly[v].pc = "moved", Target(v) = "baseline" PROVE Target(w) # "baseline"
        <5>1. weekly[v] \in WorkCommand(v) /\ weekly[v].todo # <<>>
          BY <1>t, <4>1, CommandShapes DEF Working, WeeklyInvariant, HasTarget
        <5>2. "baseline" \in PlacesOf(v)
          BY <4>1, <5>1, TargetIsPlace
        <5>. QED
          BY <2>2, <3>2, <5>2, OnlyOneReplacesBaseline
      <4>2. Target(v)' = Target(v)
        BY <2>3, <3>2 DEF Target
      <4>. QED
        BY <2>3, <2>4, <2>5, <2>6, <3>2, <4>1, <4>2 DEF WeeklyInvariant, HasTarget, AsideIsTarget,
           BaselineIsOut, CatchMeansFailure
    <3>. QED
      BY <3>1, <3>2
  <2>10. AcceptedIsSomewhere'
    <3>1. ASSUME NEW v \in Weekly, weekly[v].pc = "moved"
          PROVE  weekly'[v] = weekly[v] /\ old'[v] = old[v]
      BY <1>8, <2>3, <2>4, <3>1 DEF CatchRestores, WeeklyAt
    <3>. QED
      BY <2>5, <2>6, <2>7, <3>1 DEF WeeklyInvariant, AcceptedIsSomewhere
  <2>. QED
    BY <2>8, <2>9, <2>10 DEF WeeklyInvariant
<1>9. ASSUME NEW w \in Weekly, StageFails(w) PROVE WeeklyInvariant'
  BY <1>9, <1>i, CommandGoesOn DEF StageFails, WeeklyAt, WeeklyEnds
<1>10. ASSUME NEW w \in Weekly, WriteState(w) PROVE WeeklyInvariant'
  BY <1>10, <1>i, CommandGoesOn DEF WriteState, WeeklyAt, WeeklyEnds
<1>11. ASSUME NEW w \in Weekly, Dies(w) PROVE WeeklyInvariant'
  <2>1. DOMAIN weekly' = Weekly /\ weekly'[w] = NoCommand /\ \A v \in Weekly : v # w => weekly'[v] = weekly[v]
    BY <1>11, <1>t DEF Dies, WeeklyEnds, WeeklyTypeOK
  <2>2. /\ old' \in [Weekly -> Aside] /\ \A v \in Weekly : v # w => old'[v] = old[v]
        /\ stray' = stray \cup {old[w]}
        /\ UNCHANGED <<directory, failures, accepted>>
    BY <1>11, <1>t DEF Dies, WeeklyTypeOK, Aside, NoEntry, Entry, Nothing
  <2>. QED
    BY <1>i, <2>1, <2>2, CommandEnds
<1>12. CASE UNCHANGED weeklyVars
  BY <1>12 DEF weeklyVars, WeeklyInvariant, WeeklyTypeOK, HasTarget, AsideIsTarget, BaselineIsOut,
     CatchMeansFailure, AcceptedIsSomewhere, Target
<1>. QED
  BY <1>1, <1>2, <1>3, <1>4, <1>5, <1>6, <1>7, <1>8, <1>9, <1>10, <1>11, <1>12 DEF WeeklyNext

(* For any number of commands, deaths and captures: the weekly check keeps the baseline that
   replaceDirectory last put in place, in its place or aside (local-weekly-check.mjs). *)
THEOREM WeeklyKeepsBaseline == WeeklySpec => []BaselineRetained
<1>1. WeeklyInvariant => BaselineRetained
  BY DEF WeeklyInvariant, AcceptedIsSomewhere, BaselineRetained
<1>2. WeeklySpec => []WeeklyInvariant
  BY WeeklyInitially, WeeklyStep, PTL DEF WeeklySpec
<1>. QED
  BY <1>1, <1>2, PTL

-----------------------------------------------------------------------------
(* Baselines.  A comparison is made once, with the entries that are still there. *)
RecordedFrom(report) == {EntryFromDiagnostic(d) : d \in {d \in Range(report) : d.kind = "lint"}}

IsComparison(c, report, moves, validity) ==
  /\ c.report = report /\ c.moves = moves /\ c.validity = validity
  /\ c.outcomes = [i \in DOMAIN report |-> Outcome(report, moves, report[i], validity)]
  /\ c.same \in BOOLEAN /\ (c.same => baselineEntries = RecordedFrom(report))

BaselineInvariant ==
  \/ comparison = <<>> /\ baselineEntries = RecordedFrom(baselineSource)
  \/ /\ comparison # <<>>
     /\ \E report \in Reports, moves \in MoveSets, validity \in Validity :
          IsComparison(comparison, report, moves, validity)

LEMMA ReportIndices ==
  ASSUME NEW report \in Reports
  PROVE  /\ \A i \in DOMAIN report : report[i] \in Diagnostics
         /\ \A S \in SUBSET DOMAIN report : IsFiniteSet(S)
<1>1. PICK m \in 0 .. MaxReport : report \in [1 .. m -> Diagnostics]
  BY BaselineAssumption DEF Reports, BoundedSeq, SeqOf
<1>2. IsFiniteSet(1 .. m)
  BY FS_Interval
<1>. QED
  BY <1>1, <1>2, FS_Subset

(* A count of one: nothing else in the report is the same. *)
LEMMA CountsOne ==
  ASSUME NEW report \in Reports, NEW i \in DOMAIN report
  PROVE  /\ CurrentIdentityCount(report, report[i]) = 1 <=>
              \A j \in DOMAIN report \ {i} : MatchIdentity(report[j]) # MatchIdentity(report[i])
         /\ CurrentSemanticCount(report, report[i]) = 1 <=>
              \A j \in DOMAIN report \ {i} : SemanticIdentity(report[j]) # SemanticIdentity(report[i])
<1> DEFINE same == {j \in DOMAIN report : MatchIdentity(report[j]) = MatchIdentity(report[i])}
           alike == {j \in DOMAIN report : SemanticIdentity(report[j]) = SemanticIdentity(report[i])}
<1>1. IsFiniteSet(same) /\ IsFiniteSet(alike) /\ i \in same /\ i \in alike
  BY ReportIndices
<1>2. Cardinality(same) = 1 <=> same = {i}
  BY <1>1, FS_Singleton
<1>3. Cardinality(alike) = 1 <=> alike = {i}
  BY <1>1, FS_Singleton
<1>4. same = {i} <=> \A j \in DOMAIN report \ {i} : MatchIdentity(report[j]) # MatchIdentity(report[i])
  OBVIOUS
<1>5. alike = {i} <=> \A j \in DOMAIN report \ {i} : SemanticIdentity(report[j]) # SemanticIdentity(report[i])
  OBVIOUS
<1>. QED
  BY <1>2, <1>3, <1>4, <1>5 DEF CurrentIdentityCount, CurrentSemanticCount

(* What a diagnostic that is hidden has in common with the entry that hides it. *)
LEMMA HiddenByEntry ==
  ASSUME NEW report \in Reports, NEW moves \in MoveSets, NEW validity \in Validity,
         NEW i \in DOMAIN report, Outcome(report, moves, report[i], validity).status = "matched"
  PROVE  /\ validity = "current" /\ report[i].kind = "lint"
         /\ \E e \in baselineEntries :
              /\ Outcome(report, moves, report[i], validity).entry = {e}
              /\ e.content = report[i].content
              /\ \/ /\ e.path = report[i].path
                    /\ \A j \in DOMAIN report \ {i} : MatchIdentity(report[j]) # MatchIdentity(report[i])
                 \/ /\ [from |-> e.path, to |-> report[i].path, content |-> report[i].content] \in moves
                    /\ \A j \in DOMAIN report \ {i} :
                         SemanticIdentity(report[j]) # SemanticIdentity(report[i])
<1> DEFINE d == report[i]
           exact == {e \in baselineEntries : MatchIdentity(e) = MatchIdentity(d)}
           near == {e \in baselineEntries : e.path = d.path}
           declarations == {m \in moves : m.to = d.path /\ m.content = d.content}
           candidates == {e \in baselineEntries : SemanticIdentity(e) = SemanticIdentity(d)}
           eligibles == {e \in candidates : \E m \in declarations : m.from = e.path}
           byPath == CHOOSE e \in exact : TRUE
           byMove == CHOOSE e \in eligibles : TRUE
<1>1. \A s : Visible(s).status = s
  BY DEF Visible
<1>2. \A e : /\ Matched(e, validity).status = "matched" => validity # "expired"
             /\ Matched(e, validity).entry = {e}
  BY DEF Matched
<1>3. CASE exact # {} /\ CurrentIdentityCount(report, d) = 1
  <2>1. byPath \in exact
    BY <1>3
  <2>2. \A j \in DOMAIN report \ {i} : MatchIdentity(report[j]) # MatchIdentity(d)
    BY <1>3, CountsOne
  <2>3. byPath \in baselineEntries /\ byPath.path = d.path /\ byPath.content = d.content
    BY <2>1 DEF MatchIdentity
  <2>4. /\ d.kind = "lint" /\ validity # "incompatible"
        /\ Outcome(report, moves, d, validity) = Matched(byPath, validity)
    BY <1>1, <1>3 DEF Outcome
  <2> HIDE DEF byPath
  <2>5. validity = "current" /\ Outcome(report, moves, d, validity).entry = {byPath}
    BY <1>2, <2>4 DEF Validity
  <2>. QED
    BY <2>2, <2>3, <2>4, <2>5
<1>4. CASE ~(exact # {} /\ CurrentIdentityCount(report, d) = 1)
  <2>1. /\ d.kind = "lint" /\ validity # "incompatible"
        /\ Outcome(report, moves, d, validity) = Moved(report, moves, d, validity)
    BY <1>1, <1>4 DEF Outcome
  <2>2. /\ Cardinality(eligibles) = 1 /\ CurrentSemanticCount(report, d) = 1
        /\ Moved(report, moves, d, validity) = Matched(byMove, validity)
    BY <1>1, <2>1 DEF Moved
  <2>3. byMove \in eligibles
    <3>1. eligibles # {}
      BY <2>2, FS_EmptySet
    <3>. QED
      BY <3>1
  <2>4. PICK m \in moves : m.from = byMove.path /\ m.to = d.path /\ m.content = d.content
    BY <2>3
  <2>5. byMove \in baselineEntries /\ byMove.content = d.content
    BY <2>3 DEF SemanticIdentity
  <2> HIDE DEF byMove
  <2>6. m = [from |-> byMove.path, to |-> d.path, content |-> d.content]
    BY <2>4 DEF MoveSets, Moves
  <2>7. \A j \in DOMAIN report \ {i} : SemanticIdentity(report[j]) # SemanticIdentity(d)
    BY <2>2, CountsOne
  <2>8. validity = "current" /\ Outcome(report, moves, d, validity).entry = {byMove}
    BY <1>2, <2>1, <2>2 DEF Validity
  <2>. QED
    BY <2>1, <2>4, <2>5, <2>6, <2>7, <2>8
<1>. QED
  BY <1>3, <1>4

LEMMA BaselineInitially == BaselineInit => BaselineInvariant
<1> SUFFICES ASSUME BaselineInit PROVE BaselineInvariant
  OBVIOUS
<1>1. Range(baselineSource) = {}
  BY DEF BaselineInit, Range
<1>2. RecordedFrom(baselineSource) = {}
  BY <1>1 DEF RecordedFrom
<1>. QED
  BY <1>2 DEF BaselineInit, BaselineInvariant

LEMMA BaselineStep == BaselineInvariant /\ [BaselineNext]_baselineVars => BaselineInvariant'
<1> SUFFICES ASSUME BaselineInvariant, [BaselineNext]_baselineVars PROVE BaselineInvariant'
  OBVIOUS
<1>1. ASSUME NEW report \in Reports, Generate(report) PROVE BaselineInvariant'
  BY <1>1 DEF Generate, BaselineInvariant, RecordedFrom
<1>2. ASSUME baselineEntries' = baselineEntries, NEW report, NEW moves, NEW d, NEW validity
      PROVE  Outcome(report, moves, d, validity)' = Outcome(report, moves, d, validity)
  BY <1>2 DEF Outcome, Moved
<1>3. ASSUME NEW report \in Reports, NEW moves \in MoveSets, NEW validity \in Validity,
             Compare(report, moves, validity)
      PROVE  BaselineInvariant'
  <2>1. baselineEntries' = baselineEntries /\ baselineEntries = RecordedFrom(baselineSource)
    BY <1>3 DEF Compare, BaselineInvariant
  <2>2. comparison' = [report |-> report, moves |-> moves, validity |-> validity,
                       outcomes |-> [i \in DOMAIN report |-> Outcome(report, moves, report[i], validity)],
                       same |-> report = baselineSource]
    BY <1>3, Zenon DEF Compare
  <2>3. comparison' # <<>>
    <3>1. "report" \in DOMAIN comparison'
      BY <2>2
    <3>. QED
      BY <3>1
  <2>4. /\ comparison'.report = report /\ comparison'.moves = moves /\ comparison'.validity = validity
        /\ comparison'.outcomes = [i \in DOMAIN report |-> Outcome(report, moves, report[i], validity)]
        /\ comparison'.same = (report = baselineSource)
    BY <2>2
  <2>5. comparison'.outcomes = [i \in DOMAIN report |-> Outcome(report, moves, report[i], validity)']
    BY <1>2, <2>1, <2>4
  <2>6. comparison'.same \in BOOLEAN /\ (comparison'.same => baselineEntries' = RecordedFrom(report))
    BY <2>1, <2>4
  <2>7. IsComparison(comparison, report, moves, validity)'
    BY <2>4, <2>5, <2>6 DEF IsComparison, RecordedFrom
  <2>. QED
    BY <2>3, <2>7 DEF BaselineInvariant
<1>4. CASE UNCHANGED baselineVars
  <2>1. UNCHANGED <<baselineEntries, baselineSource, comparison>>
    BY <1>4 DEF baselineVars
  <2>2. \A report, moves, validity :
          IsComparison(comparison, report, moves, validity) => IsComparison(comparison, report, moves, validity)'
    <3>1. ASSUME NEW report, NEW moves, NEW validity, IsComparison(comparison, report, moves, validity)
          PROVE  IsComparison(comparison, report, moves, validity)'
      <4>1. comparison'.outcomes = [i \in DOMAIN report |-> Outcome(report, moves, report[i], validity)']
        BY <1>2, <2>1, <3>1 DEF IsComparison
      <4>. QED
        BY <2>1, <3>1, <4>1 DEF IsComparison, RecordedFrom
    <3>. QED
      BY <3>1
  <2>. QED
    BY <2>1, <2>2 DEF BaselineInvariant, RecordedFrom
<1>. QED
  BY <1>1, <1>3, <1>4 DEF BaselineNext

(* A report compared with its own entries: exactly the diagnostics that are unique are hidden. *)
LEMMA OwnReport ==
  ASSUME NEW report \in Reports, NEW moves \in MoveSets, baselineEntries = RecordedFrom(report),
         NEW i \in DOMAIN report
  PROVE  Outcome(report, moves, report[i], "current").status = "matched" <=>
           /\ report[i].kind = "lint"
           /\ \A j \in DOMAIN report \ {i} : MatchIdentity(report[j]) # MatchIdentity(report[i])
<1> DEFINE d == report[i]
           exact == {e \in baselineEntries : MatchIdentity(e) = MatchIdentity(d)}
           byPath == CHOOSE e \in exact : TRUE
<1>1. \A s : Visible(s).status = s
  BY DEF Visible
<1>2. \A e : Matched(e, "current").status = "matched"
  BY DEF Matched
<1>3. CASE d.kind # "lint"
  BY <1>1, <1>3 DEF Outcome
<1>4. CASE d.kind = "lint"
  <2>1. d \in Range(report)
    BY DEF Range
  <2>2. EntryFromDiagnostic(d) \in baselineEntries
    BY <1>4, <2>1 DEF RecordedFrom
  <2>3. MatchIdentity(EntryFromDiagnostic(d)) = MatchIdentity(d)
    BY DEF EntryFromDiagnostic, MatchIdentity
  <2>4. exact # {}
    BY <2>2, <2>3
  <2>5. Outcome(report, moves, d, "current")
          = IF CurrentIdentityCount(report, d) = 1 THEN Matched(byPath, "current") ELSE Visible("ambiguous")
    BY <1>4, <2>4 DEF Outcome
  <2> HIDE DEF byPath
  <2>6. Outcome(report, moves, d, "current").status = "matched" <=> CurrentIdentityCount(report, d) = 1
    BY <1>1, <1>2, <2>5
  <2>. QED
    BY <1>4, <2>6, CountsOne
<1>. QED
  BY <1>3, <1>4

LEMMA EntryHidesOneHolds == BaselineInvariant => EntryHidesOne
<1> SUFFICES ASSUME BaselineInvariant, comparison # <<>> PROVE EntryHidesOne
  BY DEF EntryHidesOne
<1>1. PICK report \in Reports, moves \in MoveSets, validity \in Validity :
        IsComparison(comparison, report, moves, validity)
  BY DEF BaselineInvariant
<1>2. /\ comparison.report = report /\ comparison.moves = moves /\ comparison.validity = validity
      /\ DOMAIN comparison.outcomes = DOMAIN report
      /\ \A i \in DOMAIN report : comparison.outcomes[i] = Outcome(report, moves, report[i], validity)
  BY <1>1 DEF IsComparison
<1>3. Hidden \subseteq DOMAIN report
  BY <1>2 DEF Hidden
<1>4. ASSUME NEW i \in Hidden
      PROVE  /\ validity = "current" /\ report[i].kind = "lint"
             /\ EntryOf(i) \in baselineEntries /\ EntryOf(i).content = report[i].content
             /\ \/ /\ EntryOf(i).path = report[i].path
                   /\ \A j \in DOMAIN report \ {i} : MatchIdentity(report[j]) # MatchIdentity(report[i])
                \/ /\ [from |-> EntryOf(i).path, to |-> report[i].path, content |-> report[i].content] \in moves
                   /\ \A j \in DOMAIN report \ {i} :
                        SemanticIdentity(report[j]) # SemanticIdentity(report[i])
  <2>1. i \in DOMAIN report /\ Outcome(report, moves, report[i], validity).status = "matched"
    BY <1>2, <1>3 DEF Hidden
  <2>2. PICK e \in baselineEntries :
          /\ Outcome(report, moves, report[i], validity).entry = {e}
          /\ e.content = report[i].content
          /\ \/ /\ e.path = report[i].path
                /\ \A j \in DOMAIN report \ {i} : MatchIdentity(report[j]) # MatchIdentity(report[i])
             \/ /\ [from |-> e.path, to |-> report[i].path, content |-> report[i].content] \in moves
                /\ \A j \in DOMAIN report \ {i} :
                     SemanticIdentity(report[j]) # SemanticIdentity(report[i])
    BY <2>1, HiddenByEntry
  <2>3. EntryOf(i) = e
    <3>1. comparison.outcomes[i].entry = {e}
      BY <1>2, <2>1, <2>2
    <3>. QED
      BY <3>1 DEF EntryOf
  <2>4. validity = "current" /\ report[i].kind = "lint"
    BY <2>1, HiddenByEntry
  <2>. QED
    BY <2>2, <2>3, <2>4
<1>5. ASSUME NEW i \in Hidden, NEW j \in Hidden, i # j, EntryOf(i) = EntryOf(j) PROVE FALSE
  <2>1. report[i].content = report[j].content /\ i \in DOMAIN report /\ j \in DOMAIN report
    BY <1>3, <1>4, <1>5
  <2>2. SemanticIdentity(report[j]) = SemanticIdentity(report[i])
    BY <2>1 DEF SemanticIdentity
  <2>3. EntryOf(i).path = report[i].path /\ EntryOf(j).path = report[j].path
    BY <1>4, <1>5, <2>1, <2>2
  <2>4. MatchIdentity(report[j]) = MatchIdentity(report[i])
    BY <1>5, <2>1, <2>3 DEF MatchIdentity
  <2>5. \A k \in DOMAIN report \ {i} : MatchIdentity(report[k]) # MatchIdentity(report[i])
    BY <1>4, <1>5, <2>1, <2>2
  <2>. QED
    BY <1>5, <2>1, <2>4, <2>5
<1>. QED
  BY <1>2, <1>4, <1>5 DEF EntryHidesOne

LEMMA SourceIsHidden == BaselineInvariant => BaselineHidesItsSource
<1> SUFFICES ASSUME BaselineInvariant, comparison # <<>>, comparison.same, comparison.validity = "current"
             PROVE  BaselineHidesItsSource
  BY DEF BaselineHidesItsSource
<1>1. PICK report \in Reports, moves \in MoveSets, validity \in Validity :
        IsComparison(comparison, report, moves, validity)
  BY DEF BaselineInvariant
<1>2. /\ comparison.report = report
      /\ DOMAIN comparison.outcomes = DOMAIN report
      /\ \A i \in DOMAIN report : comparison.outcomes[i] = Outcome(report, moves, report[i], "current")
      /\ baselineEntries = RecordedFrom(report)
  BY <1>1 DEF IsComparison
<1>3. \A i \in DOMAIN report :
        i \in Hidden <=> /\ report[i].kind = "lint"
                         /\ \A j \in DOMAIN report \ {i} : MatchIdentity(report[j]) # MatchIdentity(report[i])
  <2>1. \A i \in DOMAIN report : i \in Hidden <=> Outcome(report, moves, report[i], "current").status = "matched"
    BY <1>2 DEF Hidden
  <2>. QED
    BY <1>2, <2>1, OwnReport
<1>4. Hidden \subseteq DOMAIN report
  BY <1>2 DEF Hidden
<1>. QED
  BY <1>2, <1>3, <1>4 DEF BaselineHidesItsSource

(* For reports of any length and any declared moves: compareDiagnosticBaseline lets an entry
   hide one diagnostic at most, the one it was recorded for or moved to, and hides exactly the
   unique lint diagnostics of the report that generateDiagnosticBaseline recorded. *)
THEOREM BaselineHidesExactly == BaselineSpec => []BaselineIsExact
<1>1. BaselineInvariant => BaselineIsExact
  BY EntryHidesOneHolds, SourceIsHidden DEF BaselineIsExact
<1>2. BaselineSpec => []BaselineInvariant
  BY BaselineInitially, BaselineStep, PTL DEF BaselineSpec
<1>. QED
  BY <1>1, <1>2, PTL

-----------------------------------------------------------------------------
(* Activation.  Facts are numbers, so that every set of proofs has one with the least key. *)
ActivationResults == [state : States, provenance : SUBSET Nat]

LEMMA LeastProofExists ==
  ASSUME NEW results \in SUBSET ActivationResults, results # {}
  PROVE  LeastProof(results) \in results
<1> DEFINE key(r) == IF r.provenance = {} THEN 0 ELSE Min(r.provenance)
           keys == {key(r) : r \in results}
<1>1. ASSUME NEW r \in results PROVE key(r) \in Nat
  <2>1. CASE r.provenance = {}
    BY <2>1
  <2>2. CASE r.provenance # {}
    <3>1. r.provenance \subseteq Nat
      BY DEF ActivationResults
    <3>2. \E x \in r.provenance : \A y \in r.provenance : x <= y
      BY <2>2, <3>1, LeastNatural
    <3>3. Min(r.provenance) \in r.provenance
      BY <3>2 DEF Min
    <3>. QED
      BY <2>2, <3>1, <3>3
  <2>. QED
    BY <2>1, <2>2
<1>2. keys \subseteq Nat /\ keys # {}
  BY <1>1
<1>3. PICK k \in keys : \A l \in keys : k <= l
  BY <1>2, LeastNatural
<1>4. \E r \in results : \A s \in results : key(r) <= key(s)
  BY <1>3
<1>. QED
  BY <1>4 DEF LeastProof

(* What an intersection of results says of its operands. *)
LEMMA IntersectionMeans ==
  ASSUME NEW results \in SUBSET ActivationResults, results # {}
  PROVE  LET i == ActivationIntersection(results)
         IN /\ i.state \in States
            /\ i.state = "inactive" => \E r \in results : r.state = "inactive" /\ i.provenance = r.provenance
            /\ i.state # "inactive" => /\ \A r \in results : r.state # "inactive"
                                       /\ \A r \in results : r.provenance \subseteq i.provenance
            /\ i.state = "active" => \A r \in results : r.state = "active"
            /\ i.state = "indeterminate" => \E r \in results : r.state = "indeterminate"
<1> DEFINE i == ActivationIntersection(results)
           inactive == HasState(results, "inactive")
<1>1. \A s, p : Result(s, p).state = s /\ Result(s, p).provenance = p
  BY DEF Result
<1>2. CASE inactive # {}
  <2>1. LeastProof(inactive) \in inactive
    BY <1>2, LeastProofExists DEF HasState
  <2>2. i.state = "inactive" /\ i.provenance = LeastProof(inactive).provenance
    BY <1>1, <1>2 DEF ActivationIntersection
  <2>. QED
    BY <2>1, <2>2 DEF HasState, States
<1>3. CASE inactive = {}
  <2>1. /\ i.state = IF HasState(results, "indeterminate") # {} THEN "indeterminate" ELSE "active"
        /\ i.provenance = MergeProofs(results)
    BY <1>1, <1>3 DEF ActivationIntersection
  <2>2. \A r \in results : r.state \in {"active", "indeterminate"}
    BY <1>3 DEF HasState, ActivationResults, States
  <2>3. \A r \in results : r.provenance \subseteq MergeProofs(results)
    BY DEF MergeProofs
  <2>. QED
    BY <2>1, <2>2, <2>3 DEF HasState, States
<1>. QED
  BY <1>2, <1>3

(* What a union of selectors says of the facts that were asked for. *)
UnionTells(u, selectors, empty, facts) ==
  /\ u \in ActivationResults
  /\ selectors = {} => u.state = empty
  /\ selectors # {} /\ u.state = "active" =>
       \E s \in selectors : facts[s] = "active" /\ u.provenance = {s}
  /\ selectors # {} /\ u.state # "active" =>
       (\A s \in selectors : facts[s] # "active") /\ u.provenance = selectors
  /\ selectors # {} /\ u.state = "inactive" => \A s \in selectors : facts[s] = "inactive"
  /\ selectors # {} /\ u.state = "indeterminate" => \E s \in selectors : facts[s] = "indeterminate"

LEMMA UnionMeans ==
  ASSUME NEW selectors \in SUBSET Selectors, NEW empty \in States,
         NEW facts, \A s \in selectors : facts[s] \in States
  PROVE  UnionTells(SelectorUnion(selectors, empty, facts), selectors, empty, facts)
<1> DEFINE u == SelectorUnion(selectors, empty, facts)
           results == {AtomicResult(facts[s], s) : s \in selectors}
           active == HasState(results, "active")
<1>0. selectors \subseteq Nat
  BY ActivationAssumption DEF Selectors
<1>1. \A s, p : Result(s, p).state = s /\ Result(s, p).provenance = p
  BY DEF Result
<1>2. \A s \in selectors : /\ AtomicResult(facts[s], s).state = facts[s]
                           /\ AtomicResult(facts[s], s).provenance = {s}
  BY DEF AtomicResult, Result
<1>3. results \in SUBSET ActivationResults
  <2>1. ASSUME NEW s \in selectors PROVE AtomicResult(facts[s], s) \in ActivationResults
    BY <1>0 DEF AtomicResult, Result, ActivationResults
  <2>. QED
    BY <2>1
<1>4. CASE selectors = {}
  BY <1>4 DEF SelectorUnion, Result, ActivationResults, UnionTells
<1>5. CASE selectors # {} /\ active # {}
  <2>1. active \in SUBSET ActivationResults
    BY <1>3 DEF HasState
  <2>2. LeastProof(active) \in active
    BY <1>5, <2>1, LeastProofExists
  <2>3. PICK s \in selectors : LeastProof(active) = AtomicResult(facts[s], s) /\ facts[s] = "active"
    BY <1>2, <2>2 DEF HasState
  <2>4. u = Result("active", LeastProof(active).provenance)
    <3>1. results # {}
      BY <1>5 DEF HasState
    <3>. QED
      BY <1>5, <3>1 DEF SelectorUnion, ActivationUnion
  <2>5. u = Result("active", {s})
    BY <1>2, <2>3, <2>4
  <2>6. u \in ActivationResults
    BY <1>0, <2>5 DEF Result, ActivationResults, States
  <2>7. u.state = "active" /\ u.provenance = {s}
    BY <1>1, <2>5
  <2> HIDE DEF u
  <2>. QED
    BY <1>5, <2>3, <2>6, <2>7 DEF u, UnionTells
<1>6. CASE selectors # {} /\ active = {}
  <2>1. \A s \in selectors : facts[s] # "active"
    BY <1>2, <1>6 DEF HasState
  <2>2. results # {}
    BY <1>6
  <2>3. u = Result(IF HasState(results, "indeterminate") # {} THEN "indeterminate" ELSE "inactive",
                   MergeProofs(results))
    BY <1>6, <2>2 DEF SelectorUnion, ActivationUnion
  <2>4. MergeProofs(results) = selectors
    <3>1. \A x : x \in MergeProofs(results) <=> \E a \in results : x \in a.provenance
      BY DEF MergeProofs
    <3>2. \A x : (\E a \in results : x \in a.provenance) <=> x \in selectors
      BY <1>2
    <3>. QED
      BY <3>1, <3>2
  <2>5. HasState(results, "indeterminate") # {} <=> \E s \in selectors : facts[s] = "indeterminate"
    BY <1>2 DEF HasState
  <2>s. PICK state \in {"indeterminate", "inactive"} :
          /\ state = IF HasState(results, "indeterminate") # {} THEN "indeterminate" ELSE "inactive"
          /\ u = Result(state, selectors)
    BY <2>3, <2>4
  <2>6. /\ u.state = state /\ u.provenance = selectors
        /\ state = IF \E s \in selectors : facts[s] = "indeterminate" THEN "indeterminate" ELSE "inactive"
    <3>1. u.state = state /\ u.provenance = selectors
      BY <1>1, <2>s, Zenon
    <3>2. state = IF \E s \in selectors : facts[s] = "indeterminate" THEN "indeterminate" ELSE "inactive"
      BY <2>5, <2>s, Zenon
    <3>. QED
      BY <3>1, <3>2, Zenon
  <2>7. u \in ActivationResults
    BY <1>0, <2>s DEF Result, ActivationResults, States
  <2> HIDE DEF u
  <2>8. u.state = "inactive" => \A s \in selectors : facts[s] = "inactive"
    BY <2>1, <2>6 DEF States
  <2>. QED
    BY <1>6, <2>1, <2>6, <2>7, <2>8 DEF u, UnionTells
<1>. QED
  BY <1>4, <1>5, <1>6, Zenon

(* The facts a rule needs, as the stages of evaluateActivationRule leave them. *)
ScopeIsIn == activationRule.rootScope \/ observed[ScopeFact] = "active"
TriggerIsOpen ==
  activationRule.trigger = "selectors" \/ observed[TriggerFact] \in {"active", "indeterminate"}

(* Why scope, trigger and include together are active, and why they are not known. *)
EligibleIsProved ==
  eligible.state = "active" =>
    /\ activationRule.rootScope \/ ScopeFact \in eligible.provenance
    /\ activationRule.trigger = "selectors" \/ (TriggerFact \in eligible.provenance /\ observed[TriggerFact] = "active")
    /\ activationRule.include = {} \/ \E s \in activationRule.include \cap eligible.provenance : observed[s] = "active"
EligibleIsOpen ==
  eligible.state = "indeterminate" =>
    \/ activationRule.trigger # "selectors" /\ observed[TriggerFact] = "indeterminate"
    \/ activationRule.include # {} /\ \A s \in activationRule.include : observed[s] # "active"

IncludeIsIn ==
  activationRule.include = {} \/ \E s \in activationRule.include : observed[s] \in {"active", "indeterminate"}
IncludesAsked == \A s \in activationRule.include : observed[s] # "unasked"

ActivationTypeOK ==
  /\ activationAt \in {"idle", "trigger", "include", "exclude", "returned"}
  /\ observed \in [Facts -> States \cup {"unasked"}]
  /\ activationAt # "idle" => activationRule \in ActivationRules

ActivationInvariant ==
  /\ ActivationTypeOK
  /\ activationAt \in {"trigger", "include", "exclude"} => ScopeIsIn
  /\ activationAt \in {"include", "exclude"} => TriggerIsOpen
  /\ activationAt = "exclude" =>
       /\ eligible \in ActivationResults /\ eligible.state # "inactive"
       /\ EligibleIsProved /\ EligibleIsOpen /\ IncludeIsIn /\ IncludesAsked
  /\ ActivationIsExact

LEMMA FactsAreApart ==
  /\ ScopeFact \in Facts /\ TriggerFact \in Facts /\ Selectors \subseteq Facts /\ ScopeFact # TriggerFact
  /\ ScopeFact \notin Selectors /\ TriggerFact \notin Selectors /\ Facts \subseteq Nat
<1>1. 1 \notin Selectors /\ 2 \notin Selectors /\ Selectors \subseteq Nat
  BY ActivationAssumption DEF Selectors
<1>. QED
  BY <1>1 DEF Facts, ScopeFact, TriggerFact

LEMMA ActivationInitially == ActivationInit => ActivationInvariant
<1> SUFFICES ASSUME ActivationInit PROVE ActivationInvariant
  OBVIOUS
<1>1. activationAt = "idle" /\ observed \in [Facts -> States \cup {"unasked"}]
  BY DEF ActivationInit
<1>. QED
  BY <1>1 DEF ActivationInvariant, ActivationTypeOK, ActivationIsExact, ProvenanceIsProof, OpenOnlyIfUnknown

(* A result that one fact refutes, and that only this fact is cited for. *)
LEMMA RefutedByFact ==
  ASSUME NEW rule \in ActivationRules, NEW f \in Facts, activationRule' = rule,
         activationAt' = "returned", activationResult' = AtomicResult("inactive", f),
         \/ f = ScopeFact /\ ~rule.rootScope /\ observed'[f] = "inactive"
         \/ f = TriggerFact /\ rule.trigger # "selectors" /\ observed'[f] = "inactive"
         \/ f \in rule.exclude /\ observed'[f] = "active"
  PROVE  ActivationIsExact'
<1>1. activationResult'.state = "inactive" /\ activationResult'.provenance = {f}
  BY DEF AtomicResult, Result
<1>2. OpenOnlyIfUnknown'
  BY <1>1 DEF OpenOnlyIfUnknown
<1>3. ASSUME NEW true \in Worlds({f})' PROVE ~Holds(rule, true)
  <2>1. observed'[f] \in Decided => (f \in true <=> observed'[f] = "active")
    BY <1>3 DEF Worlds
  <2>. QED
    BY <2>1 DEF Decided, Holds
<1>4. ProvenanceIsProof'
  BY <1>1, <1>3 DEF ProvenanceIsProof
<1>. QED
  BY <1>2, <1>4 DEF ActivationIsExact

(* What Asked leaves of the facts that were asked for before, and what it adds. *)
LEMMA AskedMeans ==
  ASSUME NEW selectors \in SUBSET Selectors, observed \in [Facts -> States \cup {"unasked"}],
         NEW facts \in Asked(selectors)
  PROVE  /\ facts \in [Facts -> States \cup {"unasked"}]
         /\ \A s \in selectors : facts[s] \in States
         /\ \A f \in Facts : f \notin selectors \/ observed[f] # "unasked" => facts[f] = observed[f]
<1>1. selectors \subseteq Facts
  BY FactsAreApart
<1>. QED
  BY <1>1 DEF Asked, Decided, States

(* A step that does not return leaves nothing to show. *)
LEMMA NotReturned == activationAt' # "returned" => ActivationIsExact'
BY DEF ActivationIsExact, ProvenanceIsProof, OpenOnlyIfUnknown

LEMMA ScopeStep ==
  ASSUME ActivationInvariant, NEW rule \in ActivationRules, EvaluateScope(rule)
  PROVE  ActivationInvariant'
<1>t. observed \in [Facts -> States \cup {"unasked"}]
  BY DEF ActivationInvariant, ActivationTypeOK
<1>1. activationRule' = rule
  BY DEF EvaluateScope
<1>2. CASE /\ activationAt' = "trigger"
           /\ observed' = IF rule.rootScope THEN observed ELSE [observed EXCEPT ![ScopeFact] = "active"]
  <2>1. observed' \in [Facts -> States \cup {"unasked"}] /\ (rule.rootScope \/ observed'[ScopeFact] = "active")
    BY <1>t, <1>2, FactsAreApart DEF States
  <2>2. ActivationIsExact'
    BY <1>2, NotReturned
  <2>. QED
    BY <1>1, <1>2, <2>1, <2>2 DEF ActivationInvariant, ActivationTypeOK, ScopeIsIn
<1>3. CASE /\ ~rule.rootScope
           /\ observed' = [observed EXCEPT ![ScopeFact] = "inactive"]
           /\ ActivationReturns(AtomicResult("inactive", ScopeFact))
  <2>1. /\ observed' \in [Facts -> States \cup {"unasked"}] /\ observed'[ScopeFact] = "inactive"
        /\ ScopeFact \in Facts
    BY <1>t, <1>3, FactsAreApart DEF States
  <2>2. activationAt' = "returned" /\ activationResult' = AtomicResult("inactive", ScopeFact)
    BY <1>3 DEF ActivationReturns
  <2>3. ActivationIsExact'
    BY <1>1, <1>3, <2>1, <2>2, RefutedByFact
  <2>. QED
    BY <1>1, <2>1, <2>2, <2>3 DEF ActivationInvariant, ActivationTypeOK
<1>. QED
  BY <1>2, <1>3 DEF EvaluateScope

LEMMA TriggerStep ==
  ASSUME ActivationInvariant, EvaluateTrigger
  PROVE  ActivationInvariant'
<1>t. observed \in [Facts -> States \cup {"unasked"}] /\ activationRule \in ActivationRules /\ ScopeIsIn
  BY DEF ActivationInvariant, ActivationTypeOK, EvaluateTrigger
<1>1. PICK state \in States :
        /\ state \in IF activationRule.trigger = "callback" THEN States
                     ELSE IF activationRule.trigger = "unknown" THEN {"indeterminate"} ELSE {"active"}
        /\ observed' = IF activationRule.trigger = "selectors" THEN observed
                       ELSE [observed EXCEPT ![TriggerFact] = state]
        /\ IF state = "inactive"
             THEN ActivationReturns(AtomicResult(state, TriggerFact))
             ELSE activationAt' = "include" /\ UNCHANGED activationResult
  BY DEF EvaluateTrigger, States
<1>2. UNCHANGED activationRule
  BY DEF EvaluateTrigger
<1>3. /\ observed' \in [Facts -> States \cup {"unasked"}]
      /\ observed'[ScopeFact] = observed[ScopeFact]
      /\ activationRule.trigger = "selectors" \/ observed'[TriggerFact] = state
  BY <1>t, <1>1, FactsAreApart
<1>4. ScopeIsIn'
  BY <1>t, <1>2, <1>3 DEF ScopeIsIn
<1>5. CASE state = "inactive"
  <2>1. activationRule.trigger # "selectors"
    BY <1>1, <1>5
  <2>2. activationAt' = "returned" /\ activationResult' = AtomicResult("inactive", TriggerFact)
    BY <1>1, <1>5 DEF ActivationReturns
  <2>3. ActivationIsExact'
    BY <1>t, <1>2, <1>3, <1>5, <2>1, <2>2, RefutedByFact, FactsAreApart
  <2>. QED
    BY <1>t, <1>2, <1>3, <2>2, <2>3 DEF ActivationInvariant, ActivationTypeOK
<1>6. CASE state # "inactive"
  <2>1. activationAt' = "include" /\ state \in {"active", "indeterminate"}
    BY <1>1, <1>6 DEF States
  <2>2. TriggerIsOpen'
    BY <1>2, <1>3, <2>1 DEF TriggerIsOpen
  <2>3. ActivationIsExact'
    BY <2>1, NotReturned
  <2>. QED
    BY <1>t, <1>2, <1>3, <1>4, <2>1, <2>2, <2>3 DEF ActivationInvariant, ActivationTypeOK
<1>. QED
  BY <1>5, <1>6

LEMMA IncludeStep ==
  ASSUME ActivationInvariant, EvaluateIncludes
  PROVE  ActivationInvariant'
<1> DEFINE include == activationRule.include
           union == SelectorUnion(include, "active", observed')
           results == {ScopeResult, TriggerResult, union}
<1>t. /\ observed \in [Facts -> States \cup {"unasked"}] /\ activationRule \in ActivationRules
      /\ ScopeIsIn /\ TriggerIsOpen
  BY DEF ActivationInvariant, ActivationTypeOK, EvaluateIncludes
<1>0. include \in SUBSET Selectors /\ (activationRule.trigger = "selectors" => include # {})
  BY <1>t DEF ActivationRules
<1>1. /\ observed' \in Asked(include) /\ eligible' = ActivationIntersection(results)
      /\ UNCHANGED activationRule
      /\ IF eligible'.state = "inactive"
           THEN ActivationReturns(eligible')
           ELSE activationAt' = "exclude" /\ UNCHANGED activationResult
  BY DEF EvaluateIncludes
<1>2. /\ observed' \in [Facts -> States \cup {"unasked"}]
      /\ \A s \in include : observed'[s] \in States
      /\ \A f \in Facts : f \notin include \/ observed[f] # "unasked" => observed'[f] = observed[f]
  BY <1>t, <1>0, <1>1, AskedMeans
<1>3. observed'[ScopeFact] = observed[ScopeFact] /\ observed'[TriggerFact] = observed[TriggerFact]
  BY <1>0, <1>2, FactsAreApart
<1>4. /\ ScopeResult \in ActivationResults /\ ScopeResult.state = "active"
      /\ activationRule.rootScope \/ ScopeResult.provenance = {ScopeFact}
  BY FactsAreApart DEF ScopeResult, AtomicResult, Result, ActivationResults, States
<1>5. /\ TriggerResult \in ActivationResults /\ TriggerResult.state # "inactive"
      /\ activationRule.trigger = "selectors" => TriggerResult.state = "active"
      /\ activationRule.trigger # "selectors" =>
           TriggerResult.state = observed[TriggerFact] /\ TriggerResult.provenance = {TriggerFact}
  BY <1>t, FactsAreApart DEF TriggerResult, AtomicResult, Result, ActivationResults, States, TriggerIsOpen
<1>6. /\ union \in ActivationResults
      /\ include = {} => union.state = "active"
      /\ include # {} /\ union.state = "active" =>
           \E s \in include : observed'[s] = "active" /\ union.provenance = {s}
      /\ include # {} /\ union.state # "active" =>
           (\A s \in include : observed'[s] # "active") /\ union.provenance = include
      /\ include # {} /\ union.state = "inactive" => \A s \in include : observed'[s] = "inactive"
      /\ include # {} /\ union.state = "indeterminate" => \E s \in include : observed'[s] = "indeterminate"
  <2>1. "active" \in States
    BY DEF States
  <2>2. \A s \in include : observed'[s] \in States
    BY <1>2
  <2>3. UnionTells(union, include, "active", observed')
    BY <1>0, <2>1, <2>2, UnionMeans, Zenon
  <2> HIDE DEF include, union
  <2>. QED
    BY <2>3, Zenon DEF UnionTells
<1> HIDE DEF union
<1>7. results \in SUBSET ActivationResults /\ results # {}
  BY <1>4, <1>5, <1>6
<1>8. /\ eligible'.state \in States
      /\ eligible'.state = "inactive" => \E r \in results : r.state = "inactive" /\ eligible'.provenance = r.provenance
      /\ eligible'.state # "inactive" => /\ \A r \in results : r.state # "inactive"
                                         /\ \A r \in results : r.provenance \subseteq eligible'.provenance
      /\ eligible'.state = "active" => \A r \in results : r.state = "active"
      /\ eligible'.state = "indeterminate" => \E r \in results : r.state = "indeterminate"
  <2> HIDE DEF results
  <2>. QED
    BY <1>1, <1>7, IntersectionMeans
<1>9. CASE eligible'.state = "inactive"
  <2>1. union.state = "inactive" /\ eligible'.provenance = union.provenance
    BY <1>4, <1>5, <1>8, <1>9
  <2>2. include # {} /\ eligible'.provenance = include /\ \A s \in include : observed'[s] = "inactive"
    BY <1>6, <2>1
  <2>3. activationAt' = "returned" /\ activationResult' = eligible'
    BY <1>1, <1>9 DEF ActivationReturns
  <2>4. ASSUME NEW true \in Worlds(include)' PROVE ~Holds(activationRule, true)
    <3>1. \A f \in include' : observed'[f] \in Decided => (f \in true <=> observed'[f] = "active")
      BY <2>4 DEF Worlds
    <3>2. \A f \in include : f \notin true
      BY <1>1, <2>2, <3>1 DEF Decided
    <3>. QED
      BY <2>2, <3>2 DEF Holds
  <2>5. ProvenanceIsProof'
    <3>1. Worlds(activationResult.provenance)' = Worlds(include)'
      BY <1>1, <2>2, <2>3 DEF Worlds
    <3>2. Holds(activationRule, activationRule.include)' \in BOOLEAN
      BY DEF Holds
    <3>. QED
      BY <1>1, <1>9, <2>3, <2>4, <3>1 DEF ProvenanceIsProof
  <2>6. OpenOnlyIfUnknown'
    BY <1>9, <2>3 DEF OpenOnlyIfUnknown
  <2>. QED
    BY <1>t, <1>1, <1>2, <2>3, <2>5, <2>6 DEF ActivationInvariant, ActivationTypeOK, ActivationIsExact
<1>10. CASE eligible'.state # "inactive"
  <2>1. activationAt' = "exclude"
    BY <1>1, <1>10
  <2>2. ScopeIsIn' /\ TriggerIsOpen'
    BY <1>t, <1>1, <1>3 DEF ScopeIsIn, TriggerIsOpen
  <2>3. union.state # "inactive" /\ union.provenance \subseteq eligible'.provenance
          /\ ScopeResult.provenance \subseteq eligible'.provenance
          /\ TriggerResult.provenance \subseteq eligible'.provenance
    BY <1>8, <1>10
  <2>4. EligibleIsProved'
    <3> SUFFICES ASSUME eligible'.state = "active" PROVE EligibleIsProved'
      BY DEF EligibleIsProved
    <3>1. union.state = "active" /\ TriggerResult.state = "active"
      BY <1>8
    <3>2. activationRule.rootScope \/ ScopeFact \in eligible'.provenance
      BY <1>4, <2>3
    <3>3. activationRule.trigger = "selectors"
            \/ (TriggerFact \in eligible'.provenance /\ observed'[TriggerFact] = "active")
      BY <1>3, <1>5, <2>3, <3>1
    <3>4. include = {} \/ \E s \in include \cap eligible'.provenance : observed'[s] = "active"
      BY <1>6, <2>3, <3>1
    <3>. QED
      BY <1>1, <3>2, <3>3, <3>4 DEF EligibleIsProved
  <2>5. EligibleIsOpen'
    <3> SUFFICES ASSUME eligible'.state = "indeterminate" PROVE EligibleIsOpen'
      BY DEF EligibleIsOpen
    <3>1. TriggerResult.state = "indeterminate" \/ union.state = "indeterminate"
      BY <1>4, <1>8
    <3>2. TriggerResult.state = "indeterminate" =>
            activationRule.trigger # "selectors" /\ observed'[TriggerFact] = "indeterminate"
      BY <1>3, <1>5
    <3>3. union.state = "indeterminate" => include # {} /\ \A s \in include : observed'[s] # "active"
      BY <1>6
    <3>. QED
      BY <1>1, <3>1, <3>2, <3>3 DEF EligibleIsOpen
  <2>6. IncludeIsIn'
    <3>1. include = {} \/ \E s \in include : observed'[s] \in {"active", "indeterminate"}
      <4>1. union.state \in {"active", "indeterminate"}
        BY <1>6, <2>3 DEF ActivationResults, States
      <4>. QED
        BY <1>6, <4>1
    <3>. QED
      BY <1>1, <3>1 DEF IncludeIsIn
  <2>7. IncludesAsked'
    BY <1>1, <1>2 DEF IncludesAsked, States
  <2>8. eligible' \in ActivationResults
    <3>1. \A s, q : s \in States /\ q \in SUBSET Nat => Result(s, q) \in ActivationResults
      BY DEF Result, ActivationResults
    <3>2. MergeProofs(results) \in SUBSET Nat
      BY <1>7 DEF MergeProofs, ActivationResults
    <3>3. HasState(results, "inactive") = {}
      BY <1>8, <1>10 DEF HasState
    <3>4. eligible' = Result(IF HasState(results, "indeterminate") # {} THEN "indeterminate" ELSE "active",
                             MergeProofs(results))
      <4> HIDE DEF results
      <4>. QED
        BY <1>1, <1>7, <3>3 DEF ActivationIntersection
    <3>5. (IF HasState(results, "indeterminate") # {} THEN "indeterminate" ELSE "active") \in States
      BY DEF States
    <3> HIDE DEF results
    <3>. QED
      BY <3>1, <3>2, <3>4, <3>5
  <2>9. ActivationIsExact'
    BY <2>1, NotReturned
  <2>. QED
    BY <1>t, <1>1, <1>2, <1>10, <2>1, <2>2, <2>4, <2>5, <2>6, <2>7, <2>8, <2>9
       DEF ActivationInvariant, ActivationTypeOK
<1>. QED
  BY <1>9, <1>10

LEMMA ExcludeStep ==
  ASSUME ActivationInvariant, EvaluateExcludes
  PROVE  ActivationInvariant'
<1>t. /\ observed \in [Facts -> States \cup {"unasked"}] /\ activationRule \in ActivationRules
      /\ ScopeIsIn /\ TriggerIsOpen /\ eligible \in ActivationResults /\ eligible.state # "inactive"
      /\ EligibleIsProved /\ EligibleIsOpen /\ IncludeIsIn /\ IncludesAsked
  BY DEF ActivationInvariant, ActivationTypeOK, EvaluateExcludes
<1>r. PICK rule \in ActivationRules : rule = activationRule
  BY <1>t
<1>o. PICK facts : facts = observed'
  OBVIOUS
<1> DEFINE excluded == SelectorUnion(rule.exclude, "inactive", facts)
           results == {eligible, ActivationComplement(excluded)}
<1>0. rule.include \in SUBSET Selectors /\ rule.exclude \in SUBSET Selectors
  BY DEF ActivationRules
<1>1. /\ facts \in Asked(rule.exclude) /\ activationRule' = rule /\ activationAt' = "returned"
      /\ activationResult' = IF excluded.state = "active" THEN ActivationComplement(excluded)
                             ELSE ActivationIntersection(results)
  BY <1>r, <1>o DEF EvaluateExcludes, ActivationReturns, ActivationDifference
<1>2. /\ facts \in [Facts -> States \cup {"unasked"}]
      /\ \A s \in rule.exclude : facts[s] \in States
      /\ \A f \in Facts : f \notin rule.exclude \/ observed[f] # "unasked" => facts[f] = observed[f]
  BY <1>t, <1>0, <1>1, AskedMeans
<1>3. UnionTells(excluded, rule.exclude, "inactive", facts)
  <2>1. "inactive" \in States
    BY DEF States
  <2>. QED
    BY <1>0, <1>2, <2>1, UnionMeans, Zenon
<1>e. excluded \in ActivationResults /\ excluded.state \in States /\ excluded.provenance \in SUBSET Nat
  BY <1>3 DEF UnionTells, ActivationResults
<1> HIDE DEF excluded
<1>4. facts[ScopeFact] = observed[ScopeFact] /\ facts[TriggerFact] = observed[TriggerFact]
        /\ \A s \in rule.include : facts[s] = observed[s]
  BY <1>t, <1>r, <1>0, <1>2, FactsAreApart DEF IncludesAsked
<1>5. ActivationIsExact' => ActivationInvariant'
  BY <1>1, <1>2, <1>o DEF ActivationInvariant, ActivationTypeOK
<1>6. CASE excluded.state = "active"
  <2>1. PICK s \in rule.exclude : facts[s] = "active" /\ excluded.provenance = {s}
    BY <1>3, <1>6 DEF UnionTells
  <2>2. activationResult' = AtomicResult("inactive", s)
    BY <1>1, <1>6, <2>1 DEF ActivationComplement, AtomicResult, Result
  <2>3. s \in Facts
    BY <1>0, <2>1, FactsAreApart
  <2>4. ActivationIsExact'
    BY <1>1, <1>o, <2>1, <2>2, <2>3, RefutedByFact
  <2>. QED
    BY <1>5, <2>4
<1>7. CASE excluded.state # "active"
  <2> DEFINE comp == ActivationComplement(excluded)
  <2>1. /\ comp \in ActivationResults /\ comp.provenance = excluded.provenance
        /\ comp.state = (IF excluded.state = "inactive" THEN "active" ELSE "indeterminate")
    BY <1>e, <1>7 DEF ActivationComplement, Result, ActivationResults, States
  <2> HIDE DEF comp
  <2>2. results = {eligible, comp}
    BY DEF comp
  <2> HIDE DEF results
  <2>3. results \in SUBSET ActivationResults /\ results # {}
    BY <1>t, <2>1, <2>2
  <2>4. activationResult' = ActivationIntersection(results)
    BY <1>1, <1>7
  <2>5. PICK i : i = activationResult'
    OBVIOUS
  <2>6. /\ i.state \in States
        /\ i.state = "inactive" => \E r \in results : r.state = "inactive" /\ i.provenance = r.provenance
        /\ i.state # "inactive" => /\ \A r \in results : r.state # "inactive"
                                   /\ \A r \in results : r.provenance \subseteq i.provenance
        /\ i.state = "active" => \A r \in results : r.state = "active"
        /\ i.state = "indeterminate" => \E r \in results : r.state = "indeterminate"
    BY <2>3, <2>4, <2>5, IntersectionMeans
  <2>7. i.state # "inactive" /\ eligible.provenance \subseteq i.provenance
          /\ excluded.provenance \subseteq i.provenance
    BY <1>t, <2>1, <2>2, <2>6
  <2>8. \A s \in rule.exclude : facts[s] # "active"
    BY <1>3, <1>7 DEF UnionTells
  <2>9. ASSUME i.state = "active", NEW true \in Worlds(i.provenance)' PROVE Holds(rule, true)
    <3>1. eligible.state = "active" /\ excluded.state = "inactive"
      BY <2>1, <2>2, <2>6, <2>9
    <3>2. \A f \in i.provenance : facts[f] \in Decided => (f \in true <=> facts[f] = "active")
      BY <1>o, <2>9 DEF Worlds
    <3>3. rule.rootScope \/ ScopeFact \in true
      <4>1. rule.rootScope \/ (ScopeFact \in i.provenance /\ facts[ScopeFact] = "active")
        BY <1>t, <1>r, <1>4, <2>7, <3>1 DEF EligibleIsProved, ScopeIsIn
      <4>. QED
        BY <3>2, <4>1 DEF Decided
    <3>4. rule.trigger = "selectors" \/ TriggerFact \in true
      <4>1. rule.trigger = "selectors" \/ (TriggerFact \in i.provenance /\ facts[TriggerFact] = "active")
        BY <1>t, <1>r, <1>4, <2>7, <3>1 DEF EligibleIsProved
      <4>. QED
        BY <3>2, <4>1 DEF Decided
    <3>5. rule.include = {} \/ rule.include \cap true # {}
      <4>1. rule.include = {} \/ \E s \in rule.include \cap i.provenance : facts[s] = "active"
        BY <1>t, <1>r, <1>4, <2>7, <3>1 DEF EligibleIsProved
      <4>. QED
        BY <3>2, <4>1 DEF Decided
    <3>6. rule.exclude \cap true = {}
      <4>1. rule.exclude = {} \/ (rule.exclude = excluded.provenance /\ \A s \in rule.exclude : facts[s] = "inactive")
        BY <1>3, <3>1 DEF UnionTells
      <4>. QED
        BY <2>7, <3>2, <4>1 DEF Decided
    <3>. QED
      BY <3>3, <3>4, <3>5, <3>6 DEF Holds
  <2>10. ProvenanceIsProof'
    <3>1. i.state \in Decided => i.state = "active"
      BY <2>7 DEF Decided
    <3>. QED
      BY <1>1, <2>5, <2>9, <3>1 DEF ProvenanceIsProof
  <2>11. ASSUME i.state = "indeterminate", rule.include \cap rule.exclude = {}
         PROVE  \E yes, no \in Worlds(Facts)' : Holds(rule, yes) /\ ~Holds(rule, no)
    <3> DEFINE yes == {f \in Facts \ rule.exclude : facts[f] # "inactive"}
               no == {f \in Facts : facts[f] = "active" \/ (f \in rule.exclude /\ facts[f] # "inactive")}
    <3>1. ASSUME NEW true \in SUBSET Facts,
                 \A f \in Facts : facts[f] \in Decided => (f \in true <=> facts[f] = "active")
          PROVE  true \in Worlds(Facts)'
      BY <1>o, <3>1 DEF Worlds
    <3>2. yes \in Worlds(Facts)'
      <4>1. \A f \in Facts : facts[f] \in Decided => (f \in yes <=> facts[f] = "active")
        BY <2>8 DEF Decided
      <4>. QED
        BY <3>1, <4>1
    <3>3. no \in Worlds(Facts)'
      <4>1. \A f \in Facts : facts[f] \in Decided => (f \in no <=> facts[f] = "active")
        BY DEF Decided
      <4>. QED
        BY <3>1, <4>1
    <3>4. Holds(rule, yes)
      <4>1. rule.rootScope \/ ScopeFact \in yes
        BY <1>t, <1>r, <1>0, <1>4, FactsAreApart DEF ScopeIsIn
      <4>2. rule.trigger = "selectors" \/ TriggerFact \in yes
        BY <1>t, <1>r, <1>0, <1>4, FactsAreApart DEF TriggerIsOpen
      <4>3. rule.include = {} \/ rule.include \cap yes # {}
        <5>1. rule.include = {} \/ \E s \in rule.include : facts[s] # "inactive"
          BY <1>t, <1>r, <1>4 DEF IncludeIsIn
        <5>. QED
          BY <1>0, <2>11, <5>1, FactsAreApart
      <4>4. rule.exclude \cap yes = {}
        OBVIOUS
      <4> HIDE DEF yes
      <4>. QED
        BY <4>1, <4>2, <4>3, <4>4 DEF Holds
    <3>5. ~Holds(rule, no)
      <4>1. CASE eligible.state = "indeterminate"
        <5>1. \/ rule.trigger # "selectors" /\ facts[TriggerFact] = "indeterminate"
              \/ rule.include # {} /\ \A s \in rule.include : facts[s] # "active"
          BY <1>t, <1>r, <1>4, <4>1 DEF EligibleIsOpen
        <5>2. CASE rule.trigger # "selectors" /\ facts[TriggerFact] = "indeterminate"
          <6>1. TriggerFact \notin no
            BY <1>0, <5>2, FactsAreApart
          <6> HIDE DEF no
          <6>. QED
            BY <5>2, <6>1 DEF Holds
        <5>3. CASE rule.include # {} /\ \A s \in rule.include : facts[s] # "active"
          <6>1. rule.include \cap no = {}
            BY <2>11, <5>3
          <6> HIDE DEF no
          <6>. QED
            BY <5>3, <6>1 DEF Holds
        <5>. QED
          BY <5>1, <5>2, <5>3
      <4>2. CASE excluded.state = "indeterminate"
        <5>1. \E s \in rule.exclude : facts[s] = "indeterminate"
          BY <1>3, <4>2 DEF UnionTells
        <5>2. rule.exclude \cap no # {}
          BY <1>0, <5>1, FactsAreApart
        <5> HIDE DEF no
        <5>. QED
          BY <5>2 DEF Holds
      <4>3. eligible.state = "indeterminate" \/ excluded.state = "indeterminate"
        BY <1>e, <1>7, <2>1, <2>2, <2>6, <2>11 DEF States
      <4>. QED
        BY <4>1, <4>2, <4>3
    <3> HIDE DEF yes, no
    <3>. QED
      BY <3>2, <3>3, <3>4, <3>5
  <2>12. OpenOnlyIfUnknown'
    BY <1>1, <2>5, <2>11 DEF OpenOnlyIfUnknown
  <2>. QED
    BY <1>5, <2>10, <2>12 DEF ActivationIsExact
<1>. QED
  BY <1>6, <1>7

LEMMA ActivationStep == ActivationInvariant /\ [ActivationNext]_activationVars => ActivationInvariant'
<1> SUFFICES ASSUME ActivationInvariant, [ActivationNext]_activationVars PROVE ActivationInvariant'
  OBVIOUS
<1>1. CASE UNCHANGED activationVars
  BY <1>1 DEF activationVars, ActivationInvariant, ActivationTypeOK, ScopeIsIn, TriggerIsOpen,
     EligibleIsProved, EligibleIsOpen, IncludeIsIn, IncludesAsked, ActivationIsExact,
     ProvenanceIsProof, OpenOnlyIfUnknown, Worlds
<1>. QED
  BY <1>1, ScopeStep, TriggerStep, IncludeStep, ExcludeStep DEF ActivationNext

(* For any selectors and any answers of the callbacks: the state evaluateActivationRule
   returns is proved by the facts it cites, and it is left open only when the facts that are
   not known could still turn it either way. *)
THEOREM ActivationIsSound == ActivationSpec => []ActivationIsExact
<1>1. ActivationInvariant => ActivationIsExact
  BY DEF ActivationInvariant
<1>2. ActivationSpec => []ActivationInvariant
  BY ActivationInitially, ActivationStep, PTL DEF ActivationSpec
<1>. QED
  BY <1>1, <1>2, PTL

-----------------------------------------------------------------------------
(* The ignore engine: the list of rules and the lists of lines it was made of. *)
Ranks == 1 .. 4
Rules == [pattern : Patterns, rank : Ranks, base : Seq(Names)]

IgnoreTypeOK ==
  /\ gitignore \in [IgnoreFiles -> Seq(IgnorePatterns)]
  /\ policy.configuration \in Seq(PolicyPatterns) /\ policy.profile \in Seq(PolicyPatterns)
  /\ policy.fallback \in BOOLEAN
  /\ rules \in Seq(Rules)
  /\ pending \subseteq IgnoreFiles /\ readIgnores \subseteq IgnoreFiles
  /\ ignoreAt \in {"idle", "reading", "returned", "failed"}
  /\ excludedPaths \subseteq Candidates

(* The lines that rules of a rank and base come from. *)
LinesOf(rank, base) ==
  IF rank = 4 THEN BuiltInPatterns
  ELSE IF rank = 3 THEN policy.configuration
  ELSE IF rank = 2 THEN policy.profile
  ELSE gitignore[base]

(* Rule n was made of line j of its source. *)
HasLine(n, j) ==
  LET lines == LinesOf(rules[n].rank, rules[n].base)
  IN j \in 1 .. Len(lines) /\ rules[n].pattern = lines[j]

(* The order of the list: by rank, then from the root to the leaves, then by line. *)
IsBefore(r, i, s, j) ==
  /\ r.rank >= s.rank
  /\ r.rank = s.rank => Len(r.base) <= Len(s.base)
  /\ r.rank = s.rank /\ r.base = s.base => i < j

(* Every line that counts has a rule. *)
PolicyHasRules(line) ==
  \A rank \in 2 .. 4 : \A j \in 1 .. Len(LinesOf(rank, <<>>)) :
    \E n \in 1 .. Len(rules) : rules[n].rank = rank /\ line[n] = j

GitHasRules(line) ==
  \A d \in readIgnores : \A j \in 1 .. Len(gitignore[d]) :
    \E n \in 1 .. Len(rules) : rules[n].rank = 1 /\ rules[n].base = d /\ line[n] = j

(* line[n] is the line that rule n was made of. *)
Numbers(line) ==
  /\ line \in Seq(Nat) /\ Len(line) = Len(rules)
  /\ \A n \in 1 .. Len(rules) :
       /\ rules[n].rank > 1 => rules[n].base = <<>>
       /\ rules[n].rank = 1 => rules[n].base \in readIgnores
       /\ HasLine(n, line[n]) /\ line[n] <= n
  /\ \A n, m \in 1 .. Len(rules) : n < m => IsBefore(rules[n], line[n], rules[m], line[m])
  /\ PolicyHasRules(line) /\ GitHasRules(line)

(* The directories whose .gitignore was read or skipped. *)
Considered == IF policy.fallback THEN IgnoreFiles \ pending ELSE {}

(* The rules are the lines in order.  What was not read has no lines or is below an excluded
   directory, what was read is not: both stay so, for rules added later are of directories
   that are as deep or deeper. *)
Collected ==
  /\ \E line : Numbers(line)
  /\ Len(rules) <= MaximumPatterns
  /\ readIgnores \subseteq Considered
  /\ ~ policy.fallback => pending = {}
  /\ \A d \in Considered, e \in pending : Len(d) <= Len(e)
  /\ \A d \in Considered :
       d \in readIgnores \/ gitignore[d] = <<>> \/ ExcludedBy(d, FALSE, rules)
  /\ \A d \in readIgnores : ~ ExcludedBy(d, FALSE, rules)

IgnoreInvariant ==
  /\ IgnoreTypeOK
  /\ ignoreAt = "idle" => rules = <<>> /\ readIgnores = {}
  /\ ignoreAt \in {"reading", "returned"} => Collected
  /\ ignoreAt = "failed" => ReadsOutsideIgnored
  /\ ignoreAt = "returned" =>
       pending = {} /\ excludedPaths = {p \in Candidates : ExcludedBy(p, TRUE, rules)}

-----------------------------------------------------------------------------
(* The table of matches against Git's grammar: the i-th row holds the prefixes that some
   choice of cuts lets the first i components cover. *)

(* One component takes a path from its first a names to its first b. *)
RowStep(components, path, i, a, b) ==
  IF components[i] = "**" THEN b >= a
  ELSE b = a + 1 /\ ComponentMatches(components[i], path[b])

IsCut(components, path, i, cut) ==
  /\ cut \in [0 .. i -> 0 .. Len(path)] /\ cut[0] = 0
  /\ \A j \in 1 .. i : RowStep(components, path, j, cut[j - 1], cut[j])

(* The prefixes that the first i components can cover. *)
CutRow(components, path, i) ==
  {k \in 0 .. Len(path) : \E cut : IsCut(components, path, i, cut) /\ cut[i] = k}

LEMMA CutsBegin ==
  ASSUME NEW components, NEW path, Len(path) \in Nat
  PROVE  CutRow(components, path, 0) = {0}
<1> DEFINE none == [j \in 0 .. 0 |-> 0]
<1>1. IsCut(components, path, 0, none) /\ none[0] = 0
  BY DEF IsCut
<1>2. 0 \in CutRow(components, path, 0)
  BY <1>1 DEF CutRow
<1>3. \A k \in CutRow(components, path, 0) : k = 0
  BY DEF CutRow, IsCut
<1>. QED
  BY <1>2, <1>3

LEMMA CutsGrow ==
  ASSUME NEW components, NEW path, Len(path) \in Nat, NEW i \in Nat, i # 0
  PROVE  CutRow(components, path, i)
           = NextRow(CutRow(components, path, i - 1), components[i], path)
<1> DEFINE row == CutRow(components, path, i - 1)
<1>1. \A k \in 0 .. Len(path) :
        k \in NextRow(row, components[i], path) <=> \E l \in row : RowStep(components, path, i, l, k)
  <2> SUFFICES ASSUME NEW k \in 0 .. Len(path)
               PROVE  k \in NextRow(row, components[i], path)
                        <=> \E l \in row : RowStep(components, path, i, l, k)
    OBVIOUS
  <2>1. row \subseteq 0 .. Len(path)
    BY DEF CutRow
  <2> HIDE DEF row
  <2>2. CASE components[i] = "**"
    BY <2>1, <2>2 DEF NextRow, RowStep
  <2>3. CASE components[i] # "**"
    BY <2>1, <2>3 DEF NextRow, RowStep
  <2>. QED
    BY <2>2, <2>3
<1>2. ASSUME NEW cut, IsCut(components, path, i, cut)
      PROVE  cut[i - 1] \in row /\ RowStep(components, path, i, cut[i - 1], cut[i])
  <2> DEFINE before == [j \in 0 .. i - 1 |-> cut[j]]
  <2>1. IsCut(components, path, i - 1, before)
    BY <1>2 DEF IsCut
  <2>2. before[i - 1] = cut[i - 1] /\ cut[i - 1] \in 0 .. Len(path)
    BY <1>2 DEF IsCut
  <2> HIDE DEF before
  <2>3. RowStep(components, path, i, cut[i - 1], cut[i])
    BY <1>2 DEF IsCut
  <2>. QED
    BY <2>1, <2>2, <2>3 DEF CutRow
<1>3. ASSUME NEW k \in 0 .. Len(path), NEW l \in row, RowStep(components, path, i, l, k)
      PROVE  \E cut : IsCut(components, path, i, cut) /\ cut[i] = k
  <2>1. PICK cut : IsCut(components, path, i - 1, cut) /\ cut[i - 1] = l
    BY <1>3 DEF CutRow
  <2> DEFINE longer == [j \in 0 .. i |-> IF j = i THEN k ELSE cut[j]]
  <2>2. /\ longer \in [0 .. i -> 0 .. Len(path)] /\ longer[0] = 0 /\ longer[i] = k
        /\ longer[i - 1] = l
    BY <2>1 DEF IsCut
  <2>3. \A j \in 1 .. i - 1 : longer[j - 1] = cut[j - 1] /\ longer[j] = cut[j]
    OBVIOUS
  <2> HIDE DEF longer
  <2>4. \A j \in 1 .. i : RowStep(components, path, j, longer[j - 1], longer[j])
    <3> SUFFICES ASSUME NEW j \in 1 .. i
                 PROVE  RowStep(components, path, j, longer[j - 1], longer[j])
      OBVIOUS
    <3>1. CASE j = i
      BY <1>3, <2>2, <3>1
    <3>2. CASE j # i
      <4>1. j \in 1 .. i - 1
        BY <3>2
      <4>. QED
        BY <2>1, <2>3, <4>1 DEF IsCut
    <3>. QED
      BY <3>1, <3>2
  <2>. QED
    BY <2>2, <2>4 DEF IsCut
<1>4. CutRow(components, path, i)
        = {k \in 0 .. Len(path) : \E l \in row : RowStep(components, path, i, l, k)}
  <2>1. ASSUME NEW k \in 0 .. Len(path)
        PROVE  k \in CutRow(components, path, i) <=> \E l \in row : RowStep(components, path, i, l, k)
    BY <1>2, <1>3 DEF CutRow
  <2>. QED
    BY <2>1 DEF CutRow
<1>5. NextRow(row, components[i], path) \subseteq 0 .. Len(path)
  BY DEF NextRow
<1>. QED
  BY <1>1, <1>4, <1>5

(* The table of compiledMatches holds what the components can cover. *)
LEMMA RowsAreCuts ==
  ASSUME NEW components, Len(components) \in Nat, NEW path, Len(path) \in Nat,
         NEW i \in 0 .. Len(components)
  PROVE  Rows(components, path)[i] = CutRow(components, path, i)
<1> DEFINE step(f) == [n \in 0 .. Len(components) |->
                         IF n = 0 THEN {0} ELSE NextRow(f[n - 1], components[n], path)]
           cuts == [n \in 0 .. Len(components) |-> CutRow(components, path, n)]
           rows == Rows(components, path)
           T == {n \in 0 .. Len(components) : rows[n] # CutRow(components, path, n)}
<1>1. cuts = step(cuts)
  <2>1. ASSUME NEW n \in 0 .. Len(components)
        PROVE  cuts[n] = IF n = 0 THEN {0} ELSE NextRow(cuts[n - 1], components[n], path)
    <3>1. CASE n = 0
      BY <3>1, CutsBegin
    <3>2. CASE n # 0
      <4>1. n \in Nat /\ n - 1 \in 0 .. Len(components)
        BY <3>2
      <4>. QED
        BY <3>2, <4>1, CutsGrow
    <3>. QED
      BY <3>1, <3>2
  <2>. QED
    BY <2>1
<1>2. rows = CHOOSE g : g = step(g)
  BY DEF Rows
<1>3. rows = step(rows)
  BY <1>1, <1>2
<1> HIDE DEF rows
<1>4. rows[0] = {0} /\ \A n \in 1 .. Len(components) : rows[n] = NextRow(rows[n - 1], components[n], path)
  <2>1. \A n \in 0 .. Len(components) :
          rows[n] = IF n = 0 THEN {0} ELSE NextRow(rows[n - 1], components[n], path)
    BY <1>3
  <2>2. 0 \in 0 .. Len(components) /\ \A n \in 1 .. Len(components) : n \in 0 .. Len(components) /\ n # 0
    OBVIOUS
  <2>. QED
    BY <2>1, <2>2
<1>5. ASSUME T # {} PROVE FALSE
  <2>1. PICK n \in T : \A y \in T : n <= y
    <3>1. T \subseteq Nat
      OBVIOUS
    <3>. QED
      BY <1>5, <3>1, LeastNatural
  <2>2. n # 0
    BY <1>4, <2>1, CutsBegin
  <2>3. n \in 1 .. Len(components) /\ n \in Nat /\ n - 1 \in 0 .. Len(components) /\ n - 1 \notin T
    BY <2>1, <2>2
  <2>4. rows[n - 1] = CutRow(components, path, n - 1)
    BY <2>3
  <2>. QED
    BY <1>4, <2>1, <2>2, <2>3, <2>4, CutsGrow
<1>6. rows[i] = CutRow(components, path, i)
  <2>1. i \notin T
    BY <1>5
  <2>. QED
    BY <2>1
<1>. QED
  BY <1>6 DEF rows

(* Without "**" a cut takes one name at a time. *)
LEMMA CutsCount ==
  ASSUME NEW components, NEW path, Len(path) \in Nat, NEW i \in Nat, NEW cut,
         IsCut(components, path, i, cut), \A j \in 1 .. i : components[j] # "**"
  PROVE  cut[i] = i
<1> DEFINE T == {j \in 0 .. i : cut[j] # j}
<1>1. ASSUME T # {} PROVE FALSE
  <2>1. PICK j \in T : \A y \in T : j <= y
    <3>1. T \subseteq Nat
      OBVIOUS
    <3>. QED
      BY <1>1, <3>1, LeastNatural
  <2>2. j # 0
    BY <2>1 DEF IsCut
  <2>3. j \in 1 .. i /\ j - 1 \in 0 .. i /\ j - 1 \notin T
    BY <2>1, <2>2
  <2>4. cut[j] = cut[j - 1] + 1
    BY <2>3 DEF IsCut, RowStep
  <2>. QED
    BY <2>1, <2>3, <2>4
<1>. QED
  BY <1>1

IsGitCut(c, path, n, cut) ==
  /\ cut \in [0 .. n -> 0 .. Len(path)] /\ cut[0] = 0 /\ cut[n] = Len(path)
  /\ \A i \in 1 .. n :
       IF c[i] = "**" THEN cut[i] >= cut[i - 1] + (IF i = n THEN 1 ELSE 0)
       ELSE cut[i] = cut[i - 1] + 1 /\ ComponentMatches(c[i], path[cut[i]])

LEMMA GitCuts ==
  ASSUME NEW c, NEW n \in Nat, n # 0, NEW path, Len(path) \in Nat, NEW cut
  PROVE  IsGitCut(c, path, n, cut)
           <=> /\ IsCut(c, path, n, cut) /\ cut[n] = Len(path)
               /\ c[n] = "**" => cut[n] >= cut[n - 1] + 1
<1> SUFFICES ASSUME cut \in [0 .. n -> 0 .. Len(path)]
             PROVE  IsGitCut(c, path, n, cut)
                      <=> /\ IsCut(c, path, n, cut) /\ cut[n] = Len(path)
                          /\ c[n] = "**" => cut[n] >= cut[n - 1] + 1
  BY DEF IsGitCut, IsCut
<1>1. ASSUME NEW i \in 1 .. n PROVE cut[i] \in Nat /\ cut[i - 1] \in Nat
  <2>1. i \in 0 .. n /\ i - 1 \in 0 .. n
    OBVIOUS
  <2>. QED
    BY <2>1
<1>2. ASSUME IsGitCut(c, path, n, cut)
      PROVE  /\ IsCut(c, path, n, cut) /\ cut[n] = Len(path)
             /\ c[n] = "**" => cut[n] >= cut[n - 1] + 1
  <2>1. \A i \in 1 .. n : RowStep(c, path, i, cut[i - 1], cut[i])
    BY <1>1, <1>2 DEF IsGitCut, RowStep
  <2>. QED
    BY <1>2, <2>1 DEF IsGitCut, IsCut
<1>3. ASSUME IsCut(c, path, n, cut), cut[n] = Len(path), c[n] = "**" => cut[n] >= cut[n - 1] + 1
      PROVE  IsGitCut(c, path, n, cut)
  <2>1. ASSUME NEW i \in 1 .. n
        PROVE  IF c[i] = "**" THEN cut[i] >= cut[i - 1] + (IF i = n THEN 1 ELSE 0)
               ELSE cut[i] = cut[i - 1] + 1 /\ ComponentMatches(c[i], path[cut[i]])
    BY <1>1, <1>3 DEF IsCut, RowStep
  <2>. QED
    BY <1>3, <2>1 DEF IsGitCut, IsCut
<1>. QED
  BY <1>2, <1>3

LEMMA OneOrMore == \A n \in Nat : n # 0 => n > 1 \/ n = 1
OBVIOUS

(* The engine matches a pattern as Git's documentation describes it, unless the pattern has a
   "**" before a last one. *)
LEMMA MatchesLikeGit ==
  ASSUME NEW p, NEW c, c = p.components, NEW n \in Nat, n = Len(c), n # 0,
         NEW path, Len(path) \in Nat, Len(path) # 0, ~ TwoGlobstars(p)
  PROVE  CompiledMatches(p, path) <=> GitMatches(p, path)
<1>1. CASE ~ p.hasSlash
  BY <1>1 DEF CompiledMatches, GitMatches
<1>2. CASE p.hasSlash
  <2>0. c = p.components /\ n = Len(c) /\ n # 0
    OBVIOUS
  <2>1. CompiledMatches(p, path)
          <=> /\ TrailingGlobstar(p) => Len(path) >= n
              /\ \E cut : IsCut(c, path, n, cut) /\ cut[n] = Len(path)
    <3>1. Rows(c, path)[n] = CutRow(c, path, n)
      BY <2>0, RowsAreCuts
    <3>. QED
      BY <1>2, <2>0, <3>1 DEF CompiledMatches, CutRow
  <2>2. GitMatches(p, path) <=> \E cut : IsGitCut(c, path, n, cut)
    BY <1>2, <2>0 DEF GitMatches, IsGitCut
  <2>3. TrailingGlobstar(p) <=> n > 1 /\ c[n] = "**"
    BY <1>2, <2>0 DEF TrailingGlobstar, Last
  <2>4. ASSUME n > 1, c[n] = "**", NEW cut, IsCut(c, path, n, cut)
        PROVE  cut[n - 1] = n - 1
    <3>1. \A i \in 1 .. n - 1 : c[i] # "**"
      BY <2>0, <2>3, <2>4 DEF TwoGlobstars
    <3> DEFINE before == [j \in 0 .. n - 1 |-> cut[j]]
    <3>2. IsCut(c, path, n - 1, before) /\ before[n - 1] = cut[n - 1]
      BY <2>4 DEF IsCut
    <3> HIDE DEF before
    <3>3. PICK k \in Nat : k = n - 1
      BY <2>0, <2>4
    <3>4. IsCut(c, path, k, before) /\ \A i \in 1 .. k : c[i] # "**"
      BY <3>1, <3>2, <3>3
    <3>5. before[k] = k
      BY <3>4, CutsCount
    <3>. QED
      BY <3>2, <3>3, <3>5
  <2>5. CASE n > 1 /\ c[n] = "**"
    BY <2>0, <2>1, <2>2, <2>3, <2>4, <2>5, GitCuts
  <2>6. CASE n = 1 /\ c[n] = "**"
    <3>1. \A cut : IsCut(c, path, n, cut) => cut[0] = 0
      BY DEF IsCut
    <3>2. ASSUME NEW cut
          PROVE  IsGitCut(c, path, n, cut) <=> IsCut(c, path, n, cut) /\ cut[n] = Len(path)
      <4>1. IsGitCut(c, path, n, cut)
              <=> /\ IsCut(c, path, n, cut) /\ cut[n] = Len(path)
                  /\ c[n] = "**" => cut[n] >= cut[n - 1] + 1
        BY <2>0, GitCuts
      <4>2. n - 1 = 0 /\ 0 + 1 = 1 /\ Len(path) >= 1
        BY <2>6
      <4>. QED
        BY <3>1, <4>1, <4>2
    <3>3. ~ TrailingGlobstar(p)
      BY <2>3, <2>6
    <3>. QED
      BY <2>1, <2>2, <3>2, <3>3, Zenon
  <2>7. CASE c[n] # "**"
    BY <2>0, <2>1, <2>2, <2>3, <2>7, GitCuts
  <2>8. n > 1 \/ n = 1
    BY OneOrMore
  <2>. QED
    BY <2>5, <2>6, <2>7, <2>8, Zenon
<1>. QED
  BY <1>1, <1>2

-----------------------------------------------------------------------------
(* Paths and their prefixes *)
LEMMA StrictPrefixes ==
  ASSUME NEW base \in Seq(Names), NEW path \in Seq(Names)
  PROVE  /\ IsStrictPrefix(base, path) <=> Len(base) < Len(path) /\ base = SubSeq(path, 1, Len(base))
         /\ IsStrictPrefix(base, path) =>
              /\ Len(RelativeToBase(path, base)) = Len(path) - Len(base)
              /\ Len(path) - Len(base) \in Nat /\ Len(path) - Len(base) # 0
<1>0. Len(base) \in Nat /\ Len(path) \in Nat
  BY LenProperties
<1>1. /\ Len(base) \in Nat /\ Len(path) \in Nat /\ SubSeq(base, 1, Len(base)) = base
      /\ SubSeq(path, 1, Len(path)) = path
  BY LenProperties, SubSeqFull
<1>2. IsStrictPrefix(base, path) <=> Len(base) < Len(path) /\ base = SubSeq(path, 1, Len(base))
  <2>1. IsStrictPrefix(base, path)
          <=> Len(base) <= Len(path) /\ base = SubSeq(path, 1, Len(base)) /\ base # path
    BY <1>1, Zenon DEF IsStrictPrefix, IsPrefix
  <2>2. ASSUME base = SubSeq(path, 1, Len(base)), base # path PROVE Len(base) # Len(path)
    BY <1>1, <2>2
  <2>3. ASSUME Len(base) # Len(path) PROVE base # path
    BY <2>3
  <2>4. Len(base) < Len(path) <=> Len(base) <= Len(path) /\ Len(base) # Len(path)
    BY <1>0
  <2>. QED
    BY <2>1, <2>2, <2>3, <2>4, Zenon
<1>3. ASSUME Len(base) < Len(path) PROVE Len(RelativeToBase(path, base)) = Len(path) - Len(base)
  <2>1. \A i \in Len(base) + 1 .. Len(path) : path[i] \in Names
    BY <1>1, ElementOfSeq
  <2>2. Len(SubSeq(path, Len(base) + 1, Len(path)))
          = IF Len(base) + 1 <= Len(path) THEN Len(path) - (Len(base) + 1) + 1 ELSE 0
    <3>1. Len(base) + 1 \in Int /\ Len(path) \in Int
      BY <1>1
    <3>. QED
      BY <2>1, <3>1, SubSeqProperties
  <2>. QED
    BY <1>0, <1>3, <2>2 DEF RelativeToBase
<1>4. Len(base) < Len(path) => Len(path) - Len(base) \in Nat /\ Len(path) - Len(base) # 0
  BY <1>0
<1>. QED
  BY <1>2, <1>3, <1>4, Zenon

LEMMA PrefixPaths ==
  ASSUME NEW path \in Seq(Names), NEW k \in 0 .. Len(path)
  PROVE  /\ SubSeq(path, 1, k) \in Seq(Names) /\ Len(SubSeq(path, 1, k)) = k
         /\ \A l \in 0 .. k : SubSeq(SubSeq(path, 1, k), 1, l) = SubSeq(path, 1, l)
<1>1. Len(path) \in Nat /\ \A i \in 1 .. k : path[i] \in Names
  BY LenProperties, ElementOfSeq
<1>2. /\ SubSeq(path, 1, k) \in Seq(Names) /\ Len(SubSeq(path, 1, k)) = k
      /\ \A i \in 1 .. k : SubSeq(path, 1, k)[i] = path[i]
  BY <1>1, SubSeqProperties
<1>3. ASSUME NEW l \in 0 .. k PROVE SubSeq(SubSeq(path, 1, k), 1, l) = SubSeq(path, 1, l)
  <2>1. CASE l = 0
    BY <2>1, SubSeqEmpty
  <2>2. CASE l # 0
    <3>1. 1 \in 1 .. Len(path) /\ k \in 1 .. Len(path) /\ 1 \in 1 .. k - 1 + 1 /\ l \in 1 .. k - 1 + 1
      BY <1>1, <2>2
    <3>2. SubSeq(SubSeq(path, 1, k), 1, l) = SubSeq(path, 1 + 1 - 1, 1 + l - 1)
      BY <3>1, SubSeqOfSubSeq
    <3>. QED
      BY <3>2
  <2>. QED
    BY <2>1, <2>2
<1>. QED
  BY <1>2, <1>3

(* The lists of patterns for a path. *)
LayerBase(i, path) == IF i <= 3 THEN <<>> ELSE SubSeq(path, 1, Len(path) - (i - 3))
LayerRank(i) == IF i <= 3 THEN 5 - i ELSE 1
LayerLines(i, path) ==
  IF i <= 3 THEN LinesOf(LayerRank(i), <<>>)
  ELSE IF LayerBase(i, path) \in IgnoreFiles THEN gitignore[LayerBase(i, path)] ELSE <<>>

Layer(d) == [base |-> d, lines |-> IF d \in IgnoreFiles THEN gitignore[d] ELSE <<>>]

LEMMA LayersAre ==
  ASSUME NEW path, Len(path) \in Nat
  PROVE  /\ DOMAIN Layers(path) = 1 .. Len(Layers(path))
         /\ Len(Layers(path)) = 3 + (IF policy.fallback THEN Len(path) ELSE 0)
         /\ \A i \in 1 .. Len(Layers(path)) :
              Layers(path)[i] = [base |-> LayerBase(i, path), lines |-> LayerLines(i, path)]
<1> DEFINE git == IF policy.fallback THEN [i \in 1 .. Len(path) |-> Layer(SubSeq(path, 1, Len(path) - i))]
                  ELSE <<>>
           root(lines) == [base |-> <<>>, lines |-> lines]
           top == <<root(BuiltInPatterns), root(policy.configuration), root(policy.profile)>>
           S == {root(BuiltInPatterns), root(policy.configuration), root(policy.profile)}
                  \cup {Layer(SubSeq(path, 1, Len(path) - i)) : i \in 1 .. Len(path)}
           g == IF policy.fallback THEN Len(path) ELSE 0
<1>1. Layers(path) = top \o git
  BY DEF Layers, Layer
<1>2. top \in Seq(S) /\ Len(top) = 3
  OBVIOUS
<1>3. g \in Nat /\ git \in Seq(S) /\ Len(git) = g
      /\ \A i \in 1 .. g : git[i] = Layer(SubSeq(path, 1, Len(path) - i))
  <2>1. CASE policy.fallback
    <3>1. g = Len(path) /\ git = [i \in 1 .. Len(path) |-> Layer(SubSeq(path, 1, Len(path) - i))]
      BY <2>1
    <3>2. \A i \in 1 .. Len(path) : Layer(SubSeq(path, 1, Len(path) - i)) \in S
      OBVIOUS
    <3> HIDE DEF git, g, S
    <3>. QED
      BY <3>1, <3>2
  <2>2. CASE ~ policy.fallback
    BY <2>2
  <2>. QED
    BY <2>1, <2>2
<1> HIDE DEF git, g, S
<1>4. /\ Len(top \o git) = 3 + g /\ top \o git \in Seq(S)
      /\ \A i \in 1 .. 3 + g : (top \o git)[i] = IF i <= 3 THEN top[i] ELSE git[i - 3]
  BY <1>2, <1>3, ConcatProperties
<1>5. ASSUME NEW i \in 1 .. 3 + g
      PROVE  (top \o git)[i] = [base |-> LayerBase(i, path), lines |-> LayerLines(i, path)]
  <2>1. CASE i \in 1 .. 3
    <3>1. /\ 1 \in 1 .. 3 + g => (top \o git)[1] = root(BuiltInPatterns)
          /\ 2 \in 1 .. 3 + g => (top \o git)[2] = root(policy.configuration)
          /\ 3 \in 1 .. 3 + g => (top \o git)[3] = root(policy.profile)
      BY <1>3, <1>4
    <3>2. i = 1 \/ i = 2 \/ i = 3
      BY <2>1
    <3>. QED
      BY <1>3, <3>1, <3>2, SMTT(30) DEF LayerBase, LayerLines, LayerRank, LinesOf
  <2>2. CASE i \notin 1 .. 3
    <3>1. i > 3 /\ i - 3 \in 1 .. g
      BY <1>3, <2>2
    <3>2. (top \o git)[i] = Layer(SubSeq(path, 1, Len(path) - (i - 3)))
      BY <1>3, <1>4, <3>1
    <3>3. ~ (i <= 3)
      BY <3>1
    <3>. QED
      BY <3>2, <3>3, Zenon DEF LayerBase, LayerLines, Layer
  <2>. QED
    BY <2>1, <2>2
<1>6. DOMAIN (top \o git) = 1 .. 3 + g
  BY <1>4, LenProperties
<1>. QED
  BY <1>1, <1>4, <1>5, <1>6 DEF g

-----------------------------------------------------------------------------
(* Decisions *)
RulesKnown(line) ==
  /\ IgnoreTypeOK /\ Numbers(line) /\ Len(rules) <= MaximumPatterns
  /\ ~ policy.fallback => readIgnores = {}

OneGlobstar == \A p \in PatternsInForce : ~ TwoGlobstars(p)

(* Every .gitignore above a path has been read, or has no lines. *)
Settled(path) ==
  policy.fallback =>
    \A d \in IgnoreFiles : IsStrictPrefix(d, path) => d \in readIgnores \/ gitignore[d] = <<>>

(* The list of patterns that a rule is from, for a path. *)
RuleLayer(n, path) ==
  IF rules[n].rank > 1 THEN 5 - rules[n].rank ELSE 3 + Len(path) - Len(rules[n].base)

LEMMA RuleTypes ==
  ASSUME IgnoreTypeOK
  PROVE  /\ Len(rules) \in Nat /\ DOMAIN rules = 1 .. Len(rules)
         /\ \A n \in 1 .. Len(rules) :
              /\ rules[n].rank \in Ranks /\ rules[n].base \in Seq(Names)
              /\ Len(rules[n].base) \in Nat /\ rules[n].pattern \in Patterns
<1>1. rules \in Seq(Rules)
  BY DEF IgnoreTypeOK
<1>2. Len(rules) \in Nat /\ DOMAIN rules = 1 .. Len(rules) /\ \A n \in 1 .. Len(rules) : rules[n] \in Rules
  BY <1>1, LenProperties, ElementOfSeq
<1>3. \A b \in Seq(Names) : Len(b) \in Nat
  BY LenProperties
<1>. QED
  BY <1>2, <1>3 DEF Rules

LEMMA LineTypes ==
  ASSUME IgnoreTypeOK, NEW rank \in Ranks, NEW base, rank = 1 => base \in IgnoreFiles
  PROVE  LinesOf(rank, base) \in Seq(Patterns)
<1>1. IgnorePatterns \subseteq Patterns /\ PolicyPatterns \subseteq Patterns
  BY DEF Patterns
<1>2. BuiltInPatterns \in Seq(Patterns)
  BY IgnoreAssumption
<1>3. policy.configuration \in Seq(Patterns) /\ policy.profile \in Seq(Patterns)
  BY <1>1, SeqMonotonic DEF IgnoreTypeOK
<1>4. base \in IgnoreFiles => gitignore[base] \in Seq(Patterns)
  BY <1>1, SeqMonotonic DEF IgnoreTypeOK
<1>. QED
  BY <1>2, <1>3, <1>4 DEF LinesOf, Ranks

LEMMA LinesHaveOneGlobstar ==
  ASSUME IgnoreTypeOK, OneGlobstar, NEW rank \in Ranks, NEW base, rank = 1 => base \in IgnoreFiles,
         NEW j \in 1 .. Len(LinesOf(rank, base))
  PROVE  ~ TwoGlobstars(LinesOf(rank, base)[j])
<1> DEFINE lines == LinesOf(rank, base)
<1>1. DOMAIN lines = 1 .. Len(lines)
  BY LineTypes, LenProperties
<1>2. lines[j] \in Range(lines)
  BY <1>1 DEF Range
<1>3. CASE rank = 4
  <2>1. lines[j] \in Range(BuiltInPatterns)
    BY <1>2, <1>3 DEF LinesOf
  <2>2. /\ "**" \notin Range(lines[j].components)
        /\ lines[j].components \in Seq(Range(lines[j].components)) /\ lines[j].components # <<>>
    <3>1. lines[j] \in Patterns
      BY <2>1 DEF Patterns
    <3>. QED
      BY <2>1, <3>1, IgnoreAssumption
  <2>3. Last(lines[j].components) \in Range(lines[j].components)
    <3>1. Len(lines[j].components) \in 1 .. Len(lines[j].components)
      BY <2>2, EmptySeq, LenProperties
    <3>. QED
      BY <2>2, <3>1, ElementOfSeq DEF Last
  <2>. QED
    BY <2>2, <2>3 DEF TwoGlobstars, TrailingGlobstar
<1>4. CASE rank # 4
  <2>1. lines[j] \in PatternsInForce
    BY <1>2, <1>4 DEF LinesOf, Ranks, PatternsInForce
  <2>. QED
    BY <2>1 DEF OneGlobstar
<1>. QED
  BY <1>3, <1>4

LEMMA PatternMatches ==
  ASSUME NEW p \in Patterns, ~ TwoGlobstars(p), NEW path, Len(path) \in Nat, Len(path) # 0
  PROVE  CompiledMatches(p, path) <=> GitMatches(p, path)
<1>1. Len(p.components) \in Nat /\ Len(p.components) # 0
  <2>1. p.components \in Seq(Range(p.components)) /\ p.components # <<>>
    BY IgnoreAssumption
  <2>. QED
    BY <2>1, EmptySeq
<1>. QED
  BY <1>1, MatchesLikeGit

LEMMA RuleInLayer ==
  ASSUME NEW line, RulesKnown(line), NEW path \in Seq(Names), NEW n \in 1 .. Len(rules),
         IsStrictPrefix(rules[n].base, path)
  PROVE  /\ RuleLayer(n, path) \in 1 .. Len(Layers(path))
         /\ LayerBase(RuleLayer(n, path), path) = rules[n].base
         /\ LayerLines(RuleLayer(n, path), path) = LinesOf(rules[n].rank, rules[n].base)
<1> DEFINE base == rules[n].base
           rank == rules[n].rank
           layer == RuleLayer(n, path)
<1>1. /\ rank \in 1 .. 4 /\ base \in Seq(Names) /\ Len(base) \in Nat
      /\ rank > 1 => base = <<>>
      /\ rank = 1 => base \in readIgnores /\ base \in IgnoreFiles /\ policy.fallback
  BY RuleTypes DEF RulesKnown, IgnoreTypeOK, Numbers, Ranks
<1>2. Len(path) \in Nat /\ Len(base) < Len(path) /\ base = SubSeq(path, 1, Len(base))
  BY <1>1, StrictPrefixes, LenProperties
<1>3. Len(Layers(path)) = 3 + (IF policy.fallback THEN Len(path) ELSE 0)
  BY <1>2, LayersAre
<1>4. layer = IF rank > 1 THEN 5 - rank ELSE 3 + Len(path) - Len(base)
  BY DEF RuleLayer
<1> HIDE DEF base, rank, layer
<1>5. CASE rank > 1
  <2>1. layer \in 1 .. 3 /\ layer <= 3 /\ 5 - layer = rank /\ 3 <= Len(Layers(path))
    BY <1>1, <1>2, <1>3, <1>4, <1>5
  <2>2. LayerBase(layer, path) = base /\ LayerLines(layer, path) = LinesOf(rank, base)
    BY <1>1, <1>5, <2>1 DEF LayerBase, LayerLines, LayerRank
  <2>. QED
    BY <1>2, <1>3, <2>1, <2>2 DEF base, rank, layer
<1>6. CASE rank = 1
  <2>1. /\ ~ (layer <= 3) /\ layer \in 1 .. Len(Layers(path)) /\ Len(path) - (layer - 3) = Len(base)
    BY <1>1, <1>2, <1>3, <1>4, <1>6
  <2>2. LayerBase(layer, path) = base
    BY <1>2, <2>1 DEF LayerBase
  <2>3. LayerLines(layer, path) = gitignore[base]
    BY <1>1, <1>6, <2>1, <2>2 DEF LayerLines
  <2>. QED
    BY <1>6, <2>1, <2>2, <2>3 DEF LinesOf, base, rank, layer
<1>. QED
  BY <1>1, <1>5, <1>6

LEMMA RanksAndLines ==
  ASSUME NEW rn \in 1 .. 4, NEW rm \in 1 .. 4, NEW ln \in Nat, NEW lm \in Nat,
         NEW j \in Nat, NEW k \in Nat, NEW l \in Nat, NEW n \in Nat, NEW m \in Nat,
         ln < l, lm < l, n = m => rn = rm /\ ln = lm /\ j = k,
         rn > 1 => ln = 0, rm > 1 => lm = 0,
         n < m => rn >= rm /\ (rn = rm => ln <= lm) /\ (rn = rm /\ ln = lm => j < k),
         m < n => rm >= rn /\ (rn = rm => lm <= ln) /\ (rn = rm /\ ln = lm => k < j),
         NEW a, NEW b, a = IF rn > 1 THEN 5 - rn ELSE 3 + l - ln,
         b = IF rm > 1 THEN 5 - rm ELSE 3 + l - lm
  PROVE  rn > rm \/ (rn = rm /\ n >= m) <=> a < b \/ (a = b /\ j >= k)
<1>1. a \in Int /\ b \in Int /\ (rn > rm => a < b) /\ (rm > rn => b < a)
  OBVIOUS
<1>2. rn = rm => (a < b <=> lm < ln) /\ (a = b <=> lm = ln)
  OBVIOUS
<1>. QED
  BY <1>1, <1>2

(* The running numbers of rules agree with the order of lists and of lines in them. *)
LEMMA OrderOfRules ==
  ASSUME NEW line, RulesKnown(line), NEW path \in Seq(Names),
         NEW n \in 1 .. Len(rules), IsStrictPrefix(rules[n].base, path),
         NEW m \in 1 .. Len(rules), IsStrictPrefix(rules[m].base, path)
  PROVE  rules[n].rank > rules[m].rank \/ (rules[n].rank = rules[m].rank /\ n >= m)
           <=> \/ RuleLayer(n, path) < RuleLayer(m, path)
               \/ RuleLayer(n, path) = RuleLayer(m, path) /\ line[n] >= line[m]
<1> DEFINE rn == rules[n].rank
           rm == rules[m].rank
           bn == rules[n].base
           bm == rules[m].base
           l  == Len(path)
<1>1. /\ rn \in 1 .. 4 /\ rm \in 1 .. 4 /\ bn \in Seq(Names) /\ bm \in Seq(Names)
      /\ Len(bn) \in Nat /\ Len(bm) \in Nat /\ n \in Nat /\ m \in Nat
      /\ rn > 1 => bn = <<>>
      /\ rm > 1 => bm = <<>>
  BY RuleTypes DEF RulesKnown, Numbers, Ranks
<1>2. /\ l \in Nat /\ Len(bn) < l /\ bn = SubSeq(path, 1, Len(bn))
      /\ Len(bm) < l /\ bm = SubSeq(path, 1, Len(bm))
  BY <1>1, StrictPrefixes, LenProperties
<1>3. /\ line[n] \in Nat /\ line[m] \in Nat
      /\ n < m => IsBefore(rules[n], line[n], rules[m], line[m])
      /\ m < n => IsBefore(rules[m], line[m], rules[n], line[n])
  <2>1. line \in Seq(Nat) /\ Len(line) = Len(rules)
    BY DEF RulesKnown, Numbers
  <2>2. \A k \in 1 .. Len(rules) : line[k] \in Nat
    BY <2>1, ElementOfSeq
  <2>. QED
    BY <2>2 DEF RulesKnown, Numbers
<1>4. /\ n < m => /\ rn >= rm /\ (rn = rm => Len(bn) <= Len(bm))
                  /\ rn = rm /\ bn = bm => line[n] < line[m]
      /\ m < n => /\ rm >= rn /\ (rn = rm => Len(bm) <= Len(bn))
                  /\ rn = rm /\ bn = bm => line[m] < line[n]
  BY <1>3 DEF IsBefore
<1>5. /\ RuleLayer(n, path) = IF rn > 1 THEN 5 - rn ELSE 3 + l - Len(bn)
      /\ RuleLayer(m, path) = IF rm > 1 THEN 5 - rm ELSE 3 + l - Len(bm)
  BY DEF RuleLayer
<1>6. Len(bn) = Len(bm) => bn = bm
  BY <1>2
<1>7. (rn > 1 => Len(bn) = 0) /\ (rm > 1 => Len(bm) = 0)
  BY <1>1
<1>8. /\ n < m => /\ rn >= rm /\ (rn = rm => Len(bn) <= Len(bm))
                  /\ rn = rm /\ Len(bn) = Len(bm) => line[n] < line[m]
      /\ m < n => /\ rm >= rn /\ (rn = rm => Len(bm) <= Len(bn))
                  /\ rn = rm /\ Len(bn) = Len(bm) => line[m] < line[n]
  BY <1>4, <1>6, Zenon
<1>9. /\ Len(bn) \in Nat /\ Len(bm) \in Nat /\ line[n] \in Nat /\ line[m] \in Nat /\ l \in Nat
      /\ Len(bn) < l /\ Len(bm) < l /\ rn \in 1 .. 4 /\ rm \in 1 .. 4 /\ n \in Nat /\ m \in Nat
  BY <1>1, <1>2, <1>3, Zenon
<1>10. n = m => rn = rm /\ Len(bn) = Len(bm) /\ line[n] = line[m]
  OBVIOUS
<1>11. PICK x, y, a, b : /\ x = Len(bn) /\ y = Len(bm)
                        /\ a = RuleLayer(n, path) /\ b = RuleLayer(m, path)
  OBVIOUS
<1>12. PICK r, s : r = rn /\ s = rm
  OBVIOUS
<1>13. PICK j, k : j = line[n] /\ k = line[m]
  OBVIOUS
<1>14. PICK len : len = l
  OBVIOUS
<1>15. r > s \/ (r = s /\ n >= m) <=> a < b \/ (a = b /\ j >= k)
  <2>1. /\ r \in 1 .. 4 /\ s \in 1 .. 4 /\ x \in Nat /\ y \in Nat /\ j \in Nat /\ k \in Nat
        /\ len \in Nat /\ n \in Nat /\ m \in Nat /\ x < len /\ y < len
    BY <1>9, <1>11, <1>12, <1>13, <1>14, Zenon
  <2>2. /\ n = m => r = s /\ x = y /\ j = k
        /\ r > 1 => x = 0
        /\ s > 1 => y = 0
    BY <1>7, <1>10, <1>11, <1>12, <1>13, Zenon
  <2>3. /\ n < m => r >= s /\ (r = s => x <= y) /\ (r = s /\ x = y => j < k)
        /\ m < n => s >= r /\ (r = s => y <= x) /\ (r = s /\ x = y => k < j)
    BY <1>8, <1>11, <1>12, <1>13, Zenon
  <2>4. /\ a = IF r > 1 THEN 5 - r ELSE 3 + len - x
        /\ b = IF s > 1 THEN 5 - s ELSE 3 + len - y
    BY <1>5, <1>11, <1>12, <1>14
  <2> HIDE DEF rn, rm, bn, bm, l
  <2>. QED
    BY <2>1, <2>2, <2>3, <2>4, RanksAndLines
<1>. QED
  BY <1>11, <1>12, <1>13, <1>15

LEMMA LineHasRule ==
  ASSUME NEW line, RulesKnown(line), NEW path \in Seq(Names), path # <<>>, Settled(path),
         NEW i \in 1 .. Len(Layers(path)), NEW j \in 1 .. Len(LayerLines(i, path))
  PROVE  \E n \in 1 .. Len(rules) :
           RuleLayer(n, path) = i /\ line[n] = j /\ IsStrictPrefix(rules[n].base, path)
<1>0. Len(path) \in Nat /\ Len(path) # 0
  BY EmptySeq
<1>1. CASE i <= 3
  <2>1. LayerRank(i) \in 2 .. 4 /\ 5 - LayerRank(i) = i /\ j \in 1 .. Len(LinesOf(LayerRank(i), <<>>))
    BY <1>1 DEF LayerRank, LayerLines
  <2>2. PICK n \in 1 .. Len(rules) : rules[n].rank = LayerRank(i) /\ line[n] = j
    <3>1. \A rank \in 2 .. 4 : \A x \in 1 .. Len(LinesOf(rank, <<>>)) :
            \E n \in 1 .. Len(rules) : rules[n].rank = rank /\ line[n] = x
      BY Zenon DEF RulesKnown, Numbers, PolicyHasRules, GitHasRules
    <3>. QED
      BY <2>1, <3>1, Zenon
  <2>3. rules[n].rank > 1 /\ rules[n].base = <<>>
    <3>1. rules[n].rank > 1
      BY <2>1, <2>2
    <3>2. \A m \in 1 .. Len(rules) : rules[m].rank > 1 => rules[m].base = <<>>
      BY Zenon DEF RulesKnown, Numbers
    <3>. QED
      BY <3>1, <3>2, Zenon
  <2>4. IsStrictPrefix(<<>>, path)
    <3>1. <<>> \in Seq(Names) /\ Len(<<>>) = 0 /\ SubSeq(path, 1, 0) = <<>>
      BY EmptySeq, SubSeqEmpty
    <3>2. IsStrictPrefix(<<>>, path) <=> Len(<<>>) < Len(path) /\ <<>> = SubSeq(path, 1, Len(<<>>))
      BY <3>1, StrictPrefixes
    <3>. QED
      BY <1>0, <3>1, <3>2
  <2>. QED
    BY <2>1, <2>2, <2>3, <2>4 DEF RuleLayer
<1>2. CASE ~ (i <= 3)
  <2>1. PICK d : d = LayerBase(i, path)
    OBVIOUS
  <2>2. policy.fallback /\ i - 3 \in 1 .. Len(path)
    <3>1. Len(Layers(path)) = 3 + (IF policy.fallback THEN Len(path) ELSE 0)
      BY <1>0, LayersAre
    <3>2. PICK len \in Nat : len = Len(path)
      BY <1>0
    <3>. QED
      BY <1>2, <3>1, <3>2
  <2>3. d = SubSeq(path, 1, Len(path) - (i - 3))
    BY <1>2, <2>1 DEF LayerBase
  <2>4. d \in IgnoreFiles /\ j \in 1 .. Len(gitignore[d])
    <3>1. LayerLines(i, path) = IF d \in IgnoreFiles THEN gitignore[d] ELSE <<>>
      BY <1>2, <2>1 DEF LayerLines
    <3>2. d \notin IgnoreFiles => Len(LayerLines(i, path)) = 0
      BY <3>1
    <3>. QED
      BY <3>1, <3>2
  <2>5. Len(path) - (i - 3) \in 0 .. Len(path) /\ Len(path) - (i - 3) < Len(path)
    BY <1>0, <2>2
  <2>6. d \in Seq(Names) /\ Len(d) = Len(path) - (i - 3)
    <3>1. PICK k \in 0 .. Len(path) : k = Len(path) - (i - 3)
      BY <2>5
    <3>2. SubSeq(path, 1, k) \in Seq(Names) /\ Len(SubSeq(path, 1, k)) = k
      BY PrefixPaths
    <3>. QED
      BY <2>3, <3>1, <3>2
  <2>7. IsStrictPrefix(d, path)
    BY <2>3, <2>5, <2>6, StrictPrefixes
  <2>8. d \in readIgnores
    <3>1. gitignore[d] # <<>>
      BY <2>4
    <3>. QED
      BY <2>2, <2>4, <2>7, <3>1 DEF Settled
  <2>9. PICK n \in 1 .. Len(rules) : rules[n].rank = 1 /\ rules[n].base = d /\ line[n] = j
    <3>1. \A e \in readIgnores : \A x \in 1 .. Len(gitignore[e]) :
            \E n \in 1 .. Len(rules) : rules[n].rank = 1 /\ rules[n].base = e /\ line[n] = x
      BY Zenon DEF RulesKnown, Numbers, PolicyHasRules, GitHasRules
    <3>. QED
      BY <2>4, <2>8, <3>1, Zenon
  <2>10. RuleLayer(n, path) = i
    BY <1>0, <2>2, <2>6, <2>9 DEF RuleLayer
  <2>. QED
    BY <2>7, <2>9, <2>10
<1>. QED
  BY <1>1, <1>2

-----------------------------------------------------------------------------
(* A line of a list of patterns that matches a path. *)
IsHit(i, j, path, isDir) ==
  /\ i \in 1 .. Len(Layers(path)) /\ j \in 1 .. MaximumPatterns
  /\ j \in DOMAIN LayerLines(i, path)
  /\ LayerLines(i, path)[j].directoryOnly => isDir
  /\ GitMatches(LayerLines(i, path)[j], RelativeToBase(path, LayerBase(i, path)))

LEMMA VerdictIsOfHit ==
  ASSUME NEW path, Len(path) \in Nat, NEW isDir
  PROVE  GitVerdict(path, isDir)
           <=> \E i, j : /\ IsHit(i, j, path, isDir)
                         /\ \A x, y : IsHit(x, y, path, isDir) => i < x \/ (i = x /\ j >= y)
                         /\ ~ LayerLines(i, path)[j].negative
<1> DEFINE layers == Layers(path)
           Hits == {h \in (1 .. Len(layers)) \X (1 .. MaximumPatterns) :
                      /\ h[2] \in DOMAIN layers[h[1]].lines
                      /\ layers[h[1]].lines[h[2]].directoryOnly => isDir
                      /\ GitMatches(layers[h[1]].lines[h[2]], RelativeToBase(path, layers[h[1]].base))}
           Before(h, g) == h[1] < g[1] \/ (h[1] = g[1] /\ h[2] >= g[2])
<1>1. GitVerdict(path, isDir)
        <=> \E h \in {h \in Hits : \A g \in Hits : Before(h, g)} : ~ layers[h[1]].lines[h[2]].negative
  BY DEF GitVerdict
<1>2. \A i \in 1 .. Len(layers) :
        layers[i].base = LayerBase(i, path) /\ layers[i].lines = LayerLines(i, path)
  <2>1. \A i \in 1 .. Len(layers) : layers[i] = [base |-> LayerBase(i, path), lines |-> LayerLines(i, path)]
    BY LayersAre, Zenon
  <2>2. \A r, b, l : r = [base |-> b, lines |-> l] => r.base = b /\ r.lines = l
    OBVIOUS
  <2>. QED
    BY <2>1, <2>2, Zenon
<1>3. \A h \in (1 .. Len(layers)) \X (1 .. MaximumPatterns) :
        /\ h = <<h[1], h[2]>> /\ h[1] \in 1 .. Len(layers) /\ h[2] \in 1 .. MaximumPatterns
  OBVIOUS
<1>4. \A i, j : IsHit(i, j, path, isDir) <=> <<i, j>> \in Hits
  <2> SUFFICES ASSUME NEW i, NEW j PROVE IsHit(i, j, path, isDir) <=> <<i, j>> \in Hits
    OBVIOUS
  <2>1. <<i, j>> \in (1 .. Len(layers)) \X (1 .. MaximumPatterns)
          <=> i \in 1 .. Len(layers) /\ j \in 1 .. MaximumPatterns
    OBVIOUS
  <2>2. <<i, j>>[1] = i /\ <<i, j>>[2] = j
    OBVIOUS
  <2>3. <<i, j>> \in Hits <=>
          /\ <<i, j>> \in (1 .. Len(layers)) \X (1 .. MaximumPatterns)
          /\ j \in DOMAIN layers[i].lines
          /\ layers[i].lines[j].directoryOnly => isDir
          /\ GitMatches(layers[i].lines[j], RelativeToBase(path, layers[i].base))
    BY <2>2
  <2>. QED
    BY <1>2, <2>1, <2>3, Zenon DEF IsHit
<1>5. \A h \in Hits : h = <<h[1], h[2]>> /\ layers[h[1]].lines = LayerLines(h[1], path)
  BY <1>2, <1>3
<1>6. \A i, j, x, y : Before(<<i, j>>, <<x, y>>) <=> i < x \/ (i = x /\ j >= y)
  OBVIOUS
<1> HIDE DEF Hits, Before, layers
<1>7. ASSUME GitVerdict(path, isDir)
      PROVE  \E i, j : /\ IsHit(i, j, path, isDir)
                       /\ \A x, y : IsHit(x, y, path, isDir) => i < x \/ (i = x /\ j >= y)
                       /\ ~ LayerLines(i, path)[j].negative
  <2>1. PICK h \in Hits : (\A g \in Hits : Before(h, g)) /\ ~ layers[h[1]].lines[h[2]].negative
    BY <1>1, <1>7
  <2>2. PICK i, j : i = h[1] /\ j = h[2]
    OBVIOUS
  <2>3. h = <<i, j>> /\ ~ LayerLines(i, path)[j].negative
    BY <1>5, <2>1, <2>2
  <2>4. ASSUME NEW x, NEW y, IsHit(x, y, path, isDir) PROVE i < x \/ (i = x /\ j >= y)
    <3>1. Before(h, <<x, y>>)
      BY <1>4, <2>1, <2>4, Zenon
    <3>. QED
      BY <1>6, <2>3, <3>1, Zenon
  <2>5. IsHit(i, j, path, isDir)
    BY <1>4, <2>3, Zenon
  <2>. QED
    BY <2>3, <2>4, <2>5, Zenon
<1>8. ASSUME NEW i, NEW j, IsHit(i, j, path, isDir),
             \A x, y : IsHit(x, y, path, isDir) => i < x \/ (i = x /\ j >= y),
             ~ LayerLines(i, path)[j].negative
      PROVE  GitVerdict(path, isDir)
  <2>1. PICK h \in Hits : h = <<i, j>>
    BY <1>4, <1>8, Zenon
  <2>2. h[1] = i /\ h[2] = j
    BY <2>1
  <2>3. ~ layers[h[1]].lines[h[2]].negative
    BY <1>5, <1>8, <2>2
  <2>4. ASSUME NEW g \in Hits PROVE Before(h, g)
    <3>1. PICK x, y : x = g[1] /\ y = g[2]
      OBVIOUS
    <3>2. g = <<x, y>>
      BY <1>5, <3>1
    <3>3. IsHit(x, y, path, isDir)
      BY <1>4, <3>2, Zenon
    <3>4. i < x \/ (i = x /\ j >= y)
      BY <1>8, <3>3, Zenon
    <3>. QED
      BY <1>6, <2>1, <3>2, <3>4, Zenon
  <2>. QED
    BY <1>1, <2>3, <2>4
<1>. QED
  BY <1>7, <1>8, Zenon

(* A rule matches a path where its line does. *)
LEMMA RuleIsHit ==
  ASSUME NEW line, RulesKnown(line), OneGlobstar, NEW path \in Seq(Names), NEW isDir,
         NEW n \in 1 .. Len(rules), IsStrictPrefix(rules[n].base, path)
  PROVE  /\ LayerLines(RuleLayer(n, path), path)[line[n]] = rules[n].pattern
         /\ n \in MatchingRules(path, isDir, rules)
              <=> IsHit(RuleLayer(n, path), line[n], path, isDir)
<1> DEFINE i == RuleLayer(n, path)
           j == line[n]
           p == rules[n].pattern
           base == rules[n].base
           rest == RelativeToBase(path, base)
           lines == LinesOf(rules[n].rank, base)
<1>1. /\ i \in 1 .. Len(Layers(path)) /\ LayerBase(i, path) = base /\ LayerLines(i, path) = lines
  BY RuleInLayer
<1>2. /\ j \in 1 .. Len(lines) /\ p = lines[j] /\ j <= n
  BY DEF RulesKnown, Numbers, HasLine
<1>3. /\ rules[n].rank \in Ranks /\ p \in Patterns /\ base \in Seq(Names)
      /\ rules[n].rank = 1 => base \in IgnoreFiles
      /\ Len(rules) \in Nat /\ DOMAIN rules = 1 .. Len(rules) /\ Len(rules) <= MaximumPatterns
  BY RuleTypes DEF RulesKnown, Numbers, IgnoreTypeOK
<1>4. DOMAIN lines = 1 .. Len(lines) /\ Len(lines) \in Nat
  BY <1>3, LineTypes, LenProperties DEF RulesKnown
<1>5. ~ TwoGlobstars(p)
  BY <1>2, <1>3, LinesHaveOneGlobstar DEF RulesKnown
<1>6. Len(rest) \in Nat /\ Len(rest) # 0
  BY <1>3, StrictPrefixes
<1> HIDE DEF i, j, p, base, lines
<1>7. CompiledMatches(p, rest) <=> GitMatches(p, rest)
  <2> HIDE DEF rest
  <2>. QED
    BY <1>3, <1>5, <1>6, PatternMatches
<1>8. j \in 1 .. MaximumPatterns
  BY <1>2, <1>3, <1>4, IgnoreAssumption
<1>9. n \in MatchingRules(path, isDir, rules)
        <=> (p.directoryOnly => isDir) /\ CompiledMatches(p, rest)
  BY <1>3 DEF MatchingRules, p, base
<1>10. IsHit(i, j, path, isDir) <=> (p.directoryOnly => isDir) /\ GitMatches(p, rest)
  <2>1. j \in DOMAIN LayerLines(i, path) /\ LayerLines(i, path)[j] = p
    BY <1>1, <1>2, <1>4
  <2>. QED
    BY <1>1, <1>8, <2>1, Zenon DEF IsHit
<1>11. LayerLines(i, path)[j] = p
  BY <1>1, <1>2
<1>. QED
  BY <1>7, <1>9, <1>10, <1>11, Zenon DEF i, j, p

LEMMA HitIsRule ==
  ASSUME NEW line, RulesKnown(line), OneGlobstar, NEW path \in Seq(Names), path # <<>>,
         Settled(path), NEW isDir, NEW i, NEW j, IsHit(i, j, path, isDir)
  PROVE  \E n \in MatchingRules(path, isDir, rules) :
           RuleLayer(n, path) = i /\ line[n] = j /\ IsStrictPrefix(rules[n].base, path)
<1>1. i \in 1 .. Len(Layers(path)) /\ j \in DOMAIN LayerLines(i, path) /\ Len(path) \in Nat
  BY LenProperties DEF IsHit
<1>2. LayerLines(i, path) \in Seq(Patterns)
  <2>1. /\ LinesOf(4, <<>>) \in Seq(Patterns) /\ LinesOf(3, <<>>) \in Seq(Patterns)
        /\ LinesOf(2, <<>>) \in Seq(Patterns)
    BY LineTypes DEF RulesKnown, Ranks
  <2>2. \A d \in IgnoreFiles : gitignore[d] \in Seq(Patterns)
    <3>1. \A d \in IgnoreFiles : LinesOf(1, d) \in Seq(Patterns)
      BY LineTypes DEF RulesKnown, Ranks
    <3>. QED
      BY <3>1 DEF LinesOf
  <2>3. CASE i <= 3
    <3>1. i = 1 \/ i = 2 \/ i = 3
      BY <1>1, <2>3
    <3>. QED
      BY <2>1, <3>1 DEF LayerLines, LayerRank
  <2>4. CASE ~ (i <= 3)
    BY <2>2, <2>4, EmptySeq DEF LayerLines
  <2>. QED
    BY <2>3, <2>4
<1>3. j \in 1 .. Len(LayerLines(i, path))
  BY <1>1, <1>2, LenProperties
<1>4. PICK n \in 1 .. Len(rules) :
        RuleLayer(n, path) = i /\ line[n] = j /\ IsStrictPrefix(rules[n].base, path)
  BY <1>1, <1>3, LineHasRule
<1>5. n \in MatchingRules(path, isDir, rules) <=> IsHit(RuleLayer(n, path), line[n], path, isDir)
  BY <1>4, RuleIsHit
<1>. QED
  BY <1>4, <1>5

(* The flat list of rules decides a path as the lists of patterns do. *)
LEMMA VerdictsAgree ==
  ASSUME NEW line, RulesKnown(line), OneGlobstar, NEW path \in Seq(Names), path # <<>>,
         Settled(path), NEW isDir
  PROVE  Excludes(path, isDir, rules) <=> GitVerdict(path, isDir)
<1> DEFINE M == MatchingRules(path, isDir, rules)
           Over(n, m) == rules[n].rank > rules[m].rank \/ (rules[n].rank = rules[m].rank /\ n >= m)
           L(n) == RuleLayer(n, path)
           Hit(i, j) == IsHit(i, j, path, isDir)
           Negative(n) == rules[n].pattern.negative
<1>0. Len(path) \in Nat
  BY LenProperties
<1>1. Excludes(path, isDir, rules) <=> \E n \in M : (\A m \in M : Over(n, m)) /\ ~ Negative(n)
  BY DEF Excludes, MatchingRule
<1>2. GitVerdict(path, isDir)
        <=> \E i, j : /\ Hit(i, j)
                      /\ \A x, y : Hit(x, y) => i < x \/ (i = x /\ j >= y)
                      /\ ~ LayerLines(i, path)[j].negative
  BY <1>0, VerdictIsOfHit
<1>3. \A n \in M : n \in 1 .. Len(rules) /\ IsStrictPrefix(rules[n].base, path)
  BY RuleTypes DEF MatchingRules, RulesKnown
<1>4. \A n \in M : Hit(L(n), line[n]) /\ LayerLines(L(n), path)[line[n]].negative = Negative(n)
  BY <1>3, RuleIsHit
<1>5. \A i, j : Hit(i, j) => \E n \in M : L(n) = i /\ line[n] = j
  BY HitIsRule
<1>6. \A n, m \in M : Over(n, m) <=> L(n) < L(m) \/ (L(n) = L(m) /\ line[n] >= line[m])
  BY <1>3, OrderOfRules
<1> HIDE DEF M, Over, L, Hit, Negative
<1>7. ASSUME NEW n \in M, \A m \in M : Over(n, m), ~ Negative(n) PROVE GitVerdict(path, isDir)
  <2>1. Hit(L(n), line[n]) /\ ~ LayerLines(L(n), path)[line[n]].negative
    BY <1>4, <1>7
  <2>2. ASSUME NEW x, NEW y, Hit(x, y) PROVE L(n) < x \/ (L(n) = x /\ line[n] >= y)
    <3>1. PICK m \in M : L(m) = x /\ line[m] = y
      BY <1>5, <2>2, Zenon
    <3>2. L(n) < L(m) \/ (L(n) = L(m) /\ line[n] >= line[m])
      BY <1>6, <1>7, Zenon
    <3>. QED
      BY <3>1, <3>2, Zenon
  <2>. QED
    BY <1>2, <2>1, <2>2, Zenon
<1>8. ASSUME GitVerdict(path, isDir) PROVE Excludes(path, isDir, rules)
  <2>1. PICK i, j : /\ Hit(i, j)
                    /\ \A x, y : Hit(x, y) => i < x \/ (i = x /\ j >= y)
                    /\ ~ LayerLines(i, path)[j].negative
    BY <1>2, <1>8, Zenon
  <2>2. PICK n \in M : L(n) = i /\ line[n] = j
    BY <1>5, <2>1, Zenon
  <2>3. ~ Negative(n)
    BY <1>4, <2>1, <2>2
  <2>4. ASSUME NEW m \in M PROVE Over(n, m)
    <3>1. L(n) < L(m) \/ (L(n) = L(m) /\ line[n] >= line[m])
      BY <1>4, <2>1, <2>2, Zenon
    <3>. QED
      BY <1>6, <3>1, Zenon
  <2>. QED
    BY <1>1, <2>3, <2>4, Zenon
<1>. QED
  BY <1>1, <1>7, <1>8, Zenon

-----------------------------------------------------------------------------
(* A rule below a path does not decide it. *)
LEMMA RulesBelowDoNotMatter ==
  ASSUME NEW first \in Seq(Rules), NEW added \in Seq(Rules), NEW path, NEW isDir,
         \A i \in 1 .. Len(added) : ~ IsStrictPrefix(added[i].base, path)
  PROVE  Excludes(path, isDir, first \o added) <=> Excludes(path, isDir, first)
<1> DEFINE longer == first \o added
           M(list) == MatchingRules(path, isDir, list)
           Matches(r) == /\ r.pattern.directoryOnly => isDir
                         /\ IsStrictPrefix(r.base, path)
                         /\ CompiledMatches(r.pattern, RelativeToBase(path, r.base))
           Over(r, n, s, m) == r.rank > s.rank \/ (r.rank = s.rank /\ n >= m)
<1>1. /\ Len(first) \in Nat /\ Len(added) \in Nat /\ Len(longer) = Len(first) + Len(added)
      /\ \A i \in 1 .. Len(first) + Len(added) :
           longer[i] = IF i <= Len(first) THEN first[i] ELSE added[i - Len(first)]
      /\ DOMAIN longer = 1 .. Len(first) + Len(added) /\ DOMAIN first = 1 .. Len(first)
  BY ConcatProperties, LenProperties
<1>2. \A n \in 1 .. Len(first) : n \in DOMAIN longer /\ n \in DOMAIN first /\ longer[n] = first[n]
  BY <1>1
<1>3. /\ \A n : n \in M(first) <=> n \in DOMAIN first /\ Matches(first[n])
      /\ \A n : n \in M(longer) <=> n \in DOMAIN longer /\ Matches(longer[n])
  BY DEF MatchingRules
<1>4. ASSUME NEW n \in DOMAIN longer, n \notin DOMAIN first PROVE ~ IsStrictPrefix(longer[n].base, path)
  <2>1. ~ (n <= Len(first)) /\ n \in 1 .. Len(first) + Len(added) /\ n - Len(first) \in 1 .. Len(added)
    BY <1>1, <1>4
  <2>. QED
    BY <1>1, <2>1
<1>5. M(longer) = M(first) /\ M(first) \subseteq 1 .. Len(first)
  <2>1. \A n \in DOMAIN first : Matches(longer[n]) <=> Matches(first[n])
    BY <1>1, <1>2
  <2>2. \A n : n \in M(longer) <=> n \in M(first)
    BY <1>1, <1>2, <1>3, <1>4, <2>1, Zenon
  <2>. QED
    BY <1>1, <1>3, <2>2
<1> HIDE DEF longer, Matches
<1>6. Excludes(path, isDir, longer)
        <=> \E n \in M(longer) : (\A m \in M(longer) : Over(longer[n], n, longer[m], m)) /\ ~ longer[n].pattern.negative
  BY DEF Excludes, MatchingRule
<1>7. Excludes(path, isDir, first)
        <=> \E n \in M(first) : (\A m \in M(first) : Over(first[n], n, first[m], m)) /\ ~ first[n].pattern.negative
  BY DEF Excludes, MatchingRule
<1>8. \A n \in M(first) : longer[n] = first[n]
  BY <1>2, <1>5
<1> HIDE DEF M, Over
<1>9. Excludes(path, isDir, longer) <=> Excludes(path, isDir, first)
  <2>1. \A n \in M(first) : /\ longer[n].pattern.negative <=> first[n].pattern.negative
                          /\ \A m \in M(first) : Over(longer[n], n, longer[m], m) <=> Over(first[n], n, first[m], m)
    BY <1>8
  <2>2. Excludes(path, isDir, longer)
          <=> \E n \in M(first) : (\A m \in M(first) : Over(longer[n], n, longer[m], m)) /\ ~ longer[n].pattern.negative
    BY <1>5, <1>6
  <2>. QED
    BY <1>7, <2>1, <2>2, Zenon
<1>. QED
  BY <1>9 DEF longer

LEMMA DirectoryIsExcluded ==
  ASSUME NEW d, Len(d) \in Nat, NEW list
  PROVE  ExcludedBy(d, FALSE, list) <=> \E depth \in 1 .. Len(d) : Excludes(SubSeq(d, 1, depth), TRUE, list)
<1>1. Len(d) - 0 = Len(d)
  OBVIOUS
<1>. QED
  BY <1>1 DEF ExcludedBy

LEMMA FileIsExcluded ==
  ASSUME NEW p \in Seq(Names), p # <<>>, NEW list
  PROVE  ExcludedBy(p, TRUE, list)
           <=> \E depth \in 1 .. Len(p) : Excludes(SubSeq(p, 1, depth), depth < Len(p), list)
<1>1. /\ Len(p) \in Nat /\ Len(p) # 0 /\ SubSeq(p, 1, Len(p)) = p
  BY EmptySeq, LenProperties, SubSeqFull
<1>2. /\ Len(p) \in 1 .. Len(p) /\ (Len(p) < Len(p)) = FALSE
      /\ \A depth \in 1 .. Len(p) - 1 : depth \in 1 .. Len(p) /\ (depth < Len(p)) = TRUE
      /\ \A depth \in 1 .. Len(p) : depth \in 1 .. Len(p) - 1 \/ depth = Len(p)
  <2>1. PICK len \in Nat : len = Len(p) /\ len # 0
    BY <1>1
  <2>2. ~ (len < len) /\ len \in 1 .. len
    BY <2>1
  <2>3. \A depth \in 1 .. len - 1 : depth \in 1 .. len /\ depth < len
    BY <2>1
  <2>4. \A depth \in 1 .. len : depth \in 1 .. len - 1 \/ depth = len
    BY <2>1
  <2>5. (len < len) = FALSE /\ \A depth \in 1 .. len - 1 : (depth < len) = TRUE
    BY <2>1
  <2>. QED
    BY <2>1, <2>2, <2>3, <2>4, <2>5
<1>3. ExcludedBy(p, TRUE, list)
        <=> \/ \E depth \in 1 .. Len(p) - 1 : Excludes(SubSeq(p, 1, depth), TRUE, list)
            \/ Excludes(p, FALSE, list)
  BY DEF ExcludedBy
<1>4. ASSUME NEW depth \in 1 .. Len(p), Excludes(SubSeq(p, 1, depth), depth < Len(p), list)
      PROVE  ExcludedBy(p, TRUE, list)
  <2>1. CASE depth = Len(p)
    <3>1. Excludes(p, Len(p) < Len(p), list)
      BY <1>1, <1>4, <2>1
    <3>. QED
      BY <1>2, <1>3, <3>1
  <2>2. CASE depth \in 1 .. Len(p) - 1
    BY <1>2, <1>3, <1>4, <2>2
  <2>. QED
    BY <1>2, <2>1, <2>2
<1>5. ASSUME NEW depth \in 1 .. Len(p) - 1, Excludes(SubSeq(p, 1, depth), TRUE, list)
      PROVE  \E k \in 1 .. Len(p) : Excludes(SubSeq(p, 1, k), k < Len(p), list)
  BY <1>2, <1>5
<1>6. ASSUME Excludes(p, FALSE, list)
      PROVE  \E k \in 1 .. Len(p) : Excludes(SubSeq(p, 1, k), k < Len(p), list)
  <2>1. Excludes(SubSeq(p, 1, Len(p)), Len(p) < Len(p), list)
    BY <1>1, <1>2, <1>6
  <2>. QED
    BY <1>2, <2>1
<1>. QED
  BY <1>3, <1>4, <1>5, <1>6, Zenon

(* The first prefix of a path that either side excludes, it excludes on both. *)
LEMMA FirstDecisionsAgree ==
  ASSUME IgnoreTypeOK, Collected, OneGlobstar, NEW path \in Seq(Names),
         policy.fallback => \A d \in IgnoreFiles : Len(d) < Len(path) => d \in Considered,
         NEW last \in Nat, last >= Len(path)
  PROVE  (\E depth \in 1 .. Len(path) : Excludes(SubSeq(path, 1, depth), depth < last, rules))
           <=> \E depth \in 1 .. Len(path) : GitVerdict(SubSeq(path, 1, depth), depth < last)
<1> DEFINE E(k) == Excludes(SubSeq(path, 1, k), k < last, rules)
           G(k) == GitVerdict(SubSeq(path, 1, k), k < last)
           D == {k \in 1 .. Len(path) : E(k) \/ G(k)}
<1>0. Len(path) \in Nat
  BY LenProperties
<1>1. CASE D = {}
  BY <1>1
<1>2. CASE D # {}
  <2>1. PICK k \in D : \A l \in D : k <= l
    <3>1. D \subseteq Nat
      OBVIOUS
    <3> HIDE DEF D
    <3>. QED
      BY <1>2, <3>1, LeastNatural
  <2>2. k \in 1 .. Len(path) /\ (E(k) \/ G(k)) /\ k \in 0 .. Len(path)
    OBVIOUS
  <2>3. \A l \in 1 .. k - 1 : ~ Excludes(SubSeq(path, 1, l), TRUE, rules)
    <3> SUFFICES ASSUME NEW l \in 1 .. k - 1 PROVE ~ Excludes(SubSeq(path, 1, l), TRUE, rules)
      OBVIOUS
    <3>1. l \in 1 .. Len(path) /\ ~ (k <= l) /\ (l < last) = TRUE
      BY <1>0, <2>2
    <3>2. ~ E(l)
      BY <2>1, <3>1
    <3>. QED
      BY <3>1, <3>2
  <2> DEFINE q == SubSeq(path, 1, k)
  <2>4. q \in Seq(Names) /\ Len(q) = k /\ q # <<>>
        /\ \A l \in 0 .. k : SubSeq(q, 1, l) = SubSeq(path, 1, l)
    <3>1. q \in Seq(Names) /\ Len(q) = k /\ \A l \in 0 .. k : SubSeq(q, 1, l) = SubSeq(path, 1, l)
      BY <2>2, PrefixPaths
    <3>. QED
      BY <2>2, <3>1, EmptySeq
  <2> HIDE DEF q
  <2>5. Settled(q)
    <3> SUFFICES ASSUME policy.fallback, NEW d \in IgnoreFiles, IsStrictPrefix(d, q)
                 PROVE  d \in readIgnores \/ gitignore[d] = <<>>
      BY DEF Settled
    <3>1. d \in Seq(Names) /\ Len(d) \in Nat
      BY IgnoreAssumption, LenProperties
    <3>2. Len(d) < k /\ d = SubSeq(q, 1, Len(d))
      BY <2>4, <3>1, StrictPrefixes
    <3>3. d = SubSeq(path, 1, Len(d)) /\ Len(d) < Len(path)
      BY <1>0, <2>2, <2>4, <3>1, <3>2
    <3>4. d \in Considered
      BY <3>3
    <3>5. ~ ExcludedBy(d, FALSE, rules)
      <4>1. ASSUME NEW l \in 1 .. Len(d) PROVE ~ Excludes(SubSeq(d, 1, l), TRUE, rules)
        <5>1. SubSeq(d, 1, l) = SubSeq(path, 1, l)
          <6>1. Len(d) \in 0 .. Len(path) /\ l \in 0 .. Len(d)
            BY <1>0, <3>1, <3>3
          <6>2. SubSeq(SubSeq(path, 1, Len(d)), 1, l) = SubSeq(path, 1, l)
            BY <6>1, PrefixPaths
          <6>. QED
            BY <3>3, <6>2
        <5>2. l \in 1 .. k - 1
          BY <2>2, <3>1, <3>2
        <5>. QED
          BY <2>3, <5>1, <5>2
      <4>. QED
        BY <3>1, <4>1, DirectoryIsExcluded
    <3>. QED
      BY <3>4, <3>5 DEF Collected
  <2>6. PICK line : RulesKnown(line)
    <3>1. ~ policy.fallback => readIgnores = {}
      BY DEF Collected, Considered
    <3>. QED
      BY <3>1 DEF Collected, RulesKnown
  <2>7. E(k) <=> G(k)
    <3>1. Excludes(q, k < last, rules) <=> GitVerdict(q, k < last)
      BY <2>4, <2>5, <2>6, VerdictsAgree
    <3>. QED
      BY <3>1 DEF q
  <2>. QED
    BY <2>2, <2>7
<1>. QED
  BY <1>1, <1>2

LEMMA NothingReadBelowIgnored ==
  ASSUME IgnoreTypeOK, Collected, OneGlobstar, NEW d \in IgnoreFiles,
         policy.fallback => \A e \in IgnoreFiles : Len(e) < Len(d) => e \in Considered,
         ~ ExcludedBy(d, FALSE, rules)
  PROVE  ~ \E depth \in 1 .. Len(d) : GitVerdict(SubSeq(d, 1, depth), TRUE)
<1>1. d \in Seq(Names) /\ Len(d) \in Nat /\ Len(d) + 1 \in Nat /\ Len(d) + 1 >= Len(d)
  BY IgnoreAssumption, LenProperties
<1>2. (\E depth \in 1 .. Len(d) : Excludes(SubSeq(d, 1, depth), depth < Len(d) + 1, rules))
        <=> \E depth \in 1 .. Len(d) : GitVerdict(SubSeq(d, 1, depth), depth < Len(d) + 1)
  BY <1>1, FirstDecisionsAgree
<1>3. \A depth \in 1 .. Len(d) : (depth < Len(d) + 1) = TRUE
  BY <1>1
<1>4. (\E depth \in 1 .. Len(d) : Excludes(SubSeq(d, 1, depth), TRUE, rules))
        <=> \E depth \in 1 .. Len(d) : GitVerdict(SubSeq(d, 1, depth), TRUE)
  <2>1. \A depth \in 1 .. Len(d) :
          /\ Excludes(SubSeq(d, 1, depth), depth < Len(d) + 1, rules)
               <=> Excludes(SubSeq(d, 1, depth), TRUE, rules)
          /\ GitVerdict(SubSeq(d, 1, depth), depth < Len(d) + 1) <=> GitVerdict(SubSeq(d, 1, depth), TRUE)
    BY <1>3
  <2>. QED
    BY <1>2, <2>1, Zenon
<1>. QED
  BY <1>1, <1>4, DirectoryIsExcluded

LEMMA CollectedReadsOutside ==
  ASSUME IgnoreTypeOK, Collected PROVE ReadsOutsideIgnored
<1> SUFFICES ASSUME NEW d \in readIgnores, OneGlobstar
             PROVE  ~ \E depth \in 1 .. Len(d) : GitVerdict(SubSeq(d, 1, depth), TRUE)
  BY DEF ReadsOutsideIgnored, OneGlobstar
<1>1. d \in IgnoreFiles /\ d \in Considered /\ ~ ExcludedBy(d, FALSE, rules)
  BY DEF IgnoreTypeOK, Collected
<1>2. ASSUME policy.fallback, NEW e \in IgnoreFiles, Len(e) < Len(d) PROVE e \in Considered
  <2>1. Len(d) \in Nat /\ Len(e) \in Nat
    BY <1>1, IgnoreAssumption, LenProperties
  <2>2. e \in pending => Len(d) <= Len(e)
    BY <1>1 DEF Collected
  <2>. QED
    BY <1>2, <2>1, <2>2 DEF Considered
<1>. QED
  BY <1>1, <1>2, NothingReadBelowIgnored

LEMMA InvariantFollowsGit == IgnoreInvariant => DecisionsFollowGit
<1> SUFFICES ASSUME IgnoreInvariant PROVE DecisionsFollowGit
  OBVIOUS
<1>1. ReadsOutsideIgnored
  <2>1. IgnoreTypeOK
    BY DEF IgnoreInvariant
  <2>2. CASE Collected
    BY <2>1, <2>2, CollectedReadsOutside
  <2>3. CASE readIgnores = {}
    BY <2>3 DEF ReadsOutsideIgnored
  <2>. QED
    BY <2>2, <2>3 DEF IgnoreInvariant, IgnoreTypeOK
<1>2. ASSUME ignoreAt = "returned", OneGlobstar
      PROVE  excludedPaths = {p \in Candidates : GitIgnores(p)}
  <2>1. /\ IgnoreTypeOK /\ Collected /\ pending = {}
        /\ excludedPaths = {p \in Candidates : ExcludedBy(p, TRUE, rules)}
    BY <1>2 DEF IgnoreInvariant
  <2>2. ASSUME NEW p \in Candidates PROVE ExcludedBy(p, TRUE, rules) <=> GitIgnores(p)
    <3>1. p \in Seq(Names) /\ p # <<>> /\ Len(p) \in Nat /\ Len(p) >= Len(p)
      BY IgnoreAssumption, LenProperties
    <3>2. policy.fallback => \A d \in IgnoreFiles : Len(d) < Len(p) => d \in Considered
      BY <2>1 DEF Considered
    <3>3. (\E depth \in 1 .. Len(p) : Excludes(SubSeq(p, 1, depth), depth < Len(p), rules))
            <=> \E depth \in 1 .. Len(p) : GitVerdict(SubSeq(p, 1, depth), depth < Len(p))
      BY <1>2, <2>1, <3>1, <3>2, FirstDecisionsAgree
    <3>. QED
      BY <3>1, <3>3, FileIsExcluded DEF GitIgnores
  <2>. QED
    BY <2>1, <2>2
<1>. QED
  BY <1>1, <1>2 DEF DecisionsFollowGit, OneGlobstar

-----------------------------------------------------------------------------
(* The invariant is kept. *)
LEMMA RulesOfLines ==
  ASSUME NEW lines \in Seq(Patterns), NEW rank \in Ranks, NEW base \in Seq(Names)
  PROVE  /\ RulesOf(lines, rank, base) \in Seq(Rules)
         /\ Len(RulesOf(lines, rank, base)) = Len(lines) /\ Len(lines) \in Nat
         /\ \A i \in 1 .. Len(lines) :
              RulesOf(lines, rank, base)[i] = [pattern |-> lines[i], rank |-> rank, base |-> base]
<1> DEFINE rule(i) == [pattern |-> lines[i], rank |-> rank, base |-> base]
<1>1. Len(lines) \in Nat /\ DOMAIN lines = 1 .. Len(lines) /\ \A i \in 1 .. Len(lines) : lines[i] \in Patterns
  BY LenProperties, ElementOfSeq
<1>2. RulesOf(lines, rank, base) = [i \in 1 .. Len(lines) |-> rule(i)]
  BY <1>1 DEF RulesOf
<1>3. \A i \in 1 .. Len(lines) : rule(i) \in Rules
  BY <1>1 DEF Rules
<1> HIDE DEF rule
<1>. QED
  BY <1>1, <1>2, <1>3 DEF rule

PolicyRule(p, rank) == [pattern |-> p, rank |-> rank, base |-> <<>>]

(* The lines of the policy that rules of a rank come from. *)
PolicyLines(builtIn, configuration, profile, rank) ==
  IF rank = 4 THEN builtIn ELSE IF rank = 3 THEN configuration ELSE profile

LEMMA RanksDescend ==
  ASSUME NEW a \in Nat, NEW b \in Nat, NEW n \in Nat, NEW m \in Nat, n < m, NEW r, NEW s, NEW l, NEW k,
         r = IF n <= a THEN 4 ELSE IF n <= a + b THEN 3 ELSE 2,
         s = IF m <= a THEN 4 ELSE IF m <= a + b THEN 3 ELSE 2,
         l = IF n <= a THEN n ELSE IF n <= a + b THEN n - a ELSE n - (a + b),
         k = IF m <= a THEN m ELSE IF m <= a + b THEN m - a ELSE m - (a + b)
  PROVE  r >= s /\ (r = s => l < k)
<1>1. r \in {2, 3, 4} /\ s \in {2, 3, 4} /\ r >= s
  OBVIOUS
<1>2. r = s => l < k
  OBVIOUS
<1>. QED
  BY <1>1, <1>2

(* line[n] is the line that the n-th rule of a list was made of. *)
PolicyNumbers(list, line, A, B, C) ==
  /\ line \in Seq(Nat) /\ Len(line) = Len(list)
  /\ \A n \in 1 .. Len(list) :
       /\ list[n].rank \in 2 .. 4 /\ list[n].base = <<>>
       /\ line[n] \in 1 .. Len(PolicyLines(A, B, C, list[n].rank))
       /\ list[n].pattern = PolicyLines(A, B, C, list[n].rank)[line[n]]
       /\ line[n] <= n
  /\ \A n, m \in 1 .. Len(list) : n < m => IsBefore(list[n], line[n], list[m], line[m])
  /\ \A rank \in 2 .. 4 : \A j \in 1 .. Len(PolicyLines(A, B, C, rank)) :
       \E n \in 1 .. Len(list) : list[n].rank = rank /\ line[n] = j

LEMMA PolicyRules ==
  ASSUME NEW A \in Seq(Patterns), NEW B \in Seq(Patterns), NEW C \in Seq(Patterns),
         NEW all, all = (RulesOf(A, 4, <<>>) \o RulesOf(B, 3, <<>>)) \o RulesOf(C, 2, <<>>)
  PROVE  all \in Seq(Rules) /\ \E line : PolicyNumbers(all, line, A, B, C)
<1>0. PICK list : list = all
  OBVIOUS
<1> DEFINE a == Len(A)
           b == Len(B)
           c == Len(C)
           line == [n \in 1 .. a + b + c |-> IF n <= a THEN n ELSE IF n <= a + b THEN n - a ELSE n - (a + b)]
<1>1. <<>> \in Seq(Names) /\ 4 \in Ranks /\ 3 \in Ranks /\ 2 \in Ranks
  BY DEF Ranks
<1>2. /\ RulesOf(A, 4, <<>>) \in Seq(Rules) /\ Len(RulesOf(A, 4, <<>>)) = a /\ a \in Nat
      /\ \A i \in 1 .. a : RulesOf(A, 4, <<>>)[i] = PolicyRule(A[i], 4)
  BY <1>1, RulesOfLines DEF PolicyRule
<1>3. /\ RulesOf(B, 3, <<>>) \in Seq(Rules) /\ Len(RulesOf(B, 3, <<>>)) = b /\ b \in Nat
      /\ \A i \in 1 .. b : RulesOf(B, 3, <<>>)[i] = PolicyRule(B[i], 3)
  BY <1>1, RulesOfLines DEF PolicyRule
<1>4. /\ RulesOf(C, 2, <<>>) \in Seq(Rules) /\ Len(RulesOf(C, 2, <<>>)) = c /\ c \in Nat
      /\ \A i \in 1 .. c : RulesOf(C, 2, <<>>)[i] = PolicyRule(C[i], 2)
  BY <1>1, RulesOfLines DEF PolicyRule
<1> HIDE DEF a, b, c, line
<1> DEFINE top == RulesOf(A, 4, <<>>) \o RulesOf(B, 3, <<>>)
<1>5. /\ top \in Seq(Rules) /\ Len(top) = a + b
      /\ \A i \in 1 .. a + b : top[i] = IF i <= a THEN PolicyRule(A[i], 4) ELSE PolicyRule(B[i - a], 3)
  <2>1. /\ top \in Seq(Rules) /\ Len(top) = a + b
        /\ \A i \in 1 .. a + b :
             top[i] = IF i <= a THEN RulesOf(A, 4, <<>>)[i] ELSE RulesOf(B, 3, <<>>)[i - a]
    BY <1>2, <1>3, ConcatProperties
  <2> HIDE DEF top
  <2>2. \A i \in 1 .. a + b : (i <= a => i \in 1 .. a) /\ (~ (i <= a) => i - a \in 1 .. b)
    BY <1>2, <1>3
  <2>. QED
    BY <1>2, <1>3, <2>1, <2>2
<1> HIDE DEF top
<1>6. /\ list \in Seq(Rules) /\ Len(list) = a + b + c
      /\ \A i \in 1 .. a + b + c :
           list[i] = IF i <= a THEN PolicyRule(A[i], 4)
                     ELSE IF i <= a + b THEN PolicyRule(B[i - a], 3) ELSE PolicyRule(C[i - (a + b)], 2)
  <2>1. /\ list \in Seq(Rules) /\ Len(list) = a + b + c
        /\ \A i \in 1 .. a + b + c :
             list[i] = IF i <= a + b THEN top[i] ELSE RulesOf(C, 2, <<>>)[i - (a + b)]
    <3>1. PICK rest : rest = RulesOf(C, 2, <<>>)
      OBVIOUS
    <3>2. list = top \o rest
      BY <1>0, <3>1 DEF top
    <3>3. rest \in Seq(Rules) /\ Len(rest) = c /\ top \in Seq(Rules) /\ Len(top) = a + b
      BY <1>4, <1>5, <3>1
    <3>4. /\ top \o rest \in Seq(Rules) /\ Len(top \o rest) = Len(top) + Len(rest)
          /\ \A i \in 1 .. Len(top) + Len(rest) :
               (top \o rest)[i] = IF i <= Len(top) THEN top[i] ELSE rest[i - Len(top)]
      BY <3>3, ConcatProperties
    <3>. QED
      BY <3>1, <3>2, <3>3, <3>4
  <2>2. \A i \in 1 .. a + b + c : /\ i <= a => i <= a + b
                                  /\ i <= a + b => i \in 1 .. a + b
                                  /\ ~ (i <= a + b) => i - (a + b) \in 1 .. c
    BY <1>2, <1>3, <1>4
  <2>. QED
    BY <1>4, <1>5, <2>1, <2>2
<1>7. PolicyLines(A, B, C, 4) = A /\ PolicyLines(A, B, C, 3) = B /\ PolicyLines(A, B, C, 2) = C
  BY DEF PolicyLines
<1> DEFINE N == 1 .. a + b + c
<1>8. \A n \in N : /\ n <= a => n \in 1 .. a
                   /\ ~ (n <= a) /\ n <= a + b => n - a \in 1 .. b
                   /\ ~ (n <= a + b) => n - (a + b) \in 1 .. c /\ ~ (n <= a)
  BY <1>2, <1>3, <1>4
<1>9. \A n \in N : /\ n <= a => list[n] = PolicyRule(A[n], 4) /\ line[n] = n
                   /\ ~ (n <= a) /\ n <= a + b => list[n] = PolicyRule(B[n - a], 3) /\ line[n] = n - a
                   /\ ~ (n <= a + b) => list[n] = PolicyRule(C[n - (a + b)], 2) /\ line[n] = n - (a + b)
  BY <1>6, <1>8 DEF line
<1> HIDE DEF N
<1>10. ASSUME NEW n \in N
       PROVE  /\ n <= a => list[n].rank = 4 /\ list[n].pattern = A[line[n]] /\ line[n] = n
              /\ ~ (n <= a) /\ n <= a + b
                   => list[n].rank = 3 /\ list[n].pattern = B[line[n]] /\ line[n] = n - a
              /\ ~ (n <= a + b)
                   => list[n].rank = 2 /\ list[n].pattern = C[line[n]] /\ line[n] = n - (a + b)
              /\ list[n].base = <<>>
  <2>1. CASE n <= a
    <3>1. list[n] = PolicyRule(A[n], 4) /\ line[n] = n /\ n <= a + b /\ n \in Nat
      BY <1>2, <1>3, <1>8, <1>9, <2>1
    <3>2. list[n].rank = 4 /\ list[n].pattern = A[n] /\ list[n].base = <<>>
      BY <3>1 DEF PolicyRule
    <3>. QED
      BY <2>1, <3>1, <3>2, Zenon
  <2>2. CASE ~ (n <= a) /\ n <= a + b
    <3>1. list[n] = PolicyRule(B[n - a], 3) /\ line[n] = n - a
      BY <1>9, <2>2
    <3>2. list[n].rank = 3 /\ list[n].pattern = B[n - a] /\ list[n].base = <<>>
      BY <3>1 DEF PolicyRule
    <3>. QED
      BY <2>2, <3>1, <3>2, Zenon
  <2>3. CASE ~ (n <= a + b)
    <3>1. list[n] = PolicyRule(C[n - (a + b)], 2) /\ line[n] = n - (a + b) /\ ~ (n <= a)
      BY <1>8, <1>9, <2>3
    <3>2. list[n].rank = 2 /\ list[n].pattern = C[n - (a + b)] /\ list[n].base = <<>>
      BY <3>1 DEF PolicyRule
    <3>. QED
      BY <2>3, <3>1, <3>2, Zenon
  <2>. QED
    BY <2>1, <2>2, <2>3
<1>11. line \in Seq(Nat) /\ Len(line) = Len(list)
  <2>1. \A n \in N : line[n] \in Nat
    <3> SUFFICES ASSUME NEW n \in N PROVE line[n] \in Nat
      OBVIOUS
    <3>1. n \in N => line[n] = IF n <= a THEN n ELSE IF n <= a + b THEN n - a ELSE n - (a + b)
      BY DEF line, N
    <3>. QED
      BY <1>2, <1>3, <1>4, <1>8, <3>1
  <2>2. PICK t \in Nat : t = a + b + c
    BY <1>2, <1>3, <1>4
  <2>3. line \in [1 .. t -> Nat]
    BY <2>1, <2>2 DEF line, N
  <2>4. Len(list) = t
    BY <1>6, <2>2
  <2> HIDE DEF line
  <2>. QED
    BY <2>3, <2>4
<1>12. ASSUME NEW n \in N
       PROVE  /\ list[n].rank \in 2 .. 4 /\ list[n].base = <<>>
              /\ line[n] \in 1 .. Len(PolicyLines(A, B, C, list[n].rank))
              /\ list[n].pattern = PolicyLines(A, B, C, list[n].rank)[line[n]]
              /\ line[n] <= n
  <2>1. CASE n <= a
    <3>1. PolicyLines(A, B, C, list[n].rank) = A /\ n \in 1 .. a /\ line[n] = n
          /\ list[n].rank = 4
      BY <1>7, <1>8, <1>10, <2>1, Zenon
    <3>3. list[n].pattern = A[line[n]] /\ list[n].base = <<>>
      BY <1>10, <2>1, Zenon
    <3>4. list[n].rank \in 2 .. 4 /\ line[n] \in 1 .. Len(A) /\ line[n] <= n
      BY <1>2, <3>1 DEF a
    <3>. QED
      BY <3>1, <3>3, <3>4, Zenon
  <2>2. CASE ~ (n <= a) /\ n <= a + b
    <3>1. PolicyLines(A, B, C, list[n].rank) = B /\ n - a \in 1 .. b /\ line[n] = n - a
          /\ list[n].rank = 3
      BY <1>7, <1>8, <1>10, <2>2, Zenon
    <3>2. n - a <= n
      BY <1>2 DEF N
    <3>3. list[n].pattern = B[line[n]] /\ list[n].base = <<>>
      BY <1>10, <2>2, Zenon
    <3>4. list[n].rank \in 2 .. 4 /\ line[n] \in 1 .. Len(B) /\ line[n] <= n
      <4>1. list[n].rank \in 2 .. 4 /\ line[n] <= n
        BY <3>1, <3>2
      <4>. QED
        BY <3>1, <4>1, Zenon DEF b
    <3>. QED
      BY <3>1, <3>3, <3>4, Zenon
  <2>3. CASE ~ (n <= a + b)
    <3>1. PolicyLines(A, B, C, list[n].rank) = C /\ n - (a + b) \in 1 .. c /\ line[n] = n - (a + b)
          /\ list[n].rank = 2
      BY <1>7, <1>8, <1>10, <2>3, Zenon
    <3>2. n - (a + b) <= n
      BY <1>2, <1>3 DEF N
    <3>3. list[n].pattern = C[line[n]] /\ list[n].base = <<>>
      BY <1>10, <2>3, Zenon
    <3>4. list[n].rank \in 2 .. 4 /\ line[n] \in 1 .. Len(C) /\ line[n] <= n
      <4>1. list[n].rank \in 2 .. 4 /\ line[n] <= n
        BY <3>1, <3>2
      <4>. QED
        BY <3>1, <4>1, Zenon DEF c
    <3>. QED
      BY <3>1, <3>3, <3>4, Zenon
  <2>. QED
    BY <2>1, <2>2, <2>3, Zenon
<1>13. ASSUME NEW n \in N, NEW m \in N, n < m PROVE IsBefore(list[n], line[n], list[m], line[m])
  <2>1. PICK r, s, l, k : r = list[n].rank /\ s = list[m].rank /\ l = line[n] /\ k = line[m]
    OBVIOUS
  <2>2. /\ r = IF n <= a THEN 4 ELSE IF n <= a + b THEN 3 ELSE 2
        /\ l = IF n <= a THEN n ELSE IF n <= a + b THEN n - a ELSE n - (a + b)
    BY <1>8, <1>10, <2>1
  <2>3. /\ s = IF m <= a THEN 4 ELSE IF m <= a + b THEN 3 ELSE 2
        /\ k = IF m <= a THEN m ELSE IF m <= a + b THEN m - a ELSE m - (a + b)
    BY <1>8, <1>10, <2>1
  <2>4. n \in Nat /\ m \in Nat /\ n < m
    BY <1>13 DEF N
  <2>5. r >= s /\ (r = s => l < k)
    BY <1>2, <1>3, <2>2, <2>3, <2>4, RanksDescend
  <2>6. list[n].base = list[m].base /\ Len(list[n].base) <= Len(list[m].base)
    <3>1. Len(<<>>) <= Len(<<>>)
      OBVIOUS
    <3>2. list[n].base = <<>> /\ list[m].base = <<>>
      BY <1>10
    <3>. QED
      BY <3>1, <3>2
  <2>. QED
    BY <2>1, <2>5, <2>6 DEF IsBefore
<1>14. ASSUME NEW rank \in 2 .. 4, NEW j \in 1 .. Len(PolicyLines(A, B, C, rank))
       PROVE  \E n \in N : list[n].rank = rank /\ line[n] = j
  <2>1. CASE rank = 4
    <3>1. j \in 1 .. a
      BY <2>1 DEF PolicyLines, a
    <3>2. j \in N /\ j <= a
      BY <1>2, <1>3, <1>4, <3>1 DEF N
    <3>. QED
      BY <1>10, <2>1, <3>2
  <2>2. CASE rank = 3
    <3>1. j \in 1 .. b
      BY <2>2 DEF PolicyLines, b
    <3>2. PICK n \in N : n = a + j /\ ~ (n <= a) /\ n <= a + b /\ n - a = j
      BY <1>2, <1>3, <1>4, <3>1 DEF N
    <3>. QED
      BY <1>10, <2>2, <3>2
  <2>3. CASE rank = 2
    <3>1. j \in 1 .. c
      BY <2>3 DEF PolicyLines, c
    <3>2. PICK n \in N : n = (a + b) + j /\ ~ (n <= a + b) /\ n - (a + b) = j
      BY <1>2, <1>3, <1>4, <3>1 DEF N
    <3>3. ~ (n <= a)
      BY <1>8, <3>2
    <3>. QED
      BY <1>10, <2>3, <3>2
  <2>4. rank = 4 \/ rank = 3 \/ rank = 2
    OBVIOUS
  <2>. QED
    BY <2>1, <2>2, <2>3, <2>4, Zenon
<1>15. N = 1 .. Len(list)
  BY <1>6 DEF N
<1>16. PolicyNumbers(list, line, A, B, C)
  <2>1. /\ \A n \in 1 .. Len(list) : n \in N
        /\ \A n \in N : n \in 1 .. Len(list)
    BY <1>15
  <2>2. \A n \in 1 .. Len(list) :
          /\ list[n].rank \in 2 .. 4 /\ list[n].base = <<>>
          /\ line[n] \in 1 .. Len(PolicyLines(A, B, C, list[n].rank))
          /\ list[n].pattern = PolicyLines(A, B, C, list[n].rank)[line[n]]
          /\ line[n] <= n
    BY <1>12, <2>1, Zenon
  <2>3. \A n, m \in 1 .. Len(list) : n < m => IsBefore(list[n], line[n], list[m], line[m])
    BY <1>13, <2>1, Zenon
  <2>4. \A rank \in 2 .. 4 : \A j \in 1 .. Len(PolicyLines(A, B, C, rank)) :
          \E n \in 1 .. Len(list) : list[n].rank = rank /\ line[n] = j
    <3> SUFFICES ASSUME NEW rank \in 2 .. 4, NEW j \in 1 .. Len(PolicyLines(A, B, C, rank))
                 PROVE  \E n \in 1 .. Len(list) : list[n].rank = rank /\ line[n] = j
      OBVIOUS
    <3>1. PICK n \in N : list[n].rank = rank /\ line[n] = j
      BY <1>14, Zenon
    <3>. QED
      BY <2>1, <3>1, Zenon
  <2>. QED
    BY <1>11, <2>2, <2>3, <2>4, Zenon DEF PolicyNumbers
<1>17. list \in Seq(Rules)
  BY <1>6
<1>. QED
  BY <1>0, <1>16, <1>17, Zenon

LEMMA BoundedSeqs == ASSUME NEW S, NEW n \in Nat PROVE BoundedSeq(S, n) \subseteq Seq(S)
<1>1. ASSUME NEW m \in 0 .. n, NEW s \in [1 .. m -> S] PROVE s \in Seq(S)
  OBVIOUS
<1>. QED
  BY <1>1 DEF BoundedSeq, SeqOf

LEMMA IgnoreBegins == IgnoreInit => IgnoreInvariant
<1> SUFFICES ASSUME IgnoreInit PROVE IgnoreInvariant
  OBVIOUS
<1>1. IgnoreTypeOK
  <2>1. policy.configuration = <<>> /\ policy.profile = <<>> /\ policy.fallback = FALSE
    BY DEF IgnoreInit, NoPolicy
  <2>2. rules \in Seq(Rules) /\ gitignore \in [IgnoreFiles -> Seq(IgnorePatterns)]
    BY DEF IgnoreInit
  <2>3. policy.configuration \in Seq(PolicyPatterns) /\ policy.profile \in Seq(PolicyPatterns)
    BY <2>1, EmptySeq
  <2>. QED
    BY <2>1, <2>2, <2>3 DEF IgnoreInit, IgnoreTypeOK
<1>. QED
  BY <1>1 DEF IgnoreInit, IgnoreInvariant

LEMMA CollectPolicyKeeps == IgnoreInvariant /\ CollectPolicy => IgnoreInvariant'
<1> SUFFICES ASSUME IgnoreInvariant, CollectPolicy PROVE IgnoreInvariant'
  OBVIOUS
<1>1. /\ IgnoreTypeOK /\ ignoreAt = "idle" /\ rules = <<>> /\ readIgnores = {} /\ readIgnores' = {}
      /\ excludedPaths' = excludedPaths
      /\ pending' = IF policy'.fallback THEN IgnoreFiles ELSE {}
  BY DEF IgnoreInvariant, CollectPolicy
<1>2. /\ policy'.configuration \in Seq(PolicyPatterns) /\ policy'.profile \in Seq(PolicyPatterns)
      /\ policy'.fallback \in BOOLEAN
  <2>1. PICK configuration \in BoundedSeq(PolicyPatterns, 1), profile \in BoundedSeq(PolicyPatterns, 1),
             fallback \in BOOLEAN :
          policy' = [configuration |-> configuration, profile |-> profile, fallback |-> fallback]
    BY DEF CollectPolicy
  <2>2. configuration \in Seq(PolicyPatterns) /\ profile \in Seq(PolicyPatterns)
    BY BoundedSeqs
  <2>3. policy'.configuration = configuration /\ policy'.profile = profile /\ policy'.fallback = fallback
    BY <2>1
  <2>. QED
    BY <2>2, <2>3
<1>3. gitignore' \in [IgnoreFiles -> Seq(IgnorePatterns)]
  <2>1. gitignore' \in [IgnoreFiles -> BoundedSeq(IgnorePatterns, MaxLines)]
    BY DEF CollectPolicy, Gitignores
  <2>2. BoundedSeq(IgnorePatterns, MaxLines) \subseteq Seq(IgnorePatterns)
    BY BoundedSeqs, IgnoreAssumption
  <2>. QED
    BY <2>1, <2>2
<1> DEFINE A == BuiltInPatterns
           B == policy'.configuration
           C == policy'.profile
           added == (RulesOf(A, 4, <<>>) \o RulesOf(B, 3, <<>>)) \o RulesOf(C, 2, <<>>)
<1>4. A \in Seq(Patterns) /\ B \in Seq(Patterns) /\ C \in Seq(Patterns)
  <2>1. PolicyPatterns \subseteq Patterns
    BY DEF Patterns
  <2>. QED
    BY <1>2, <2>1, IgnoreAssumption, SeqMonotonic
<1>5. AddRules(added)
  <2>1. SourceRank.builtIn = 4 /\ SourceRank.configuration = 3 /\ SourceRank.profile = 2
    BY DEF SourceRank
  <2>. QED
    BY <2>1 DEF CollectPolicy
<1>6. PICK list, line : list = added /\ list \in Seq(Rules) /\ PolicyNumbers(list, line, A, B, C)
  <2> HIDE DEF A, B, C
  <2>1. added \in Seq(Rules) /\ \E line : PolicyNumbers(added, line, A, B, C)
    BY <1>4, PolicyRules
  <2> HIDE DEF added
  <2>. QED
    BY <2>1
<1>7. AddRules(list)
  BY <1>5, <1>6
<1> HIDE DEF added
<1>8. CASE ignoreAt' = "failed"
  <2>1. rules' \in Seq(Rules)
    <3>1. rules' = rules \/ rules' = rules \o list
      BY <1>7 DEF AddRules
    <3>2. rules \in Seq(Rules) /\ rules \o list \in Seq(Rules)
      BY <1>1, <1>6, ConcatProperties DEF IgnoreTypeOK
    <3>. QED
      BY <3>1, <3>2
  <2>2. IgnoreTypeOK'
    BY <1>1, <1>2, <1>3, <1>8, <2>1 DEF IgnoreTypeOK
  <2>3. ReadsOutsideIgnored'
    BY <1>1 DEF ReadsOutsideIgnored
  <2>. QED
    BY <1>8, <2>2, <2>3 DEF IgnoreInvariant
<1>9. CASE ignoreAt' # "failed"
  <2>1. ignoreAt' = "reading" /\ rules' = list /\ Len(rules') <= MaximumPatterns
    <3>1. /\ ~ (Len(rules) + Len(list) > MaximumPatterns)
          /\ ignoreAt' = "reading" /\ rules' = rules \o list
      BY <1>7, <1>9 DEF AddRules
    <3>2. <<>> \o list = list
      BY <1>6, ConcatEmptySeq
    <3>3. Len(list) \in Nat /\ Len(rules) = 0
      BY <1>1, <1>6, LenProperties
    <3>. QED
      BY <1>1, <3>1, <3>2, <3>3, IgnoreAssumption
  <2>2. IgnoreTypeOK'
    BY <1>1, <1>2, <1>3, <1>6, <2>1 DEF IgnoreTypeOK
  <2>3. Considered' = {}
    BY <1>1 DEF Considered
  <2>4. Numbers(line)'
    <3>1. \A rank \in 2 .. 4 : \A base : LinesOf(rank, base)' = PolicyLines(A, B, C, rank)
      BY DEF LinesOf, PolicyLines
    <3>2. \A n \in 1 .. Len(rules') :
            /\ rules'[n].rank \in 2 .. 4 /\ rules'[n].base = <<>>
            /\ line[n] \in 1 .. Len(PolicyLines(A, B, C, rules'[n].rank))
            /\ rules'[n].pattern = PolicyLines(A, B, C, rules'[n].rank)[line[n]]
            /\ line[n] <= n
      BY <1>6, <2>1, Zenon DEF PolicyNumbers
    <3> HIDE DEF A, B, C
    <3>3. \A n \in 1 .. Len(rules') : HasLine(n, line[n])'
      <4> SUFFICES ASSUME NEW n \in 1 .. Len(rules') PROVE HasLine(n, line[n])'
        OBVIOUS
      <4>1. LinesOf(rules[n].rank, rules[n].base)' = PolicyLines(A, B, C, rules'[n].rank)
        BY <3>1, <3>2, Zenon
      <4>. QED
        BY <3>2, <4>1, Zenon DEF HasLine
    <3>4. \A n \in 1 .. Len(rules') : /\ rules'[n].rank > 1 => rules'[n].base = <<>>
                                      /\ rules'[n].rank # 1
      BY <3>2, SMTT(30)
    <3>5. \A rank \in 2 .. 4 : \A j \in 1 .. Len(LinesOf(rank, <<>>)') :
            \E n \in 1 .. Len(rules') : rules'[n].rank = rank /\ line[n] = j
      <4>1. \A rank \in 2 .. 4 : \A j \in 1 .. Len(PolicyLines(A, B, C, rank)) :
              \E n \in 1 .. Len(rules') : rules'[n].rank = rank /\ line[n] = j
        BY <1>6, <2>1, ZenonT(60) DEF PolicyNumbers
      <4> SUFFICES ASSUME NEW rank \in 2 .. 4, NEW j \in 1 .. Len(LinesOf(rank, <<>>)')
                   PROVE  \E n \in 1 .. Len(rules') : rules'[n].rank = rank /\ line[n] = j
        OBVIOUS
      <4>2. j \in 1 .. Len(PolicyLines(A, B, C, rank))
        BY <3>1
      <4>. QED
        BY <4>1, <4>2, Zenon
    <3>6. line \in Seq(Nat) /\ Len(line) = Len(rules')
      BY <1>6, <2>1, Zenon DEF PolicyNumbers
    <3>7. \A n, m \in 1 .. Len(rules') : n < m => IsBefore(rules'[n], line[n], rules'[m], line[m])
      BY <1>6, <2>1, Zenon DEF PolicyNumbers
    <3>8. \A d \in readIgnores' : FALSE
      BY <1>1
    <3>. QED
      BY <3>2, <3>3, <3>4, <3>5, <3>6, <3>7, <3>8, Zenon DEF Numbers, PolicyHasRules, GitHasRules
  <2>5. Collected'
    <3>1. ~ policy'.fallback => pending' = {}
      BY <1>1
    <3>. QED
      BY <1>1, <2>1, <2>3, <2>4, <3>1, Zenon DEF Collected
  <2>. QED
    BY <2>1, <2>2, <2>5 DEF IgnoreInvariant
<1>. QED
  BY <1>8, <1>9

LEMMA NumbersStay ==
  ASSUME NEW line, Numbers(line), UNCHANGED <<gitignore, policy, rules, readIgnores>>
  PROVE  Numbers(line)'
<1>1. \A rank, base : LinesOf(rank, base)' = LinesOf(rank, base)
  BY DEF LinesOf
<1>2. ASSUME NEW n \in 1 .. Len(rules) PROVE HasLine(n, line[n])'
  BY <1>1 DEF Numbers, HasLine
<1>3. \A rank \in 2 .. 4 : \A j \in 1 .. Len(LinesOf(rank, <<>>)') :
        \E n \in 1 .. Len(rules') : rules'[n].rank = rank /\ line[n] = j
  <2> SUFFICES ASSUME NEW rank \in 2 .. 4, NEW j \in 1 .. Len(LinesOf(rank, <<>>)')
               PROVE  \E n \in 1 .. Len(rules') : rules'[n].rank = rank /\ line[n] = j
    OBVIOUS
  <2>1. j \in 1 .. Len(LinesOf(rank, <<>>))
    BY <1>1
  <2>2. \E n \in 1 .. Len(rules) : rules[n].rank = rank /\ line[n] = j
    <3>1. PolicyHasRules(line)
      BY DEF Numbers
    <3>. QED
      BY <2>1, <3>1, Zenon DEF PolicyHasRules
  <2>. QED
    BY <2>2
<1>. QED
  BY <1>2, <1>3 DEF Numbers, PolicyHasRules, GitHasRules

(* A .gitignore that was not read can change. *)
LEMMA NumbersStayElsewhere ==
  ASSUME IgnoreTypeOK, NEW line, Numbers(line), NEW d, d \notin readIgnores,
         UNCHANGED <<policy, rules, readIgnores>>,
         \A e \in IgnoreFiles : e # d => gitignore'[e] = gitignore[e]
  PROVE  Numbers(line)'
<1>1. /\ \A rank \in 2 .. 4 : LinesOf(rank, <<>>)' = LinesOf(rank, <<>>)
      /\ \A e \in readIgnores : gitignore'[e] = gitignore[e]
  BY DEF LinesOf, IgnoreTypeOK
<1>2. ASSUME NEW n \in 1 .. Len(rules) PROVE HasLine(n, line[n])'
  <2>1. HasLine(n, line[n]) /\ rules[n].rank \in 1 .. 4 /\ (rules[n].rank = 1 => rules[n].base \in readIgnores)
    BY RuleTypes DEF Numbers, Ranks
  <2>2. LinesOf(rules[n].rank, rules[n].base)' = LinesOf(rules[n].rank, rules[n].base)
    BY <1>1, <2>1 DEF LinesOf
  <2>. QED
    BY <2>1, <2>2 DEF HasLine
<1>3. ASSUME NEW rank \in 2 .. 4, NEW j \in 1 .. Len(LinesOf(rank, <<>>)')
      PROVE  \E n \in 1 .. Len(rules') : rules'[n].rank = rank /\ line[n] = j
  <2>1. j \in 1 .. Len(LinesOf(rank, <<>>))
    BY <1>1
  <2>2. \E n \in 1 .. Len(rules) : rules[n].rank = rank /\ line[n] = j
    <3>1. PolicyHasRules(line)
      BY DEF Numbers
    <3>. QED
      BY <2>1, <3>1, Zenon DEF PolicyHasRules
  <2>. QED
    BY <2>2
<1>4. ASSUME NEW e \in readIgnores', NEW j \in 1 .. Len(gitignore'[e])
      PROVE  \E n \in 1 .. Len(rules') : rules'[n].rank = 1 /\ rules'[n].base = e /\ line[n] = j
  <2>1. e \in readIgnores /\ j \in 1 .. Len(gitignore[e])
    BY <1>1
  <2>2. \E n \in 1 .. Len(rules) : rules[n].rank = 1 /\ rules[n].base = e /\ line[n] = j
    <3>1. GitHasRules(line)
      BY DEF Numbers
    <3>. QED
      BY <2>1, <3>1, Zenon DEF GitHasRules
  <2>. QED
    BY <2>2
<1>. QED
  BY <1>2, <1>3, <1>4 DEF Numbers, PolicyHasRules, GitHasRules

LEMMA CollectedStays ==
  ASSUME Collected, UNCHANGED <<gitignore, policy, rules, pending, readIgnores>>
  PROVE  Collected'
<1>1. Considered' = Considered
  BY DEF Considered
<1>2. \E line : Numbers(line)'
  BY NumbersStay DEF Collected
<1>. QED
  BY <1>1, <1>2 DEF Collected

LEMMA ReadsStayOutside ==
  ASSUME ReadsOutsideIgnored, UNCHANGED <<gitignore, policy, readIgnores>>
  PROVE  ReadsOutsideIgnored'
<1>1. PatternsInForce' = PatternsInForce
  BY DEF PatternsInForce
<1>2. \A path, isDir : GitVerdict(path, isDir)' <=> GitVerdict(path, isDir)
  BY DEF GitVerdict, Layers
<1>. QED
  BY <1>1, <1>2 DEF ReadsOutsideIgnored

LEMMA DecideKeeps == IgnoreInvariant /\ Decide => IgnoreInvariant'
<1> SUFFICES ASSUME IgnoreInvariant, Decide PROVE IgnoreInvariant'
  OBVIOUS
<1>1. /\ IgnoreTypeOK /\ Collected /\ ignoreAt' = "returned" /\ pending' = {}
      /\ excludedPaths' = {p \in Candidates : ExcludedBy(p, TRUE, rules)}
      /\ UNCHANGED <<gitignore, policy, rules, pending, readIgnores>>
  BY DEF IgnoreInvariant, Decide
<1>2. IgnoreTypeOK'
  BY <1>1 DEF IgnoreTypeOK
<1>3. Collected'
  BY <1>1, CollectedStays
<1>. QED
  BY <1>1, <1>2, <1>3 DEF IgnoreInvariant

LEMMA IgnoreStutters == IgnoreInvariant /\ UNCHANGED ignoreVars => IgnoreInvariant'
<1> SUFFICES ASSUME IgnoreInvariant, UNCHANGED ignoreVars PROVE IgnoreInvariant'
  OBVIOUS
<1>1. UNCHANGED <<gitignore, policy, rules, pending, readIgnores, ignoreAt, excludedPaths>>
  BY DEF ignoreVars
<1>2. IgnoreTypeOK'
  BY <1>1 DEF IgnoreInvariant, IgnoreTypeOK
<1>3. ignoreAt \in {"reading", "returned"} => Collected'
  BY <1>1, CollectedStays DEF IgnoreInvariant
<1>4. ignoreAt = "failed" => ReadsOutsideIgnored'
  BY <1>1, ReadsStayOutside DEF IgnoreInvariant
<1>. QED
  BY <1>1, <1>2, <1>3, <1>4 DEF IgnoreInvariant

(* The rules of the next .gitignore come last. *)
Appends(d) ==
  /\ UNCHANGED <<gitignore, policy>> /\ readIgnores' = readIgnores \cup {d}
  /\ rules' = rules \o RulesOf(gitignore[d], 1, d)

LEMMA NumbersGrow ==
  ASSUME IgnoreTypeOK, NEW line, Numbers(line), NEW d \in IgnoreFiles, d \notin readIgnores,
         \A e \in readIgnores : Len(e) <= Len(d), Appends(d)
  PROVE  \E more : Numbers(more)'
<1>0. gitignore' = gitignore /\ policy' = policy /\ readIgnores' = readIgnores \cup {d}
  BY DEF Appends
<1>1. PICK added : added = RulesOf(gitignore[d], 1, d)
  OBVIOUS
<1>2. PICK lines : lines = gitignore[d]
  OBVIOUS
<1>3. /\ added \in Seq(Rules) /\ Len(added) = Len(lines) /\ Len(lines) \in Nat
      /\ \A i \in 1 .. Len(lines) : added[i] = [pattern |-> lines[i], rank |-> 1, base |-> d]
  <2>1. lines \in Seq(Patterns) /\ 1 \in Ranks /\ d \in Seq(Names)
    <3>1. LinesOf(1, d) \in Seq(Patterns)
      BY LineTypes DEF Ranks
    <3>. QED
      BY <1>2, <3>1, IgnoreAssumption DEF LinesOf, Ranks
  <2>. QED
    BY <1>1, <1>2, <2>1, RulesOfLines
<1>4. \A i \in 1 .. Len(lines) : added[i].pattern = lines[i] /\ added[i].rank = 1 /\ added[i].base = d
  <2> SUFFICES ASSUME NEW i \in 1 .. Len(lines)
               PROVE  added[i].pattern = lines[i] /\ added[i].rank = 1 /\ added[i].base = d
    OBVIOUS
  <2>1. PICK r, p : r = added[i] /\ p = lines[i]
    OBVIOUS
  <2>2. r = [pattern |-> p, rank |-> 1, base |-> d]
    BY <1>3, <2>1, Zenon
  <2>3. r.pattern = p /\ r.rank = 1 /\ r.base = d
    BY <2>2
  <2>. QED
    BY <2>1, <2>3, Zenon
<1>5. rules \in Seq(Rules) /\ Len(rules) \in Nat /\ rules' = rules \o added
  BY <1>1, LenProperties DEF IgnoreTypeOK, Appends
<1>19. PICK N, M : N = Len(rules) /\ M = Len(lines)
  OBVIOUS
<1>6. /\ Len(rules') = N + M
      /\ \A i \in 1 .. N + M : rules'[i] = IF i <= N THEN rules[i] ELSE added[i - N]
  <2>1. /\ Len(rules \o added) = Len(rules) + Len(added)
        /\ \A i \in 1 .. Len(rules) + Len(added) :
             (rules \o added)[i] = IF i <= Len(rules) THEN rules[i] ELSE added[i - Len(rules)]
    BY <1>3, <1>5, ConcatProperties, ZenonT(60)
  <2>. QED
    BY <1>3, <1>5, <1>19, <2>1
<1>20. PICK more : more = [n \in 1 .. N + M |-> IF n <= N THEN line[n] ELSE n - N]
  OBVIOUS
<1>7. line \in Seq(Nat) /\ Len(line) = N /\ \A n \in 1 .. N : line[n] \in Nat
  BY <1>19, ElementOfSeq DEF Numbers
<1>8. \A n \in 1 .. N + M : n \in 1 .. N \/ (~ (n <= N) /\ n - N \in 1 .. M)
  BY <1>3, <1>5, <1>19
<1>9. more \in Seq(Nat) /\ Len(more) = N + M
  <2>1. PICK t \in Nat : t = N + M
    BY <1>3, <1>5, <1>19
  <2>2. more \in [1 .. t -> Nat]
    BY <1>7, <1>8, <1>20, <2>1
  <2>. QED
    BY <2>1, <2>2
<1>10. /\ \A n \in 1 .. N : n \in 1 .. N + M /\ rules'[n] = rules[n] /\ more[n] = line[n]
       /\ \A n \in 1 .. N + M : ~ (n <= N) => rules'[n] = added[n - N] /\ more[n] = n - N
  BY <1>3, <1>5, <1>6, <1>19, <1>20
<1>11. \A rank \in 2 .. 4 : LinesOf(rank, <<>>)' = LinesOf(rank, <<>>)
  BY <1>0 DEF LinesOf
<1>13. ASSUME NEW n \in 1 .. N + M
       PROVE  /\ rules'[n].rank > 1 => rules'[n].base = <<>>
              /\ rules'[n].rank = 1 => rules'[n].base \in readIgnores'
              /\ HasLine(n, more[n])' /\ more[n] <= n
  <2>1. CASE n \in 1 .. N
    <3>1. rules'[n] = rules[n] /\ more[n] = line[n]
      BY <1>10, <2>1
    <3>2. /\ rules[n].rank > 1 => rules[n].base = <<>>
          /\ rules[n].rank = 1 => rules[n].base \in readIgnores
          /\ HasLine(n, line[n]) /\ line[n] <= n
      BY <2>1, <1>19 DEF Numbers
    <3>3. HasLine(n, more[n])'
      <4>1. LinesOf(rules[n].rank, rules[n].base)' = LinesOf(rules[n].rank, rules[n].base)
        BY <1>0, <3>1 DEF LinesOf
      <4>. QED
        BY <3>1, <3>2, <4>1 DEF HasLine
    <3>. QED
      BY <1>0, <3>1, <3>2, <3>3
  <2>2. CASE ~ (n <= N) /\ n - N \in 1 .. M
    <3>1. rules'[n] = added[n - N] /\ more[n] = n - N
      BY <1>10, <2>2
    <3>2. rules'[n].pattern = lines[n - N] /\ rules'[n].rank = 1 /\ rules'[n].base = d
      BY <1>4, <2>2, <3>1, <1>19
    <3>3. LinesOf(rules[n].rank, rules[n].base)' = lines
      BY <1>0, <1>2, <3>2 DEF LinesOf
    <3>4. HasLine(n, more[n])'
      BY <2>2, <3>1, <3>2, <3>3, <1>19 DEF HasLine
    <3>5. n - N <= n
      BY <1>5, <1>19
    <3>. QED
      BY <1>0, <3>1, <3>2, <3>4, <3>5
  <2>. QED
    BY <1>8, <2>1, <2>2
<1>14. ASSUME NEW n \in 1 .. N + M, NEW m \in 1 .. N + M, n < m
       PROVE  IsBefore(rules'[n], more[n], rules'[m], more[m])
  <2>1. CASE n \in 1 .. N /\ m \in 1 .. N
    <3>1. IsBefore(rules[n], line[n], rules[m], line[m])
      BY <1>14, <2>1, <1>19 DEF Numbers
    <3>. QED
      BY <1>10, <2>1, <3>1
  <2>2. CASE n \in 1 .. N /\ ~ (m <= N) /\ m - N \in 1 .. M
    <3>1. rules'[m].rank = 1 /\ rules'[m].base = d
      BY <1>4, <1>10, <2>2, <1>19
    <3>2. rules'[n] = rules[n]
      BY <1>10, <2>2
    <3>3. rules[n].rank \in 1 .. 4 /\ (rules[n].rank = 1 => rules[n].base \in readIgnores)
      BY <2>2, RuleTypes, <1>19 DEF Numbers, Ranks
    <3>4. rules'[n].rank = 1 => Len(rules'[n].base) <= Len(d) /\ rules'[n].base # d
      BY <3>2, <3>3
    <3>5. rules'[n].rank >= 1
      BY <3>2, <3>3
    <3>. QED
      BY <3>1, <3>4, <3>5 DEF IsBefore
  <2>3. CASE ~ (n <= N) /\ n - N \in 1 .. M /\ ~ (m <= N) /\ m - N \in 1 .. M
    <3>1. /\ rules'[m].rank = 1 /\ rules'[m].base = d /\ rules'[n].rank = 1 /\ rules'[n].base = d
          /\ more[n] = n - N /\ more[m] = m - N
      BY <1>4, <1>10, <2>3, <1>19
    <3>2. n - N < m - N
      BY <1>5, <1>14, <1>19
    <3>3. Len(d) <= Len(d)
      <4>1. Len(d) \in Nat
        BY IgnoreAssumption, LenProperties
      <4>. QED
        BY <4>1
    <3>. QED
      BY <3>1, <3>2, <3>3 DEF IsBefore
  <2>4. CASE ~ (n <= N) /\ m \in 1 .. N
    BY <1>5, <1>14, <2>4, <1>19
  <2>. QED
    BY <1>8, <2>1, <2>2, <2>3, <2>4
<1>15. ASSUME NEW rank \in 2 .. 4, NEW j \in 1 .. Len(LinesOf(rank, <<>>)')
       PROVE  \E n \in 1 .. N + M : rules'[n].rank = rank /\ more[n] = j
  <2>1. j \in 1 .. Len(LinesOf(rank, <<>>))
    BY <1>11
  <2>2. \E n \in 1 .. Len(rules) : rules[n].rank = rank /\ line[n] = j
    <3>1. PolicyHasRules(line)
      BY DEF Numbers
    <3>. QED
      BY <2>1, <3>1, Zenon DEF PolicyHasRules
  <2>3. PICK n \in 1 .. Len(rules) : rules[n].rank = rank /\ line[n] = j
    BY <2>2, Zenon
  <2>4. n \in 1 .. N
    BY <1>19
  <2>. QED
    BY <1>10, <2>3, <2>4, Zenon
<1>16. ASSUME NEW e \in readIgnores', NEW j \in 1 .. Len(gitignore'[e])
       PROVE  \E n \in 1 .. N + M : rules'[n].rank = 1 /\ rules'[n].base = e /\ more[n] = j
  <2>1. CASE e = d
    <3>1. j \in 1 .. M
      BY <1>0, <1>2, <2>1, <1>19
    <3>2. PICK n \in 1 .. N + M : ~ (n <= N) /\ n - N = j
      <4>1. N \in Nat /\ M \in Nat
        BY <1>3, <1>5, <1>19
      <4>2. N + j \in 1 .. N + M /\ ~ (N + j <= N) /\ (N + j) - N = j
        BY <3>1, <4>1
      <4>. QED
        BY <4>2
    <3>. QED
      BY <1>4, <1>10, <2>1, <3>1, <3>2, <1>19
  <2>2. CASE e # d
    <3>1. e \in readIgnores /\ j \in 1 .. Len(gitignore[e])
      BY <1>0, <2>2
    <3>2. \E n \in 1 .. Len(rules) : rules[n].rank = 1 /\ rules[n].base = e /\ line[n] = j
      <4>1. GitHasRules(line)
        BY DEF Numbers
      <4>. QED
        BY <3>1, <4>1, Zenon DEF GitHasRules
    <3>3. PICK n \in 1 .. Len(rules) : rules[n].rank = 1 /\ rules[n].base = e /\ line[n] = j
      BY <3>2, Zenon
    <3>4. n \in 1 .. N
      BY <1>19
    <3>. QED
      BY <1>10, <3>3, <3>4, Zenon
  <2>. QED
    BY <2>1, <2>2
<1>17. Len(rules') = N + M
  BY <1>6, <1>19
<1>18. Numbers(more)'
  <2>1. /\ \A n \in 1 .. Len(rules') : n \in 1 .. N + M
        /\ \A n \in 1 .. N + M : n \in 1 .. Len(rules')
    BY <1>17
  <2>2. \A n \in 1 .. Len(rules') :
          /\ rules'[n].rank > 1 => rules'[n].base = <<>>
          /\ rules'[n].rank = 1 => rules'[n].base \in readIgnores'
          /\ HasLine(n, more[n])' /\ more[n] <= n
    BY <1>13, <2>1, Zenon
  <2>3. \A n, m \in 1 .. Len(rules') : n < m => IsBefore(rules'[n], more[n], rules'[m], more[m])
    BY <1>14, <2>1, Zenon
  <2>4. \A rank \in 2 .. 4 : \A j \in 1 .. Len(LinesOf(rank, <<>>)') :
          \E n \in 1 .. Len(rules') : rules'[n].rank = rank /\ more[n] = j
    <3> SUFFICES ASSUME NEW rank \in 2 .. 4, NEW j \in 1 .. Len(LinesOf(rank, <<>>)')
                 PROVE  \E n \in 1 .. Len(rules') : rules'[n].rank = rank /\ more[n] = j
      OBVIOUS
    <3>1. PICK n \in 1 .. N + M : rules'[n].rank = rank /\ more[n] = j
      BY <1>15, Zenon
    <3>. QED
      BY <2>1, <3>1, Zenon
  <2>5. \A e \in readIgnores' : \A j \in 1 .. Len(gitignore'[e]) :
          \E n \in 1 .. Len(rules') : rules'[n].rank = 1 /\ rules'[n].base = e /\ more[n] = j
    <3> SUFFICES ASSUME NEW e \in readIgnores', NEW j \in 1 .. Len(gitignore'[e])
                 PROVE  \E n \in 1 .. Len(rules') :
                          rules'[n].rank = 1 /\ rules'[n].base = e /\ more[n] = j
      OBVIOUS
    <3>1. PICK n \in 1 .. N + M : rules'[n].rank = 1 /\ rules'[n].base = e /\ more[n] = j
      BY <1>16, Zenon
    <3>. QED
      BY <2>1, <3>1, Zenon
  <2>6. more \in Seq(Nat) /\ Len(more) = Len(rules')
    BY <1>9, <1>17
  <2>. QED
    BY <2>2, <2>3, <2>4, <2>5, <2>6, Zenon DEF Numbers, PolicyHasRules, GitHasRules
<1>. QED
  BY <1>18

(* One .gitignore less to consider. *)
LEMMA ConsideredGrows ==
  ASSUME IgnoreTypeOK, Collected, NEW d, d \in NextIgnore, policy' = policy, pending' = pending \ {d}
  PROVE  /\ policy.fallback /\ d \in IgnoreFiles /\ d \in pending /\ d \notin Considered
         /\ Considered' = Considered \cup {d} /\ (~ policy'.fallback => pending' = {})
         /\ \A e \in Considered : Len(e) <= Len(d)
         /\ \A c \in Considered', e \in pending' : Len(c) <= Len(e)
<1>1. d \in pending /\ pending \subseteq IgnoreFiles /\ \A e \in pending : Len(d) <= Len(e)
  BY DEF NextIgnore, IgnoreTypeOK
<1>2. policy.fallback /\ Considered = IgnoreFiles \ pending
  BY <1>1 DEF Collected, Considered
<1>3. Considered' = Considered \cup {d}
  BY <1>1, <1>2 DEF Considered
<1>4. \A c \in Considered, e \in pending : Len(c) <= Len(e)
  BY DEF Collected
<1>. QED
  BY <1>1, <1>2, <1>3, <1>4

LEMMA NextIsSettled ==
  ASSUME IgnoreTypeOK, Collected, NEW d \in NextIgnore
  PROVE  policy.fallback => \A e \in IgnoreFiles : Len(e) < Len(d) => e \in Considered
<1> SUFFICES ASSUME policy.fallback, NEW e \in IgnoreFiles, Len(e) < Len(d) PROVE e \in Considered
  OBVIOUS
<1>1. Len(d) \in Nat /\ Len(e) \in Nat
  BY IgnoreAssumption, LenProperties DEF NextIgnore, IgnoreTypeOK
<1>2. e \in pending => Len(d) <= Len(e)
  BY DEF NextIgnore
<1>. QED
  BY <1>1, <1>2 DEF Considered

(* What was decided about a directory stays when a .gitignore as deep or deeper is read. *)
LEMMA DirectoriesStayDecided ==
  ASSUME IgnoreTypeOK, NEW e \in IgnoreFiles, NEW d \in IgnoreFiles, Len(e) <= Len(d), Appends(d)
  PROVE  ExcludedBy(e, FALSE, rules') <=> ExcludedBy(e, FALSE, rules)
<1>1. PICK added : added = RulesOf(gitignore[d], 1, d)
  OBVIOUS
<1>2. /\ added \in Seq(Rules) /\ \A i \in 1 .. Len(added) : added[i].base = d
      /\ d \in Seq(Names) /\ e \in Seq(Names) /\ Len(d) \in Nat /\ Len(e) \in Nat
  <2>1. d \in Seq(Names) /\ e \in Seq(Names)
    BY IgnoreAssumption
  <2>2. gitignore[d] \in Seq(Patterns)
    <3>1. LinesOf(1, d) \in Seq(Patterns)
      BY LineTypes DEF Ranks
    <3>. QED
      BY <3>1 DEF LinesOf
  <2>3. PICK lines : lines = gitignore[d]
    OBVIOUS
  <2>4. /\ added \in Seq(Rules) /\ Len(added) = Len(lines)
        /\ \A i \in 1 .. Len(lines) : added[i] = [pattern |-> lines[i], rank |-> 1, base |-> d]
    BY <1>1, <2>1, <2>2, <2>3, RulesOfLines DEF Ranks
  <2>5. ASSUME NEW i \in 1 .. Len(added) PROVE added[i].base = d
    <3>1. PICK r, p : r = added[i] /\ p = lines[i]
      OBVIOUS
    <3>2. r = [pattern |-> p, rank |-> 1, base |-> d]
      BY <2>4, <2>5, <3>1, Zenon
    <3>3. r.base = d
      BY <3>2
    <3>. QED
      BY <3>1, <3>3, Zenon
  <2>6. Len(d) \in Nat /\ Len(e) \in Nat
    BY <2>1, LenProperties
  <2>. QED
    BY <2>1, <2>4, <2>5, <2>6, Zenon
<1>3. rules' = rules \o added /\ rules \in Seq(Rules)
  BY <1>1 DEF Appends, IgnoreTypeOK
<1>4. ASSUME NEW k \in 1 .. Len(e)
      PROVE  Excludes(SubSeq(e, 1, k), TRUE, rules') <=> Excludes(SubSeq(e, 1, k), TRUE, rules)
  <2>1. PICK path : path = SubSeq(e, 1, k)
    OBVIOUS
  <2>2. path \in Seq(Names) /\ Len(path) = k
    <3>1. k \in 0 .. Len(e)
      BY <1>2
    <3>. QED
      BY <1>2, <2>1, <3>1, PrefixPaths
  <2>3. ~ IsStrictPrefix(d, path)
    <3>1. ~ (Len(d) < Len(path))
      BY <1>2, <2>2
    <3>. QED
      BY <1>2, <2>2, <3>1, StrictPrefixes
  <2>4. \A i \in 1 .. Len(added) : ~ IsStrictPrefix(added[i].base, path)
    BY <1>2, <2>3
  <2>5. Excludes(path, TRUE, rules \o added) <=> Excludes(path, TRUE, rules)
    BY <1>2, <1>3, <2>4, RulesBelowDoNotMatter
  <2>. QED
    BY <1>3, <2>1, <2>5, Zenon
<1>5. /\ ExcludedBy(e, FALSE, rules) <=> \E k \in 1 .. Len(e) : Excludes(SubSeq(e, 1, k), TRUE, rules)
      /\ ExcludedBy(e, FALSE, rules') <=> \E k \in 1 .. Len(e) : Excludes(SubSeq(e, 1, k), TRUE, rules')
  BY <1>2, DirectoryIsExcluded
<1>. QED
  BY <1>4, <1>5, Zenon

LEMMA ReadIgnoreFileKeeps ==
  ASSUME IgnoreInvariant, NEW d \in IgnoreFiles, ReadIgnoreFile(d) PROVE IgnoreInvariant'
<1>1. /\ ignoreAt = "reading" /\ IgnoreTypeOK /\ Collected
      /\ d \in NextIgnore /\ pending' = pending \ {d} /\ policy' = policy /\ excludedPaths' = excludedPaths
  BY DEF IgnoreInvariant, ReadIgnoreFile
<1>2. /\ policy.fallback /\ d \in pending /\ d \notin Considered
      /\ Considered' = Considered \cup {d} /\ (~ policy'.fallback => pending' = {})
      /\ \A e \in Considered : Len(e) <= Len(d)
      /\ \A c \in Considered', e \in pending' : Len(c) <= Len(e)
  BY <1>1, ConsideredGrows
<1>3. /\ readIgnores \subseteq Considered /\ d \notin readIgnores /\ Considered \subseteq IgnoreFiles
      /\ \A e \in Considered : e \in readIgnores \/ gitignore[e] = <<>> \/ ExcludedBy(e, FALSE, rules)
      /\ \A e \in readIgnores : ~ ExcludedBy(e, FALSE, rules)
      /\ Len(rules) <= MaximumPatterns
  <2>1. readIgnores \subseteq Considered /\ Considered \subseteq IgnoreFiles
    BY <1>1 DEF Collected, Considered
  <2>. QED
    BY <1>1, <1>2, <2>1 DEF Collected
<1>4. PICK line : Numbers(line)
  BY <1>1 DEF Collected
<1>5. d \in Seq(Names) /\ Len(d) \in Nat
  BY IgnoreAssumption, LenProperties
<1>6. ASSUME ~ (d # <<>> /\ ExcludedBy(d, FALSE, rules)) PROVE ~ ExcludedBy(d, FALSE, rules)
  <2>1. CASE d = <<>>
    <3>1. Len(d) = 0
      BY <2>1
    <3>2. ExcludedBy(d, FALSE, rules) <=> \E depth \in 1 .. Len(d) : Excludes(SubSeq(d, 1, depth), TRUE, rules)
      BY <1>5, DirectoryIsExcluded
    <3>3. \A depth \in 1 .. Len(d) : FALSE
      BY <3>1
    <3>. QED
      BY <3>2, <3>3, Zenon
  <2>. QED
    BY <1>6, <2>1
<1>7. CASE ExcludedBy(d, FALSE, rules) /\ UNCHANGED <<gitignore, rules, readIgnores, ignoreAt>>
  <2>1. IgnoreTypeOK'
    BY <1>1, <1>7 DEF IgnoreTypeOK
  <2>2. Numbers(line)'
    BY <1>1, <1>4, <1>7, NumbersStay
  <2>3. Collected'
    BY <1>2, <1>3, <1>7, <2>2 DEF Collected
  <2>. QED
    BY <1>1, <1>7, <2>1, <2>3 DEF IgnoreInvariant
<1>8. CASE /\ ~ ExcludedBy(d, FALSE, rules)
           /\ gitignore' = [gitignore EXCEPT ![d] = <<>>]
           /\ UNCHANGED <<rules, readIgnores, ignoreAt>>
  <2>1. IgnoreTypeOK'
    <3>1. gitignore' \in [IgnoreFiles -> Seq(IgnorePatterns)]
      BY <1>1, <1>8 DEF IgnoreTypeOK
    <3>. QED
      BY <1>1, <1>8, <3>1 DEF IgnoreTypeOK
  <2>2. gitignore'[d] = <<>> /\ \A e \in IgnoreFiles : e # d => gitignore'[e] = gitignore[e]
    BY <1>1, <1>8 DEF IgnoreTypeOK
  <2>3. Numbers(line)'
    BY <1>1, <1>3, <1>4, <1>8, <2>2, NumbersStayElsewhere
  <2>4. \A e \in Considered' : e \in readIgnores' \/ gitignore'[e] = <<>> \/ ExcludedBy(e, FALSE, rules')
    BY <1>2, <1>3, <1>8, <2>2
  <2>5. Collected'
    BY <1>2, <1>3, <1>8, <2>3, <2>4 DEF Collected
  <2>. QED
    BY <1>1, <1>8, <2>1, <2>5 DEF IgnoreInvariant
<1>9. ASSUME ~ ExcludedBy(d, FALSE, rules), UNCHANGED gitignore, readIgnores' \subseteq readIgnores \cup {d},
             ignoreAt' = "failed", UNCHANGED rules
      PROVE  IgnoreInvariant'
  <2>1. IgnoreTypeOK'
    BY <1>1, <1>9 DEF IgnoreTypeOK
  <2>2. PatternsInForce' = PatternsInForce
    BY <1>1, <1>9 DEF PatternsInForce
  <2>3. \A path, isDir : GitVerdict(path, isDir)' <=> GitVerdict(path, isDir)
    BY <1>1, <1>9 DEF GitVerdict, Layers
  <2>4. ASSUME OneGlobstar, NEW e \in readIgnores'
        PROVE  ~ \E depth \in 1 .. Len(e) : GitVerdict(SubSeq(e, 1, depth), TRUE)
    <3>1. CASE e = d
      BY <1>1, <1>9, <2>4, <3>1, NextIsSettled, NothingReadBelowIgnored
    <3>2. CASE e \in readIgnores
      BY <1>1, <2>4, <3>2, CollectedReadsOutside DEF ReadsOutsideIgnored, OneGlobstar
    <3>. QED
      BY <1>9, <3>1, <3>2
  <2>5. ReadsOutsideIgnored'
    BY <2>2, <2>3, <2>4 DEF ReadsOutsideIgnored, OneGlobstar
  <2>. QED
    BY <1>9, <2>1, <2>5 DEF IgnoreInvariant
<1>10. ASSUME ~ ExcludedBy(d, FALSE, rules), Appends(d), ignoreAt' = "reading", Len(rules') <= MaximumPatterns,
              rules' \in Seq(Rules)
       PROVE  IgnoreInvariant'
  <2>1. gitignore' = gitignore /\ readIgnores' = readIgnores \cup {d}
    BY <1>10 DEF Appends
  <2>2. IgnoreTypeOK'
    BY <1>1, <1>10, <2>1 DEF IgnoreTypeOK
  <2>3. \E more : Numbers(more)'
    <3>1. \A e \in readIgnores : Len(e) <= Len(d)
      BY <1>2, <1>3
    <3>. QED
      BY <1>1, <1>3, <1>4, <1>10, <3>1, NumbersGrow
  <2>4. \A e \in Considered' : ExcludedBy(e, FALSE, rules') <=> ExcludedBy(e, FALSE, rules)
    <3>1. \A e \in Considered' : e \in IgnoreFiles /\ Len(e) <= Len(d)
      BY <1>2, <1>3, <1>5
    <3>. QED
      BY <1>1, <1>10, <3>1, DirectoriesStayDecided
  <2>5. \A e \in Considered' : e \in readIgnores' \/ gitignore'[e] = <<>> \/ ExcludedBy(e, FALSE, rules')
    BY <1>2, <1>3, <2>1, <2>4
  <2>6. readIgnores' \subseteq Considered' /\ \A e \in readIgnores' : ~ ExcludedBy(e, FALSE, rules')
    BY <1>2, <1>3, <1>10, <2>1, <2>4
  <2>7. Collected'
    BY <1>2, <1>10, <2>3, <2>5, <2>6 DEF Collected
  <2>. QED
    BY <1>10, <2>2, <2>7 DEF IgnoreInvariant
<1>11. CASE /\ ~ ExcludedBy(d, FALSE, rules) /\ readIgnores' = readIgnores \cup {d}
            /\ AddRules(RulesOf(gitignore[d], SourceRank.gitignore, d)) /\ UNCHANGED gitignore
  <2>1. PICK added : added = RulesOf(gitignore[d], 1, d)
    OBVIOUS
  <2>2. AddRules(added)
    BY <1>11, <2>1 DEF SourceRank
  <2>3. CASE Len(rules) + Len(added) > MaximumPatterns
    BY <1>9, <1>11, <2>2, <2>3 DEF AddRules
  <2>4. CASE ~ (Len(rules) + Len(added) > MaximumPatterns)
    <3>1. ignoreAt' = "reading" /\ rules' = rules \o added
      BY <2>2, <2>4 DEF AddRules
    <3>2. Appends(d)
      BY <1>1, <1>11, <2>1, <3>1 DEF Appends
    <3>3. added \in Seq(Rules) /\ rules \in Seq(Rules)
      <4>1. gitignore[d] \in Seq(Patterns) /\ 1 \in Ranks
        <5>1. LinesOf(1, d) \in Seq(Patterns)
          BY <1>1, LineTypes DEF Ranks
        <5>. QED
          BY <5>1 DEF LinesOf, Ranks
      <4>. QED
        BY <1>1, <1>5, <2>1, <4>1, RulesOfLines DEF IgnoreTypeOK
    <3>4. rules' \in Seq(Rules) /\ Len(rules') <= MaximumPatterns
      <4>1. /\ rules \o added \in Seq(Rules) /\ Len(rules \o added) = Len(rules) + Len(added)
            /\ Len(rules) \in Nat /\ Len(added) \in Nat
        BY <3>3, ConcatProperties, LenProperties
      <4>. QED
        BY <2>4, <3>1, <4>1, IgnoreAssumption
    <3>. QED
      BY <1>10, <1>11, <3>1, <3>2, <3>4
  <2>. QED
    BY <2>3, <2>4
<1>. QED
  <2>1. CASE d # <<>> /\ ExcludedBy(d, FALSE, rules)
    BY <1>7, <2>1 DEF ReadIgnoreFile
  <2>2. CASE ~ (d # <<>> /\ ExcludedBy(d, FALSE, rules))
    <3>1. ~ ExcludedBy(d, FALSE, rules)
      BY <1>6, <2>2
    <3>2. \/ /\ readIgnores' = readIgnores \cup {d}
             /\ AddRules(RulesOf(gitignore[d], SourceRank.gitignore, d))
             /\ UNCHANGED gitignore
          \/ /\ gitignore' = [gitignore EXCEPT ![d] = <<>>]
             /\ UNCHANGED <<rules, readIgnores, ignoreAt>>
          \/ ignoreAt' = "failed" /\ UNCHANGED <<gitignore, rules, readIgnores>>
      BY <2>2 DEF ReadIgnoreFile
    <3>. QED
      BY <1>8, <1>9, <1>11, <3>1, <3>2
  <2>. QED
    BY <2>1, <2>2

(* For any built-in patterns, .gitignore files, policy and candidates: the flat list that
   applyIgnoreRules collects, with the ranks and running numbers addRule gives the rules and
   the table compiledMatches fills, excludes exactly the paths that Git's order of sources and
   directories and Git's grammar exclude, unless a pattern has a "**" before a last one; and
   no .gitignore below an ignored directory is read, whatever could not be read, was cut short
   by the limit of patterns or failed. *)
THEOREM IgnoresFollowGit == IgnoreSpec => []DecisionsFollowGit
<1>1. IgnoreInit => IgnoreInvariant
  BY IgnoreBegins
<1>2. IgnoreInvariant /\ [IgnoreNext]_ignoreVars => IgnoreInvariant'
  <2>1. ASSUME IgnoreInvariant, IgnoreNext PROVE IgnoreInvariant'
    <3>1. CASE CollectPolicy
      BY <2>1, <3>1, CollectPolicyKeeps
    <3>2. CASE \E d \in IgnoreFiles : ReadIgnoreFile(d)
      BY <2>1, <3>2, ReadIgnoreFileKeeps
    <3>3. CASE Decide
      BY <2>1, <3>3, DecideKeeps
    <3>. QED
      BY <2>1, <3>1, <3>2, <3>3 DEF IgnoreNext
  <2>. QED
    BY <2>1, IgnoreStutters
<1>3. IgnoreInvariant => DecisionsFollowGit
  BY InvariantFollowsGit
<1>. QED
  BY <1>1, <1>2, <1>3, PTL DEF IgnoreSpec
=============================================================================
