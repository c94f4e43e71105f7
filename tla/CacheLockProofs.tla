--------------------------- MODULE CacheLockProofs ---------------------------
EXTENDS CacheLock, FiniteSetTheorems, TLAPS

LEMMA NotASlot == None \notin Slots /\ Initial \notin Slots
  BY ConstantsAssumption DEF None, Initial, Slots

\* What Return leaves of the acquisition of p.
LEMMA ReturnType ==
  ASSUME TypeOK, NEW p \in Procs, NEW code \in Results, Return(p, code)
  PROVE  /\ pc' \in [Procs -> PCs]
         /\ result' \in [Procs -> Results]
         /\ attempt' \in [Procs -> 0 .. MaxAttempts]
         /\ slot' \in [Procs -> Slots \cup {None}]
         /\ expired' \in [Procs -> BOOLEAN]
         /\ listed' \in [Procs -> SUBSET Paths]
         /\ unscanned' \in [Procs -> SUBSET Slots]
         /\ cur' \in [Procs -> Paths]
         /\ visited' \in [Procs -> SUBSET Paths]
  BY ConstantsAssumption DEF TypeOK, Return, ResetWalk, PCs, Paths

LEMMA SettleType ==
  ASSUME TypeOK, NEW p \in Procs, NEW code \in Results, Settle(p, code)
  PROVE  /\ pc' \in [Procs -> PCs]
         /\ result' \in [Procs -> Results]
         /\ attempt' \in [Procs -> 0 .. MaxAttempts]
         /\ slot' \in [Procs -> Slots \cup {None}]
         /\ expired' \in [Procs -> BOOLEAN]
         /\ listed' \in [Procs -> SUBSET Paths]
         /\ unscanned' \in [Procs -> SUBSET Slots]
         /\ cur' \in [Procs -> Paths]
         /\ visited' \in [Procs -> SUBSET Paths]
  <1>1. CASE code = "busy" /\ attempt[p] < MaxAttempts
    BY <1>1, SMTT(30) DEF Settle, TypeOK, ResetWalk, PCs, Acquiring, Paths, Results
  <1>2. CASE ~(code = "busy" /\ attempt[p] < MaxAttempts)
    <2>1. (IF code = "busy" THEN "lock-timeout" ELSE code) \in Results
      BY DEF Results
    <2> QED BY <1>2, <2>1, ReturnType DEF Settle
  <1> QED BY <1>1, <1>2

LEMMA TypeStep ==
  ASSUME TypeOK, AttemptLeft, NEW p \in Procs, Step(p)
  PROVE  TypeOK'
  <1> USE NotASlot
  <1>1. CASE ListGenerations(p)
    BY <1>1 DEF ListGenerations, TypeOK, Goto, At, PCs, Acquiring, Select, Existing, disk
  <1>2. CASE BeginScan(p)
    BY <1>2 DEF BeginScan, TypeOK, Goto, At, PCs, Acquiring, Select, disk
  <1>3. CASE ScanSlot(p)
    <2>1. PICK s \in unscanned[p] :
            \/ /\ Settle(p, "unsafe-cache")
               /\ UNCHANGED <<disk, listening, crashes>>
            \/ /\ unscanned' = [unscanned EXCEPT ![p] = @ \ {s}]
               /\ UNCHANGED <<disk, listening, pc, expired, attempt, listed, cur,
                              visited, slot, result, crashes>>
      BY <1>3 DEF ScanSlot
    <2>2. "unsafe-cache" \in Results
      BY DEF Results
    <2>3. CASE Settle(p, "unsafe-cache") /\ UNCHANGED <<disk, listening, crashes>>
      BY <2>2, <2>3, SettleType DEF TypeOK, disk
    <2> QED BY <2>1, <2>3 DEF TypeOK, disk
  <1>4. CASE ProbeNotDead(p)
    <2>1. PICK code \in Results : Settle(p, code)
      BY <1>4 DEF ProbeNotDead, Results
    <2> QED BY <1>4, <2>1, SettleType DEF ProbeNotDead, TypeOK, disk
  <1>5. CASE WalkUnexplained(p)
    <2>1. PICK code \in Results : Settle(p, code)
      BY <1>5 DEF WalkUnexplained, Results
    <2> QED BY <1>5, <2>1, SettleType DEF WalkUnexplained, TypeOK, disk
  <1>6. CASE ProbeDead(p)
    BY <1>6 DEF ProbeDead, TypeOK, Paths, At, disk
  <1>7. CASE WalkEnds(p)
    <2>1. \/ Settle(p, "unsafe-cache") \/ Settle(p, "resource-limit")
          \/ /\ Goto(p, "reserve")
             /\ listed' = [listed EXCEPT ![p] = {}]
             /\ visited' = [visited EXCEPT ![p] = {}]
             /\ UNCHANGED <<expired, attempt, unscanned, cur, slot, result>>
      BY <1>7 DEF WalkEnds
    <2>2. UNCHANGED <<rec, gen, listening, crashes>>
      BY <1>7 DEF WalkEnds, disk
    <2>3. "unsafe-cache" \in Results /\ "resource-limit" \in Results
      BY DEF Results
    <2>4. CASE Settle(p, "unsafe-cache") \/ Settle(p, "resource-limit")
      BY <2>2, <2>3, <2>4, SettleType DEF TypeOK
    <2>5. CASE /\ Goto(p, "reserve")
               /\ listed' = [listed EXCEPT ![p] = {}]
               /\ visited' = [visited EXCEPT ![p] = {}]
               /\ UNCHANGED <<expired, attempt, unscanned, cur, slot, result>>
      BY <2>2, <2>5 DEF TypeOK, Goto, PCs, Acquiring, Select
    <2> QED BY <2>1, <2>4, <2>5
  <1>8. CASE ReserveSlot(p)
    <2>1. CASE \E s \in Slots : rec[s] = "absent"
      BY <1>8, <2>1 DEF ReserveSlot, TypeOK, Goto, PCs, Acquiring, RecordStates, walk
    <2>2. CASE ~\E s \in Slots : rec[s] = "absent"
      <3>1. Settle(p, "resource-limit") /\ UNCHANGED <<rec, gen, listening, crashes>>
        BY <1>8, <2>2 DEF ReserveSlot, disk
      <3>2. "resource-limit" \in Results
        BY DEF Results
      <3> QED BY <3>1, <3>2, SettleType DEF TypeOK
    <2> QED BY <2>1, <2>2
  <1>9. CASE Listen(p)
    BY <1>9 DEF Listen, TypeOK, Goto, PCs, Acquiring, Publish, disk, walk
  <1>13. CASE CreateRecord(p)
    BY <1>13 DEF CreateRecord, TypeOK, Goto, PCs, Acquiring, Publish, RecordStates, walk
  <1>14. CASE WriteRecord(p)
    BY <1>14 DEF WriteRecord, TypeOK, Goto, PCs, Acquiring, Publish, RecordStates, walk
  <1>20. CASE CheckBudget(p)
    BY <1>20 DEF CheckBudget, TypeOK, Goto, PCs, Acquiring, Publish, disk, walk
  <1>15. CASE LinkGeneration(p)
    BY <1>15 DEF LinkGeneration, TypeOK, Goto, PCs, Acquiring, Publish, Results, walk
  <1>16. CASE Complete(p)
    BY <1>16 DEF Complete, TypeOK, Goto, PCs, Results, disk, walk
  <1>10. CASE CloseHolder(p)
    <2>1. result[p] \in Results
      BY DEF TypeOK
    <2> QED BY <1>10, <2>1, SettleType DEF CloseHolder, TypeOK, disk
  <1>11. CASE Retry(p)
    BY <1>11, ConstantsAssumption
       DEF Retry, TypeOK, AttemptLeft, Goto, At, PCs, Acquiring, Select, disk, walk
  <1>12. CASE FinishRelease(p)
    <2>1. "released" \in Results
      BY DEF Results
    <2> QED BY <1>12, <2>1, ReturnType DEF FinishRelease, TypeOK, disk
  <1> QED
    BY <1>1, <1>2, <1>3, <1>4, <1>5, <1>6, <1>7, <1>8, <1>9, <1>10, <1>11, <1>12,
       <1>13, <1>14, <1>15, <1>16, <1>20 DEF Step

LEMMA TypeEnvironment ==
  ASSUME TypeOK, NEW p \in Procs, Environment(p)
  PROVE  TypeOK'
  <1> USE NotASlot
  <1>1. CASE Acquire(p)
    BY <1>1, ConstantsAssumption
       DEF Acquire, TypeOK, Goto, PCs, Acquiring, Select, Results, disk, walk
  <1>2. CASE Release(p)
    BY <1>2 DEF Release, TypeOK, Goto, PCs, disk, walk
  <1>3. CASE HolderTimer(p)
    BY <1>3 DEF HolderTimer, TypeOK, disk, walk
  <1>4. CASE Interrupt(p)
    <2>1. "interrupted" \in Results
      BY DEF Results
    <2>2. CASE Return(p, "interrupted")
      BY <1>4, <2>1, <2>2, ReturnType DEF Interrupt, TypeOK, disk
    <2>3. CASE ~Return(p, "interrupted")
      BY <1>4, <2>1, <2>3 DEF Interrupt, TypeOK, Goto, PCs, Acquiring, disk, walk
    <2> QED BY <2>2, <2>3
  <1>5. CASE CleanupLapses(p)
    <2>1. PICK code \in Results : Return(p, code)
      BY <1>5 DEF CleanupLapses, TypeOK, Results
    <2> QED BY <1>5, <2>1, ReturnType DEF CleanupLapses, TypeOK, disk
  <1>6. CASE ReleaseFails(p)
    <2>1. PICK code \in Results : Return(p, code)
      BY <1>6 DEF ReleaseFails, Results
    <2> QED BY <1>6, <2>1, ReturnType DEF ReleaseFails, TypeOK, disk
  <1>7. CASE Crash(p)
    <2>1. PICK code \in Results : Return(p, code)
      BY <1>7 DEF Crash, Results
    <2>2. crashes' \in 0 .. MaxCrashes
      BY <1>7, ConstantsAssumption DEF Crash, TypeOK
    <2> QED BY <1>7, <2>1, <2>2, ReturnType DEF Crash, TypeOK, disk
  <1> QED
    BY <1>1, <1>2, <1>3, <1>4, <1>5, <1>6, <1>7 DEF Environment

-----------------------------------------------------------------------------

LEMMA LinkedUnchanged == UNCHANGED gen => Linked' = Linked
  BY DEF Linked

LEMMA OwningPoints ==
  /\ Publish \cup Unlinked \cup Served \cup {"cleanup"} \subseteq Owning
  /\ "wait" \notin Owning /\ "idle" \notin Owning /\ Owning \cap Select = {}
  BY DEF Owning, Publish, Unlinked, Served, Select

\* A step that ends with p owning nothing: it may close servers of p, and its
\* walk stands at the initial path or below a dead generation.
LEMMA Disengage ==
  ASSUME LockInvariant, TypeOK', NEW p \in Procs,
         UNCHANGED disk,
         pc'[p] \notin Owning,
         slot'[p] = None,
         pc'[p] = "wait" => attempt'[p] < MaxAttempts,
         cur'[p] # Initial => cur'[p] \in Linked /\ listening[cur'[p]] = NoProc,
         \A q \in Procs \ {p} : /\ pc'[q] = pc[q]
                                /\ slot'[q] = slot[q]
                                /\ cur'[q] = cur[q]
                                /\ expired'[q] = expired[q]
                                /\ attempt'[q] = attempt[q],
         \A s \in Slots :
           \/ listening'[s] = listening[s]
           \/ listening'[s] = NoProc /\ (listening[s] = p \/ s = slot[p])
  PROVE  LockInvariant'
  <1> USE DEF LockInvariant
  <1>1. rec' = rec /\ gen' = gen /\ Linked' = Linked /\ Existing' = Existing
    BY LinkedUnchanged DEF disk, Existing
  <1>2. AttemptLeft'
    BY DEF AttemptLeft
  <1>3. OneChain'
    BY <1>1, NotASlot DEF OneChain, TypeOK
  <1>4. WalkedOverDead'
    <2> SUFFICES ASSUME NEW q \in Procs, cur'[q] # Initial
                 PROVE  cur'[q] \in Linked /\ listening'[cur'[q]] = NoProc
      BY <1>1 DEF WalkedOverDead
    <2>1. cur'[q] \in Linked /\ listening[cur'[q]] = NoProc
      BY DEF WalkedOverDead
    <2> QED BY <2>1 DEF Linked
  <1>5. SlotsAreOwned'
    BY DEF SlotsAreOwned
  <1>6. RecordProgress'
    BY <1>1 DEF RecordProgress, Owning, Unlinked, Served, Publish
  <1>7. HolderServes'
    <2>1. \A q \in Procs \ {p} : pc'[q] \in Publish \cup Served =>
             slot[q] \in Slots /\ slot[q] # slot[p]
      BY NotASlot, OwningPoints DEF SlotsAreOwned, TypeOK
    <2> SUFFICES ASSUME NEW q \in Procs \ {p}
                 PROVE  /\ pc'[q] \in Publish \cup Served /\ ~expired'[q]
                             => listening'[slot'[q]] = q
                        /\ pc'[q] \in Publish /\ expired'[q]
                             => listening'[slot'[q]] = NoProc
                        /\ pc'[q] \in {"held", "release"} => ~expired'[q]
      BY OwningPoints DEF HolderServes, Served
    <2> QED BY <2>1, ConstantsAssumption DEF HolderServes
  <1> QED BY <1>2, <1>3, <1>4, <1>5, <1>6, <1>7

LEMMA ReturnDisengages ==
  ASSUME LockInvariant, TypeOK', NEW p \in Procs, NEW code, Return(p, code),
         UNCHANGED disk,
         \A s \in Slots :
           \/ listening'[s] = listening[s]
           \/ listening'[s] = NoProc /\ (listening[s] = p \/ s = slot[p])
  PROVE  LockInvariant'
  <1>1. /\ pc'[p] = "idle"
        /\ slot'[p] = None
        /\ cur'[p] = Initial
    BY DEF Return, ResetWalk, LockInvariant, TypeOK
  <1>2. \A q \in Procs \ {p} : /\ pc'[q] = pc[q]
                               /\ slot'[q] = slot[q]
                               /\ cur'[q] = cur[q]
                               /\ expired'[q] = expired[q]
                               /\ attempt'[q] = attempt[q]
    BY DEF Return, ResetWalk, LockInvariant, TypeOK
  <1>3. pc'[p] \notin Owning
    BY <1>1, OwningPoints
  <1> QED BY <1>1, <1>2, <1>3, Disengage

LEMMA SettleDisengages ==
  ASSUME LockInvariant, TypeOK', NEW p \in Procs, NEW code, Settle(p, code),
         UNCHANGED disk,
         \A s \in Slots :
           \/ listening'[s] = listening[s]
           \/ listening'[s] = NoProc /\ (listening[s] = p \/ s = slot[p])
  PROVE  LockInvariant'
  <1>1. CASE code = "busy" /\ attempt[p] < MaxAttempts
    <2>1. /\ pc'[p] = "wait"
          /\ slot'[p] = None
          /\ cur'[p] = Initial
          /\ attempt'[p] < MaxAttempts
      BY <1>1 DEF Settle, ResetWalk, LockInvariant, TypeOK
    <2>2. \A q \in Procs \ {p} : /\ pc'[q] = pc[q]
                                 /\ slot'[q] = slot[q]
                                 /\ cur'[q] = cur[q]
                                 /\ expired'[q] = expired[q]
                                 /\ attempt'[q] = attempt[q]
      BY <1>1 DEF Settle, ResetWalk, LockInvariant, TypeOK
    <2>3. pc'[p] \notin Owning
      BY <2>1, OwningPoints
    <2> QED BY <2>1, <2>2, <2>3, Disengage
  <1>2. CASE ~(code = "busy" /\ attempt[p] < MaxAttempts)
    BY <1>2, ReturnDisengages DEF Settle
  <1> QED BY <1>1, <1>2

-----------------------------------------------------------------------------

\* #selectLockSlot and the wait between attempts.
LEMMA SelectStep ==
  ASSUME LockInvariant, TypeOK', NEW p \in Procs,
         \/ Acquire(p) \/ ListGenerations(p) \/ BeginScan(p) \/ ScanSlot(p)
         \/ ProbeNotDead(p) \/ WalkUnexplained(p) \/ ProbeDead(p) \/ WalkEnds(p)
         \/ Retry(p)
  PROVE  LockInvariant'
  <1>1. UNCHANGED <<disk, listening>>
    BY DEF Acquire, ListGenerations, BeginScan, ScanSlot, ProbeNotDead, WalkUnexplained,
           ProbeDead, WalkEnds, Retry
  <1>2. CASE \E code : Settle(p, code)
    BY <1>1, <1>2, SettleDisengages
  <1>3. CASE ~\E code : Settle(p, code)
    <2>1. pc[p] \notin Owning /\ pc'[p] \notin Owning
      BY <1>3 DEF Acquire, ListGenerations, BeginScan, ScanSlot, ProbeNotDead,
                  WalkUnexplained, ProbeDead, WalkEnds, Retry, Goto, At, Owning, Publish,
                  LockInvariant, TypeOK
    <2>2. slot'[p] = None
      BY <1>3, <2>1 DEF Acquire, ListGenerations, BeginScan, ScanSlot, ProbeNotDead,
                  WalkUnexplained, ProbeDead, WalkEnds, Retry, LockInvariant, SlotsAreOwned
    <2>3. pc'[p] # "wait"
      BY <1>3 DEF Acquire, ListGenerations, BeginScan, ScanSlot, ProbeNotDead,
                  WalkUnexplained, ProbeDead, WalkEnds, Retry, Goto, At,
                  LockInvariant, TypeOK
    <2>4. cur'[p] # Initial => cur'[p] \in Linked /\ listening[cur'[p]] = NoProc
      <3>1. CASE ProbeDead(p)
        BY <3>1 DEF ProbeDead, LockInvariant, TypeOK, Linked
      <3>2. CASE ~ProbeDead(p)
        BY <1>3, <3>2 DEF Acquire, ListGenerations, BeginScan, ScanSlot, ProbeNotDead,
                  WalkUnexplained, WalkEnds, Retry, LockInvariant, WalkedOverDead, walk
      <3> QED BY <3>1, <3>2
    <2>5. \A q \in Procs \ {p} : /\ pc'[q] = pc[q]
                                 /\ slot'[q] = slot[q]
                                 /\ cur'[q] = cur[q]
                                 /\ expired'[q] = expired[q]
                                 /\ attempt'[q] = attempt[q]
      BY <1>3 DEF Acquire, ListGenerations, BeginScan, ScanSlot, ProbeNotDead,
                  WalkUnexplained, ProbeDead, WalkEnds, Retry, Goto, LockInvariant, TypeOK, walk
    <2> QED BY <1>1, <2>1, <2>2, <2>3, <2>4, <2>5, Disengage
  <1> QED BY <1>2, <1>3

LEMMA ReserveStep ==
  ASSUME LockInvariant, TypeOK', NEW p \in Procs, ReserveSlot(p)
  PROVE  LockInvariant'
  <1> USE DEF LockInvariant
  <1>1. CASE ~\E s \in Slots : rec[s] = "absent"
    BY <1>1, SettleDisengages DEF ReserveSlot
  <1>2. CASE \E s \in Slots : rec[s] = "absent"
    <2>1. PICK s \in Slots : /\ rec[s] = "absent"
                             /\ rec' = [rec EXCEPT ![s] = "slot"]
                             /\ slot' = [slot EXCEPT ![p] = s]
                             /\ Goto(p, "listen")
                             /\ UNCHANGED <<gen, listening, expired, attempt, cur>>
      BY <1>2 DEF ReserveSlot, walk
    <2>2. Linked' = Linked /\ Existing' = Existing
      BY <2>1, LinkedUnchanged DEF Existing
    <2>3. s \notin Linked
      BY <2>1 DEF RecordProgress
    <2>4. \A q \in Procs \ {p} : slot[q] # s
      BY <2>1, NotASlot DEF SlotsAreOwned, RecordProgress
    <2>5. AttemptLeft'
      BY <2>1 DEF AttemptLeft, Goto, TypeOK
    <2>6. OneChain'
      BY <2>1, <2>2 DEF OneChain
    <2>7. WalkedOverDead'
      BY <2>1, <2>2 DEF WalkedOverDead
    <2>8. SlotsAreOwned'
      BY <2>1, <2>4, NotASlot DEF SlotsAreOwned, Goto, TypeOK, Owning
    <2>9. RecordProgress'
      <3>1. \A t \in Linked' : rec'[t] = "full"
        BY <2>1, <2>2, <2>3 DEF RecordProgress, TypeOK, Linked
      <3>2. pc'[p] = "listen" /\ slot'[p] = s /\ rec'[s] = "slot"
        BY <2>1 DEF Goto, TypeOK
      <3>3. \A q \in Procs \ {p} : pc'[q] = pc[q] /\ slot'[q] = slot[q]
                                  /\ rec'[slot[q]] = rec[slot[q]]
        BY <2>1, <2>4 DEF Goto, TypeOK
      <3> QED BY <2>2, <2>3, <3>1, <3>2, <3>3 DEF RecordProgress, Unlinked, Served, Owning
    <2>10. HolderServes'
      BY <2>1 DEF HolderServes, Goto, TypeOK, Publish, Served
    <2> QED BY <2>5, <2>6, <2>7, <2>8, <2>9, <2>10
  <1> QED BY <1>1, <1>2

LEMMA ListenStep ==
  ASSUME LockInvariant, TypeOK', NEW p \in Procs, Listen(p)
  PROVE  LockInvariant'
  <1> USE DEF LockInvariant
  <1>1. /\ pc[p] = "listen" /\ ~expired[p]
        /\ pc' = [pc EXCEPT ![p] = "create"]
        /\ listening' = [listening EXCEPT ![slot[p]] = p]
        /\ UNCHANGED <<rec, gen, expired, attempt, cur, slot>>
    BY DEF Listen, At, Goto, disk, walk
  <1>2. Linked' = Linked /\ Existing' = Existing
    BY <1>1, LinkedUnchanged DEF Existing
  <1>3. slot[p] \in Slots /\ slot[p] \notin Linked
    BY <1>1, NotASlot DEF SlotsAreOwned, RecordProgress, TypeOK, Owning, Unlinked
  <1>4. \A t \in Linked : listening'[t] = listening[t]
    BY <1>1, <1>3 DEF TypeOK, Linked
  <1>5. AttemptLeft'
    BY <1>1 DEF AttemptLeft, TypeOK
  <1>6. OneChain'
    BY <1>1, <1>2, <1>4 DEF OneChain
  <1>7. WalkedOverDead'
    BY <1>1, <1>2, <1>4 DEF WalkedOverDead
  <1>8. SlotsAreOwned'
    BY <1>1 DEF SlotsAreOwned, TypeOK, Owning, Publish
  <1>9. RecordProgress'
    BY <1>1, <1>2 DEF RecordProgress, TypeOK, Owning, Publish, Unlinked, Served
  <1>10. HolderServes'
    BY <1>1, <1>3, NotASlot DEF HolderServes, SlotsAreOwned, TypeOK, Owning, Publish, Served
  <1> QED BY <1>5, <1>6, <1>7, <1>8, <1>9, <1>10

LEMMA RecordStep ==
  ASSUME LockInvariant, TypeOK', NEW p \in Procs,
         CreateRecord(p) \/ WriteRecord(p) \/ CheckBudget(p)
  PROVE  LockInvariant'
  <1> USE DEF LockInvariant
  <1>1. /\ pc[p] \in {"create", "write", "check"}
        /\ pc' = [pc EXCEPT ![p] = IF pc[p] = "create" THEN "write"
                                   ELSE IF pc[p] = "write" THEN "check" ELSE "link"]
        /\ rec' = [rec EXCEPT ![slot[p]] = IF pc[p] = "create" THEN "empty" ELSE "full"]
        /\ UNCHANGED <<gen, listening, expired, attempt, cur, slot>>
    <2>1. CASE CreateRecord(p) \/ WriteRecord(p)
      BY <2>1 DEF CreateRecord, WriteRecord, Goto, walk
    <2>2. CASE CheckBudget(p)
      <3>1. pc[p] = "check" /\ slot[p] \in Slots
        BY <2>2, NotASlot DEF CheckBudget, At, SlotsAreOwned, TypeOK, Owning, Publish
      <3>2. rec[slot[p]] = "full"
        BY <3>1 DEF RecordProgress
      <3>3. rec' = [rec EXCEPT ![slot[p]] = "full"]
        BY <2>2, <3>2 DEF CheckBudget, TypeOK, disk
      <3> QED BY <2>2, <3>1, <3>3 DEF CheckBudget, Goto, disk, walk
    <2> QED BY <2>1, <2>2
  <1>2. Linked' = Linked /\ Existing' = Existing
    BY <1>1, LinkedUnchanged DEF Existing
  <1>3. slot[p] \in Slots /\ slot[p] \notin Linked
    BY <1>1, NotASlot DEF SlotsAreOwned, RecordProgress, TypeOK, Owning, Publish, Unlinked
  <1>5. AttemptLeft'
    BY <1>1 DEF AttemptLeft, TypeOK
  <1>6. OneChain'
    BY <1>1, <1>2 DEF OneChain
  <1>7. WalkedOverDead'
    BY <1>1, <1>2 DEF WalkedOverDead
  <1>8. SlotsAreOwned'
    BY <1>1 DEF SlotsAreOwned, TypeOK, Owning, Publish
  <1>9. RecordProgress'
    <2>1. \A t \in Linked' : rec'[t] = "full"
      BY <1>1, <1>2, <1>3 DEF RecordProgress, TypeOK, Linked
    <2>2. \A q \in Procs \ {p} : pc[q] \in Owning => rec'[slot[q]] = rec[slot[q]]
      BY <1>1, <1>3, NotASlot DEF SlotsAreOwned, TypeOK
    <2>3. rec'[slot[p]] = IF pc[p] = "create" THEN "empty" ELSE "full"
      BY <1>1, <1>3 DEF TypeOK
    <2> QED BY <1>1, <1>2, <1>3, <2>1, <2>2, <2>3
            DEF RecordProgress, TypeOK, Owning, Publish, Unlinked, Served
  <1>10. HolderServes'
    BY <1>1 DEF HolderServes, TypeOK, Publish, Served
  <1> QED BY <1>5, <1>6, <1>7, <1>8, <1>9, <1>10

\* The link appends one generation to the chain, below a dead tip or as the
\* first one.
LEMMA LinkAppends ==
  ASSUME LockInvariant, NEW p \in Procs, LinkGeneration(p), gen[cur[p]] = None
  PROVE  /\ slot[p] \in Slots \ Linked
         /\ gen' = [gen EXCEPT ![cur[p]] = slot[p]]
         /\ gen'[slot[p]] = None
         /\ Linked' = Linked \cup {slot[p]}
         /\ \A s \in Linked : gen'[s] # None
         /\ \A s \in Linked : listening[s] = NoProc
  <1> USE DEF LockInvariant
  <1>1. pc[p] = "link" /\ gen' = [gen EXCEPT ![cur[p]] = slot[p]]
    BY DEF LinkGeneration
  <1>2. slot[p] \in Slots /\ slot[p] \notin Linked
    BY <1>1, NotASlot DEF SlotsAreOwned, RecordProgress, TypeOK, Owning, Publish, Unlinked
  <1>3. cur[p] \in Paths /\ cur[p] # slot[p]
    BY <1>2, NotASlot DEF TypeOK, WalkedOverDead
  <1>4. gen[slot[p]] = None
    BY <1>2 DEF OneChain
  <1>5. gen'[slot[p]] = None
    BY <1>1, <1>2, <1>3, <1>4 DEF TypeOK, Paths
  <1>6. Linked' = Linked \cup {slot[p]}
    <2>1. \A x \in Paths : gen'[x] = IF x = cur[p] THEN slot[p] ELSE gen[x]
      BY <1>1 DEF TypeOK
    <2>2. \A s \in Slots : s # None
      BY NotASlot
    <2> QED BY <1>2, <1>3, <2>1, <2>2 DEF Linked
  <1>7. \A s \in Linked : gen'[s] # None
    <2>1. CASE cur[p] = Initial
      BY <2>1 DEF OneChain
    <2>2. CASE cur[p] # Initial
      <3>1. cur[p] \in Linked
        BY <2>2 DEF WalkedOverDead
      <3>2. \A s \in Linked : gen[s] = None => s = cur[p]
        BY <3>1 DEF OneChain
      <3> QED BY <1>1, <1>2, <3>2, NotASlot DEF TypeOK, Linked, Paths
    <2> QED BY <2>1, <2>2
  <1>8. \A s \in Linked : listening[s] = NoProc
    <2>1. CASE cur[p] = Initial
      BY <2>1 DEF OneChain
    <2>2. CASE cur[p] # Initial
      <3>1. cur[p] \in Linked /\ listening[cur[p]] = NoProc
        BY <2>2 DEF WalkedOverDead
      <3> QED BY <3>1 DEF OneChain, Linked
    <2> QED BY <2>1, <2>2
  <1> QED BY <1>1, <1>2, <1>5, <1>6, <1>7, <1>8

LEMMA LinkStep ==
  ASSUME LockInvariant, TypeOK', NEW p \in Procs, LinkGeneration(p)
  PROVE  LockInvariant'
  <1> USE DEF LockInvariant
  <1>1. /\ pc[p] = "link"
        /\ UNCHANGED <<rec, listening, expired, attempt, cur, slot>>
    BY DEF LinkGeneration, walk
  <1>2. CASE gen[cur[p]] # None
    <2>1. pc' = [pc EXCEPT ![p] = "cleanup"] /\ UNCHANGED gen
      BY <1>2 DEF LinkGeneration, Goto
    <2>2. Linked' = Linked /\ Existing' = Existing
      BY <2>1, LinkedUnchanged DEF Existing
    <2>3. AttemptLeft' /\ OneChain' /\ WalkedOverDead'
      BY <1>1, <2>1, <2>2 DEF AttemptLeft, OneChain, WalkedOverDead, TypeOK
    <2>4. SlotsAreOwned'
      BY <1>1, <2>1 DEF SlotsAreOwned, TypeOK, Owning, Publish
    <2>5. RecordProgress'
      BY <1>1, <2>1, <2>2 DEF RecordProgress, TypeOK, Owning, Publish, Unlinked, Served
    <2>6. HolderServes'
      BY <1>1, <2>1 DEF HolderServes, TypeOK, Publish, Served
    <2> QED BY <2>3, <2>4, <2>5, <2>6
  <1>3. CASE gen[cur[p]] = None
    <2>1. pc' = [pc EXCEPT ![p] = "verify"]
      BY <1>3 DEF LinkGeneration, Goto
    <2>2. /\ slot[p] \in Slots \ Linked
          /\ gen' = [gen EXCEPT ![cur[p]] = slot[p]]
          /\ gen'[slot[p]] = None
          /\ Linked' = Linked \cup {slot[p]}
          /\ \A s \in Linked : gen'[s] # None
          /\ \A s \in Linked : listening[s] = NoProc
      BY <1>3, LinkAppends
    <2>3. AttemptLeft'
      BY <1>1, <2>1 DEF AttemptLeft, TypeOK
    <2>4. OneChain'
      <3>1. \A x, y \in Existing' : gen'[x] = gen'[y] => x = y
        BY <1>3, <2>2, NotASlot DEF OneChain, Existing, Linked, TypeOK
      <3>2. \A t \in Slots : gen'[t] # None => t \in Linked' /\ listening'[t] = NoProc
        <4>1. \A t \in Slots : gen'[t] # None => t \in Linked
          BY <2>2, NotASlot DEF OneChain, WalkedOverDead, TypeOK, Paths
        <4> QED BY <1>1, <2>2, <4>1
      <3>3. \A s, t \in Linked' : gen'[s] = None /\ gen'[t] = None => s = t
        BY <2>2
      <3>4. gen'[Initial] # None
        BY <2>2, NotASlot DEF OneChain, WalkedOverDead, TypeOK, Paths
      <3> QED BY <2>2, <3>1, <3>2, <3>3, <3>4 DEF OneChain
    <2>5. WalkedOverDead'
      BY <1>1, <2>2 DEF WalkedOverDead
    <2>6. SlotsAreOwned'
      BY <1>1, <2>1 DEF SlotsAreOwned, TypeOK, Owning, Publish
    <2>7. RecordProgress'
      <3>1. \A q \in Procs \ {p} : pc[q] \in Unlinked => slot[q] # slot[p]
        BY <2>2, NotASlot DEF SlotsAreOwned
      <3>2. rec[slot[p]] = "full"
        BY <1>1 DEF RecordProgress
      <3>3. \A s \in Linked' : rec'[s] = "full"
        BY <1>1, <2>2, <3>2 DEF RecordProgress
      <3>4. pc'[p] = "verify" /\ slot'[p] \in Linked' /\ rec'[slot'[p]] = "full"
        BY <1>1, <2>1, <2>2, <3>2 DEF TypeOK
      <3>5. \A q \in Procs \ {p} : pc'[q] = pc[q] /\ slot'[q] = slot[q]
        BY <1>1, <2>1 DEF TypeOK
      <3>6. rec' = rec
        BY <1>1
      <3> QED BY <2>2, <3>1, <3>3, <3>4, <3>5, <3>6 DEF RecordProgress, Unlinked
    <2>8. HolderServes'
      BY <1>1, <2>1 DEF HolderServes, TypeOK, Publish, Served
    <2> QED BY <2>3, <2>4, <2>5, <2>6, <2>7, <2>8
  <1> QED BY <1>2, <1>3

\* The steps of an owner that leave the chain and the records alone.
LEMMA OwnerStep ==
  ASSUME LockInvariant, TypeOK', NEW p \in Procs,
         \/ Complete(p) \/ Release(p)
         \/ Interrupt(p) /\ pc[p] \in Publish
  PROVE  LockInvariant'
  <1> USE DEF LockInvariant
  <1>1. PICK where \in {"held", "release", "cleanup"} :
          /\ pc' = [pc EXCEPT ![p] = where]
          /\ where = "held" => pc[p] = "verify" /\ ~expired[p]
          /\ where = "release" => pc[p] = "held"
          /\ where = "cleanup" => pc[p] \in Publish
          /\ UNCHANGED <<rec, gen, listening, expired, attempt, cur, slot>>
    BY DEF Complete, Release, Interrupt, At, Goto, Publish, Select, disk, walk
  <1>2. Linked' = Linked /\ Existing' = Existing
    BY <1>1, LinkedUnchanged DEF Existing
  <1>3. pc[p] \in Owning /\ pc'[p] = where /\ where \in Owning
    BY <1>1, OwningPoints DEF TypeOK, Owning, Publish
  <1>4. AttemptLeft' /\ OneChain' /\ WalkedOverDead'
    BY <1>1, <1>2 DEF AttemptLeft, OneChain, WalkedOverDead, TypeOK
  <1>5. SlotsAreOwned'
    BY <1>1, <1>3 DEF SlotsAreOwned, TypeOK
  <1>6. RecordProgress'
    BY <1>1, <1>2, <1>3 DEF RecordProgress, TypeOK, Unlinked, Served
  <1>7. HolderServes'
    BY <1>1, <1>3 DEF HolderServes, TypeOK, Publish, Served
  <1> QED BY <1>4, <1>5, <1>6, <1>7

LEMMA TimerStep ==
  ASSUME LockInvariant, TypeOK', NEW p \in Procs, HolderTimer(p)
  PROVE  LockInvariant'
  <1> USE DEF LockInvariant
  <1>1. /\ pc[p] \in Publish \cup {"cleanup"}
        /\ listening' = [listening EXCEPT ![slot[p]] = NoProc]
        /\ expired' = [expired EXCEPT ![p] = TRUE]
        /\ UNCHANGED <<rec, gen, pc, attempt, cur, slot>>
    BY DEF HolderTimer, disk, walk
  <1>2. Linked' = Linked /\ Existing' = Existing
    BY <1>1, LinkedUnchanged DEF Existing
  <1>3. slot[p] \in Slots
    BY <1>1, OwningPoints DEF SlotsAreOwned, TypeOK
  <1>4. \A t \in Slots : listening[t] = NoProc => listening'[t] = NoProc
    BY <1>1 DEF TypeOK
  <1>5. AttemptLeft'
    BY <1>1 DEF AttemptLeft
  <1>6. OneChain'
    BY <1>1, <1>2, <1>4 DEF OneChain
  <1>7. WalkedOverDead'
    BY <1>1, <1>2, <1>4 DEF WalkedOverDead, Linked
  <1>8. SlotsAreOwned'
    BY <1>1 DEF SlotsAreOwned
  <1>9. RecordProgress'
    BY <1>1, <1>2 DEF RecordProgress
  <1>10. HolderServes'
    <2>1. \A q \in Procs \ {p} : pc[q] \in Publish \cup Served => slot[q] # slot[p]
      BY <1>3, NotASlot DEF SlotsAreOwned
    <2>2. pc[p] \notin {"held", "release"}
      BY <1>1 DEF Publish
    <2> QED BY <1>1, <1>3, <2>1, <2>2 DEF HolderServes, TypeOK
  <1> QED BY <1>5, <1>6, <1>7, <1>8, <1>9, <1>10

-----------------------------------------------------------------------------

LEMMA StepKeepsInvariant ==
  ASSUME LockInvariant, NEW p \in Procs, Step(p) \/ Environment(p)
  PROVE  LockInvariant'
  <1>1. TypeOK'
    BY TypeStep, TypeEnvironment DEF LockInvariant
  <1>2. CASE \/ Acquire(p) \/ ListGenerations(p) \/ BeginScan(p) \/ ScanSlot(p)
             \/ ProbeNotDead(p) \/ WalkUnexplained(p) \/ ProbeDead(p) \/ WalkEnds(p)
             \/ Retry(p)
    BY <1>1, <1>2, SelectStep
  <1>3. CASE ReserveSlot(p)
    BY <1>1, <1>3, ReserveStep
  <1>4. CASE Listen(p)
    BY <1>1, <1>4, ListenStep
  <1>5. CASE CreateRecord(p) \/ WriteRecord(p) \/ CheckBudget(p)
    BY <1>1, <1>5, RecordStep
  <1>6. CASE LinkGeneration(p)
    BY <1>1, <1>6, LinkStep
  <1>7. CASE Complete(p) \/ Release(p)
    BY <1>1, <1>7, OwnerStep
  <1>8. CASE Interrupt(p)
    <2>1. CASE pc[p] \in Publish
      BY <1>1, <1>8, <2>1, OwnerStep
    <2>2. CASE pc[p] \notin Publish
      <3>1. Return(p, "interrupted") /\ UNCHANGED <<disk, listening>>
        BY <1>8, <2>2 DEF Interrupt
      <3> QED BY <1>1, <3>1, ReturnDisengages
    <2> QED BY <2>1, <2>2
  <1>9. CASE HolderTimer(p)
    BY <1>1, <1>9, TimerStep
  <1>10. CASE CloseHolder(p)
    <2>1. \A s \in Slots : listening'[s] = IF s = slot[p] THEN NoProc ELSE listening[s]
      BY <1>10 DEF CloseHolder, LockInvariant, TypeOK
    <2>2. Settle(p, result[p]) /\ UNCHANGED disk
      BY <1>10 DEF CloseHolder
    <2> QED BY <1>1, <2>1, <2>2, SettleDisengages
  <1>11. CASE FinishRelease(p)
    <2>1. \A s \in Slots : listening'[s] = IF s = slot[p] THEN NoProc ELSE listening[s]
      BY <1>11 DEF FinishRelease, LockInvariant, TypeOK
    <2>2. Return(p, "released") /\ UNCHANGED disk
      BY <1>11 DEF FinishRelease
    <2> QED BY <1>1, <2>1, <2>2, ReturnDisengages
  <1>12. CASE CleanupLapses(p) \/ ReleaseFails(p)
    <2>1. (\E code : Return(p, code)) /\ UNCHANGED <<disk, listening>>
      BY <1>12 DEF CleanupLapses, ReleaseFails
    <2> QED BY <1>1, <2>1, ReturnDisengages
  <1>13. CASE Crash(p)
    <2>1. \A s \in Slots : listening'[s] = IF listening[s] = p THEN NoProc ELSE listening[s]
      BY <1>13 DEF Crash
    <2>2. Return(p, "none") /\ UNCHANGED disk
      BY <1>13 DEF Crash
    <2> QED BY <1>1, <2>1, <2>2, ReturnDisengages
  <1> QED
    BY <1>2, <1>3, <1>4, <1>5, <1>6, <1>7, <1>8, <1>9, <1>10, <1>11, <1>12, <1>13
       DEF Step, Environment

LEMMA InitInvariant == Init => LockInvariant
  <1> SUFFICES ASSUME Init PROVE LockInvariant
    OBVIOUS
  <1> USE NotASlot, ConstantsAssumption
  <1>1. TypeOK
    BY DEF Init, TypeOK, RecordStates, Paths, PCs, Results
  <1>2. Linked = {} /\ Existing = {}
    BY DEF Init, Linked, Existing
  <1>3. AttemptLeft /\ OneChain /\ WalkedOverDead
    BY <1>2 DEF Init, AttemptLeft, OneChain, WalkedOverDead, Paths
  <1>4. SlotsAreOwned /\ RecordProgress /\ HolderServes
    BY <1>2 DEF Init, SlotsAreOwned, RecordProgress, HolderServes, Owning, Publish,
                Unlinked, Served
  <1> QED BY <1>1, <1>3, <1>4 DEF LockInvariant

LEMMA StutterKeepsInvariant == LockInvariant /\ UNCHANGED vars => LockInvariant'
  <1> SUFFICES ASSUME LockInvariant, UNCHANGED vars PROVE LockInvariant'
    OBVIOUS
  <1>1. Linked' = Linked /\ Existing' = Existing
    BY DEF vars, Linked, Existing
  <1> QED
    BY <1>1 DEF vars, LockInvariant, TypeOK, AttemptLeft, OneChain, WalkedOverDead,
                SlotsAreOwned, RecordProgress, HolderServes

\* The invariant that ties slots, records, servers and the chain together holds
\* in every state of the lock protocol of acquireWriteLock and #releaseLock, for
\* any number of callers, slots, attempts and process deaths.
THEOREM LockInvariantHolds == Spec => []LockInvariant
  <1>1. LockInvariant /\ [Next]_vars => LockInvariant'
    BY StepKeepsInvariant, StutterKeepsInvariant DEF Next
  <1> QED BY InitInvariant, <1>1, PTL DEF Spec

\* Every variable keeps its type; in particular no call makes more attempts than
\* options.maxAttempts.
THEOREM TypeCorrect == Spec => []TypeOK
  <1>1. LockInvariant => TypeOK
    BY DEF LockInvariant
  <1> QED BY LockInvariantHolds, <1>1, PTL

\* An active capability stands on the last generation of the chain, and its
\* server listens.
LEMMA InvariantImpliesLiveTip == LockInvariant => CapabilityIsLiveTip
  <1> SUFFICES ASSUME LockInvariant, NEW p \in Procs, pc[p] = "held"
               PROVE  slot[p] \in Linked /\ gen[slot[p]] = None /\ listening[slot[p]] = p
    BY DEF CapabilityIsLiveTip
  <1>1. slot[p] \in Linked
    BY DEF LockInvariant, RecordProgress, Served
  <1>2. listening[slot[p]] = p
    BY DEF LockInvariant, HolderServes, Served
  <1> QED BY <1>1, <1>2, ConstantsAssumption DEF LockInvariant, OneChain, Linked

\* No takeover: while a caller has the capability nobody has published a
\* successor of its generation, for every interleaving, timer and crash.
THEOREM HeldGenerationIsLiveTip == Spec => []CapabilityIsLiveTip
  BY LockInvariantHolds, InvariantImpliesLiveTip, PTL

\* Two callers never have an active write capability at the same time.
THEOREM LockIsExclusive == Spec => []MutualExclusion
  <1>1. LockInvariant => MutualExclusion
    <2> SUFFICES ASSUME LockInvariant, NEW p \in Procs, NEW q \in Procs,
                        pc[p] = "held", pc[q] = "held"
                 PROVE  p = q
      BY DEF MutualExclusion
    <2>1. /\ slot[p] \in Linked /\ gen[slot[p]] = None
          /\ slot[q] \in Linked /\ gen[slot[q]] = None
      BY InvariantImpliesLiveTip DEF CapabilityIsLiveTip
    <2>2. slot[p] = slot[q]
      BY <2>1 DEF LockInvariant, OneChain
    <2> QED BY <2>1, <2>2, NotASlot DEF LockInvariant, SlotsAreOwned, Linked
  <1> QED BY LockInvariantHolds, <1>1, PTL

\* The retained generation files are one chain whose superseded members are dead.
THEOREM GenerationsFormOneChain == Spec => []OneChain
  <1>1. LockInvariant => OneChain
    BY DEF LockInvariant
  <1> QED BY LockInvariantHolds, <1>1, PTL

-----------------------------------------------------------------------------
(* Action properties *)

\* The chain changes only by a link to an absent path, and only then.
LEMMA OnlyLinkExtends ==
  ASSUME LockInvariant, NEW p \in Procs, Step(p) \/ Environment(p), gen' # gen
  PROVE  LinkGeneration(p) /\ gen[cur[p]] = None
  <1>1. LinkGeneration(p)
    BY DEF Step, Environment, ListGenerations, CheckBudget, BeginScan, ScanSlot, ProbeNotDead,
           WalkUnexplained, ProbeDead, WalkEnds, ReserveSlot, Listen, CreateRecord,
           WriteRecord, Complete, CloseHolder, Retry, FinishRelease, Acquire, Release,
           HolderTimer, Interrupt, CleanupLapses, ReleaseFails, Crash, disk
  <1> QED BY <1>1 DEF LinkGeneration

\* A generation is published only over dead ones: acquireWriteLock never takes
\* over from a holder that still serves, even with probes made long before the
\* link.
THEOREM PublishedOnlyAfterDeath == Spec => SuccessionAfterDeath
  <1>1. LockInvariant /\ [Next]_vars
          => [gen' # gen => \A s \in Linked : listening[s] = NoProc]_vars
    BY OnlyLinkExtends, LinkAppends DEF Next
  <1> QED BY LockInvariantHolds, <1>1, PTL DEF Spec, SuccessionAfterDeath

LEMMA RecordsOnlyGrow ==
  ASSUME LockInvariant, NEW p \in Procs, Step(p) \/ Environment(p), NEW s \in Slots
  PROVE  /\ rec[s] # "absent" => rec'[s] # "absent"
         /\ rec[s] = "full" => rec'[s] = "full"
  <1>1. CASE ReserveSlot(p)
    BY <1>1 DEF ReserveSlot, LockInvariant, TypeOK, disk
  <1>2. CASE CreateRecord(p)
    <2>1. rec[slot[p]] = "slot"
      BY <1>2 DEF CreateRecord, LockInvariant, RecordProgress
    <2> QED BY <1>2, <2>1 DEF CreateRecord, LockInvariant, TypeOK
  <1>3. CASE WriteRecord(p)
    BY <1>3 DEF WriteRecord, LockInvariant, TypeOK
  <1>4. CASE ~(ReserveSlot(p) \/ CreateRecord(p) \/ WriteRecord(p))
    <2>1. rec' = rec
      BY <1>4
         DEF Step, Environment, ListGenerations, CheckBudget, BeginScan, ScanSlot, ProbeNotDead,
             WalkUnexplained, ProbeDead, WalkEnds, Listen, LinkGeneration, Complete,
             CloseHolder, Retry, FinishRelease, Acquire, Release, HolderTimer, Interrupt,
             CleanupLapses, ReleaseFails, Crash, disk
    <2> QED BY <2>1
  <1> QED BY <1>1, <1>2, <1>3, <1>4

LEMMA GenerationsStay ==
  ASSUME LockInvariant, NEW p \in Procs, Step(p) \/ Environment(p),
         NEW x \in Paths, gen[x] # None
  PROVE  gen'[x] = gen[x]
  <1>1. CASE gen' = gen
    BY <1>1
  <1>2. CASE gen' # gen
    <2>1. gen[cur[p]] = None /\ gen' = [gen EXCEPT ![cur[p]] = slot[p]]
      BY <1>2, OnlyLinkExtends, LinkAppends
    <2> QED BY <2>1 DEF LockInvariant, TypeOK
  <1> QED BY <1>1, <1>2

\* No step unlinks, renames or rewrites a generation, a claimed slot or a
\* complete record.
THEOREM LockStateIsAppendOnly == Spec => AppendOnly
  <1> DEFINE Grows ==
        /\ \A x \in Paths : gen[x] # None => gen'[x] = gen[x]
        /\ \A s \in Slots :
             /\ rec[s] # "absent" => rec'[s] # "absent"
             /\ rec[s] = "full" => rec'[s] = "full"
  <1>1. ASSUME LockInvariant, NEW p \in Procs, Step(p) \/ Environment(p)
        PROVE  Grows
    BY <1>1, GenerationsStay, RecordsOnlyGrow
  <1>2. LockInvariant /\ [Next]_vars => [Grows]_vars
    BY <1>1 DEF Next
  <1> QED BY LockInvariantHolds, <1>2, PTL DEF Spec, AppendOnly

-----------------------------------------------------------------------------
(* The limit on generations *)

\* Each generation has a slot of its own and a complete record in it, so as many
\* generations as there are slots leave no slot unclaimed.
LEMMA EveryGenerationHasItsSlot ==
  ASSUME LockInvariant, NEW paths \in SUBSET Existing, Cardinality(paths) > LastSlot
  PROVE  \A s \in Slots : rec[s] # "absent"
  <1> DEFINE at == [x \in paths |-> gen[x]]
  <1>1. IsFiniteSet(Slots) /\ Cardinality(Slots) = LastSlot + 1
    BY FS_Interval, ConstantsAssumption DEF Slots
  <1>2. at \in [paths -> Slots]
    BY DEF LockInvariant, TypeOK, Existing
  <1>3. at \in Injection(paths, Slots)
    BY <1>2 DEF Injection, IsInjective, LockInvariant, OneChain
  <1>4. /\ Cardinality(paths) <= Cardinality(Slots) /\ IsFiniteSet(paths)
        /\ Cardinality(paths) = Cardinality(Slots) => at \in Surjection(paths, Slots)
    BY <1>1, <1>3, FS_Injection
  <1>5. Cardinality(paths) \in Nat
    BY <1>4, FS_CardinalityType
  <1>6. at \in Surjection(paths, Slots)
    BY <1>1, <1>4, <1>5, ConstantsAssumption
  <1>7. \A s \in Slots : s \in Linked
    BY <1>6 DEF Surjection, Existing, Linked
  <1> QED BY <1>7 DEF LockInvariant, RecordProgress

\* A contender has listed only paths that exist, and they stay.
ListedExist == \A p \in Procs : listed[p] \in SUBSET Existing

LEMMA ListedStep ==
  ASSUME LockInvariant, ListedExist, NEW p \in Procs, Step(p) \/ Environment(p)
  PROVE  ListedExist'
  <1>1. Existing \subseteq Existing'
    BY GenerationsStay DEF Existing
  <1>2. listed' = listed \/ listed' = [listed EXCEPT ![p] = {}]
          \/ listed' = [listed EXCEPT ![p] = Existing]
    BY DEF Step, Environment, ListGenerations, CheckBudget, BeginScan, ScanSlot, ProbeNotDead,
           WalkUnexplained, ProbeDead, WalkEnds, ReserveSlot, Listen, CreateRecord,
           WriteRecord, LinkGeneration, Complete, CloseHolder, Retry, FinishRelease,
           Acquire, Release, HolderTimer, Interrupt, CleanupLapses, ReleaseFails, Crash,
           Settle, Return, ResetWalk, walk
  <1> QED BY <1>1, <1>2 DEF ListedExist, LockInvariant, TypeOK

\* What a call may newly answer, and when it is the limit.
LEMMA LimitIsReal ==
  ASSUME LockInvariant, ListedExist, NEW p \in Procs, Step(p) \/ Environment(p),
         result'[p] = "resource-limit", result[p] # "resource-limit"
  PROVE  \A s \in Slots : rec[s] # "absent"
  <1>1. ASSUME NEW code, Settle(p, code) PROVE code = "resource-limit"
    BY <1>1 DEF Settle, Return, LockInvariant, TypeOK
  <1>2. ASSUME NEW code, Return(p, code) PROVE code = "resource-limit"
    BY <1>2 DEF Return, LockInvariant, TypeOK
  <1>3. CASE ProbeNotDead(p) \/ WalkEnds(p)
    <2>1. Cardinality(listed[p]) > LastSlot
      <3>1. CASE ProbeNotDead(p)
        BY <1>1, <3>1 DEF ProbeNotDead
      <3>2. CASE WalkEnds(p)
        <4>1. Settle(p, "unsafe-cache") => FALSE
          BY <1>1
        <4>2. result' = result => FALSE
          OBVIOUS
        <4> QED BY <3>2, <4>1, <4>2 DEF WalkEnds
      <3> QED BY <1>3, <3>1, <3>2
    <2> QED BY <2>1, EveryGenerationHasItsSlot DEF ListedExist
  <1>4. CASE ReserveSlot(p)
    BY <1>4 DEF ReserveSlot
  <1>5. CASE ~(ProbeNotDead(p) \/ WalkEnds(p) \/ ReserveSlot(p))
    <2>1. \/ result' = result
          \/ \E code \in {"none", "busy", "ok", "interrupted"} : result' = [result EXCEPT ![p] = code]
          \/ \E code \in {"unsafe-cache", "interrupted", "released", "none", result[p]} :
               Settle(p, code) \/ Return(p, code)
          \/ Return(p, "lock-timeout")
      BY <1>5 DEF Step, Environment, ListGenerations, CheckBudget, BeginScan, ScanSlot,
             WalkUnexplained, ProbeDead, Listen, CreateRecord,
             WriteRecord, LinkGeneration, Complete, CloseHolder, Retry, FinishRelease,
             Acquire, Release, HolderTimer, Interrupt, CleanupLapses, ReleaseFails, Crash
    <2> QED BY <1>1, <1>2, <2>1 DEF LockInvariant, TypeOK
  <1> QED BY <1>3, <1>4, <1>5

\* For any number of callers and slots: a call answers "resource-limit" only when
\* every slot of temporary/ has been claimed, whatever its walk has seen of a
\* chain that others were extending.
THEOREM LimitMeansExhausted == Spec => []ExhaustionIsReal
  <1>1. Init => ListedExist /\ ExhaustionIsReal
    BY DEF Init, ListedExist, ExhaustionIsReal
  <1>2. ASSUME LockInvariant, ListedExist, ExhaustionIsReal, [Next]_vars
        PROVE  ListedExist' /\ ExhaustionIsReal'
    <2>1. ASSUME NEW p \in Procs, Step(p) \/ Environment(p)
          PROVE  ListedExist' /\ ExhaustionIsReal'
      <3>1. ListedExist'
        BY <1>2, <2>1, ListedStep
      <3>2. \A s \in Slots : rec[s] # "absent" => rec'[s] # "absent"
        BY <1>2, <2>1, RecordsOnlyGrow
      <3>3. ASSUME NEW q \in Procs, result'[q] = "resource-limit", q # p
            PROVE  result[q] = "resource-limit"
        BY <1>2, <2>1, <3>3
           DEF Step, Environment, ListGenerations, CheckBudget, BeginScan, ScanSlot, ProbeNotDead,
             WalkUnexplained, ProbeDead, WalkEnds, ReserveSlot, Listen, CreateRecord,
             WriteRecord, LinkGeneration, Complete, CloseHolder, Retry, FinishRelease,
             Acquire, Release, HolderTimer, Interrupt, CleanupLapses, ReleaseFails, Crash,
             Settle, Return, LockInvariant, TypeOK
      <3>4. ASSUME NEW q \in Procs, result'[q] = "resource-limit", NEW s \in Slots
            PROVE  rec[s] # "absent"
        <4>1. CASE result[q] = "resource-limit"
          BY <1>2, <4>1 DEF ExhaustionIsReal
        <4>2. CASE result[q] # "resource-limit"
          BY <1>2, <2>1, <3>3, <3>4, <4>2, LimitIsReal
        <4> QED BY <4>1, <4>2
      <3> QED BY <3>1, <3>2, <3>4 DEF ExhaustionIsReal
    <2>2. CASE UNCHANGED vars
      BY <1>2, <2>2 DEF vars, ListedExist, ExhaustionIsReal, Existing
    <2> QED BY <1>2, <2>1, <2>2 DEF Next
  <1> QED BY LockInvariantHolds, <1>1, <1>2, PTL DEF Spec

-----------------------------------------------------------------------------
(* The lock protocol of acquireWriteLock and #releaseLock implements the succession of
   generations of GenerationLock. *)


\* The tip is the one generation without a successor.
LEMMA TipIsLast ==
  ASSUME LockInvariant
  PROVE  /\ Linked = {} => Tip = None
         /\ Linked # {} => Tip \in Linked /\ gen[Tip] = None
         /\ \A s \in Linked : gen[s] = None => s = Tip
         /\ \A s \in Linked : listening[s] # NoProc => s = Tip
         /\ Tip # None => Tip \in Linked
  <1>1. Linked = {} => Tip = None
    BY DEF Tip
  <1>2. Linked # {} => Tip \in Linked /\ gen[Tip] = None
    BY DEF Tip, LockInvariant, OneChain
  <1>3. \A s \in Linked : gen[s] = None => s = Tip
    BY <1>2 DEF LockInvariant, OneChain
  <1>4. \A s \in Linked : listening[s] # NoProc => s = Tip
    BY <1>3 DEF LockInvariant, OneChain, Linked
  <1> QED BY <1>1, <1>2, <1>3, <1>4

\* A step that leaves the chain, the tip's server, and the slot and the program
\* point of that server's caller alone is invisible.
LEMMA Invisible ==
  ASSUME UNCHANGED gen, TipServer' = TipServer,
         TipServer # NoProc =>
           /\ slot'[TipServer] = slot[TipServer]
           /\ pc'[TipServer] = pc[TipServer]
  PROVE  UNCHANGED <<Linked, Tip, TipServer, TipStatus>>
  <1>1. Linked' = Linked
    BY LinkedUnchanged
  <1>2. Tip' = Tip
    BY <1>1 DEF Tip
  <1>3. TipStatus' = TipStatus
    BY <1>2 DEF TipStatus
  <1> QED BY <1>1, <1>2, <1>3

\* The tip's server only stops; it never starts or changes hands while the chain
\* stays as it is.
LEMMA ServerOnlyStops ==
  ASSUME LockInvariant, NEW p \in Procs, Step(p) \/ Environment(p), UNCHANGED gen
  PROVE  /\ Tip' = Tip /\ Linked' = Linked
         /\ TipServer' \in {TipServer, NoProc}
  <1>1. Linked' = Linked /\ Tip' = Tip
    BY LinkedUnchanged DEF Tip
  <1>2. ASSUME NEW s \in Linked
        PROVE  listening'[s] \in {listening[s], NoProc}
    <2>1. CASE Listen(p)
      <3>1. slot[p] \notin Linked
        BY <2>1 DEF Listen, At, LockInvariant, RecordProgress, Unlinked
      <3> QED BY <2>1, <3>1 DEF Listen, LockInvariant, TypeOK, Linked
    <2>2. CASE CloseHolder(p) \/ FinishRelease(p) \/ HolderTimer(p) \/ Crash(p)
      BY <2>2 DEF CloseHolder, FinishRelease, HolderTimer, Crash, LockInvariant, TypeOK, Linked
    <2>3. CASE ~(Listen(p) \/ CloseHolder(p) \/ FinishRelease(p) \/ HolderTimer(p)
                   \/ Crash(p))
      BY <2>3
         DEF Step, Environment, ListGenerations, CheckBudget, BeginScan, ScanSlot, ProbeNotDead,
             WalkUnexplained, ProbeDead, WalkEnds, ReserveSlot, CreateRecord, WriteRecord,
             LinkGeneration, Complete, Retry, Acquire, Release, Interrupt, CleanupLapses,
             ReleaseFails
    <2> QED BY <2>1, <2>2, <2>3
  <1> QED BY <1>1, <1>2, TipIsLast DEF TipServer

\* The points at which p may stand while it owns the tip, and where a step that
\* leaves the tip served takes it.
LEMMA TipOwnerMoves ==
  ASSUME LockInvariant, NEW p \in Procs, Step(p) \/ Environment(p), UNCHANGED gen,
         TipServer = p, TipServer' = p, slot[p] = Tip
  PROVE  \/ pc[p] = "verify" /\ pc'[p] \in {"verify", "held", "cleanup"} /\ slot'[p] = slot[p]
         \/ pc[p] = "held" /\ pc'[p] \in {"held", "release"} /\ slot'[p] = slot[p]
         \/ /\ pc[p] \in {"cleanup", "release"}
            /\ slot'[p] # slot[p] \/ pc'[p] \in {"cleanup", "release"}
  <1> USE DEF LockInvariant
  <1>1. Tip \in Linked /\ Tip # None /\ Tip \in Slots
    BY TipIsLast, ConstantsAssumption, NotASlot DEF TipServer, Linked
  <1>2. pc[p] \in {"verify", "held", "release", "cleanup"}
    BY <1>1, NotASlot DEF SlotsAreOwned, RecordProgress, Owning, Publish, Unlinked
  <1>3. listening[slot[p]] = p /\ listening'[slot[p]] = p
    BY <1>1, ServerOnlyStops DEF TipServer
  <1>4. CASE pc[p] = "verify"
    <2>1. Complete(p) \/ HolderTimer(p) \/ Interrupt(p) \/ Crash(p)
      BY <1>4
         DEF Step, Environment, ListGenerations, CheckBudget, BeginScan, ScanSlot, ProbeNotDead,
             WalkUnexplained, ProbeDead, WalkEnds, ReserveSlot, Listen, CreateRecord,
             WriteRecord, LinkGeneration, CloseHolder, Retry, FinishRelease, Acquire,
             Release, CleanupLapses, ReleaseFails, At
    <2>2. ~HolderTimer(p) /\ ~Crash(p)
      BY <1>1, <1>3, ConstantsAssumption DEF HolderTimer, Crash, TypeOK
    <2> QED BY <1>4, <2>1, <2>2 DEF Complete, Interrupt, Goto, Select, TypeOK
  <1>5. CASE pc[p] = "held"
    <2>1. Release(p) \/ Crash(p)
      BY <1>5
         DEF Step, Environment, ListGenerations, CheckBudget, BeginScan, ScanSlot, ProbeNotDead,
             WalkUnexplained, ProbeDead, WalkEnds, ReserveSlot, Listen, CreateRecord,
             WriteRecord, LinkGeneration, Complete, CloseHolder, Retry, FinishRelease,
             Acquire, HolderTimer, Interrupt, CleanupLapses, ReleaseFails, At, Select, Publish
    <2>2. ~Crash(p)
      BY <1>1, <1>3, ConstantsAssumption DEF Crash
    <2> QED BY <1>5, <2>1, <2>2 DEF Release, Goto, TypeOK
  <1>6. CASE pc[p] \in {"cleanup", "release"}
    BY <1>1, <1>3, <1>6, ConstantsAssumption, NotASlot
       DEF Step, Environment, ListGenerations, CheckBudget, BeginScan, ScanSlot, ProbeNotDead,
           WalkUnexplained, ProbeDead, WalkEnds, ReserveSlot, Listen, CreateRecord, WriteRecord,
           LinkGeneration, Complete, CloseHolder, Retry, FinishRelease, Acquire, Release,
           HolderTimer, Interrupt, CleanupLapses, ReleaseFails, Crash, Return,
           At, Goto, Select, Publish, TypeOK
  <1> QED BY <1>2, <1>4, <1>5, <1>6

\* A step of another caller, or of one that has left the tip, does not change the
\* status of the tip.
LEMMA StatusOfServer ==
  ASSUME LockInvariant, NEW p \in Procs, Step(p) \/ Environment(p), UNCHANGED gen
  PROVE  /\ \A q \in Procs \ {p} : slot'[q] = slot[q] /\ pc'[q] = pc[q]
         /\ slot'[p] # slot[p] => slot'[p] \notin Linked
  <1> USE DEF LockInvariant
  <1>1. CASE ReserveSlot(p) /\ \E s \in Slots : rec[s] = "absent"
    <2>1. PICK s \in Slots : /\ rec[s] = "absent"
                             /\ slot' = [slot EXCEPT ![p] = s]
                             /\ Goto(p, "listen")
      BY <1>1 DEF ReserveSlot
    <2> QED BY <2>1 DEF RecordProgress, Goto, TypeOK
  <1>2. CASE ~(ReserveSlot(p) /\ \E s \in Slots : rec[s] = "absent")
    <2>1. \/ slot' = slot
          \/ slot' = [slot EXCEPT ![p] = None]
      BY <1>2
         DEF Step, Environment, ListGenerations, CheckBudget, BeginScan, ScanSlot, ProbeNotDead,
             WalkUnexplained, ProbeDead, WalkEnds, ReserveSlot, Listen, CreateRecord,
             WriteRecord, LinkGeneration, Complete, CloseHolder, Retry, FinishRelease,
             Acquire, Release, HolderTimer, Interrupt, CleanupLapses, ReleaseFails, Crash,
             Return, Settle
    <2>2. \/ pc' = pc
          \/ \E where : pc' = [pc EXCEPT ![p] = where]
      BY <1>2
         DEF Step, Environment, ListGenerations, CheckBudget, BeginScan, ScanSlot, ProbeNotDead,
             WalkUnexplained, ProbeDead, WalkEnds, ReserveSlot, Listen, CreateRecord,
             WriteRecord, LinkGeneration, Complete, CloseHolder, Retry, FinishRelease,
             Acquire, Release, HolderTimer, Interrupt, CleanupLapses, ReleaseFails, Crash,
             Return, Settle, Goto
    <2> QED BY <2>1, <2>2, NotASlot DEF TypeOK, Linked
  <1> QED BY <1>1, <1>2

LEMMA RefinesStep ==
  ASSUME LockInvariant, LockInvariant', NEW p \in Procs, Step(p) \/ Environment(p)
  PROVE  Lock!Next \/ UNCHANGED <<Linked, Tip, TipServer, TipStatus>>
  <1>1. CASE gen' # gen
    <2>1. LinkGeneration(p) /\ gen[cur[p]] = None
      BY <1>1, OnlyLinkExtends
    <2>2. /\ slot[p] \in Slots \ Linked
          /\ gen'[slot[p]] = None
          /\ Linked' = Linked \cup {slot[p]}
          /\ \A s \in Linked : listening[s] = NoProc
      BY <2>1, LinkAppends
    <2>3. /\ pc'[p] = "verify" /\ slot'[p] = slot[p] /\ listening' = listening
          /\ listening[slot[p]] \in {p, NoProc}
      BY <2>1 DEF LinkGeneration, Goto, LockInvariant, TypeOK, HolderServes, Publish
    <2>4. TipStatus = "closed" /\ TipServer = NoProc
      BY <2>2, TipIsLast DEF TipStatus, TipServer
    <2>5. Tip' = slot[p]
      <3>1. gen'[slot[p]] = None /\ slot[p] \in Linked'
        BY <2>2
      <3>2. Tip' \in Linked' /\ gen'[Tip'] = None
        BY <3>1 DEF Tip
      <3> QED BY <3>1, <3>2 DEF LockInvariant, OneChain
    <2>6. TipServer' = listening[slot[p]]
      BY <2>2, <2>3, <2>5, NotASlot DEF TipServer
    <2>7. CASE listening[slot[p]] = p
      <3>1. TipStatus' = "pending"
        BY <2>3, <2>5, <2>6, <2>7, ConstantsAssumption DEF TipStatus
      <3>2. Lock!Publish(p, slot[p])
        BY <2>2, <2>4, <2>5, <2>6, <2>7, <3>1 DEF Lock!Publish
      <3> QED BY <2>2, <3>2 DEF Lock!Next
    <2>8. CASE listening[slot[p]] = NoProc
      <3>1. TipServer' = NoProc /\ TipStatus' = "closed"
        BY <2>6, <2>8 DEF TipStatus
      <3>2. Lock!PublishClosed(slot[p])
        BY <2>2, <2>4, <2>5, <3>1 DEF Lock!PublishClosed
      <3> QED BY <2>2, <3>2 DEF Lock!Next
    <2> QED BY <2>3, <2>7, <2>8
  <1>2. CASE UNCHANGED gen
    <2>1. /\ Tip' = Tip /\ Linked' = Linked
          /\ TipServer' \in {TipServer, NoProc}
      BY <1>2, ServerOnlyStops
    <2>2. CASE TipServer' # TipServer
      <3>1. TipServer' = NoProc /\ TipStatus' = "closed" /\ TipStatus # "closed"
        BY <2>1, <2>2 DEF TipStatus
      <3> QED BY <2>1, <3>1 DEF Lock!Next, Lock!Close
    <2>3. CASE TipServer' = TipServer /\ TipServer # p
      <3>1. TipServer # NoProc => TipServer \in Procs \ {p}
        BY <2>3, TipIsLast DEF TipServer, LockInvariant, TypeOK, Linked
      <3> QED BY <1>2, <2>3, <3>1, StatusOfServer, Invisible
    <2>4. CASE TipServer' = TipServer /\ TipServer = p /\ slot[p] # Tip
      <3>1. slot'[p] # Tip
        BY <1>2, <2>4, StatusOfServer, TipIsLast, ConstantsAssumption DEF TipServer
      <3> QED BY <2>1, <2>4, <3>1, ConstantsAssumption DEF TipStatus
    <2>5. CASE TipServer' = TipServer /\ TipServer = p /\ slot[p] = Tip
      <3>1. p # NoProc
        BY ConstantsAssumption
      <3>2. CASE pc[p] = "verify" /\ pc'[p] \in {"verify", "held", "cleanup"}
                   /\ slot'[p] = slot[p]
        BY <2>1, <2>5, <3>1, <3>2 DEF TipStatus, Lock!Next, Lock!Grant, Lock!Revoke
      <3>3. CASE pc[p] = "held" /\ pc'[p] \in {"held", "release"} /\ slot'[p] = slot[p]
        BY <2>1, <2>5, <3>1, <3>3 DEF TipStatus, Lock!Next, Lock!Revoke
      <3>4. CASE /\ pc[p] \in {"cleanup", "release"}
                 /\ slot'[p] # slot[p] \/ pc'[p] \in {"cleanup", "release"}
        BY <2>1, <2>5, <3>1, <3>4 DEF TipStatus
      <3> QED BY <1>2, <2>5, <3>2, <3>3, <3>4, TipOwnerMoves
    <2> QED BY <2>2, <2>3, <2>4, <2>5
  <1> QED BY <1>1, <1>2

\* The protocol of generation files, slots, walks, probes and timers implements
\* the succession of generations: each fresh, published while none is served,
\* granted at most once and to its publisher only, and never granted when the
\* deadline closed its server before the link of acquireWriteLock.
THEOREM LockImplementsSuccession == Spec => ImplementsGenerationLock
  <1>1. Init => Lock!Init
    <2> SUFFICES ASSUME Init PROVE Lock!Init
      OBVIOUS
    <2>1. Linked = {}
      BY NotASlot DEF Init, Linked
    <2> QED BY <2>1 DEF Lock!Init, Tip, TipServer, TipStatus
  <1>2. LockInvariant /\ LockInvariant' /\ [Next]_vars
          => [Lock!Next]_(Lock!lvars)
    <2>1. ASSUME LockInvariant, LockInvariant', NEW p \in Procs, Step(p) \/ Environment(p)
          PROVE  [Lock!Next]_(Lock!lvars)
      BY <2>1, RefinesStep DEF Lock!lvars
    <2>2. ASSUME UNCHANGED vars
          PROVE  UNCHANGED Lock!lvars
      BY <2>2 DEF vars, Lock!lvars, Linked, Tip, TipServer, TipStatus
    <2> QED BY <2>1, <2>2 DEF Next
  <1> QED BY LockInvariantHolds, <1>1, <1>2, PTL DEF Spec, ImplementsGenerationLock, Lock!Spec
=============================================================================
