--------------------------- MODULE ScanInvariants ---------------------------
(***************************************************************************)
(* What holds of a scan of changed files at every point of it: the         *)
(* invariants that the proofs about ChangedScan rest on.                   *)
(*                                                                         *)
(* The first group says which parts of the metadata are there.  The second *)
(* says what a scan has found when nobody disturbed it.  The third is      *)
(* about scans that others do disturb, as long as nothing they change      *)
(* returns to a value it had before: what was read and is there still was  *)
(* there in between.                                                       *)
(***************************************************************************)
EXTENDS ChangedScan

FileTrees == [ScanPaths -> Contents \cup {Absent}]
RepoStates == [head : 1 .. NCommits, base : 1 .. NCommits, index : FileTrees, tree : FileTrees]
Snapshots == [index : FileTrees, files : FileTrees]
Ledgers == [ScanPaths -> Contents \cup {Absent, Present}]

ScanFields == {"pc", "round", "next", "first", "got", "ledger", "failed"}

-----------------------------------------------------------------------------
(* The positions from which on a part of the metadata has been collected. *)
FinalPcs == {"final-state", "final-files", "final-end", "final-again"}
WorkPcs == {"final"} \cup FinalPcs
StatePcs == {"state-files", "state-end"}
IndexPcs == {"state"} \cup StatePcs \cup WorkPcs
DiffPcs == {"diff-files", "diff-end"}
SnapPcs == DiffPcs \cup {"index"} \cup IndexPcs
ChangePcs == {"diff-after"} \cup SnapPcs
BeforePcs == {"git"} \cup ChangePcs
BasePcs == {"base-again", "diff"} \cup BeforePcs
HeadPcs == {"head-again", "base"} \cup BasePcs

FilesPcs == {"diff-files", "state-files", "final-files"}
LaterPcs == {"read", "schedule", "reread", "plan", "changed", "full"}

(* Changes are a function of the paths. *)
IsByPath(changes) == changes = [p \in ScanPaths |-> changes[p]]

Ready(m) ==
  /\ m = [ready |-> TRUE, head |-> m.head, base |-> m.base, changes |-> m.changes,
          index |-> m.index, worktree |-> m.worktree]
  /\ IsByPath(m.changes) /\ m.worktree \in Snapshots

(* The type invariant of the scan and of the repository it reads. *)
ScanTypeOK ==
  /\ repo \in RepoStates /\ held \subseteq RepoStates /\ repo \in held /\ IsFiniteSet(held)
  /\ DOMAIN scan = ScanFields
  /\ scan.pc \in {"idle", "head", "collected"} \cup HeadPcs \cup LaterPcs
  /\ scan.round \in 1 .. 3 /\ scan.next \in 1 .. NPaths + 1 /\ scan.ledger \in Ledgers
  /\ scan.failed \in BOOLEAN

(* A walk over the paths starts at the first one. *)
WalksStart ==
  \/ scan.next = 1
  \/ scan.pc \in FilesPcs \cup {"read", "reread", "plan", "changed", "full"}
  \/ scan.pc = "collected" /\ scan.got = NoMetadata

Rounds ==
  /\ scan.pc \in {"idle", "read", "schedule"} => scan.round = 1
  /\ scan.pc \in {"reread", "plan", "changed"} => scan.round > 1
  /\ scan.pc = "idle" => held = {repo}

GotHasFields ==
  /\ scan.pc \in HeadPcs => "head" \in DOMAIN scan.got
  /\ scan.pc \in BasePcs => "base" \in DOMAIN scan.got
  /\ scan.pc \in BeforePcs => "before" \in DOMAIN scan.got
  /\ scan.pc \in ChangePcs => "changes" \in DOMAIN scan.got /\ IsByPath(scan.got.changes)
  /\ scan.pc \in SnapPcs => "snapshot" \in DOMAIN scan.got /\ scan.got.snapshot \in Snapshots
  /\ scan.pc \in IndexPcs => "index" \in DOMAIN scan.got
  /\ scan.pc \in WorkPcs => "worktree" \in DOMAIN scan.got /\ scan.got.worktree \in Snapshots
  /\ scan.pc \in FinalPcs => "final" \in DOMAIN scan.got

(* The first metadata is in use from the reads on. *)
InUse == scan.round > 1 \/ scan.pc \in {"read", "schedule"}

MetadataIsWhole ==
  /\ scan.pc = "collected" => scan.got = NoMetadata \/ Ready(scan.got)
  /\ InUse => Ready(scan.first)
  /\ scan.pc \in {"reread", "plan", "changed"} => scan.got = scan.first

ScanTypeInvariant == ScanTypeOK /\ WalksStart /\ Rounds /\ GotHasFields /\ MetadataIsWhole

-----------------------------------------------------------------------------
(* What a scan finds when nobody disturbs it: the snapshot of the paths below n, and the
   metadata of a state of the repository. *)
SnapshotUpTo(s, n) ==
  [index |-> s.index,
   files |-> [p \in ScanPaths |-> IF p < n /\ s.index[p] # Absent THEN s.tree[p] ELSE Absent]]

Snapshot(s) == SnapshotUpTo(s, NPaths + 1)

MetadataOf(s) ==
  [ready |-> TRUE, head |-> s.head, base |-> s.base, changes |-> ChangesIn(s),
   index |-> s.index, worktree |-> Snapshot(s)]

(* A tracked file that no snapshot can hold. *)
HasUnreadable(s) == \E p \in Tracked(s.index) : Unreadable(s.index, s.tree, p)

Undisturbed == held = {repo} /\ ~ scan.failed

UndisturbedCollection ==
  Undisturbed =>
    /\ scan.pc \in HeadPcs => scan.got.head = repo.head
    /\ scan.pc \in BasePcs => scan.got.base = repo.base
    /\ scan.pc \in BeforePcs => scan.got.before = repo.index
    /\ scan.pc \in {"diff-after"} \cup DiffPcs =>
         scan.got.changes = Statuses(repo.index, CommitTree(MergeBase(repo.head, repo.base)))
    /\ scan.pc \in {"index"} \cup IndexPcs => scan.got.changes = ChangesIn(repo)
    /\ scan.pc \in FilesPcs => scan.got.snapshot = SnapshotUpTo(repo, scan.next)
    /\ scan.pc \in {"diff-end", "state-end", "final-end"} => scan.got.snapshot = Snapshot(repo)
    /\ scan.pc \in IndexPcs => scan.got.index = repo.index
    /\ scan.pc \in WorkPcs => scan.got.worktree = Snapshot(repo)
    /\ scan.pc \in FinalPcs => scan.got.final = repo.head
    /\ scan.pc = "collected" =>
         scan.got = MetadataOf(repo) \/ (scan.got = NoMetadata /\ HasUnreadable(repo))

UndisturbedReads ==
  Undisturbed =>
    /\ InUse => scan.first = MetadataOf(repo)
    /\ scan.pc = "read" =>
         \A p \in ScanPaths : p < scan.next => scan.ledger[p] = Observe(repo.tree, p)
    /\ scan.pc = "schedule" \/ scan.round > 1 =>
         \A p \in ScanPaths : scan.ledger[p] = Observe(repo.tree, p)
    /\ scan.pc = "full" => SubsetImpossible

(* The inductive invariant of every scan. *)
UndisturbedInvariant == ScanTypeInvariant /\ UndisturbedCollection /\ UndisturbedReads

-----------------------------------------------------------------------------
(* A step after which nothing has a value that it had before, since the scan began, and
   had lost.  Heads, bases and indexes count as a whole, files one by one. *)
Fresh ==
  /\ repo'.head # repo.head => \A t \in held : t.head # repo'.head
  /\ repo'.base # repo.base => \A t \in held : t.base # repo'.base
  /\ repo'.index # repo.index => \A t \in held : t.index # repo'.index
  /\ \A p \in ScanPaths :
       repo'.tree[p] # repo.tree[p] => \A t \in held : t.tree[p] # repo'.tree[p]

(* The environment of a scan in which no part of the repository returns to a value it had
   earlier in the scan. *)
NothingReturns == [][Fresh]_scanVars

(* What was read had been there. *)
HeadSeen(m) == \E t \in held : t.head = m.head
BaseSeen(m) == \E t \in held : t.base = m.base
IndexSeen(m) == \E t \in held : t.index = m.index
FileSeen(snapshot, p) == \E t \in held : t.tree[p] = snapshot.files[p]
FilesSeen(snapshot) == \A p \in Tracked(snapshot.index) : FileSeen(snapshot, p)

Walked(p) == scan.pc \in FilesPcs => p < scan.next

CollectionIsSeen ==
  /\ scan.pc \in HeadPcs => HeadSeen(scan.got)
  /\ scan.pc \in BasePcs => BaseSeen(scan.got)
  /\ scan.pc \in IndexPcs => IndexSeen(scan.got)
  /\ scan.pc \in FilesPcs \cup {"state-end"} =>
       \A p \in Tracked(scan.got.snapshot.index) : Walked(p) => FileSeen(scan.got.snapshot, p)
  /\ scan.pc \in WorkPcs => FilesSeen(scan.got.worktree)
  /\ scan.pc \in StatePcs /\ repo.index = scan.got.index => scan.got.snapshot.index = repo.index
  /\ scan.pc \in WorkPcs /\ repo.index = scan.got.index => scan.got.worktree.index = repo.index

(* If the index is what it was, the snapshot was taken of it. *)
MetadataSeen(m) ==
  /\ HeadSeen(m) /\ BaseSeen(m) /\ IndexSeen(m) /\ FilesSeen(m.worktree)
  /\ repo.index = m.index => m.worktree.index = m.index

MetadataIsSeen ==
  /\ scan.pc = "collected" /\ scan.got # NoMetadata => MetadataSeen(scan.got)
  /\ InUse => MetadataSeen(scan.first)

HasRead(p) ==
  \/ scan.pc = "read" /\ p < scan.next
  \/ scan.pc = "schedule"
  \/ scan.round > 1

(* If a file is in s what it is in the first metadata, the scan read it so. *)
Fits(s, p) ==
  p \in Tracked(scan.first.worktree.index) /\ s.tree[p] = scan.first.worktree.files[p] =>
    scan.ledger[p] = Observe(s.tree, p)

LedgerIsSeen ==
  \A p \in ScanPaths : HasRead(p) =>
    /\ scan.round = 1 => Fits(repo, p)
    /\ scan.ledger[p] = Absent => \E t \in held : t.tree[p] = Absent

SeenInvariant == CollectionIsSeen /\ MetadataIsSeen /\ LedgerIsSeen

-----------------------------------------------------------------------------
(* The instant that a subset is consistent with is the one at which the rules were
   scheduled.  What is now as in the first metadata was so at that instant s. *)
Persists(s) ==
  LET m == scan.first
  IN /\ repo.head = m.head => s.head = m.head
     /\ repo.base = m.base => s.base = m.base
     /\ repo.index = m.index => s.index = m.index
     /\ \A p \in Tracked(m.worktree.index) :
          repo.tree[p] = m.worktree.files[p] => s.tree[p] = m.worktree.files[p]
     /\ \A p \in ScanPaths :
          scan.ledger[p] = Absent /\ repo.tree[p] = Absent => s.tree[p] = Absent
     /\ \A p \in ScanPaths : Fits(s, p)

(* What a later collection finds as in the first metadata was so at s. *)
HeadConfirms(s) == scan.got.head = scan.first.head => s.head = scan.first.head
BaseConfirms(s) == scan.got.base = scan.first.base => s.base = scan.first.base
IndexConfirms(s) ==
  scan.got.index = scan.first.index =>
    s.index = scan.first.index /\ scan.first.worktree.index = scan.first.index

SnapshotConfirms(s, snapshot, p) ==
  LET m == scan.first
  IN p \in Tracked(snapshot.index) /\ p \in Tracked(m.worktree.index)
       /\ snapshot.files[p] = m.worktree.files[p] => s.tree[p] = m.worktree.files[p]

CollectionConfirms(s) ==
  /\ scan.pc \in HeadPcs => HeadConfirms(s)
  /\ scan.pc \in BasePcs => BaseConfirms(s)
  /\ scan.pc \in IndexPcs => IndexConfirms(s)
  /\ scan.pc \in StatePcs =>
       \A p \in ScanPaths : Walked(p) => SnapshotConfirms(s, scan.got.snapshot, p)
  /\ scan.pc \in WorkPcs => \A p \in ScanPaths : SnapshotConfirms(s, scan.got.worktree, p)

(* The changes that a later collection finds are those of the first index and files, if
   it goes on to find that index and those files. *)
Base == CommitTree(MergeBase(scan.got.head, scan.got.base))

IsExact(p) ==
  LET m == scan.first
  IN scan.got.changes[p] =
       Merged(StatusOf(Base[p], m.index[p]),
              p \in Tracked(m.index) /\ m.worktree.files[p] # m.index[p])

TreeAgrees(p) ==
  p \in Tracked(scan.first.index) => repo.tree[p] = scan.first.worktree.files[p]

SnapshotAgrees(snapshot, p) ==
  /\ snapshot.index = scan.first.index
  /\ p \in Tracked(scan.first.index) => snapshot.files[p] = scan.first.worktree.files[p]

ChangesFollow ==
  LET m == scan.first
  IN /\ scan.pc \in {"diff-after"} \cup DiffPcs /\ repo.index = m.index =>
          scan.got.changes = Statuses(m.index, Base)
     /\ scan.pc \in DiffPcs /\ repo.index = m.index => scan.got.snapshot.index = m.index
     /\ scan.pc \in DiffPcs =>
          \A p \in Tracked(scan.got.snapshot.index) :
            Walked(p) /\ p \in Tracked(m.worktree.index) /\ repo.tree[p] = m.worktree.files[p] =>
              scan.got.snapshot.files[p] = m.worktree.files[p]
     /\ scan.pc = "index" /\ repo.index = m.index =>
          \A p \in ScanPaths : TreeAgrees(p) => IsExact(p)
     /\ scan.pc \in {"state"} \cup StatePcs /\ scan.got.index = m.index =>
          \A p \in ScanPaths :
            (scan.pc \in StatePcs /\ Walked(p)) \/ (TreeAgrees(p) => IsExact(p))
     /\ scan.pc \in StatePcs /\ scan.got.index = m.index =>
          \A p \in ScanPaths : Walked(p) /\ SnapshotAgrees(scan.got.snapshot, p) => IsExact(p)
     /\ scan.pc \in WorkPcs /\ scan.got.index = m.index =>
          \A p \in ScanPaths : SnapshotAgrees(scan.got.worktree, p) => IsExact(p)

(* s had everything that the metadata says. *)
Agreed(s, m) ==
  /\ s.head = m.head /\ s.base = m.base /\ s.index = m.index /\ m.worktree.index = m.index
  /\ \A p \in Tracked(m.index) : s.tree[p] = m.worktree.files[p]
  /\ m.changes = ChangesIn(s)

Instant(s) ==
  /\ Persists(s) /\ CollectionConfirms(s)
  /\ scan.pc = "collected" /\ scan.got = scan.first => Agreed(s, scan.first)
  /\ scan.pc \in {"reread", "plan", "changed"} => Agreed(s, scan.first)
  /\ \A p \in ScanPaths :
       (scan.pc = "reread" /\ p < scan.next) \/ scan.pc \in {"plan", "changed"} =>
         (scan.ledger[p] = Absent => s.tree[p] = Absent)
  /\ scan.pc = "changed" => ~ HasUntracked /\ Plannable(scan.got.changes)

LaterRounds == scan.round > 1 => ChangesFollow /\ \E s \in held : Instant(s)

(* The inductive invariant of scans during which nothing returns. *)
ScanInvariant == UndisturbedInvariant /\ SeenInvariant /\ LaterRounds
=============================================================================
