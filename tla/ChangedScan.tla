---------------------------- MODULE ChangedScan ----------------------------
(***************************************************************************)
(* A scan of the changed files only, while the repository keeps changing   *)
(* (packages/cli/src/scan-command.ts and git-metadata-executor.ts,         *)
(* packages/evidence/src/changed-file-metadata.ts,                         *)
(* packages/rules/src/changed-file-mode.ts).                               *)
(*                                                                         *)
(* The scan collects Git metadata, reads the repository file by file and   *)
(* schedules its rules, collects the metadata again, reads everything it   *)
(* had read again, collects a third time and reads a third time.  Only     *)
(* when everything agrees, and the plan finds changes that it can map, may *)
(* the result be cut down to the changed files; otherwise the full result  *)
(* stands.  Every read is an await, and people edit, stage, commit and     *)
(* fetch between any two of them.                                          *)
(*                                                                         *)
(* A commit is its number; CommitTree gives its files.  A digest is the    *)
(* thing digested; a symbolic link is contents of its own.  Inventory,     *)
(* configuration and contents that the scan reads are one observation per  *)
(* path; what discovery, parsing and resolution make of them is a function *)
(* of the observations.  A command that fails, times out, is cancelled or  *)
(* answers nonsense is a collection that fails.                            *)
(***************************************************************************)
EXTENDS Naturals, FiniteSets

CONSTANTS NPaths,         \* paths are 1..NPaths
          Instructions,   \* the paths whose contents the scan reads
          Controls,       \* the paths that control the scan: configuration, lockfile
          Contents,       \* contents of files
          Links,          \* the contents that are symbolic links
          NCommits,       \* commits are 1..NCommits, each an ancestor of the next
          CommitTree(_),  \* the files of a commit: path -> contents or Absent
          Absent, Present,
          InventoryIsComplete(_), \* whether enumerating what is there met no problem
          Covers(_, _),   \* whether discovery, parsing and resolution of what was read are
                          \* complete, within their limits, and map these changed paths
          MaxEdits        \* bound: changes made by others, before and during the scan

ASSUME ScanAssumption ==
  /\ NPaths \in Nat \ {0} /\ NCommits \in Nat \ {0} /\ MaxEdits \in Nat
  /\ Instructions \subseteq 1..NPaths /\ Controls \subseteq 1..NPaths /\ Links \subseteq Contents
  /\ Absent \notin Contents /\ Present # Absent
  /\ \A c \in 1..NCommits : CommitTree(c) \in [1..NPaths -> Contents \cup {Absent}]

VARIABLES repo,      \* head, base, index and tree of the repository
          edits,     \* how often others changed it
          held,      \* history: the states of repo since the scan began
          scan       \* the scan's position and what it has read

scanVars == <<repo, edits, held, scan>>

ScanPaths == 1..NPaths
NoTree == [p \in ScanPaths |-> Absent]

(* The parts of metadata; "none" before it is collected. *)
NoMetadata == [ready |-> FALSE]

ScanInit ==
  /\ \E base \in 1..NCommits :
       repo = [head |-> NCommits, base |-> base, index |-> CommitTree(NCommits), tree |-> CommitTree(NCommits)]
  /\ edits = 0
  /\ held = {repo}
  /\ scan = [pc |-> "idle", round |-> 1, next |-> 1, first |-> NoMetadata, got |-> NoMetadata,
             ledger |-> NoTree, failed |-> FALSE]

-----------------------------------------------------------------------------
(* Other people and programs: a commit or a checkout moves HEAD, a fetch moves the base,
   and files are staged, written and removed one at a time. *)
Changes(new) ==
  /\ edits < MaxEdits /\ scan.pc \notin {"changed", "full"}
  /\ new # repo
  /\ repo' = new
  /\ edits' = edits + 1
  /\ held' = (IF scan.pc = "idle" THEN {} ELSE held) \cup {new}
  /\ UNCHANGED scan

MoveHead == \E c \in 1..NCommits : Changes([repo EXCEPT !.head = c])
MoveBase == \E c \in 1..NCommits : Changes([repo EXCEPT !.base = c])
Stage == \E p \in ScanPaths : Changes([repo EXCEPT !.index[p] = repo.tree[p]])
WriteFile == \E p \in ScanPaths, c \in Contents \cup {Absent} : Changes([repo EXCEPT !.tree[p] = c])

-----------------------------------------------------------------------------
MergeBase(head, base) == IF head < base THEN head ELSE base

(* git diff --no-renames: a path's status by its file in the merge base and in the index. *)
StatusOf(before, after) ==
  CASE before = after                           -> "none"
    [] before = Absent                          -> "added"
    [] after = Absent                           -> "deleted"
    [] (before \in Links) # (after \in Links)   -> "type-changed"
    [] OTHER                                    -> "modified"

Statuses(index, base) == [p \in ScanPaths |-> StatusOf(base[p], index[p])]

(* mergeWorktreeChanges: a file that differs from the index is modified, unless it has a
   status already. *)
Merged(status, differs) == IF status = "none" /\ differs THEN "modified" ELSE status

Tracked(index) == {p \in ScanPaths : index[p] # Absent}

ScanAt(pc) == scan.pc = pc
Proceed(new) == scan' = new /\ UNCHANGED <<repo, edits, held>>
With(field, value, pc) ==
  Proceed([scan EXCEPT !.pc = pc, !.got = [f \in DOMAIN @ \cup {field} |-> IF f = field THEN value ELSE @[f]]])

ScanBegins == ScanAt("idle") /\ Proceed([scan EXCEPT !.pc = "head"])

(* A collection that fails is metadata that is not ready. *)
Collecting ==
  {"head", "head-again", "base", "base-again", "diff", "git", "diff-after", "diff-files",
   "diff-end", "index", "state", "state-files", "state-end", "final", "final-state",
   "final-files", "final-end", "final-again"}

CollectionFailed == [scan EXCEPT !.pc = "collected", !.got = NoMetadata]

CollectFails == scan.pc \in Collecting /\ Proceed([CollectionFailed EXCEPT !.failed = TRUE])

(* resolve-head and resolve-base: the reference is read before the command and again
   after it. *)
ResolveHead == ScanAt("head") /\ With("head", repo.head, "head-again")

ResolveHeadAgain ==
  /\ ScanAt("head-again")
  /\ IF repo.head = scan.got.head THEN Proceed([scan EXCEPT !.pc = "base"])
                                  ELSE Proceed(CollectionFailed)

ResolveBase == ScanAt("base") /\ With("base", repo.base, "base-again")

ResolveBaseAgain ==
  /\ ScanAt("base-again")
  /\ IF repo.base = scan.got.base THEN Proceed([scan EXCEPT !.pc = "diff"])
                                  ELSE Proceed(CollectionFailed)

(* diff: the index is read before and after the command that compares it. *)
DiffBegins == ScanAt("diff") /\ With("before", repo.index, "git")

GitDiff ==
  /\ ScanAt("git")
  /\ With("changes", Statuses(repo.index, CommitTree(MergeBase(scan.got.head, scan.got.base))),
          "diff-after")

(* The second read of the index is followed by the first one of readWorktreeSnapshot. *)
DiffAfter ==
  /\ ScanAt("diff-after")
  /\ IF repo.index = scan.got.before THEN With("snapshot", [index |-> repo.index, files |-> NoTree], "diff-files")
                                     ELSE Proceed(CollectionFailed)

(* readWorktreeSnapshot reads the tracked files one by one; one that is missing or a link,
   or is a link in the index, fails the collection.  The index must be the same at the end. *)
Unreadable(index, tree, p) == index[p] \in Links \/ tree[p] \in Links \cup {Absent}

(* Faulty variant: a file that was edited and not staged fails the collection. *)
SnapshotUnmodified(pc, after) ==
  /\ ScanAt(pc)
  /\ LET snapshot == scan.got.snapshot
         p == scan.next
     IN IF p > NPaths
        THEN Proceed([scan EXCEPT !.pc = after, !.next = 1])
        ELSE IF snapshot.index[p] = Absent
        THEN Proceed([scan EXCEPT !.next = p + 1])
        ELSE IF repo.tree[p] # snapshot.index[p]
        THEN Proceed([CollectionFailed EXCEPT !.next = 1])
        ELSE Proceed([scan EXCEPT !.next = p + 1, !.got.snapshot.files[p] = repo.tree[p]])

SnapshotFile(pc, after) ==
  /\ ScanAt(pc)
  /\ LET snapshot == scan.got.snapshot
         p == scan.next
     IN IF p > NPaths
        THEN Proceed([scan EXCEPT !.pc = after, !.next = 1])
        ELSE IF snapshot.index[p] = Absent
        THEN Proceed([scan EXCEPT !.next = p + 1])
        ELSE IF Unreadable(snapshot.index, repo.tree, p)
        THEN Proceed([CollectionFailed EXCEPT !.next = 1])
        ELSE Proceed([scan EXCEPT !.next = p + 1, !.got.snapshot.files[p] = repo.tree[p]])

MergeWorktree(changes, snapshot) ==
  [p \in ScanPaths |->
     Merged(changes[p], p \in Tracked(snapshot.index) /\ snapshot.files[p] # snapshot.index[p])]

DiffEnds ==
  /\ ScanAt("diff-end")
  /\ LET snapshot == scan.got.snapshot
     IN IF repo.index = snapshot.index
        THEN With("changes", MergeWorktree(scan.got.changes, snapshot), "index")
        ELSE Proceed(CollectionFailed)

IndexState == ScanAt("index") /\ With("index", repo.index, "state")

StateBegins == ScanAt("state") /\ With("snapshot", [index |-> repo.index, files |-> NoTree], "state-files")

StateEnds ==
  /\ ScanAt("state-end")
  /\ IF repo.index = scan.got.snapshot.index THEN With("worktree", scan.got.snapshot, "final")
                                             ELSE Proceed(CollectionFailed)

(* The last resolve-head: HEAD, then the whole worktree snapshot once more (the pending
   final snapshot), then HEAD again; it must be the HEAD of the start. *)
FinalHead == ScanAt("final") /\ With("final", repo.head, "final-state")

FinalState ==
  ScanAt("final-state") /\ With("snapshot", [index |-> repo.index, files |-> NoTree], "final-files")

FinalStateEnds ==
  /\ ScanAt("final-end")
  /\ IF repo.index = scan.got.snapshot.index /\ scan.got.snapshot = scan.got.worktree
     THEN Proceed([scan EXCEPT !.pc = "final-again"])
     ELSE Proceed(CollectionFailed)

FinalHeadAgain ==
  /\ ScanAt("final-again")
  /\ IF repo.head = scan.got.final /\ scan.got.final = scan.got.head
     THEN Proceed([scan EXCEPT !.pc = "collected",
                     !.got = [ready |-> TRUE, head |-> @.head, base |-> @.base, changes |-> @.changes,
                              index |-> @.index, worktree |-> @.worktree]])
     ELSE Proceed(CollectionFailed)

-----------------------------------------------------------------------------
(* What the scan reads of a path: its contents, or whether it is there. *)
Observe(tree, p) == IF p \in Instructions \/ tree[p] = Absent THEN tree[p] ELSE Present

(* reconcileGitChangedFileMetadata: two ready collections that agree in everything. *)
SameMetadata(before, after) == before.ready /\ after.ready /\ before = after

(* The first collection leads to the reads; later ones must agree with it. *)
Collected ==
  /\ ScanAt("collected")
  /\ Proceed(
       IF scan.round = 1
       THEN [scan EXCEPT !.pc = IF scan.got.ready THEN "read" ELSE "full", !.first = scan.got]
       ELSE [scan EXCEPT !.pc = IF SameMetadata(scan.first, scan.got) THEN "reread" ELSE "full"])

(* Discovery, parsing and resolution read the repository path by path into the ledgers. *)
ReadPath ==
  /\ ScanAt("read")
  /\ LET p == scan.next
     IN IF p > NPaths
        THEN Proceed([scan EXCEPT !.pc = "schedule", !.next = 1])
        ELSE Proceed([scan EXCEPT !.next = p + 1, !.ledger[p] = Observe(repo.tree, p)])

(* The rules run on what was read; then the second collection starts. *)
Schedule ==
  ScanAt("schedule") /\ Proceed([scan EXCEPT !.pc = "head", !.round = 2, !.got = NoMetadata])

(* hasRelevantUntracked: a file that the first metadata's index does not track. *)
HasUntracked ==
  \E p \in ScanPaths : scan.ledger[p] # Absent /\ p \notin Tracked(scan.first.index)

(* The final inventory and the ledgers are compared, path by path, after the second and
   after the third collection; after the second the inventories must be complete too. *)
RereadPath ==
  /\ ScanAt("reread")
  /\ LET p == scan.next
     IN Proceed(
          IF p <= NPaths
          THEN IF Observe(repo.tree, p) = scan.ledger[p]
               THEN [scan EXCEPT !.next = p + 1] ELSE [scan EXCEPT !.pc = "full"]
          ELSE IF scan.round # 2
          THEN [scan EXCEPT !.pc = "plan"]
          ELSE IF InventoryIsComplete(scan.ledger)
          THEN [scan EXCEPT !.pc = "head", !.round = 3, !.next = 1, !.got = NoMetadata]
          ELSE [scan EXCEPT !.pc = "full"])

(* What can be planned for: nothing was deleted or changed its type, and no path that
   controls the scan changed. *)
ChangedPaths(changes) == {p \in ScanPaths : changes[p] # "none"}
Plannable(changes) ==
  /\ \A p \in ScanPaths : changes[p] \notin {"deleted", "type-changed"}
  /\ \A p \in Controls : changes[p] = "none"

(* planChangedFileMode: the changed files and what depends on them, or everything. *)
Plan ==
  /\ ScanAt("plan")
  /\ LET changes == scan.got.changes
         mapped == ~ HasUntracked /\ Plannable(changes) /\ Covers(scan.ledger, ChangedPaths(changes))
     IN Proceed([scan EXCEPT !.pc = IF mapped THEN "changed" ELSE "full"])

CollectStep ==
  \/ CollectFails
  \/ ResolveHead \/ ResolveHeadAgain \/ ResolveBase \/ ResolveBaseAgain
  \/ DiffBegins \/ GitDiff \/ DiffAfter \/ SnapshotFile("diff-files", "diff-end") \/ DiffEnds
  \/ IndexState
  \/ StateBegins \/ SnapshotFile("state-files", "state-end") \/ StateEnds
  \/ FinalHead \/ FinalState \/ SnapshotFile("final-files", "final-end") \/ FinalStateEnds
  \/ FinalHeadAgain

ScanStep == Collected \/ ReadPath \/ Schedule \/ RereadPath \/ Plan

ScanNext ==
  \/ ScanBegins \/ CollectStep \/ ScanStep
  \/ MoveHead \/ MoveBase \/ Stage \/ WriteFile

ScanSpec == ScanInit /\ [][ScanNext]_scanVars

-----------------------------------------------------------------------------
(* What changed between the merge base and what is in the repository, path by path. *)
ChangeIn(s, p) ==
  Merged(StatusOf(CommitTree(MergeBase(s.head, s.base))[p], s.index[p]),
         p \in Tracked(s.index) /\ s.tree[p] # s.index[p])
ChangesIn(s) == [p \in ScanPaths |-> ChangeIn(s, p)]

(* What a scan reads of a tree when nobody changes it. *)
Observed(tree) == [p \in ScanPaths |-> Observe(tree, p)]

(* A result is cut down to the changed files only when there was one instant at which
   the repository had exactly those changes, none of them a deletion, a change of type or
   one of a controlling path, tracked every file that is there, and held everything that
   the scan had read, although no two reads happen together. *)
SubsetIsConsistent ==
  ScanAt("changed") =>
    \E s \in held :
      /\ scan.got.changes = ChangesIn(s) /\ Plannable(ChangesIn(s))
      /\ s.head = scan.got.head /\ s.base = scan.got.base
      /\ scan.ledger = Observed(s.tree)
      /\ \A p \in ScanPaths : s.tree[p] # Absent => p \in Tracked(s.index)

(* The repository as it is does not allow a subset: a file is untracked or missing, a
   tracked one is a link, a change cannot be planned for, or what is there cannot be
   enumerated or covered completely. *)
SubsetImpossible ==
  \/ \E p \in ScanPaths : (repo.tree[p] = Absent) # (repo.index[p] = Absent)
  \/ \E p \in Tracked(repo.index) : Unreadable(repo.index, repo.tree, p)
  \/ ~ Plannable(ChangesIn(repo))
  \/ ~ InventoryIsComplete(Observed(repo.tree))
  \/ ~ Covers(Observed(repo.tree), ChangedPaths(ChangesIn(repo)))

(* Safety is not bought by never using the changed files: the full result stands only
   when a command failed, the repository changed during the scan, or the repository itself
   does not allow a subset. *)
FullHasReason ==
  ScanAt("full") => scan.failed \/ Cardinality(held) > 1 \/ SubsetImpossible

(* The choice between the changed files and the full result is right in both directions. *)
ScanIsTruthful == SubsetIsConsistent /\ FullHasReason
=============================================================================
