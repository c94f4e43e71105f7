# Verification of Agent Context Linter

TLA+ models of the parts of Agent Context Linter that keep state, wait for something or decide from
what happened before, the TLC configurations that check them on small instances, and TLAPS proofs of
the safety properties that the passing runs check, for every instance (under the assumptions of
section 5). Paths below are relative to the
repository root; every definition that models code is tied to its lines in `PROJECT.json`
(`map`).

## 1. The system

Most of the linter is a pipeline of pure functions: it discovers instruction files, parses them,
resolves the effective context of each coding agent, evaluates rules and prints diagnostics. Around
that pipeline are the parts in which time, failure and concurrency matter. They write files
(standards cache, lockfile, fixes, baselines), talk to a registry, run child processes and workers,
read a repository that others change, and bound all of that by deadlines and limits.

| Component | Source (`packages/`) | State | Hard behaviour | Module |
|---|---|---|---|---|
| Cache write lock | `standards/src/standards-cache.ts` | append-only generation files, slot directories, owner records, one loopback server per holder | several processes, no unlink, deaths at any await, deadline and cleanup budget | CacheLock |
| Cache entries | same | content addresses, one temporary path per address, quarantine | publication in two steps (link, unlink), compare then unlink, limits | CacheStore |
| Atomic writer | `evidence/src/atomic-writer.ts` | lock file, temporary file, target | compare-and-swap out of separate system calls; failure after commit | AtomicWriter |
| Standards update | `standards/src/standards-update.ts` | lockfile, receipts in memory | stale reads, three components in a row, partial failure, one-use receipts | StandardsUpdate |
| Trust store and check | `standards/src/tuf-trust.ts`, `standards-check.ts` | trusted root, timestamp, snapshot, targets | objects fetched one by one from a registry that changes, key rotation | TrustedUpdate |
| Registry client | `standards/src/registry-client.ts` | permits, resolver, connection | every phase races a timer and a signal; cleanup with a timeout of its own | RegistryClient |
| Weekly check | `tools/standards/local-weekly-check.mjs` | baseline, candidate, review, state file | two processes, failures and deaths between renames | WeeklyCheck |
| Safe fixes | `evidence/src/safe-fix-pipeline.ts` | issued and applied previews | one use, stale source, composition of edits | SafeFix |
| Canonical policy | `resolver/src/canonical-policy-sync.ts` | issued targets; the caller's base | three-way comparison with bases that get lost or damaged, hand edits | CanonicalPolicySync |
| Exact tokenizer | `efficiency/src/exact-tokenizer.ts` | worker, settling flag, containment switch | five events race, termination grace | ExactTokenizer |
| Rule scheduler | `rules/src/rule-scheduler.ts` | levels, shared cursor | worker pool, abort, deadline, deterministic output | RuleScheduler |
| Bounded resolution | `resolver/src/bounded-resolution.ts` | task queue, byte totals | worker pool, deadline, late results | BoundedResolution |
| Context cache | `resolver/src/effective-context-cache.ts` | insertion-ordered map with weights | eviction at two limits, key of everything that matters | ContextCache |
| Git executor | `cli/src/git-metadata-executor.ts` | child process, timers, handles | SIGTERM, SIGKILL, close, output limits, late handles | GitProcess, OperationContext |
| Changed-file scan | `cli/src/scan-command.ts`, `evidence/src/changed-file-metadata.ts`, `rules/src/changed-file-mode.ts` | recorded reads | collect, read, collect, re-read while people work | ChangedScan, ScanInvariants |
| Command line | `cli/src/process-cli.ts`, `command-router.ts` | pending write, interrupt | settle once, exit code against delivery | CommandRouter |
| Read-only facade | `evidence/src/read-only-filesystem.ts` | usage, one handle per call | files, links and root change between system calls; late opens | ReadOnlyRepository |
| Import graph | `evidence/src/import-graph-loader.ts`, `resolver/src/document-import-dag.ts` | nodes, edges, call stack | six limits, cycles, aliases, order across awaits | ImportGraph |
| Ignore engine | `evidence/src/ignore-engine.ts` | one list of rules | sources read in the order they govern, globstars, negation | IgnoreEngine |
| Activation | `resolver/src/activation-algebra.ts` | observed facts | three-valued logic with provenance | ActivationAlgebra |
| Baseline of diagnostics | `core/src/diagnostic-baseline.ts` | recorded entries | collisions, moves, expiry | DiagnosticBaseline |

How they interact. `standards update` observes the lockfile, asks the checker (registry client and
trust store) for a verified candidate, publishes it through the cache (write lock, then
`storeEntry`), and replaces the lockfile through the atomic writer. Fixes use the same writer, and
the policy synchronisation uses the fixes. `scan` reads through the facade and the ignore engine,
runs Git through the executor, loads import graphs, resolves contexts in the bounded pool (through
the cache) and hands them to the rule scheduler. The cache is shared by all processes of a user and
the repository by all its tools, so file operations interleave at every `await`; the only
synchronisation is what the file system makes atomic: `mkdir`, exclusive create, `link` without
overwrite, `rename`. Inside one process the components share no mutable state except the permits,
the tokenizer's switch and the context cache.

`PROJECT.json` lists every component, also those without a module, and under `hazards` what can go
wrong at which line and which property would notice.

## 2. Modules

```
GenerationLock  <--implements-- CacheLock      MCCacheLock, CacheLockProofs
      ^ (promise used by)
CacheStore                                     MCCacheStore, CacheStoreProofs
      ^ (promise used by)
StandardsUpdate --INSTANCE--> CompareAndSwap <--implements-- AtomicWriter
MCDecisions, DecisionProofs                    MCAtomicWriter, AtomicWriterProofs

DeterministicBatch <--implements-- BoundedResolution, RuleScheduler

MCProcesses       ExactTokenizer RegistryClient GitProcess OperationContext CommandRouter
                  ReadOnlyRepository BoundedResolution RuleScheduler          ProcessProofs
MCRepositoryWork  ChangedScan SafeFix ContextCache ImportGraph                RepositoryProofs
                  ReadOnlyRepository                                          ProcessProofs
                  IgnoreEngine                                                DecisionProofs
ScanInvariants    what holds of ChangedScan between its reads                 RepositoryProofs
MCDecisions       StandardsUpdate ActivationAlgebra DiagnosticBaseline
                  CanonicalPolicySync WeeklyCheck                             DecisionProofs
MCTrustedUpdate   TrustedUpdate                                               TrustedUpdateProofs

Totals            sums, as the loops of the code add them up                  NumberLemmas
```

Components that share no state are checked together, one per behaviour: the variable `component` of
`MCProcesses`, `MCRepositoryWork` and `MCDecisions` says which, and the others stay as they are.

An operator whose comment begins with "Faulty variant" is a plausible bug of the definition that
follows it. It is not part of any specification; substituting it for that definition makes the
property it is meant for fail (`PROJECT.json`, `mutants`).

### CacheLock and GenerationLock

A caller of `acquireWriteLock` is a member of `Procs` with a program counter; callers of one process
and of several interleave alike. Slot directories are never removed, so a slot number stands for the
directory, its owner record's inode, the record's random `nextToken` and its server. `gen[x]` is the
record linked at path `x`; path `s` is the one nominated by the record of slot `s`. The actions are
the steps of the code between awaits that other callers can notice:

| Action | Code |
|---|---|
| `ListGenerations`, `BeginScan`, `ScanSlot` | `#lockGenerationNames`, `#validateLockTemporaryDebris` |
| `ProbeDead`, `ProbeNotDead`, `WalkUnexplained`, `WalkEnds` | `#selectLockSlot`, `#readLockOwner`, `probeLockHolder` |
| `ReserveSlot`, `Listen`, `CreateRecord`, `WriteRecord`, `CheckBudget`, `LinkGeneration`, `Complete` | `#reserveLockAuthoritySlot`, `startLockHolder`, publication in `acquireWriteLock` |
| `HolderTimer`, `Interrupt`, `CloseHolder`, `CleanupLapses`, `Retry` | acquisition timer, budgets, catch block, retry wait |
| `Release`, `FinishRelease`, `ReleaseFails` | `#releaseLock` |
| `Crash` | process death: the operating system closes the servers, files stay |

`GenerationLock` says what the lock is for: generations succeed one another, each is new, is granted
once, only to its publisher, and only when no other is served. `CacheLock` implements it under the
mapping `Tip`, `TipServer`, `TipStatus`. The budget is looked at for the last time before an `lstat` and a
`realpath` that are awaited; the timer may close the server there, and the link that follows publishes
a generation that nobody serves. It is used up without ever having been granted
(`GenerationLock!PublishClosed`), and the next caller walks over it like over a dead one.

### CacheStore

Files are inodes; `temp[a]` and `final[a]` are the two names an address can have and `Links` counts
names. An inode is `partial`, `good` or `bad` (bytes whose digest differs). Each `await` of
`storeEntry` and `quarantineCorruptEntry` that touches the disk is an action. `readEntry` is one
step, because `#readExact` compares the path and the handle before and after it reads. A corrupt
address has one corrupt content, so one quarantine name per address. `Overlap` distinguishes callers
that await each call from callers that run several on one capability, which the interface allows.
The lock is taken from `GenerationLock`'s promise.

### AtomicWriter and CompareAndSwap

One target, any number of `write` calls, inode numbers that are reused. The actions follow `write`
step by step: lock file, first observation, temporary file, fill, two re-comparisons, rename,
verification of the published inode, two directory syncs, release, and the two parts of
`#cleanupFailure`. `Fails` lets any step before the commit fail (path, mode, size, abort, I/O, a
timestamp that differs), so that every error path is taken. The environment may kill a writer, remove
leftovers as the documentation allows an operator to, and edit the file as a noncooperating editor.
`CompareAndSwap` is what callers rely on: request, swap if the file is the expected one, answer
truthfully.

### StandardsUpdate

`activate` and `rollbackStandardsUpdate`, composed of what the layers promise: the lockfile is a
`CompareAndSwap` instance (its contents are lockfiles), the cache lock is exclusive, a cache entry
is `none`, `valid` or `broken` (the permanent two-link state that `CacheStore` exhibits,
section 4). Lockfile bytes are determined by the trusted version and the second of the check
(`fixedStart` drops the milliseconds). The check is the assumption that a verified version is not
older than the trusted state it started from, which is a theorem about `TrustedUpdate`
(`TrustOnlyMovesForward`).
Receipts are in-memory capabilities: `Restart` loses them.

### TrustedUpdate

The publisher keeps an append-only list of roots and of releases; `Rotate` and `Release` extend
them, a release after a rotation of the online keys may restart its version numbers. A check takes
the trusted state, then one object per await: roots until one is missing, timestamp, snapshot,
targets, channel metadata, pack. A mirror may be behind and may misplace an object. `Verdict` is
`verifyUpdate`, with its rejections in the order of the code and the reset of the online state after
a rotation; `Adopt` is the activation, which succeeds only over the state the check started from.
A digest is the object itself, a signature the equality of a key generation.

### Waiting for what may never answer

* **ExactTokenizer**: a call, its worker thread, the five events that settle it, the grace period of
  its termination and the switch that an unconfirmed termination turns off. `ThreadsAreContained`
  says that a thread outlives its call only when the switch is off, that an exact count comes from a
  thread known to be gone, and that no thread starts once the switch is off.
* **RegistryClient**: permit, resolver, connection, handshake, response, body, cleanup.
  `NothingLeftRunning` relates the permits, what is open on the network and what is returned.
* **GitProcess**: `runGit` with both identity comparisons, all ways to stop and the events of the
  child. `OutputIsTrusted`: no child outlives its command, and output is handed on only from a child
  that ended by itself between two equal identities.
* **OperationContext**: `wait` and `open` with the event loop's queue of microtasks, because the
  order of promise reactions decides who closes a handle that arrives late.
* **CommandRouter**: handler, stream, SIGINT, router and exit code. `ReportIsTrue`: success means
  that everything accepted was delivered; an interrupt is never reported as an operational error, unless
  the removal of the SIGINT listener threw; and after an interrupt nothing more is submitted to the
  stream. The one write that was under way cannot be taken back: its promise settles as a failure, and
  its bytes may still be written (`AbandonedSettles`).
* **ReadOnlyRepository**: one call at a time on a path of two components, one system call per step,
  with changes of files and links in between, and a root that is moved away, replaced and
  moved back. `ReadIsASnapshot`: what a call returns was there at one moment, inside the root, and was
  counted. Every change of a file gives it a new ctime. The root is only known by device and inode, so
  that one that was away during a call and is back before its last check goes unnoticed: then the
  property says of a file that it is whole, and nothing of a listing or of where the file lies (section 4).
* **BoundedResolution, RuleScheduler** implement **DeterministicBatch**: the answer is a function of
  the job or says that the batch was stopped. `ResolutionIsDeterministic` adds the byte limits,
  `SchedulerIsDeterministic` that a family is handed over after its dependencies.

`EveryCallReturns` is the conjunction of what each of these eight promises about returning, and
`NoHandleLeaks` that of the two that open files.

### Working on a repository that changes

* **ChangedScan**: metadata three times, reads three times, and edits, stages, commits and fetches
  between any two of them; then `Plan`, the decision of `planChangedFileMode`. A path is added, modified,
  deleted or of another type; links and paths that control the scan are distinguished.
  `InventoryIsComplete` and `Covers` are constants that stand for what pure code makes of the
  observations: whether discovery, parsing and resolution were complete, stayed within their limits and
  could map the changed paths. `ScanIsTruthful`: a result is cut down to the changed files only when at
  one instant the repository had exactly those changes, all of them of a kind that can be planned for,
  and everything that was read; and a full result has a reason: a command that failed, a change during the
  scan, or a repository that does not allow a subset (`SubsetImpossible`). Which of the reasons the
  result names is not modelled.
* **SafeFix**: previews composed from edits, taken once, revalidated and written. The writer's last
  comparison and its rename are two awaits: its lock keeps other fixes out of the window between
  them, but no editor. `FixReplacesAnalysed` says that what is replaced is what was analysed, unless an editor
  saved in that window of this very call (`raced`), and compares the composition with a reference that
  reads the edits position by position; `AppliedOnce` is about concurrent and repeated applies and
  about what their results say.
* **ContextCache**: `MemoAccounts` relates the incremental weight to the entries and counts every
  result once; `ReuseIsInvisible` says that a hit is what a miss would compute.
* **ImportGraph**: the recursive `visit` as a stack machine with all limits. `GraphIsAccepted` is
  what `document-import-dag.ts` requires (and that the expansion has no cycle), `EncounterOrder` the
  order of edges, `CompleteIsClosed` that a graph called complete misses nothing.
* **IgnoreEngine**: sources, nested files and decisions. `DecisionsFollowGit` compares every
  decision with a reference for `gitignore(5)`, and says that no ignore file below an excluded
  directory is read.

### Deciding from what came before

* **ActivationAlgebra**: `ActivationIsExact` compares the state with two-valued logic over all worlds
  that agree with the observed facts: the provenance proves the state, and a rule is left open only
  when unobserved facts can decide it either way.
* **DiagnosticBaseline**: `BaselineIsExact`: an entry hides at most one diagnostic, with its content,
  at its path or at the end of one declared move; and the report a baseline was made from is hidden.
* **CanonicalPolicySync**: `HandEditsSurvive` says that what is replaced is a generated text, or nothing,
  unless the edit fell between the writer's last comparison and the rename of this very call
  (`overtaken`); it does not say that the replaced text was the last one written. `KeptBaseServes`: a base
  kept of a preview or an apply since which the file has stayed as it is serves the next preview, whatever
  other calls, lost or damaged bases and failures after the rename came before.
* **WeeklyCheck**: `replaceDirectory`, check and accept, one file system call per step.
  `BaselineRetained`: the last baseline is on disk as a whole, in its place or aside.

## 3. Runs

Bounds are constants of the modules and named there. Two callers are the fewest that race.

| Run | Instance | Shows |
|---|---|---|
| `lock` | 2 callers, 2 slots, 2 attempts, 1 death | `MutualExclusion`, `ExhaustionIsReal`, `SuccessionAfterDeath`, the inductive invariant, `ImplementsGenerationLock`, `AcquisitionReturns`. Both slots can be taken, die and be walked over; the proofs cover any number. |
| `store` | 2 processes, 2 addresses, quarantine of 2, 3 inodes, 1 death, awaited calls | `ValidDataPreserved`, `EvidenceKept`, and `StoreInvariant`. A quarantine of 2 is full and is not: a second quarantine of an address finds the copy of the first, complete or cut short by a death, and the limit is reached with both addresses in it. 1.1 million states. |
| `writer_cas` | 2 calls (each may run again and again), 3 inodes, 2 contents, 1 death | `LeftoversAreReported`, `ImplementsCompareAndSwap`. Three inodes are target and one temporary file each; two contents and reuse make ABA possible. |
| `writer_outsider` | the same, 1 outside edit and 1 death | `TargetIsWhole`. 4.0 million states. |
| `trust` | 2 checks, 3 roots, 2 releases, one publication while checks fetch, one misplaced object | `TrustIsOneRelease`, `TrustMovesForward`, `LatestIsAccepted`. Three roots allow two rotations to be missed; two releases are what a mixture needs. |
| `decisions` | 2 activations, 2 inodes, versions 0 and 1, 2 seconds, 1 receipt; rules over 5 facts; reports of 2 of 6 diagnostics, 2 moves; 3 canonical versions, 2 hand edits, 2 calls; scheduler and maintainer, 4 commands, 1 death, 1 failure | `ActiveIsCached`, `ActivationNeverDowngrades`, `ActivationIsExact`, `BaselineIsExact`, `HandEditsSurvive`, `KeptBaseServes`, `BaselineRetained`. Two seconds make a re-check of version 0 a real candidate that a stale call could put over version 1. |
| `processes` | 2 token calls; 2 fetches for 1 permit; one Git child, wait and command; 3 tasks for 2 workers, sizes around both limits; 4 families for 2 workers | `ThreadsAreContained`, `NothingLeftRunning`, `OutputIsTrusted`, `NoHandleLeaks`, `ReportIsTrue`, `ResolutionIsDeterministic`, `SchedulerIsDeterministic`, `EveryCallReturns`. |
| `repository_work` | 2 files (an instruction and a control path), a link, 2 commits, 3 edits; 2 pipelines, previews and applies over 2 marks; 2 profiles, graphs and settings, 4 misses; 5 documents of up to 3 imports; 3 counted reads under 2 changes; 3 ignore files of up to 2 lines | `ScanIsTruthful`, `AppliedOnce`, `FixReplacesAnalysed`, `MemoAccounts`, `ReuseIsInvisible`, `GraphIsAccepted`, `EncounterOrder`, `CompleteIsClosed`, `ReadIsASnapshot`, `DecisionsFollowGit`. Five documents under a depth of 2, 4 files, 4 edges, a fan-out of 2 and 2 bytes reach each of those limits; the limit of references cannot be reached (section 5). 2.8 million states. |
| `lock_debris`, `store_overlap`, `ignore_grammar`, `weekly_accept` | small | the findings of section 4 |

Every property of a passing run has a faulty variant of one definition under which TLC finds it
violated (`PROJECT.json`, `mutants`). Symmetry is declared for calls, inodes, checks and previews,
which nothing orders or chooses among, and in no run with a liveness property.

The runs of the lock, the writer and the trust store check for deadlock. The others do not: their
counters are bounded, and a behaviour that has used them up, or a component that has answered, may
stop.

Fairness is weak fairness of what the process itself owes, and of nothing else:

* lock: each caller's own continuations, and noticing an expired budget;
* tokenizer: the deadline and the grace timer; a thread may never answer or end;
* registry: the phase timers and the cleanup timer; resolver, peer and caller owe nothing;
* Git: deadline timer, SIGKILL timer, the death of a process that was sent SIGKILL, its `close`
  event and the callback; Git itself may ignore SIGTERM;
* operation context: the deadline timer and the microtasks;
* command line: the router's resumption and its report, and after an interrupt the end of the report's
  race; handlers and streams may hang;
* facade: the timer of `#awaitBounded` and the failure of a call that has met it;
* resolution: the deadline timer and the continuation of the caller; an executor may hang;
* scheduler: delayed workers resume (their delay is a timer) and levels end.

A behaviour of `MCProcesses` leaves the other components in their initial states, in which none of
their fair actions is enabled, so their fairness excludes nothing.

## 4. Findings

Four runs expect a violation: each states a sentence of the documentation and shows a behaviour of
the code that disagrees with it.

1. `lock_debris`, `DebrisIsHarmless`. "Private one-link pre-publication debris is
   non-authoritative" (`docs/api/standards-cache.md:106`). A process that dies between creating and
   writing its owner record leaves an empty file, which every later acquisition rejects with
   `unsafe-cache` (`standards-cache.ts:1440`).
2. `store_overlap`, `ValidDataPreserved`. "Valid data ... are preserved" (`:146`). Two overlapping
   quarantines and a store on one capability: the second `unlink` removes the valid entry
   (`:1314`). With calls that are awaited one by one the property holds, and is proved.
3. `ignore_grammar`, `GrammarIsGits`. "Repository patterns implement the Git 2.55.0 documented
   grammar" (`docs/api/ignore-engine.md:62`). A pattern with a trailing `**` needs as many path
   components as it has itself, a leading `**` included (`ignore-engine.ts:1069`): `**/a/**` does not
   exclude `a/a`.
4. `weekly_accept`, `AcceptedIsReviewed`. accept will "explicitly promote the reviewed candidate"
   (`docs/user/standards.md:118`). A check that fails after it replaced the candidate and before its
   review leaves the state of an earlier change, which is all that accept asks for
   (`local-weekly-check.mjs:328`).

The models also have behaviours that no run is about:

* A record linked between a contender's listing and its scan is an unexplained alias: the contender
  fails with `unsafe-cache` instead of finding the lock busy (`standards-cache.ts:1449`;
  `docs/api/standards-cache.md:103` says "A live signed holder remains busy").
* When the cleanup deadline is already over, `closeLockHolder` throws before `server.close`
  (`CleanupLapses`, `standards-cache.ts:571`), so that a failed acquisition keeps serving its
  generation until its process ends. The lock stays exclusive; others find it busy.
* A failure or death between `link` and `unlink` makes the "brief two-link state"
  (`docs/api/standards-cache.md:131`) permanent: unreadable, and not repaired by a later store
  (`standards-cache.ts:1219`).
* A rollback that committed and then failed, or that another rollback of the same receipt overtook,
  leaves the receipt in the map (`standards-update.ts:832`); when the same bytes are activated again
  under a reused inode number, it restores again, although a receipt "can be consumed once"
  (`docs/api/standards-update.md:98`).
* The catch of `replaceDirectory` removes the target also when the first rename failed, and restores
  a backup that a failed `rm` has half removed (`local-weekly-check.mjs:121`); therefore
  `BaselineRetained` is stated for behaviours in which no file operation failed. A death between the
  two renames leaves the baseline only under its `.old-` name, and the next check asks for a new one.
* A root that is renamed away and back between two checks goes unnoticed, for `#assertRoot` compares device
  and inode (`read-only-filesystem.ts:977`); a listing taken meanwhile is of the directory that stood in
  its place. `docs/api/read-only-repository.md:61` says that "directory
  replacement, and root replacement fail without returning content or names" (`RootReturns` in the
  model).
* An edit between the writer's last comparison (`atomic-writer.ts:718`) and its rename (`:727`) is lost, for
  fixes and for policy files alike. `docs/api/atomic-writer.md:92` says so.
* `#awaitBounded` checks the deadline before it races the promise it was given
  (`read-only-filesystem.ts:787`): when the check throws, a later rejection of that promise has no
  handler.

## 5. Proofs

All theorems hold for every value of the constants that satisfies the assumptions named in the modules,
which TLC evaluates in the runs of those modules: markers are distinct, bounds are numbers, and limits
are such as the code's own validation of its options leaves them. Five assumptions say more:

* `ImportAssumption` has `MaxReferences >= MaxEdges + (MaxDepth + 1) * MaxImports`. The constants of the
  code satisfy it: 65,536 edges, depth 32 and the lexer's 4,096 imports per document
  (`import-lexer.ts:30`) make 200,704, and `document-import-dag.ts:33` admits 262,144.
* `OneMaintainer` (`WeeklyCheck`): one person accepts baselines, next to one scheduled check. Nothing
  in `local-weekly-check.mjs` keeps two acceptances apart, and two that replace the baseline at once
  may lose it.
* `IgnoreAssumption`: no built-in pattern has a component `**`. Those of `built-in-ignore-patterns.ts` are
  names of directories.
* `NothingReturns`, a hypothesis of `ScansAreTruthful`: no part of the repository (head, base, index, the
  content of one file) returns during a scan to a value it had earlier in it. Without it the theorem is
  false: somebody who swaps each piece away and back exactly between its observations makes all of them
  agree about a state that never was, and no comparison of values can notice that. The run allows such
  changes but only three of them in one scan, too few to deceive it.
* `StandardsUpdate` takes from its checker what `TrustedUpdate` proves of it, and from the layers below
  what `CacheLock`, `CacheStore` and `AtomicWriter` prove.

No safety property here is inductive by itself. Each section of a proof module states one
invariant, proves that every action keeps it, one lemma or step per action and under it one per
conjunct that the action can disturb, and derives the properties.

**CacheLockProofs.** `LockInvariant` adds to `OneChain` that a walk stands on a published, dead
generation (`WalkedOverDead`), that a slot belongs to one attempt (`SlotsAreOwned`), how far each
record has got (`RecordProgress`) and that an unexpired acquisition is served (`HolderServes`). The key
is that death is stable: a slot's server listens once, so a stale probe that saw a dead generation is
still right when the link happens, and two racing links meet at one path. Exclusion, the live tip, the
single chain, succession after death and append-only storage follow. `LimitMeansExhausted` counts: a
walk holds distinct claimed slots, so when it has as many as there are, all are claimed.
`LockImplementsSuccession`: the abstract state is a function of the chain's tip. `LinkGeneration` is
`Publish`, or `PublishClosed` when the deadline came first, `Complete` is `Grant`, a failure or release `Revoke`, a timer, close or death of the tip's
server `Close`; all other steps stutter.

**CacheStoreProofs.** `StoreInvariant`: a call in flight owns its temporary file, has written it before
the link and copied before the removal. Publication and evidence hold without discipline of the
callers; `SequentialUseKeepsData` and `SequentialUseBoundsQuarantine` assume `~Overlap`, which finding
2 shows to be necessary for the first.

**AtomicWriterProofs.** `WriterInvariant`: the lock file is exclusive, temporary files are private until
the rename, and (without outsiders) the first comparison stays true until the commit, because only
the lock's owner renames. `TargetIsAlwaysWhole` and `LeftoversAreNeverSilent` need no assumption;
`CooperatingWritersNeverLoseAnUpdate` and `AtomicWriteIsCompareAndSwap` assume `MaxEdits = 0`, the
limitation that `docs/api/atomic-writer.md` states for noncooperating processes.

**DecisionProofs**, for the components of `MCDecisions` and the ignore engine:

* *Standards update.* `UpdateInvariant`: the writer works on what the call asked, a candidate is bound to
  the observed bytes, everything that is or may become active is published. Since a valid entry stays
  valid, an active lock never loses its pack, and the compare-and-swap turns a stale read into a
  refusal instead of a downgrade.
* *Canonical policy.* `SyncInvariant`: the base that the caller keeps is a generated text or none, and a
  target that is ready for replacement was previewed as equal to it. A text a hand wrote, whatever
  header it kept, never equals it; what the pipeline finds is what was previewed, and between the
  comparison and the rename it can only have become a hand's. At most one call stands there, as the
  writer's lock provides. For `KeptBasesServe`, the calls in `inStep` agree about the text of the file.
* *Weekly check.* `WeeklyInvariant`: what stands aside between two renames is the target of the command,
  nothing else is in its place, and (as long as no file operation has failed) the accepted baseline is
  in its place, on its way back, or aside.
* *Diagnostic baseline.* `BaselineInvariant` says what a comparison looked at; the matching of entries
  with diagnostics is then shown to be injective and to keep content and place, and to be complete for
  the report the baseline was made from.
* *Activation.* `ActivationInvariant` follows the rule from selector to selector: what is proved so far
  holds in every world that agrees with the observed facts, and what is open can still go either way.
  Worlds are sets of facts, so no induction is needed.
* *Ignore engine.* Rule n was made of line `line[n]` of its source (`IgnoreInvariant`); rules come in the
  order of rank, depth and line; every line of a source in force has its rule; and what was
  considered but not read has no lines or lies below an excluded directory. The last part is stable
  because later rules are of directories as deep or deeper and cannot reopen a directory above them.
  Two arguments lead from there to Git. A row of the table of `compiledMatches` is true exactly at the
  places where the path can be cut as `gitignore(5)` says, by a least counterexample on the components
  of the pattern. And the flat list and the layers of sources agree at the first prefix of a path that
  either of them excludes. A pattern with a `**` before a last one is excepted, which finding 3 shows
  to be necessary.

**TrustedUpdateProofs.** `PublisherInvariant`: roots follow one another, generations of keys only grow
and change in steps, releases under one generation have growing versions. `TrustInvariant` adds what a
check in progress holds: every object it fetched was published, and the roots it has walked are those
the publisher made. Then a bundle that passes `Verdict` is one release (`TrustedIsOneRelease`), with a
position not before the trusted one (`TrustOnlyMovesForward`), and a bundle of the latest release
passes (`LatestIsNeverRefused`). This holds for any mirror, any number of releases and rotations and
any number of overlapping checks.

**ProcessProofs**, for the components of `MCProcesses`:

* *Command line*: everything accepted has been delivered, except while the handler waits for a write or has
  failed in one; a write that nobody waits for belongs to a handler that has failed.
* *Exact tokenizer, Git executor, registry client*: which resource each place in the code
  owns. `PermitsAreCounted`: the registry client's counter is the number of calls that hold a permit,
  finitely many even among infinitely many calls.
* *Operation context*: the queue of microtasks holds at most one chain of reactions, and which of its
  jobs will close or deliver an open handle.
* *Read-only facade*: numbers of contents, links and stamps come from one counter, so that whatever has
  changed differs for ever from what was seen before; what the call compares equal at the end was
  therefore equal all the time between, which is the one moment `ReadIsASnapshot` asks for. It takes
  that moment under the root as long as the root has not been away during the call.
* *Bounded resolution*: tasks are taken in order, each by one worker, and the bytes kept so far are the
  total of the tasks kept, in whatever order they arrived. A sum over tasks does not depend on the
  order of the additions; so whether a limit is exceeded, and what is returned, is a function of the
  batch alone.
* *Rule scheduler*: a family is in exactly one level, after all levels of its dependencies (by a least
  counterexample on levels); a job that was not stopped at a level's end has handed over the whole
  level, and what the checkpoints count is what the levels hold.

**RepositoryProofs**, for the other components of `MCRepositoryWork`:

* *Context cache.* `MemoInvariant`: an entry is what a cold resolution of its own key returns, and the
  running weight is the total of the entries; inserting, moving and evicting change a sum by one
  summand.
* *Safe fixes.* `FixInvariant`: at most one call has spent a preview, and commits for a preview are those of
  that call. It holds with any number of pipelines, previews and overlapping calls. A call between comparison
  and rename has either found the file as analysed, and it still is, or has been overtaken by an editor. For the text of a
  fix, `AgreeAt` compares the loop over sorted edits with the reference that goes position by position:
  up to position g, the reference has made what the loop has after the last edit that starts before g,
  and the stretch of text from its cursor to g, which is empty while an edit covers g
  (`OnePositionFurther`). It needs the edits to be pairwise apart, which follows from comparing
  neighbours only because they are sorted (`SortedRangesApart`). The order of edits with equal ranges
  is left open, as the plans that decide it are not modelled: such edits overlap.
* *Changed-file scan.* The invariants, in `ScanInvariants`, relate what a scan has recorded to the states
  that the repository went through since it began. `FullResultsHaveReasons` follows them for a scan that
  nobody disturbs: every comparison must succeed, so that only what the repository is can refuse a subset,
  whatever `InventoryIsComplete` and `Covers` are. For `ScansAreTruthful` the instant is the moment of
  `Schedule`, between the first reads and the second: a part that was found with one value before and
  after it had that value at that moment, if no part returns to an earlier value (`NothingReturns`).
* *Import graph.* `ImportInvariant`, in ten parts. A frame of the call stack waits at the position where
  its edge will go: everything encountered since lies from there on, and nothing else does (`Nested`),
  which gives the order of edges however deep the recursion was. Reuse edges lead to completed documents
  only, so a document that completes has no way back from what was complete before it
  (`CompletedIsAcyclic`: every set of completed documents has one that no reuse edge inside the set
  leads to). The references of all documents are the edge slots taken and what the open documents have
  left (`ReferencesCounted`): that is why `MaxReferences` need not be checked by the loader. Until there
  is an issue every import taken has its edge (`NothingMissed`).

**NumberLemmas** has the facts that need an induction. The provers cannot instantiate the library's
induction theorems, so each is proved by a least counterexample: a nonempty set of numbers has a least
element (`LeastNatural`, from the well-foundedness of `<`), and the claim holds just below it. They are
the existence and uniqueness of partial sums, and how totals change under an appended, inserted,
removed or changed number, their monotonicity and bounds; next to them are two facts about sorted ranges.

Some theorems state a part of a property that a run checks as a whole (`TypeCorrect`,
`HeldGenerationIsLiveTip`, `GenerationsFormOneChain`, `EntriesAreComplete`,
`SequentialUseBoundsQuarantine`) or what follows from one (`LockStateIsAppendOnly`,
`CooperatingWritersNeverLoseAnUpdate`); `WriterInvariantHolds` and `UpdateInvariantHolds` are the
inductive invariants behind the properties of the writer and the update.

Only model-checked are `AcquisitionReturns` and `EveryCallReturns`: liveness under fairness is outside
the prover's reach.

## 6. Not modelled

Inside the modelled components:

* Power loss and the effect of `fsync`: a process may die, the operating system does not. Durability
  failures are modelled as errors.
* Files substituted by something other than this code in `locks/`, `temporary/` and the cache, and
  the legacy flat aliases of the lock.
* Timestamps in the writer's snapshots. Its comparison uses identity and content; a conflict because
  of a timestamp alone is one of `Fails`. A temporary file of the writer whose identity changes during
  the call is left without an error by `#cleanupFailure` (`atomic-writer.ts:1305`); only interference
  with a private random name does that.
* `startLockHolder` failing after `listen`: its server is unreachable from any record.
* Signatures, digests and schemas: a digest is equality of contents. Expiry times of the trusted
  metadata are a rejection that may happen.
* Creations and moves of files by the safe fixes, which are refused by `apply`; rendering of patches.
* The formats of Git's index, refs and output: what a collection returns is the repository's state
  when it was taken, piece by piece.
* Arguments and help texts of the command line, configuration, and rendering of results.

Whole components (`PROJECT.json` has the reason for each): parsers and lexers, rule families,
contracts and validators, knowledge packs, configuration and organisation policy, agent profiles,
repository discovery, suppression, evidence and duplication indexes, metrics, formatters, calibration
and release tools. They are by far the largest part of the repository's lines, and pure: text
classification character by character, validation field by field, tables of vendors and of rules. A
TLA+ definition of such code would be a transcription of it, longer than an abstraction and with no
property beyond its own text. Hence the map covers a small share of all lines, about 7%, and most of
the lines of the functions in which time, failure, order or limits matter.

## 7. What is left

Every safety property of a passing run is the subject of a theorem, or of theorems about its parts; no
proof is outstanding but those of liveness. Three things would be next:

1. The traversal of repository discovery (`evidence/src/discovery-index.ts`), composed of the read-only
   facade and the ignore engine as they are modelled here.
2. A bound on `NothingReturns`: how many changes it takes to deceive a changed-file scan.
3. A model of `openDirectory` under a root that comes back, checked against the sentence of the documentation
   that section 4 quotes, and a root that the code would know again by more than device and inode.

## 8. Running

In this directory, `tlc -workers 2 -config CacheLock.cfg MCCacheLock` runs one model and
`tlapm CacheLockProofs.tla` checks one proof module; the largest, `RepositoryProofs`,
`DecisionProofs` and `ProcessProofs`, take several minutes each. `PROJECT.json` lists, for each run, its module,
configuration and expected outcome.
