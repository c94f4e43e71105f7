------------------------- MODULE ReadOnlyRepository -------------------------
(***************************************************************************)
(* The read-only repository facade                                         *)
(* (packages/evidence/src/read-only-filesystem.ts).                        *)
(*                                                                         *)
(* One path of two components below the root is inspected, read as a file  *)
(* or read as a directory while somebody else works in the repository.     *)
(* The first component is a directory or a symbolic link, to a directory   *)
(* inside the root or outside it; the second names a thing in whatever     *)
(* directory the first leads to.  Every system call is a step, so changes  *)
(* fall between any two of them.  lstat shows a link's kind and stamp and  *)
(* a thing's place and version; the kernel gives a new stamp or version    *)
(* (ctime) to everything that is moved or changed.  The root may be        *)
(* replaced by a foreign directory and come back: #assertRoot compares     *)
(* device and inode only, so that it tells nothing of what lies between.   *)
(*                                                                         *)
(* A thing's content is a sequence: the fragments of a file, the names of  *)
(* a directory.  A fragment is the number of the change that wrote it.     *)
(* Wrong types, hard links, unusable names and errors of the platform are  *)
(* one failure that may happen at every step.                              *)
(***************************************************************************)
EXTENDS Naturals, Sequences

CONSTANTS MaxReadBytes, MaxRepositoryBytes, MaxRepositoryEntries,   \* the limits
          MaxContent,     \* bound: length of a content
          MaxChanges     \* bound: changes by others

ASSUME RepositoryAssumption ==
  /\ {MaxReadBytes, MaxRepositoryBytes, MaxRepositoryEntries} \subseteq Nat \ {0}
  /\ MaxContent \in Nat /\ MaxChanges \in Nat

VARIABLES rootKept,    \* the selected root is in place
          rootLeft,    \* history: it was away since the call first looked at it
          link,        \* the first component: kind and stamp
          things,      \* what the second component names in each directory
          changes,     \* how many changes others have made
          expired,     \* the deadline has passed, or the signal is aborted
          usage,       \* #usage
          call,        \* the operation that is running (#active), or the last one
          fileHandle,  \* "none", "pending", "open", "closed"
          received     \* history: fragments and names returned so far

repoVars == <<rootKept, rootLeft, link, things, changes, expired, usage, call, fileHandle, received>>
worldVars == <<rootKept, rootLeft, link, things, changes>>

Places == {"own", "alternative", "outside"}
Operations == {"inspect", "file", "names"}
Nothing == [at |-> "idle"]

RepoInit ==
  /\ rootKept = TRUE /\ rootLeft = FALSE
  /\ link = [kind |-> "directory", stamp |-> 0]
  /\ things = [p \in Places |-> [version |-> 0, content |-> <<0, 0>>]]
  /\ changes = 0 /\ expired = FALSE
  /\ usage = [entries |-> 0, bytes |-> 0]
  /\ call = Nothing /\ fileHandle = "none" /\ received = 0

-----------------------------------------------------------------------------
(* What a system call sees. *)

LeadsTo(kind) ==
  IF rootKept THEN [directory |-> "own", inside |-> "alternative", outside |-> "outside"][kind]
              ELSE "outside"

LinkStat == IF rootKept THEN link ELSE [kind |-> "directory", stamp |-> MaxChanges + 1]

(* The resolved path goes through the first component only if that was no link. *)
Reached(seen) == IF seen.kind = "inside" THEN LeadsTo("inside") ELSE LeadsTo(link.kind)
ThingStat(seen) == [place |-> Reached(seen), version |-> things[Reached(seen)].version]

-----------------------------------------------------------------------------
(* The facade. *)

InCall == call.at \notin {"idle", "failed", "returned"}

(* Failures close the handle that is open; a pending open is closed once it settles. *)
Fail ==
  /\ call' = [at |-> "failed"]
  /\ fileHandle' = IF fileHandle = "open" THEN "closed" ELSE fileHandle

(* A system call of the operation that is answered in time (#awaitBounded). *)
Answered(at) == call.at = at /\ ~expired

(* Any step may fail instead: the deadline, the signal, the operation limit
   (#countOperation), the platform, or what the step finds. *)
CallFails ==
  /\ InCall /\ call.at # "close"
  /\ Fail
  /\ UNCHANGED <<worldVars, expired, usage, received>>

(* inspect, readDirectory or readFile; #operation refuses a second one meanwhile. *)
CallBegins(op) ==
  /\ ~InCall /\ ~expired
  /\ call' = [at |-> "root", op |-> op]
  /\ fileHandle' = IF fileHandle = "pending" THEN "pending" ELSE "none"
  /\ UNCHANGED <<worldVars, expired, usage, received>>

AssertRoot ==
  /\ Answered("root") /\ rootKept
  /\ rootLeft' = FALSE
  /\ call' = [call EXCEPT !.at = "resolve-link"]
  /\ UNCHANGED <<rootKept, link, things, changes, expired, usage, fileHandle, received>>

(* #resolve: the first component; a link is read and looked at once more. *)
ResolveLink ==
  /\ Answered("resolve-link")
  /\ call' = [at |-> IF LinkStat.kind = "directory" THEN "resolve-thing" ELSE "read-link",
              op |-> call.op, link |-> LinkStat]
  /\ UNCHANGED <<worldVars, expired, usage, fileHandle, received>>

ReadLink ==
  /\ Answered("read-link")
  /\ LinkStat = call.link /\ call.link.kind = "inside"
  /\ call' = [call EXCEPT !.at = "resolve-thing"]
  /\ UNCHANGED <<worldVars, expired, usage, fileHandle, received>>

Seen == [place |-> Reached(call.link), version |-> ThingStat(call.link).version,
         content |-> things[Reached(call.link)].content]

(* The last component, then #boundedFileSize and #consumeEntries. *)
ResolveThing ==
  /\ Answered("resolve-thing")
  /\ call.op = "file" => Len(Seen.content) <= MaxReadBytes
  /\ usage.entries + 1 <= MaxRepositoryEntries
  /\ usage' = [usage EXCEPT !.entries = @ + 1]
  /\ call' = [at |-> [inspect |-> "recheck-link", file |-> "pay", names |-> "open"][call.op],
              op |-> call.op, link |-> call.link, thing |-> Seen, buffer |-> <<>>]
  /\ UNCHANGED <<worldVars, expired, fileHandle, received>>

(* #consumeBytes, after its entry was counted: a file that exceeds the total fails here. *)
PayBytes ==
  LET size == Len(call.thing.content)
  IN /\ call.at = "pay"
     /\ usage.bytes + size <= MaxRepositoryBytes
     /\ usage' = [usage EXCEPT !.bytes = @ + size]
     /\ call' = [call EXCEPT !.at = "open"]
     /\ UNCHANGED <<worldVars, expired, fileHandle, received>>

(* #openFile and #openDirectory: the platform's open may settle long after the race. *)
OpenStarts ==
  /\ Answered("open") /\ fileHandle = "none"
  /\ fileHandle' = "pending"
  /\ call' = [call EXCEPT !.at = "opening"]
  /\ UNCHANGED <<worldVars, expired, usage, received>>

OpenSettles ==
  /\ Answered("opening")
  /\ fileHandle' = "open"
  /\ call' = [at |-> IF call.op = "file" THEN "stat" ELSE "read", op |-> call.op,
              link |-> call.link, thing |-> call.thing, buffer |-> <<>>,
              handle |-> Reached(call.link)]
  /\ UNCHANGED <<worldVars, expired, usage, received>>

(* The continuation of an open whose race was lost closes the handle. *)
OpenSettlesLate ==
  /\ fileHandle = "pending" /\ call.at # "opening"
  /\ fileHandle' = "closed"
  /\ UNCHANGED <<worldVars, expired, usage, call, received>>

HandleIsThing ==
  /\ call.handle = call.thing.place
  /\ things[call.handle].version = call.thing.version

(* #readStableFile compares the handle before the first and after the last read. *)
StatHandle(at, next) ==
  /\ Answered(at) /\ HandleIsThing
  /\ call' = [call EXCEPT !.at = next]
  /\ UNCHANGED <<worldVars, expired, usage, fileHandle, received>>

(* A fragment or a name; a file that grows beyond its size fails. *)
ReadFragment ==
  LET content == things[call.handle].content
      i == Len(call.buffer) + 1
  IN /\ Answered("read")
     /\ i <= Len(content)
     /\ call.op = "file" => i <= Len(call.thing.content)
     /\ call.op = "names" => usage.entries + 1 <= MaxRepositoryEntries
     /\ usage' = [usage EXCEPT !.entries = IF call.op = "names" THEN @ + 1 ELSE @]
     /\ call' = [call EXCEPT !.buffer = Append(@, content[i])]
     /\ UNCHANGED <<worldVars, expired, fileHandle, received>>

(* The end of the file must be at its size; a directory ends where it ends. *)
ReadEnds ==
  /\ Answered("read")
  /\ Len(call.buffer) >= Len(things[call.handle].content)
  /\ call.op = "file" => Len(call.buffer) = Len(call.thing.content)
  /\ call' = [call EXCEPT !.at = IF call.op = "file" THEN "stat-again" ELSE "close"]
  /\ UNCHANGED <<worldVars, expired, usage, fileHandle, received>>

(* A close that fails, or that the deadline overtakes, fails the call; it was issued. *)
CloseHandle ==
  /\ call.at = "close"
  /\ fileHandle' = "closed"
  /\ \/ ~expired /\ call' = [call EXCEPT !.at = "recheck-link"]
     \/ call' = [at |-> "failed"]
  /\ UNCHANGED <<worldVars, expired, usage, received>>

(* Faulty variant: only the last component is looked at again. *)
RecheckLinkSkipped ==
  /\ Answered("recheck-link")
  /\ call' = [call EXCEPT !.at = "recheck-thing"]
  /\ UNCHANGED <<worldVars, expired, usage, fileHandle, received>>

(* #recheck, every component in turn. *)
RecheckLink ==
  /\ Answered("recheck-link")
  /\ LinkStat = call.link
  /\ call' = [call EXCEPT !.at = "recheck-thing"]
  /\ UNCHANGED <<worldVars, expired, usage, fileHandle, received>>

RecheckThing ==
  /\ Answered("recheck-thing")
  /\ ThingStat(call.link) = [place |-> call.thing.place, version |-> call.thing.version]
  /\ call' = [call EXCEPT !.at = "root-again"]
  /\ UNCHANGED <<worldVars, expired, usage, fileHandle, received>>

CallReturns ==
  /\ Answered("root-again") /\ rootKept
  /\ call' = [call EXCEPT !.at = "returned"]
  /\ received' = received + Len(call.buffer)
  /\ UNCHANGED <<worldVars, expired, usage, fileHandle>>

-----------------------------------------------------------------------------
(* Everybody else. *)

ThingChanges(p) ==
  LET old == things[p].content
      Becomes(content) ==
        things' = [things EXCEPT ![p] = [version |-> changes + 1, content |-> content]]
  IN /\ changes < MaxChanges
     /\ changes' = changes + 1
     /\ \/ \E i \in DOMAIN old : Becomes([old EXCEPT ![i] = changes + 1])
        \/ Len(old) < MaxContent /\ Becomes(Append(old, changes + 1))
        \/ old # <<>> /\ Becomes(SubSeq(old, 1, Len(old) - 1))
     /\ UNCHANGED <<rootKept, rootLeft, link, expired, usage, call, fileHandle, received>>

LinkMoves ==
  /\ changes < MaxChanges
  /\ changes' = changes + 1
  /\ \E kind \in {"directory", "inside", "outside"} \ {link.kind} :
       link' = [kind |-> kind, stamp |-> changes + 1]
  /\ UNCHANGED <<rootKept, rootLeft, things, expired, usage, call, fileHandle, received>>

(* A foreign directory takes the root's place. *)
RootReplaced ==
  /\ rootKept /\ changes < MaxChanges
  /\ rootKept' = FALSE /\ changes' = changes + 1
  /\ rootLeft' = (rootLeft \/ InCall)
  /\ UNCHANGED <<link, things, expired, usage, call, fileHandle, received>>

(* The selected root is moved back. *)
RootReturns ==
  /\ ~rootKept /\ changes < MaxChanges
  /\ rootKept' = TRUE /\ changes' = changes + 1
  /\ UNCHANGED <<rootLeft, link, things, expired, usage, call, fileHandle, received>>

Expires ==
  /\ ~expired /\ expired' = TRUE
  /\ UNCHANGED <<worldVars, usage, call, fileHandle, received>>

RepoNext ==
  \/ \E op \in Operations : CallBegins(op)
  \/ CallFails \/ AssertRoot \/ ResolveLink \/ ReadLink \/ ResolveThing
  \/ PayBytes \/ OpenStarts \/ OpenSettles \/ OpenSettlesLate
  \/ StatHandle("stat", "read") \/ ReadFragment \/ ReadEnds \/ StatHandle("stat-again", "close")
  \/ CloseHandle \/ RecheckLink \/ RecheckThing \/ CallReturns
  \/ \E p \in Places : ThingChanges(p)
  \/ LinkMoves \/ RootReplaced \/ RootReturns \/ Expires

(* A call that has met the deadline or the signal fails: the race of #awaitBounded. *)
CallIsForced == expired /\ (CallFails \/ CloseHandle)

(* The timer of #awaitBounded comes due; the file system owes nothing, not even an answer. *)
RepoFairness == WF_repoVars(InCall /\ Expires) /\ WF_repoVars(CallIsForced)

RepoSpec == RepoInit /\ [][RepoNext]_repoVars /\ RepoFairness

-----------------------------------------------------------------------------
(* Properties *)

(* The aggregate limits bound what callers receive, over all calls of one facade, also when
   calls fail half way and when directories grow while they are listed. *)
ReceiptsWithinLimits ==
  /\ received <= usage.bytes + usage.entries
  /\ usage.bytes <= MaxRepositoryBytes /\ usage.entries <= MaxRepositoryEntries

(* What a call returns is what the path named at one moment of the call, whole and inside the
   root: no mixture of versions, no listing that misses half of a change, nothing reached
   through a link or a directory that was swapped in and out; and it was paid for.  A file is
   whole in any case.  Where it lies, and what a directory lists, is only known when the
   root itself stayed in place, for the checks before and after cannot tell. *)
ReadIsASnapshot ==
  /\ ReceiptsWithinLimits
  /\ call.at = "returned" =>
       /\ call.op = "file" => call.buffer = call.thing.content
       /\ ~rootLeft =>
            /\ call.thing.place # "outside"
            /\ call.op = "names" => call.buffer = call.thing.content

(* No handle outlives its call, whichever way the call ends and whenever the open settles. *)
HandlesAreClosed == fileHandle = "open" => InCall

(* Every call returns, even when a system call never does. *)
CallEnds == InCall ~> ~InCall
=============================================================================
