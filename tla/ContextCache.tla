---------------------------- MODULE ContextCache ----------------------------
(***************************************************************************)
(* The memoization of effective contexts                                   *)
(* (packages/resolver/src/effective-context-cache.ts).                     *)
(*                                                                         *)
(* resolve() addresses a result by a digest of everything the request      *)
(* holds.  A miss resolves, requires that the request's documents are      *)
(* exactly those the result depends on, and keeps the result in a map in   *)
(* insertion order, after dropping the oldest entries until it fits both   *)
(* the entry and the weight limit.  The total weight is kept step by step. *)
(*                                                                         *)
(* A request is a profile resolution, an import graph, the documents that  *)
(* the graph names and the rest (configuration, sampling, identities).     *)
(* resolveEffectiveContext sees the profile and the graph only; what it    *)
(* returns is abstracted to those two.                                     *)
(***************************************************************************)
EXTENDS Naturals, Integers, Sequences, SequencesExt, Totals

CONSTANTS Profiles,        \* profile resolutions
          Graphs,          \* import graphs, which name the documents they need
          Settings,        \* everything else the key covers
          WeightOf(_, _),  \* serialized size of a result and its dependencies
          MaxEntries,      \* maximumEntries
          MaxEntryBytes,   \* maximumEntryBytes
          MaxWeight,       \* maximumWeightBytes
          MaxMisses        \* bound: misses counted

ASSUME MemoAssumption ==
  /\ MaxEntries \in Nat \ {0} /\ MaxWeight \in Nat \ {0} /\ MaxMisses \in Nat
  /\ MaxEntryBytes \in 1..MaxWeight              \* limits() refuses the rest
  /\ \A p \in Profiles, g \in Graphs : WeightOf(p, g) \in Nat \ {0}

VARIABLES entries,   \* #entries, oldest first
          weight,    \* #weightBytes
          stats,     \* #hits > 0, #misses, #evictions, #oversizedResults; failed misses
          cleared,   \* history: entries dropped by clear()
          answer     \* the last request that was answered, and the result

memoVars == <<entries, weight, stats, cleared, answer>>

(* The documents sent along cover the graph of the request, or another one. *)
Request == [profile : Profiles, graph : Graphs, documents : Graphs, settings : Settings]

Refused == <<>>         \* an error instead of a result

MemoInit ==
  /\ entries = <<>>
  /\ weight = 0
  /\ stats = [hit |-> FALSE, misses |-> 0, evictions |-> 0, oversized |-> 0, failed |-> 0]
  /\ cleared = 0
  /\ answer = <<>>

(* Faulty variant: the import graph is not part of the key. *)
KeyWithoutGraph(r) == [profile |-> r.profile, documents |-> r.documents, settings |-> r.settings]

(* Equal digests mean equal configuration, documents, identities, graphs, profile,
   sampling and target. *)
KeyFor(r) == r

(* resolveEffectiveContext and the dependency closure of its result. *)
Resolved(r) == <<r.profile, r.graph>>
ExactDependencies(closure, documents) == closure = documents

Lookup(key) == {e \in Range(entries) : e.key = key}

Answer(r, result) == answer' = <<[request |-> r, result |-> result]>>

Hit(r) ==
  /\ \E e \in Lookup(KeyFor(r)) :
       IF ExactDependencies(e.closure, r.documents)
       THEN Answer(r, e.result) /\ stats' = [stats EXCEPT !.hit = TRUE]
       ELSE Answer(r, Refused) /\ UNCHANGED stats
  /\ UNCHANGED <<entries, weight, cleared>>

(* A miss whose documents do not match fails, and so does one that is cancelled; a result
   too heavy is returned unkept. *)
MissUnkept(r) ==
  /\ Lookup(KeyFor(r)) = {} /\ stats.misses < MaxMisses
  /\ \/ /\ UNCHANGED answer
        /\ stats' = [stats EXCEPT !.misses = @ + 1, !.failed = @ + 1]
     \/ /\ ~ExactDependencies(r.graph, r.documents)
        /\ Answer(r, Refused)
        /\ stats' = [stats EXCEPT !.misses = @ + 1, !.failed = @ + 1]
     \/ /\ ExactDependencies(r.graph, r.documents)
        /\ WeightOf(r.profile, r.graph) > MaxEntryBytes
        /\ Answer(r, Resolved(r))
        /\ stats' = [stats EXCEPT !.misses = @ + 1, !.oversized = @ + 1]
  /\ UNCHANGED <<entries, weight, cleared>>

SumOfWeights(s) == Total([i \in 1 .. Len(s) |-> s[i].weight])

(* The loop drops n entries from the front: as soon as both limits hold, or the map is
   empty. *)
Evicted(n, w) ==
  LET full(k) == \/ Len(entries) - k >= MaxEntries
                 \/ weight - SumOfWeights(SubSeq(entries, 1, k)) + w > MaxWeight
  IN /\ \A k \in 0..(n - 1) : full(k)
     /\ ~full(n) \/ n = Len(entries)

(* Faulty variant: the weight of evicted entries is not taken off the total. *)
WeightAfterHeavy(n, w) == weight + w

WeightAfter(n, w) == weight - SumOfWeights(SubSeq(entries, 1, n)) + w

MissKept(r) ==
  LET w == WeightOf(r.profile, r.graph)
  IN /\ Lookup(KeyFor(r)) = {} /\ stats.misses < MaxMisses
     /\ ExactDependencies(r.graph, r.documents) /\ w <= MaxEntryBytes
     /\ \E n \in 0..Len(entries) :
          /\ Evicted(n, w)
          /\ entries' = Append(SubSeq(entries, n + 1, Len(entries)),
                               [key |-> KeyFor(r), result |-> Resolved(r),
                                closure |-> r.graph, weight |-> w])
          /\ weight' = WeightAfter(n, w)
          /\ stats' = [stats EXCEPT !.misses = @ + 1, !.evictions = @ + n]
     /\ Answer(r, Resolved(r))
     /\ UNCHANGED cleared

Clear ==
  /\ entries # <<>>
  /\ entries' = <<>> /\ weight' = 0
  /\ cleared' = cleared + Len(entries)
  /\ UNCHANGED <<stats, answer>>

MemoNext ==
  \/ \E r \in Request : Hit(r) \/ MissUnkept(r) \/ MissKept(r)
  \/ Clear

MemoSpec == MemoInit /\ [][MemoNext]_memoVars

-----------------------------------------------------------------------------
(* The incremental total is the weight of the entries, both limits hold after every
   call, and every kept result is in the map, evicted or cleared: eviction in one loop
   over two limits neither leaks nor drops an entry unseen. *)
MemoAccounts ==
  /\ weight = SumOfWeights(entries)
  /\ weight <= MaxWeight /\ Len(entries) <= MaxEntries
  /\ stats.misses = Len(entries) + stats.evictions + cleared + stats.oversized + stats.failed

(* Reuse is invisible: whatever was cached before, resolve() returns what a cold
   resolution of the same request returns, or its error. *)
ReuseIsInvisible ==
  \A i \in 1..Len(answer) :
    LET r == answer[i].request
    IN answer[i].result = IF r.graph = r.documents THEN Resolved(r) ELSE Refused
=============================================================================
