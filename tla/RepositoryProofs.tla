--------------------------- MODULE RepositoryProofs ---------------------------
(***************************************************************************)
(* Proofs about the components that work on a repository: the memoization  *)
(* of contexts, safe fixes, the import graph, and scans of changed files.  *)
(***************************************************************************)
EXTENDS ContextCache, SafeFix, ImportGraph, ScanInvariants, NumberLemmas, SequenceTheorems,
        FiniteSetTheorems, TLAPS

-----------------------------------------------------------------------------
(* The memoization of contexts. *)
MemoEntry == [key : Request, result : Profiles \X Graphs, closure : Graphs, weight : Nat]
MemoStats == [hit : BOOLEAN, misses : Nat, evictions : Nat, oversized : Nat, failed : Nat]

MemoTypeOK ==
  /\ entries \in Seq(MemoEntry) /\ weight \in Nat /\ stats \in MemoStats /\ cleared \in Nat
  /\ answer = <<>> \/ \E r \in Request, result \in (Profiles \X Graphs) \cup {Refused} :
                        answer = <<[request |-> r, result |-> result]>>

(* An entry is what a cold resolution of its own key returns. *)
EntriesAreTrue ==
  \A i \in 1 .. Len(entries) : /\ entries[i].result = Resolved(entries[i].key)
                               /\ entries[i].closure = entries[i].key.graph

MemoInvariant == MemoTypeOK /\ EntriesAreTrue /\ MemoAccounts /\ ReuseIsInvisible

WeightsOf(s) == [i \in 1 .. Len(s) |-> s[i].weight]

LEMMA WeightsAreNumbers ==
  ASSUME NEW s \in Seq(MemoEntry)
  PROVE  /\ WeightsOf(s) \in Seq(Nat) /\ Len(WeightsOf(s)) = Len(s)
         /\ \A i \in 1 .. Len(s) : WeightsOf(s)[i] = s[i].weight
<1>1. PICK n \in Nat : n = Len(s)
  BY LenProperties
<1>2. \A i \in 1 .. n : s[i] \in MemoEntry
  BY <1>1, ElementOfSeq
<1>3. WeightsOf(s) \in [1 .. n -> Nat]
  BY <1>1, <1>2 DEF WeightsOf, MemoEntry
<1>4. WeightsOf(s) \in Seq(Nat)
  BY <1>3, SeqDef
<1>5. Len(WeightsOf(s)) = n
  BY <1>3, <1>4, LenProperties
<1>. QED
  BY <1>1, <1>4, <1>5 DEF WeightsOf

LEMMA WeightsOfRest ==
  ASSUME NEW s \in Seq(MemoEntry), NEW a \in 1 .. Len(s) + 1, NEW b \in a - 1 .. Len(s)
  PROVE  /\ SubSeq(s, a, b) \in Seq(MemoEntry) /\ Len(SubSeq(s, a, b)) = b - a + 1
         /\ \A i \in 1 .. b - a + 1 : SubSeq(s, a, b)[i] = s[a + i - 1]
         /\ WeightsOf(SubSeq(s, a, b)) = SubSeq(WeightsOf(s), a, b)
<1>1. Len(s) \in Nat
  BY LenProperties
<1>2. a \in Int /\ b \in Int /\ a .. b \subseteq 1 .. Len(s)
  BY <1>1
<1>3. \A i \in a .. b : s[i] \in MemoEntry
  BY <1>2, ElementOfSeq
<1> DEFINE t == SubSeq(s, a, b)
           u == SubSeq(WeightsOf(s), a, b)
<1>4. /\ t \in Seq(MemoEntry) /\ Len(t) = IF a <= b THEN b - a + 1 ELSE 0
      /\ \A i \in 1 .. b - a + 1 : t[i] = s[a + i - 1]
  <2>1. a \in Int /\ b \in Int
    BY <1>2
  <2>. QED
    BY <1>3, <2>1, SubSeqProperties
<1>5. /\ u \in Seq(Nat) /\ Len(u) = IF a <= b THEN b - a + 1 ELSE 0
      /\ \A i \in 1 .. b - a + 1 : u[i] = WeightsOf(s)[a + i - 1]
  <2>1. a \in Int /\ b \in Int
    BY <1>2
  <2>2. \A i \in a .. b : WeightsOf(s)[i] \in Nat
    BY <1>2, <1>3, WeightsAreNumbers DEF MemoEntry
  <2>. QED
    BY <2>1, <2>2, SubSeqProperties
<1> HIDE DEF t, u
<1>6. (IF a <= b THEN b - a + 1 ELSE 0) = b - a + 1
  BY <1>1
<1>7. ASSUME NEW i \in 1 .. b - a + 1 PROVE WeightsOf(t)[i] = u[i]
  <2>1. a + i - 1 \in 1 .. Len(s) /\ i \in 1 .. Len(t)
    BY <1>1, <1>2, <1>4, <1>6
  <2>2. WeightsOf(t)[i] = t[i].weight /\ u[i] = s[a + i - 1].weight
    BY <1>4, <1>5, <2>1, WeightsAreNumbers
  <2>. QED
    BY <1>4, <2>2
<1>8. WeightsOf(t) \in Seq(Nat) /\ Len(WeightsOf(t)) = Len(u)
  BY <1>4, <1>5, WeightsAreNumbers
<1>9. WeightsOf(t) = u
  BY <1>5, <1>6, <1>7, <1>8, SeqEqual
<1>. QED
  BY <1>4, <1>6, <1>9 DEF t, u

LEMMA WeightsOfAppend ==
  ASSUME NEW s \in Seq(MemoEntry), NEW e \in MemoEntry
  PROVE  WeightsOf(Append(s, e)) = Append(WeightsOf(s), e.weight)
<1> DEFINE t == Append(s, e)
           u == Append(WeightsOf(s), e.weight)
<1>1. PICK n \in Nat : n = Len(s)
  BY LenProperties
<1>2. /\ t \in Seq(MemoEntry) /\ Len(t) = n + 1 /\ t[n + 1] = e
      /\ \A i \in 1 .. n : t[i] = s[i]
  BY <1>1, AppendProperties
<1>3. e.weight \in Nat /\ WeightsOf(s) \in Seq(Nat) /\ Len(WeightsOf(s)) = n
  BY <1>1, WeightsAreNumbers DEF MemoEntry
<1>4. /\ u \in Seq(Nat) /\ Len(u) = n + 1 /\ u[n + 1] = e.weight
      /\ \A i \in 1 .. n : u[i] = WeightsOf(s)[i]
  BY <1>3, AppendProperties, SMTT(30)
<1> HIDE DEF t, u
<1>5. /\ WeightsOf(t) \in Seq(Nat) /\ Len(WeightsOf(t)) = n + 1
      /\ \A i \in 1 .. n + 1 : WeightsOf(t)[i] = t[i].weight
  BY <1>2, WeightsAreNumbers
<1>6. \A i \in 1 .. n : WeightsOf(s)[i] = s[i].weight
  BY <1>1, WeightsAreNumbers
<1>7. ASSUME NEW i \in 1 .. n + 1 PROVE WeightsOf(t)[i] = u[i]
  <2>1. CASE i = n + 1
    BY <1>2, <1>4, <1>5, <2>1
  <2>2. CASE i # n + 1
    <3>1. i \in 1 .. n
      BY <2>2
    <3>. QED
      BY <1>2, <1>4, <1>5, <1>6, <3>1
  <2>. QED
    BY <2>1, <2>2
<1>8. WeightsOf(t) = u
  BY <1>4, <1>5, <1>7, SeqEqual
<1>. QED
  BY <1>8 DEF t, u

LEMMA MemoInitially == MemoInit => MemoInvariant
<1> SUFFICES ASSUME MemoInit PROVE MemoInvariant
  OBVIOUS
<1>1. entries = <<>> /\ Len(entries) = 0 /\ entries \in Seq(MemoEntry)
  BY EmptySeq DEF MemoInit
<1>2. weight = 0 /\ cleared = 0 /\ answer = <<>> /\ Len(answer) = 0
  BY EmptySeq DEF MemoInit
<1>3. stats = [hit |-> FALSE, misses |-> 0, evictions |-> 0, oversized |-> 0, failed |-> 0]
  BY DEF MemoInit
<1>4. SumOfWeights(entries) = 0
  <2>1. WeightsOf(entries) \in Seq(Nat) /\ Len(WeightsOf(entries)) = 0
    BY <1>1, WeightsAreNumbers
  <2>2. WeightsOf(entries) = <<>>
    BY <2>1, EmptySeq
  <2>. QED
    BY <2>2, TotalOfEmpty DEF SumOfWeights, WeightsOf
<1>5. MemoTypeOK
  BY <1>1, <1>2, <1>3 DEF MemoTypeOK, MemoStats
<1>6. EntriesAreTrue
  BY <1>1 DEF EntriesAreTrue
<1>7. MemoAccounts
  BY <1>1, <1>2, <1>3, <1>4, MemoAssumption DEF MemoAccounts
<1>8. ReuseIsInvisible
  BY <1>2 DEF ReuseIsInvisible
<1>. QED
  BY <1>5, <1>6, <1>7, <1>8 DEF MemoInvariant

(* What resolve() answers is right if it is what a cold resolution returns. *)
LEMMA AnswerIsRight ==
  ASSUME NEW r \in Request, NEW result, Answer(r, result),
         result = IF r.graph = r.documents THEN Resolved(r) ELSE Refused
  PROVE  /\ ReuseIsInvisible'
         /\ \E q \in Request, s \in (Profiles \X Graphs) \cup {Refused} :
              answer' = <<[request |-> q, result |-> s]>>
<1>1. answer' = <<[request |-> r, result |-> result]>>
  BY DEF Answer
<1>2. result \in (Profiles \X Graphs) \cup {Refused}
  BY DEF Resolved, Request
<1>3. Len(answer') = 1 /\ answer'[1].request = r /\ answer'[1].result = result
  BY <1>1
<1>4. ReuseIsInvisible'
  BY <1>3 DEF ReuseIsInvisible, Resolved, Refused
<1>. QED
  BY <1>1, <1>2, <1>4

(* Dropping n entries and keeping a new one. *)
LEMMA KeepingAccounts ==
  ASSUME MemoTypeOK, EntriesAreTrue, MemoAccounts,
         NEW n \in 0 .. Len(entries), NEW w \in 1 .. MaxEntryBytes, Evicted(n, w),
         NEW e \in MemoEntry, e.weight = w, e.result = Resolved(e.key), e.closure = e.key.graph,
         entries' = Append(SubSeq(entries, n + 1, Len(entries)), e),
         weight' = WeightAfter(n, w)
  PROVE  /\ entries' \in Seq(MemoEntry) /\ weight' \in Nat
         /\ Len(entries') = Len(entries) - n + 1 /\ Len(entries') <= MaxEntries
         /\ weight' = SumOfWeights(entries)' /\ weight' <= MaxWeight
         /\ EntriesAreTrue'
<1> DEFINE rest == SubSeq(entries, n + 1, Len(entries))
           first == SubSeq(entries, 1, n)
<1>1. PICK l \in Nat : l = Len(entries) /\ n \in Nat /\ n <= l
  BY LenProperties DEF MemoTypeOK
<1>t. entries \in Seq(MemoEntry) /\ weight \in Nat
  BY DEF MemoTypeOK
<1>2. /\ rest \in Seq(MemoEntry) /\ Len(rest) = l - n
      /\ \A i \in 1 .. l - n : rest[i] = entries[n + i]
      /\ WeightsOf(rest) = SubSeq(WeightsOf(entries), n + 1, l)
  <2>1. n + 1 \in 1 .. Len(entries) + 1 /\ l \in (n + 1) - 1 .. Len(entries)
    BY <1>1
  <2>2. /\ SubSeq(entries, n + 1, l) \in Seq(MemoEntry)
        /\ Len(SubSeq(entries, n + 1, l)) = l - (n + 1) + 1
        /\ \A i \in 1 .. l - (n + 1) + 1 : SubSeq(entries, n + 1, l)[i] = entries[(n + 1) + i - 1]
        /\ WeightsOf(SubSeq(entries, n + 1, l)) = SubSeq(WeightsOf(entries), n + 1, l)
    BY <1>t, <2>1, WeightsOfRest
  <2>3. l - (n + 1) + 1 = l - n /\ \A i \in 1 .. l - n : (n + 1) + i - 1 = n + i
    BY <1>1
  <2>. QED
    BY <1>1, <2>2, <2>3
<1>3. first \in Seq(MemoEntry) /\ WeightsOf(first) = SubSeq(WeightsOf(entries), 1, n)
  <2>1. 1 \in 1 .. Len(entries) + 1 /\ n \in 1 - 1 .. Len(entries)
    BY <1>1
  <2>. QED
    BY <1>t, <2>1, WeightsOfRest
<1>4. WeightsOf(entries) \in Seq(Nat) /\ Len(WeightsOf(entries)) = l
  BY <1>t, <1>1, WeightsAreNumbers
<1>5. Total(WeightsOf(rest)) = Total(WeightsOf(entries)) - Total(WeightsOf(first))
  BY <1>1, <1>2, <1>3, <1>4, TotalOfRest
<1>6. Total(WeightsOf(entries)) = weight
  BY DEF MemoAccounts, SumOfWeights, WeightsOf
<1>7. SumOfWeights(first) = Total(WeightsOf(first))
  BY DEF SumOfWeights, WeightsOf
<1>8. WeightsOf(rest) \in Seq(Nat) /\ Total(WeightsOf(rest)) \in Nat /\ Total(WeightsOf(first)) \in Nat
  BY <1>2, <1>3, WeightsAreNumbers, TotalIsNatural
<1>w. w \in Nat /\ w <= MaxWeight
  BY MemoAssumption
<1>9. Total(WeightsOf(Append(rest, e))) = Total(WeightsOf(rest)) + w
  <2>1. WeightsOf(Append(rest, e)) = Append(WeightsOf(rest), w)
    BY <1>2, WeightsOfAppend
  <2>. QED
    BY <1>8, <1>w, <2>1, TotalOfAppend
<1> HIDE DEF rest, first
<1>10. weight' = Total(WeightsOf(rest)) + w
  <2>1. weight' = weight - SumOfWeights(first) + w
    BY DEF WeightAfter, first
  <2>. QED
    BY <1>5, <1>6, <1>7, <1>8, <1>w, <1>t, <2>1
<1>11. entries' = Append(rest, e)
  BY DEF rest
<1>12. weight' = SumOfWeights(entries)'
  BY <1>9, <1>10, <1>11 DEF SumOfWeights, WeightsOf
<1>13. /\ entries' \in Seq(MemoEntry) /\ Len(entries') = l - n + 1 /\ entries'[l - n + 1] = e
       /\ \A i \in 1 .. l - n : entries'[i] = rest[i]
  <2>1. /\ Append(rest, e) \in Seq(MemoEntry) /\ Len(Append(rest, e)) = Len(rest) + 1
        /\ Append(rest, e)[Len(rest) + 1] = e /\ \A i \in 1 .. Len(rest) : Append(rest, e)[i] = rest[i]
    BY <1>2, AppendProperties
  <2>. QED
    BY <1>2, <1>11, <2>1, Zenon
<1>14. EntriesAreTrue'
  <2>1. ASSUME NEW i \in 1 .. l - n + 1
        PROVE  entries'[i].result = Resolved(entries'[i].key) /\ entries'[i].closure = entries'[i].key.graph
    <3>1. CASE i = l - n + 1
      BY <1>13, <3>1
    <3>2. CASE i # l - n + 1
      <4>1. i \in 1 .. l - n /\ n + i \in 1 .. l
        BY <1>1, <3>2
      <4>2. entries'[i] = entries[n + i]
        BY <1>2, <1>13, <4>1
      <4>. QED
        BY <1>1, <4>1, <4>2 DEF EntriesAreTrue
    <3>. QED
      BY <3>1, <3>2
  <2>. QED
    BY <1>13, <2>1 DEF EntriesAreTrue, Resolved
<1>15. Len(entries') <= MaxEntries /\ weight' <= MaxWeight
  <2>1. CASE n = l
    <3>1. Total(WeightsOf(rest)) = 0
      <4>1. Len(rest) = 0
        BY <1>1, <1>2, <2>1
      <4>2. WeightsOf(rest) = <<>>
        BY <1>2, <1>8, <4>1, WeightsAreNumbers, EmptySeq
      <4>. QED
        BY <4>2, TotalOfEmpty
    <3>. QED
      BY <1>1, <1>10, <1>13, <1>w, <2>1, <3>1, MemoAssumption
  <2>2. CASE n # l
    <3>1. /\ ~(Len(entries) - n >= MaxEntries)
          /\ ~(weight - SumOfWeights(SubSeq(entries, 1, n)) + w > MaxWeight)
      BY <1>1, <2>2 DEF Evicted
    <3>2. weight' = weight - SumOfWeights(SubSeq(entries, 1, n)) + w
      BY DEF WeightAfter
    <3>3. weight' \in Nat
      BY <1>8, <1>10, <1>w
    <3>. QED
      BY <1>1, <1>13, <3>1, <3>2, <3>3, MemoAssumption
  <2>. QED
    BY <2>1, <2>2
<1>. QED
  BY <1>1, <1>8, <1>10, <1>12, <1>13, <1>14, <1>15, <1>w

LEMMA MemoStep == MemoInvariant /\ [MemoNext]_memoVars => MemoInvariant'
<1> SUFFICES ASSUME MemoInvariant, [MemoNext]_memoVars PROVE MemoInvariant'
  OBVIOUS
<1>t. MemoTypeOK /\ EntriesAreTrue /\ MemoAccounts /\ ReuseIsInvisible
  BY DEF MemoInvariant
<1>s. stats \in MemoStats /\ Len(entries) \in Nat /\ cleared \in Nat
  BY <1>t, LenProperties DEF MemoTypeOK
<1>n. /\ stats.misses \in Nat /\ stats.evictions \in Nat /\ stats.oversized \in Nat /\ stats.failed \in Nat
      /\ stats.misses = Len(entries) + stats.evictions + cleared + stats.oversized + stats.failed
  BY <1>s, <1>t DEF MemoStats, MemoAccounts
<1>1. ASSUME NEW r \in Request, Hit(r) PROVE MemoInvariant'
  <2>1. PICK e \in Lookup(KeyFor(r)) :
          IF ExactDependencies(e.closure, r.documents)
          THEN Answer(r, e.result) /\ stats' = [stats EXCEPT !.hit = TRUE]
          ELSE Answer(r, Refused) /\ UNCHANGED stats
    BY <1>1 DEF Hit
  <2>2. UNCHANGED <<entries, weight, cleared>>
    BY <1>1 DEF Hit
  <2>3. e.key = r /\ e.result = Resolved(r) /\ e.closure = r.graph
    <3>1. PICK i \in 1 .. Len(entries) : e = entries[i]
      BY <1>t, LenProperties DEF Lookup, Range, MemoTypeOK
    <3>. QED
      BY <1>t, <3>1 DEF EntriesAreTrue, Lookup, KeyFor
  <2>4. \E result : Answer(r, result) /\ result = IF r.graph = r.documents THEN Resolved(r) ELSE Refused
    BY <2>1, <2>3 DEF ExactDependencies
  <2>5. stats' \in MemoStats /\ stats'.misses = stats.misses /\ stats'.evictions = stats.evictions
          /\ stats'.oversized = stats.oversized /\ stats'.failed = stats.failed
    BY <1>s, <2>1 DEF MemoStats
  <2>6. /\ ReuseIsInvisible'
        /\ \E q \in Request, s \in (Profiles \X Graphs) \cup {Refused} :
             answer' = <<[request |-> q, result |-> s]>>
    BY <2>4, AnswerIsRight
  <2>7. MemoTypeOK'
    BY <1>t, <2>2, <2>5, <2>6 DEF MemoTypeOK
  <2>8. EntriesAreTrue' /\ MemoAccounts'
    BY <1>t, <2>2, <2>5 DEF EntriesAreTrue, MemoAccounts, SumOfWeights, Resolved
  <2>. QED
    BY <2>6, <2>7, <2>8 DEF MemoInvariant
<1>2. ASSUME NEW r \in Request, MissUnkept(r) PROVE MemoInvariant'
  <2>1. UNCHANGED <<entries, weight, cleared>>
    BY <1>2 DEF MissUnkept
  <2>2. /\ stats' \in MemoStats /\ stats'.misses = stats.misses + 1 /\ stats'.evictions = stats.evictions
        /\ stats'.oversized + stats'.failed = stats.oversized + stats.failed + 1
    <3>1. CASE stats' = [stats EXCEPT !.misses = @ + 1, !.failed = @ + 1]
      <4>1. /\ stats' \in MemoStats /\ stats'.misses = stats.misses + 1 /\ stats'.evictions = stats.evictions
            /\ stats'.oversized = stats.oversized /\ stats'.failed = stats.failed + 1
        <5>1. stats.misses + 1 \in Nat /\ stats.failed + 1 \in Nat
          BY <1>n
        <5> DEFINE missed == [stats EXCEPT !.misses = stats.misses + 1]
        <5>2. /\ missed \in MemoStats /\ missed.misses = stats.misses + 1 /\ missed.evictions = stats.evictions
              /\ missed.oversized = stats.oversized /\ missed.failed = stats.failed
          BY <1>s, <5>1 DEF MemoStats
        <5>3. stats' = [missed EXCEPT !.failed = stats.failed + 1]
          BY <3>1, Zenon
        <5> HIDE DEF missed
        <5>. QED
          BY <5>1, <5>2, <5>3 DEF MemoStats
      <4>. QED
        BY <1>n, <4>1
    <3>2. CASE stats' = [stats EXCEPT !.misses = @ + 1, !.oversized = @ + 1]
      <4>1. /\ stats' \in MemoStats /\ stats'.misses = stats.misses + 1 /\ stats'.evictions = stats.evictions
            /\ stats'.oversized = stats.oversized + 1 /\ stats'.failed = stats.failed
        <5>1. stats.misses + 1 \in Nat /\ stats.oversized + 1 \in Nat
          BY <1>n
        <5> DEFINE missed == [stats EXCEPT !.misses = stats.misses + 1]
        <5>2. /\ missed \in MemoStats /\ missed.misses = stats.misses + 1 /\ missed.evictions = stats.evictions
              /\ missed.oversized = stats.oversized /\ missed.failed = stats.failed
          BY <1>s, <5>1 DEF MemoStats
        <5>3. stats' = [missed EXCEPT !.oversized = stats.oversized + 1]
          BY <3>2, Zenon
        <5> HIDE DEF missed
        <5>. QED
          BY <5>1, <5>2, <5>3 DEF MemoStats
      <4>. QED
        BY <1>n, <4>1
    <3>. QED
      BY <1>2, <3>1, <3>2, Zenon DEF MissUnkept
  <2>3. /\ ReuseIsInvisible'
        /\ \/ answer' = answer
           \/ \E q \in Request, s \in (Profiles \X Graphs) \cup {Refused} :
                answer' = <<[request |-> q, result |-> s]>>
    <3>1. CASE UNCHANGED answer
      BY <1>t, <3>1 DEF ReuseIsInvisible, Resolved, Refused
    <3>2. CASE \E result : Answer(r, result) /\ result = IF r.graph = r.documents THEN Resolved(r) ELSE Refused
      BY <3>2, AnswerIsRight
    <3>. QED
      BY <1>2, <3>1, <3>2 DEF MissUnkept, ExactDependencies
  <2>4. MemoTypeOK'
    BY <1>t, <2>1, <2>2, <2>3 DEF MemoTypeOK
  <2>5. EntriesAreTrue' /\ weight' = SumOfWeights(entries)'
    BY <1>t, <2>1 DEF EntriesAreTrue, MemoAccounts, SumOfWeights, Resolved
  <2>6. MemoAccounts'
    <3>1. stats'.misses = Len(entries) + stats'.evictions + cleared + stats'.oversized + stats'.failed
      <4>1. stats'.oversized \in Nat /\ stats'.failed \in Nat
        BY <2>2 DEF MemoStats
      <4>. QED
        <5>1. PICK o \in Nat, f \in Nat : o = stats'.oversized /\ f = stats'.failed
          BY <4>1
        <5>2. PICK l \in Nat, m \in Nat, e \in Nat, oo \in Nat, ff \in Nat :
                /\ l = Len(entries) /\ m = stats.misses /\ e = stats.evictions
                /\ oo = stats.oversized /\ ff = stats.failed
          BY <1>n, <1>s
        <5>3. m = l + e + cleared + oo + ff /\ o + f = oo + ff + 1
          BY <1>n, <2>2, <5>1, <5>2, Zenon
        <5>4. m + 1 = l + e + cleared + o + f
          BY <1>s, <5>3
        <5>. QED
          BY <2>2, <5>1, <5>2, <5>4, Zenon
    <3>. QED
      BY <1>t, <2>1, <2>5, <3>1 DEF MemoAccounts
  <2>. QED
    BY <2>3, <2>4, <2>5, <2>6 DEF MemoInvariant
<1>3. ASSUME NEW r \in Request, MissKept(r) PROVE MemoInvariant'
  <2> DEFINE w == WeightOf(r.profile, r.graph)
             e == [key |-> KeyFor(r), result |-> Resolved(r), closure |-> r.graph, weight |-> w]
  <2>1. PICK n \in 0 .. Len(entries) :
          /\ Evicted(n, w)
          /\ entries' = Append(SubSeq(entries, n + 1, Len(entries)), e)
          /\ weight' = WeightAfter(n, w)
          /\ stats' = [stats EXCEPT !.misses = @ + 1, !.evictions = @ + n]
    BY <1>3, Zenon DEF MissKept
  <2>2. w \in 1 .. MaxEntryBytes
    BY <1>3, MemoAssumption DEF MissKept, Request
  <2>3. e \in MemoEntry /\ e.weight = w /\ e.result = Resolved(e.key) /\ e.closure = e.key.graph
    BY <2>2, MemoAssumption DEF MemoEntry, KeyFor, Resolved, Request
  <2> HIDE DEF w, e
  <2>4. /\ entries' \in Seq(MemoEntry) /\ weight' \in Nat
        /\ Len(entries') = Len(entries) - n + 1 /\ Len(entries') <= MaxEntries
        /\ weight' = SumOfWeights(entries)' /\ weight' <= MaxWeight
        /\ EntriesAreTrue'
    BY <1>t, <2>1, <2>2, <2>3, KeepingAccounts
  <2>5. ExactDependencies(r.graph, r.documents) /\ Answer(r, Resolved(r)) /\ UNCHANGED cleared
    BY <1>3 DEF MissKept
  <2>6. /\ ReuseIsInvisible'
        /\ \E q \in Request, s \in (Profiles \X Graphs) \cup {Refused} :
             answer' = <<[request |-> q, result |-> s]>>
    <3>1. Resolved(r) = IF r.graph = r.documents THEN Resolved(r) ELSE Refused
      BY <2>5 DEF ExactDependencies
    <3>. QED
      BY <2>5, <3>1, AnswerIsRight
  <2>7. /\ stats' \in MemoStats /\ stats'.misses = stats.misses + 1 /\ stats'.evictions = stats.evictions + n
        /\ stats'.oversized = stats.oversized /\ stats'.failed = stats.failed
    <3>1. stats.misses + 1 \in Nat /\ stats.evictions + n \in Nat
      BY <1>n, <1>s, SMTT(30)
    <3> DEFINE missed == [stats EXCEPT !.misses = stats.misses + 1]
    <3>2. /\ missed \in MemoStats /\ missed.misses = stats.misses + 1 /\ missed.evictions = stats.evictions
          /\ missed.oversized = stats.oversized /\ missed.failed = stats.failed
      BY <1>s, <3>1 DEF MemoStats
    <3>3. stats' = [missed EXCEPT !.evictions = stats.evictions + n]
      BY <2>1, Zenon
    <3> HIDE DEF missed
    <3>. QED
      BY <3>1, <3>2, <3>3 DEF MemoStats
  <2>8. MemoTypeOK'
    BY <1>t, <2>4, <2>5, <2>6, <2>7 DEF MemoTypeOK
  <2>9. MemoAccounts'
    <3>1. stats'.misses = Len(entries') + stats'.evictions + cleared + stats'.oversized + stats'.failed
      <4>1. n \in Nat
        BY <1>s
      <4>. QED
        <5>1. PICK l \in Nat, m \in Nat, v \in Nat, o \in Nat, f \in Nat :
                /\ l = Len(entries) /\ m = stats.misses /\ v = stats.evictions
                /\ o = stats.oversized /\ f = stats.failed
          BY <1>n, <1>s
        <5>2. m = l + v + cleared + o + f
          BY <1>n, <5>1, Zenon
        <5>3. m + 1 = (l - n + 1) + (v + n) + cleared + o + f
          BY <1>s, <4>1, <5>2
        <5>. QED
          BY <2>4, <2>7, <5>1, <5>3, Zenon
    <3>. QED
      BY <2>4, <2>5, <3>1 DEF MemoAccounts
  <2>. QED
    BY <2>4, <2>6, <2>8, <2>9 DEF MemoInvariant
<1>4. CASE Clear
  <2>1. entries' = <<>> /\ weight' = 0 /\ cleared' = cleared + Len(entries) /\ UNCHANGED <<stats, answer>>
    BY <1>4 DEF Clear
  <2>2. entries' \in Seq(MemoEntry) /\ Len(entries') = 0
    BY <2>1, EmptySeq
  <2>3. SumOfWeights(entries)' = 0
    <3>1. WeightsOf(entries') = <<>>
      BY <2>2, WeightsAreNumbers, EmptySeq
    <3>. QED
      BY <3>1, TotalOfEmpty DEF SumOfWeights, WeightsOf
  <2>4. MemoTypeOK'
    BY <1>s, <1>t, <2>1, <2>2 DEF MemoTypeOK
  <2>5. EntriesAreTrue'
    BY <2>2 DEF EntriesAreTrue
  <2>6. MemoAccounts'
    BY <1>s, <1>t, <2>1, <2>2, <2>3, MemoAssumption DEF MemoAccounts, MemoStats
  <2>7. ReuseIsInvisible'
    BY <1>t, <2>1 DEF ReuseIsInvisible, Resolved, Refused
  <2>. QED
    BY <2>4, <2>5, <2>6, <2>7 DEF MemoInvariant
<1>5. CASE UNCHANGED memoVars
  BY <1>t, <1>5 DEF memoVars, MemoInvariant, MemoTypeOK, EntriesAreTrue, MemoAccounts, ReuseIsInvisible,
     SumOfWeights, Resolved, Refused
<1>. QED
  BY <1>1, <1>2, <1>3, <1>4, <1>5 DEF MemoNext

(* For any limits, weights and requests: the running total of the cache is the weight of its
   entries, both limits hold and no entry is lost unseen, however many the eviction loop of
   resolve() drops; so the loop never runs out of entries before the new one fits. *)
THEOREM CacheIsAccounted == MemoSpec => []MemoAccounts
<1>1. MemoInvariant => MemoAccounts
  BY DEF MemoInvariant
<1>2. MemoSpec => []MemoInvariant
  BY MemoInitially, MemoStep, PTL DEF MemoSpec
<1>. QED
  BY <1>1, <1>2, PTL

(* For any limits and requests: what resolve() returns from the cache is what a cold
   resolution of that request returns. *)
THEOREM CacheIsInvisible == MemoSpec => []ReuseIsInvisible
<1>1. MemoInvariant => ReuseIsInvisible
  BY DEF MemoInvariant
<1>2. MemoSpec => []MemoInvariant
  BY MemoInitially, MemoStep, PTL DEF MemoSpec
<1>. QED
  BY <1>1, <1>2, PTL

-----------------------------------------------------------------------------
(* Safe fixes.  A call holds its preview from its first step until it is refused; a preview
   is held by one call at most, and was applied if that call replaced the file. *)
IdleApply == [pc : {"idle"}]
BusyApply == [pc : {"read", "write", "rename", "committed"}, preview : Previews]
DoneApply == [pc : {"done"}, preview : Previews, result : {"refused", "applied", "failed-committed"}]

FixTypeOK ==
  /\ fix \in [Applies -> IdleApply \cup BusyApply \cup DoneApply]
  /\ commits \in [Previews -> Nat]
  /\ DOMAIN preview = Previews

Holds(a, p) ==
  \/ fix[a] \in BusyApply /\ fix[a].preview = p
  \/ fix[a] \in DoneApply /\ fix[a].preview = p /\ fix[a].result # "refused"

Replaced(a, p) ==
  \/ fix[a] \in BusyApply /\ fix[a].preview = p /\ fix[a].pc = "committed"
  \/ fix[a] \in DoneApply /\ fix[a].preview = p
       /\ (fix[a].result = "failed-committed" \/ (fix[a].result = "applied" /\ preview[p].kind = "single"))

PreviewIsMinted ==
  \A a \in Applies : fix[a] \in BusyApply \cup DoneApply => preview[fix[a].preview] # None

HolderSpentIt == \A a \in Applies, p \in Previews : Holds(a, p) => p \in applied
OneHolder == \A a, b \in Applies, p \in Previews : Holds(a, p) /\ Holds(b, p) => a = b
BusyIsSingle == \A a \in Applies : fix[a] \in BusyApply => preview[fix[a].preview].kind = "single"
CommitsCount ==
  \A p \in Previews : \/ commits[p] = 1 /\ \E a \in Applies : Replaced(a, p)
                      \/ commits[p] = 0 /\ \A a \in Applies : ~Replaced(a, p)

FixInvariant ==
  FixTypeOK /\ PreviewIsMinted /\ HolderSpentIt /\ OneHolder /\ BusyIsSingle /\ CommitsCount

LEMMA ApplyShapes ==
  ASSUME NEW x \in IdleApply \cup BusyApply \cup DoneApply
  PROVE  /\ x.pc = "idle" <=> x \in IdleApply
         /\ x.pc \in {"read", "write", "rename", "committed"} <=> x \in BusyApply
         /\ x.pc = "done" <=> x \in DoneApply
         /\ x \in BusyApply \cup DoneApply => x.preview \in Previews
         /\ x \in BusyApply => x \notin DoneApply
         /\ x \in IdleApply => x \notin BusyApply \cup DoneApply
         /\ x \in DoneApply => x.result \in {"refused", "applied", "failed-committed"}
BY DEF IdleApply, BusyApply, DoneApply

LEMMA FixInitially == FixInit => FixInvariant
<1> SUFFICES ASSUME FixInit PROVE FixInvariant
  OBVIOUS
<1>1. FixTypeOK /\ \A a \in Applies : fix[a] \in IdleApply
  BY DEF FixInit, FixTypeOK, IdleApply
<1>2. \A a \in Applies : fix[a] \notin BusyApply \cup DoneApply
  BY <1>1, ApplyShapes
<1>3. \A p \in Previews : commits[p] = 0
  BY DEF FixInit
<1>. QED
  BY <1>1, <1>2, <1>3 DEF FixInvariant, PreviewIsMinted, HolderSpentIt, OneHolder, BusyIsSingle,
     CommitsCount, Holds, Replaced

(* A step that leaves the calls, the previews minted before and the counts alone. *)
LEMMA FixUntouched ==
  ASSUME FixInvariant, UNCHANGED <<fix, applied, commits>>, DOMAIN preview' = Previews,
         \A p \in Previews : preview[p] # None => preview'[p] = preview[p]
  PROVE  FixInvariant'
<1>1. FixTypeOK'
  BY DEF FixInvariant, FixTypeOK
<1>2. \A a \in Applies : fix[a] \in BusyApply \cup DoneApply =>
        fix[a].preview \in Previews /\ preview'[fix[a].preview] = preview[fix[a].preview]
  BY ApplyShapes DEF FixInvariant, FixTypeOK, PreviewIsMinted
<1>3. \A a \in Applies, p \in Previews : /\ Holds(a, p)' <=> Holds(a, p)
                                         /\ Replaced(a, p)' <=> Replaced(a, p)
  BY <1>2 DEF Holds, Replaced
<1>4. PreviewIsMinted' /\ BusyIsSingle'
  BY <1>2 DEF FixInvariant, PreviewIsMinted, BusyIsSingle
<1>5. HolderSpentIt' /\ OneHolder'
  BY <1>3 DEF FixInvariant, HolderSpentIt, OneHolder
<1>6. CommitsCount'
  BY <1>3 DEF FixInvariant, CommitsCount
<1>. QED
  BY <1>1, <1>4, <1>5, <1>6 DEF FixInvariant

(* A step of one call: what it has to show for its preview and its own progress. *)
LEMMA FixOneCall ==
  ASSUME FixInvariant, UNCHANGED preview, NEW a \in Applies, NEW p \in Previews, preview[p] # None,
         fix' \in [Applies -> IdleApply \cup BusyApply \cup DoneApply],
         \A b \in Applies : b # a => fix'[b] = fix[b],
         fix'[a] \in BusyApply \cup DoneApply, fix'[a].preview = p,
         fix'[a] \in BusyApply => preview[p].kind = "single",
         fix[a] \in BusyApply \cup DoneApply => fix[a].preview = p,
         applied \subseteq applied',
         Holds(a, p)' => p \in applied',
         Holds(a, p)' => Holds(a, p) \/ p \notin applied,
         commits' \in [Previews -> Nat], \A q \in Previews : q # p => commits'[q] = commits[q],
         \/ /\ commits'[p] = commits[p]
            /\ Replaced(a, p)' <=> Replaced(a, p)
         \/ /\ commits'[p] = commits[p] + 1
            /\ Holds(a, p) /\ ~Replaced(a, p) /\ Replaced(a, p)'
  PROVE  FixInvariant'
<1>t. FixTypeOK /\ PreviewIsMinted /\ HolderSpentIt /\ OneHolder /\ BusyIsSingle /\ CommitsCount
  BY DEF FixInvariant
<1>1. FixTypeOK'
  BY <1>t DEF FixTypeOK
<1>2. \A b \in Applies, q \in Previews : b # a => /\ Holds(b, q)' <=> Holds(b, q)
                                                  /\ Replaced(b, q)' <=> Replaced(b, q)
  BY DEF Holds, Replaced
<1>3. \A q \in Previews : q # p => ~Holds(a, q) /\ ~Holds(a, q)' /\ ~Replaced(a, q) /\ ~Replaced(a, q)'
  BY <1>t, ApplyShapes DEF Holds, Replaced
<1>4. PreviewIsMinted'
  BY <1>t DEF PreviewIsMinted
<1>5. BusyIsSingle'
  BY <1>t DEF BusyIsSingle
<1>6. HolderSpentIt'
  BY <1>t, <1>2, <1>3 DEF HolderSpentIt
<1>7. OneHolder'
  <2>1. ASSUME NEW b \in Applies, b # a, Holds(a, p)', Holds(b, p)' PROVE FALSE
    BY <1>t, <1>2, <2>1 DEF OneHolder, HolderSpentIt
  <2>. QED
    BY <1>t, <1>2, <1>3, <2>1 DEF OneHolder
<1>8. ASSUME NEW b \in Applies, NEW q \in Previews, Replaced(b, q) PROVE Holds(b, q)
  BY <1>8 DEF Replaced, Holds
<1>9. CommitsCount'
  <2>1. ASSUME NEW q \in Previews, q # p
        PROVE  \/ commits'[q] = 1 /\ \E b \in Applies : Replaced(b, q)'
               \/ commits'[q] = 0 /\ \A b \in Applies : ~Replaced(b, q)'
    BY <1>t, <1>2, <1>3, <2>1 DEF CommitsCount
  <2>2. \/ commits'[p] = 1 /\ \E b \in Applies : Replaced(b, p)'
        \/ commits'[p] = 0 /\ \A b \in Applies : ~Replaced(b, p)'
    <3>1. CASE commits'[p] = commits[p] /\ (Replaced(a, p)' <=> Replaced(a, p))
      BY <1>t, <1>2, <3>1 DEF CommitsCount
    <3>2. CASE /\ commits'[p] = commits[p] + 1
               /\ Holds(a, p) /\ ~Replaced(a, p) /\ Replaced(a, p)'
      <4>1. \A b \in Applies : ~Replaced(b, p)
        BY <1>t, <1>8, <3>2 DEF OneHolder
      <4>2. commits[p] = 0
        BY <1>t, <4>1 DEF CommitsCount
      <4>. QED
        BY <3>2, <4>2
    <3>. QED
      BY <3>1, <3>2
  <2>. QED
    BY <2>1, <2>2 DEF CommitsCount
<1>. QED
  BY <1>1, <1>4, <1>5, <1>6, <1>7, <1>9 DEF FixInvariant

LEMMA FixStep == FixInvariant /\ [FixNext]_fixVars => FixInvariant'
<1> SUFFICES ASSUME FixInvariant, [FixNext]_fixVars PROVE FixInvariant'
  OBVIOUS
<1>t. FixTypeOK /\ PreviewIsMinted /\ HolderSpentIt /\ OneHolder /\ BusyIsSingle /\ CommitsCount
  BY DEF FixInvariant
<1>f. fix \in [Applies -> IdleApply \cup BusyApply \cup DoneApply]
  BY <1>t DEF FixTypeOK
<1>1. ASSUME NEW p \in Previews, NEW f \in Pipelines, MakePreview(p, f) PROVE FixInvariant'
  <2>1. UNCHANGED <<fix, applied, commits>> /\ preview[p] = None
    BY <1>1, Zenon DEF MakePreview
  <2>2. \E new : preview' = [preview EXCEPT ![p] = new]
    BY <1>1, Zenon DEF MakePreview
  <2>3. DOMAIN preview' = Previews /\ \A q \in Previews : preview[q] # None => preview'[q] = preview[q]
    BY <1>t, <2>1, <2>2 DEF FixTypeOK
  <2>. QED
    BY <2>1, <2>3, FixUntouched
<1>2. ASSUME NEW a \in Applies, NEW p \in Previews, NEW f \in Pipelines, ApplyBegins(a, p, f)
      PROVE  FixInvariant'
  <2>1. fix[a] \in IdleApply /\ preview[p] # None /\ UNCHANGED <<preview, commits>>
    BY <1>2, <1>f, ApplyShapes DEF ApplyBegins, FixAt
  <2>2. ~Holds(a, p) /\ ~Replaced(a, p)
    BY <1>f, <2>1, ApplyShapes DEF Holds, Replaced
  <2>3. applied \subseteq applied'
    BY <1>2 DEF ApplyBegins
  <2>4. commits' \in [Previews -> Nat] /\ \A q \in Previews : commits'[q] = commits[q]
    BY <1>t, <2>1 DEF FixTypeOK
  <2>5. ASSUME NEW x \in BusyApply \cup DoneApply, fix' = [fix EXCEPT ![a] = x]
        PROVE  /\ fix' \in [Applies -> IdleApply \cup BusyApply \cup DoneApply]
               /\ \A b \in Applies : b # a => fix'[b] = fix[b]
               /\ fix'[a] = x
    BY <1>f, <2>5
  <2>6. fix[a] \notin BusyApply \cup DoneApply
    BY <1>f, <2>1, ApplyShapes
  <2>7. CASE fix' = [fix EXCEPT ![a] = Done(p, "refused")]
    <3>1. /\ Done(p, "refused") \in DoneApply /\ Done(p, "refused").preview = p
          /\ Done(p, "refused").result = "refused" /\ Done(p, "refused") \notin BusyApply
      BY DEF Done, DoneApply, BusyApply
    <3>2. ~Holds(a, p)' /\ ~Replaced(a, p)'
      BY <2>5, <2>7, <3>1 DEF Holds, Replaced
    <3>. QED
      BY <2>1, <2>2, <2>3, <2>4, <2>5, <2>6, <2>7, <3>1, <3>2, FixOneCall
  <2>8. CASE /\ p \notin applied /\ applied' = applied \cup {p} /\ preview[p].kind = "none"
             /\ fix' = [fix EXCEPT ![a] = Done(p, "applied")]
    <3>1. /\ Done(p, "applied") \in DoneApply /\ Done(p, "applied").preview = p
          /\ Done(p, "applied").result = "applied" /\ Done(p, "applied") \notin BusyApply
      BY DEF Done, DoneApply, BusyApply
    <3>2. ~Replaced(a, p)'
      BY <2>1, <2>5, <2>8, <3>1 DEF Replaced
    <3>. QED
      <4>1. fix' \in [Applies -> IdleApply \cup BusyApply \cup DoneApply]
            /\ (\A b \in Applies : b # a => fix'[b] = fix[b]) /\ fix'[a] = Done(p, "applied")
        BY <2>5, <2>8, <3>1
      <4>2. fix'[a] \in DoneApply /\ fix'[a].preview = p /\ fix'[a] \notin BusyApply
        BY <3>1, <4>1
      <4>. QED
        BY <2>1, <2>2, <2>3, <2>4, <2>6, <2>8, <3>2, <4>1, <4>2, FixOneCall
  <2>9. CASE /\ p \notin applied /\ applied' = applied \cup {p} /\ preview[p].kind = "single"
             /\ fix' = [fix EXCEPT ![a] = [pc |-> "read", preview |-> p]]
    <3> DEFINE x == [pc |-> "read", preview |-> p]
    <3>1. x \in BusyApply /\ x.preview = p /\ x.pc = "read" /\ x \notin DoneApply
      BY DEF DoneApply, BusyApply
    <3> HIDE DEF x
    <3>2. fix' = [fix EXCEPT ![a] = x]
      BY <2>9 DEF x
    <3>3. ~Replaced(a, p)'
      BY <2>5, <3>1, <3>2 DEF Replaced
    <3>. QED
      <4>1. fix' \in [Applies -> IdleApply \cup BusyApply \cup DoneApply]
            /\ (\A b \in Applies : b # a => fix'[b] = fix[b]) /\ fix'[a] = x
        BY <2>5, <3>1, <3>2
      <4>2. fix'[a] \in BusyApply /\ fix'[a].preview = p
        BY <3>1, <4>1
      <4>. QED
        BY <2>1, <2>2, <2>3, <2>4, <2>6, <2>9, <3>3, <4>1, <4>2, FixOneCall
  <2>. QED
    BY <1>2, <2>7, <2>8, <2>9, Zenon DEF ApplyBegins
<1>3. ASSUME NEW a \in Applies, NEW x \in BusyApply \cup DoneApply, fix' = [fix EXCEPT ![a] = x]
      PROVE  /\ fix' \in [Applies -> IdleApply \cup BusyApply \cup DoneApply]
             /\ \A b \in Applies : b # a => fix'[b] = fix[b]
             /\ fix'[a] = x
  BY <1>f, <1>3
<1>4. ASSUME NEW a \in Applies, fix[a] \in BusyApply
      PROVE  /\ fix[a].preview \in Previews /\ preview[fix[a].preview] # None
             /\ preview[fix[a].preview].kind = "single" /\ fix[a].preview \in applied
             /\ Holds(a, fix[a].preview)
             /\ Replaced(a, fix[a].preview) <=> fix[a].pc = "committed"
  <2>1. fix[a].preview \in Previews /\ fix[a] \notin DoneApply
    BY <1>4, <1>f, ApplyShapes
  <2>2. Holds(a, fix[a].preview) /\ (Replaced(a, fix[a].preview) <=> fix[a].pc = "committed")
    BY <1>4, <2>1 DEF Holds, Replaced
  <2>. QED
    BY <1>4, <1>t, <2>1, <2>2 DEF PreviewIsMinted, BusyIsSingle, HolderSpentIt
<1>5. ASSUME NEW a \in Applies, fix[a] \in BusyApply, fix[a].pc # "committed",
             Ends(a, "refused"), UNCHANGED <<preview, applied, commits>>
      PROVE  FixInvariant'
  <2>p. PICK p \in Previews : p = fix[a].preview
    BY <1>4, <1>5
  <2> DEFINE x == Done(p, "refused")
  <2>1. x \in DoneApply /\ x.preview = p /\ x.result = "refused" /\ x \notin BusyApply
    BY <1>4, <1>5 DEF Done, DoneApply, BusyApply
  <2>2. fix' = [fix EXCEPT ![a] = x]
    BY <1>5, <2>p DEF Ends
  <2>3. p \in Previews /\ preview[p] # None /\ ~Replaced(a, p)
    BY <1>4, <1>5, <2>p
  <2> HIDE DEF x
  <2>4. fix' \in [Applies -> IdleApply \cup BusyApply \cup DoneApply]
          /\ (\A b \in Applies : b # a => fix'[b] = fix[b]) /\ fix'[a] = x
    BY <1>3, <2>1, <2>2
  <2>5. ~Holds(a, p)' /\ ~Replaced(a, p)'
    BY <2>1, <2>4 DEF Holds, Replaced
  <2>6. commits' \in [Previews -> Nat] /\ \A q \in Previews : commits'[q] = commits[q]
    BY <1>t, <1>5 DEF FixTypeOK
  <2>7. fix[a].preview = p
    BY <2>p
  <2>8. fix'[a] \in DoneApply /\ fix'[a].preview = p /\ fix'[a] \notin BusyApply
    BY <2>1, <2>4
  <2>. QED
    BY <1>5, <2>8, <2>1, <2>3, <2>4, <2>5, <2>6, <2>7, FixOneCall
<1>m. ASSUME NEW a \in Applies, NEW pc \in {"write", "rename"}, fix[a] \in BusyApply,
             fix[a].pc # "committed", FixGoto(a, pc), UNCHANGED <<preview, applied, commits>>
      PROVE  FixInvariant'
  <2>p. PICK p \in Previews : p = fix[a].preview
    BY <1>4, <1>m
  <2> DEFINE x == [fix[a] EXCEPT !.pc = pc]
  <2>1. x \in BusyApply /\ x.preview = p /\ x.pc = pc /\ x \notin DoneApply
    BY <1>m, <2>p DEF BusyApply, DoneApply
  <2>2. fix' = [fix EXCEPT ![a] = x]
    BY <1>m DEF FixGoto
  <2>3. p \in Previews /\ preview[p] # None /\ ~Replaced(a, p) /\ preview[p].kind = "single" /\ Holds(a, p)
          /\ p \in applied
    BY <1>4, <1>m, <2>p
  <2> HIDE DEF x
  <2>4. fix' \in [Applies -> IdleApply \cup BusyApply \cup DoneApply]
          /\ (\A b \in Applies : b # a => fix'[b] = fix[b]) /\ fix'[a] = x
    BY <1>3, <2>1, <2>2
  <2>5. ~Replaced(a, p)'
    BY <2>1, <2>4 DEF Replaced
  <2>6. commits' \in [Previews -> Nat] /\ \A q \in Previews : commits'[q] = commits[q]
    BY <1>t, <1>m DEF FixTypeOK
  <2>7. fix[a].preview = p
    BY <2>p
  <2>8. fix'[a] \in BusyApply /\ fix'[a].preview = p
    BY <2>1, <2>4
  <2>. QED
    BY <1>m, <2>8, <2>1, <2>3, <2>4, <2>5, <2>6, <2>7, FixOneCall
<1>6. ASSUME NEW a \in Applies, Revalidate(a) PROVE FixInvariant'
  <2>1. fix[a] \in BusyApply /\ fix[a].pc = "read" /\ UNCHANGED <<preview, applied, commits>>
    BY <1>6, <1>f, ApplyShapes DEF Revalidate, FixAt
  <2>2. CASE Ends(a, "refused")
    BY <1>5, <2>1, <2>2
  <2>3. CASE FixGoto(a, "write")
    BY <1>m, <2>1, <2>3
  <2>. QED
    BY <1>6, <2>2, <2>3 DEF Revalidate
<1>11. ASSUME NEW a \in Applies, WriterCompares(a) PROVE FixInvariant'
  <2>1. /\ fix[a] \in BusyApply /\ fix[a].pc = "write" /\ FixGoto(a, "rename")
        /\ UNCHANGED <<preview, applied, commits>>
    BY <1>11, <1>f, ApplyShapes DEF WriterCompares, FixAt
  <2>. QED
    BY <1>m, <2>1
<1>7. ASSUME NEW a \in Applies, WriterCommits(a) PROVE FixInvariant'
  <2>1. fix[a] \in BusyApply /\ fix[a].pc = "rename" /\ UNCHANGED <<preview, applied>>
    BY <1>7, <1>f, ApplyShapes DEF WriterCommits, FixAt
  <2>p. PICK p \in Previews : p = fix[a].preview
    BY <1>4, <2>1
  <2> DEFINE x == [fix[a] EXCEPT !.pc = "committed"]
  <2>2. x \in BusyApply /\ x.preview = p /\ x.pc = "committed" /\ x \notin DoneApply
    BY <2>1, <2>p DEF BusyApply, DoneApply
  <2>3. fix' = [fix EXCEPT ![a] = x] /\ commits' = [commits EXCEPT ![p] = @ + 1]
    BY <1>7, <2>p DEF WriterCommits, FixGoto
  <2>4. p \in Previews /\ preview[p] # None /\ ~Replaced(a, p) /\ preview[p].kind = "single" /\ Holds(a, p)
          /\ p \in applied
    BY <1>4, <2>1, <2>p
  <2>5. fix[a].preview = p
    BY <2>p
  <2> HIDE DEF x
  <2>6. fix' \in [Applies -> IdleApply \cup BusyApply \cup DoneApply]
          /\ (\A b \in Applies : b # a => fix'[b] = fix[b]) /\ fix'[a] = x
    BY <1>3, <2>2, <2>3
  <2>7. Replaced(a, p)'
    BY <2>2, <2>6 DEF Replaced
  <2>8. /\ commits' \in [Previews -> Nat] /\ commits'[p] = commits[p] + 1
        /\ \A q \in Previews : q # p => commits'[q] = commits[q]
    BY <1>t, <2>3, <2>4 DEF FixTypeOK
  <2>9. fix'[a] \in BusyApply /\ fix'[a].preview = p
    BY <2>2, <2>6
  <2>. QED
    BY <2>1, <2>4, <2>5, <2>6, <2>7, <2>8, <2>9, FixOneCall
<1>8. ASSUME NEW a \in Applies, ApplyReturns(a) PROVE FixInvariant'
  <2>1. fix[a] \in BusyApply /\ fix[a].pc \in {"write", "rename", "committed"}
          /\ UNCHANGED <<preview, applied, commits>>
    BY <1>8, <1>f, ApplyShapes DEF ApplyReturns
  <2>2. CASE fix[a].pc \in {"write", "rename"}
    <3>1. Ends(a, "refused")
      BY <1>8, <2>2 DEF ApplyReturns, FixAt
    <3>. QED
      BY <1>5, <2>1, <2>2, <3>1
  <2>3. CASE fix[a].pc = "committed"
    <3>p. PICK p \in Previews : p = fix[a].preview
      BY <1>4, <2>1
    <3>1. PICK result \in {"applied", "failed-committed"} : Ends(a, result)
      BY <1>8, <2>3 DEF ApplyReturns, FixAt
    <3> DEFINE x == Done(p, result)
    <3>2. x \in DoneApply /\ x.preview = p /\ x.result = result /\ x \notin BusyApply
      BY <1>4, <2>1, <3>1 DEF Done, DoneApply, BusyApply
    <3>3. fix' = [fix EXCEPT ![a] = x]
      BY <3>1, <3>p DEF Ends
    <3>4. p \in Previews /\ preview[p] # None /\ Replaced(a, p) /\ preview[p].kind = "single" /\ Holds(a, p)
            /\ p \in applied
      BY <1>4, <2>1, <2>3, <3>p
    <3>5. fix[a].preview = p
      BY <3>p
    <3> HIDE DEF x
    <3>6. fix' \in [Applies -> IdleApply \cup BusyApply \cup DoneApply]
            /\ (\A b \in Applies : b # a => fix'[b] = fix[b]) /\ fix'[a] = x
      BY <1>3, <3>2, <3>3
    <3>7. Replaced(a, p)'
      BY <2>1, <3>1, <3>2, <3>4, <3>6 DEF Replaced
    <3>8. commits' \in [Previews -> Nat] /\ \A q \in Previews : commits'[q] = commits[q]
      BY <1>t, <2>1 DEF FixTypeOK
    <3>. QED
      <4>1. fix'[a] \in DoneApply /\ fix'[a].preview = p /\ fix'[a] \notin BusyApply
        BY <3>2, <3>6
      <4>. QED
        BY <2>1, <3>4, <3>5, <3>6, <3>7, <3>8, <4>1, FixOneCall
  <2>. QED
    BY <2>1, <2>2, <2>3
<1>9. CASE EditorSaves
  BY <1>9, <1>t, FixUntouched DEF EditorSaves, FixTypeOK
<1>10. CASE UNCHANGED fixVars
  BY <1>10, <1>t, FixUntouched DEF fixVars, FixTypeOK
<1>. QED
  BY <1>1, <1>2, <1>6, <1>7, <1>8, <1>9, <1>10, <1>11 DEF FixNext

(* For any number of calls, previews and pipelines, and editors that save at any time: apply()
   lets a preview replace the file once at most, and says so exactly when it did. *)
THEOREM FixIsAppliedOnce == FixSpec => []AppliedOnce
<1>1. FixInvariant => AppliedOnce
  <2> SUFFICES ASSUME FixInvariant PROVE AppliedOnce
    OBVIOUS
  <2>t. FixTypeOK /\ CommitsCount
    BY DEF FixInvariant
  <2>f. fix \in [Applies -> IdleApply \cup BusyApply \cup DoneApply]
    BY <2>t DEF FixTypeOK
  <2>1. \A p \in Previews : commits[p] \in {0, 1} /\ (commits[p] = 1 <=> \E a \in Applies : Replaced(a, p))
    BY <2>t DEF CommitsCount
  <2>2. ASSUME NEW a \in Applies, fix[a].pc = "done"
        PROVE  LET p == fix[a].preview
               IN /\ fix[a].result = "failed-committed" => commits[p] = 1
                  /\ fix[a].result = "applied" /\ preview[p].kind = "single" => commits[p] = 1
                  /\ (\A b \in Applies : fix[b].pc # "idle" /\ fix[b].preview = p
                         => fix[b].pc = "done" /\ fix[b].result = "refused")
                       => commits[p] = 0
    <3> DEFINE p == fix[a].preview
    <3>1. fix[a] \in DoneApply /\ p \in Previews
      BY <2>f, <2>2, ApplyShapes
    <3>2. \/ fix[a].result = "failed-committed"
          \/ fix[a].result = "applied" /\ preview[p].kind = "single"
          => commits[p] = 1
      BY <2>1, <3>1 DEF Replaced
    <3>3. ASSUME NEW b \in Applies, Replaced(b, p)
          PROVE  /\ fix[b].pc # "idle" /\ fix[b].preview = p
                 /\ ~(fix[b].pc = "done" /\ fix[b].result = "refused")
      <4>1. CASE fix[b] \in BusyApply
        BY <2>f, <3>3, <4>1, ApplyShapes DEF Replaced
      <4>2. CASE fix[b] \in DoneApply
        BY <2>f, <3>3, <4>2, ApplyShapes DEF Replaced
      <4>. QED
        BY <3>3, <4>1, <4>2 DEF Replaced
    <3>. QED
      BY <2>1, <3>1, <3>2, <3>3
  <2>. QED
    BY <2>1, <2>2 DEF AppliedOnce
<1>2. FixSpec => []FixInvariant
  BY FixInitially, FixStep, PTL DEF FixSpec
<1>. QED
  BY <1>1, <1>2, PTL

-----------------------------------------------------------------------------
(* The text of a fix.  Joining is concatenating from the left. *)
IsJoin(f, seqs, k, S) ==
  /\ f \in [0 .. k -> Seq(S)] /\ f[0] = <<>>
  /\ \A i \in 1 .. k : f[i] = f[i - 1] \o seqs[i]

LEMMA JoinsExist ==
  ASSUME NEW S, NEW seqs \in Seq(Seq(S)), NEW k \in 0 .. Len(seqs)
  PROVE  \E f : IsJoin(f, seqs, k, S)
<1> DEFINE T == {m \in 0 .. Len(seqs) : ~ \E f : IsJoin(f, seqs, m, S)}
<1>0. Len(seqs) \in Nat /\ \A i \in 1 .. Len(seqs) : seqs[i] \in Seq(S)
  BY ElementOfSeq, LenProperties
<1> SUFFICES ASSUME T # {} PROVE FALSE
  OBVIOUS
<1>1. PICK m \in T : \A y \in T : m <= y
  <2>1. T \subseteq Nat
    BY <1>0
  <2>. QED
    BY <2>1, LeastNatural
<1>2. m # 0
  <2>1. IsJoin([n \in 0 .. 0 |-> <<>>], seqs, 0, S)
    BY EmptySeq DEF IsJoin
  <2>. QED
    BY <2>1, <1>1
<1>3. m - 1 \in 0 .. Len(seqs) /\ m - 1 \notin T /\ m \in 1 .. Len(seqs)
  <2>1. m \in 0 .. Len(seqs)
    BY <1>1
  <2> HIDE DEF T
  <2>2. m - 1 \in 0 .. Len(seqs) /\ m \in 1 .. Len(seqs) /\ ~(m <= m - 1)
    BY <1>0, <1>2, <2>1
  <2>. QED
    BY <1>1, <2>2
<1>4. PICK g : IsJoin(g, seqs, m - 1, S)
  BY <1>3
<1>5. PICK last \in Seq(S) : last = g[m - 1] \o seqs[m]
  <2>1. g[m - 1] \in Seq(S) /\ seqs[m] \in Seq(S)
    BY <1>0, <1>3, <1>4 DEF IsJoin
  <2>. QED
    BY <2>1, ConcatProperties
<1>6. PICK f \in [0 .. m -> Seq(S)] : f[m] = last /\ \A n \in 0 .. m - 1 : f[n] = g[n]
  <2>1. g \in [0 .. m - 1 -> Seq(S)]
    BY <1>4 DEF IsJoin
  <2> DEFINE h == [n \in 0 .. m |-> IF n = m THEN last ELSE g[n]]
  <2>2. h \in [0 .. m -> Seq(S)] /\ h[m] = last /\ \A n \in 0 .. m - 1 : h[n] = g[n]
    BY <1>0, <1>3, <2>1
  <2>. QED
    BY <2>2
<1>7. f[0] = <<>>
  <2>1. g[0] = <<>> /\ 0 \in 0 .. m - 1
    BY <1>0, <1>3, <1>4 DEF IsJoin
  <2>. QED
    BY <1>6, <2>1
<1>8. ASSUME NEW n \in 1 .. m PROVE f[n] = f[n - 1] \o seqs[n]
  <2>1. CASE n = m
    <3>1. m - 1 \in 0 .. m - 1
      BY <1>0, <1>3
    <3>2. f[m] = last /\ f[m - 1] = g[m - 1]
      BY <1>6, <3>1
    <3>. QED
      BY <1>5, <2>1, <3>2, Zenon
  <2>2. CASE n # m
    <3>1. n \in 1 .. m - 1 /\ n - 1 \in 0 .. m - 1 /\ n \in 0 .. m - 1
      BY <1>0, <1>3, <2>2
    <3>2. f[n] = g[n] /\ f[n - 1] = g[n - 1]
      BY <1>6, <3>1
    <3>3. g[n] = g[n - 1] \o seqs[n]
      BY <1>4, <3>1, Zenon DEF IsJoin
    <3>. QED
      BY <3>2, <3>3, Zenon
  <2>. QED
    BY <2>1, <2>2
<1>9. IsJoin(f, seqs, m, S)
  BY <1>6, <1>7, <1>8, Zenon DEF IsJoin
<1>. QED
  BY <1>1, <1>9

LEMMA FlattenJoins ==
  ASSUME NEW S, NEW seqs \in Seq(Seq(S))
  PROVE  \E f : IsJoin(f, seqs, Len(seqs), S) /\ FlattenSeq(seqs) = f[Len(seqs)]
<1>1. PICK f : IsJoin(f, seqs, Len(seqs), S)
  BY JoinsExist, LenProperties
<1>2. Len(seqs) \in Nat /\ \A i \in 1 .. Len(seqs) : seqs[i] \in Seq(S)
  BY ElementOfSeq, LenProperties
<1>3. CASE Len(seqs) = 0
  <2>1. FlattenSeq(seqs) = <<>>
    BY <1>3, EmptySeq DEF FlattenSeq
  <2>. QED
    BY <1>1, <1>3, <2>1 DEF IsJoin
<1>4. CASE Len(seqs) # 0
  <2> DEFINE step(h) == [i \in 1 .. Len(seqs) |-> IF i = 1 THEN seqs[i] ELSE h[i - 1] \o seqs[i]]
             g == [i \in 1 .. Len(seqs) |-> f[i]]
             p == CHOOSE h : h = step(h)
  <2>1. FlattenSeq(seqs) = p[Len(seqs)]
    BY <1>4, Zenon DEF FlattenSeq
  <2>2. \A i \in 1 .. Len(seqs) : f[i] = IF i = 1 THEN seqs[i] ELSE f[i - 1] \o seqs[i]
    <3>1. f[0] = <<>> /\ \A i \in 1 .. Len(seqs) : f[i] = f[i - 1] \o seqs[i]
      BY <1>1 DEF IsJoin
    <3>2. 1 \in 1 .. Len(seqs) /\ 1 - 1 = 0
      BY <1>2, <1>4
    <3>3. f[1] = <<>> \o seqs[1]
      BY <3>1, <3>2
    <3>4. <<>> \o seqs[1] = seqs[1]
      BY <1>2, <3>2, ConcatEmptySeq
    <3>. QED
      BY <3>1, <3>3, <3>4, Zenon
  <2>3. g = step(g)
    BY <1>2, <2>2
  <2>4. p = step(p)
    <3> HIDE DEF step, g
    <3>. QED
      BY <2>3, Zenon
  <2> DEFINE T == {i \in 1 .. Len(seqs) : p[i] # f[i]}
  <2> HIDE DEF p
  <2>5. \A i \in 1 .. Len(seqs) : p[i] = IF i = 1 THEN seqs[i] ELSE p[i - 1] \o seqs[i]
    BY <2>4
  <2>6. ASSUME T # {} PROVE FALSE
    <3>1. T \subseteq Nat
      BY <1>2
    <3>2. PICK i \in T : \A y \in T : i <= y
      BY <2>6, <3>1, LeastNatural
    <3>3. i # 1
      BY <2>2, <2>5, <3>2
    <3>4. i \in 1 .. Len(seqs) /\ p[i] # f[i]
      BY <3>2, Zenon
    <3> HIDE DEF T
    <3>5. i - 1 \in 1 .. Len(seqs) /\ ~(i <= i - 1)
      BY <1>2, <3>3, <3>4
    <3>6. p[i - 1] = f[i - 1]
      <4>1. i - 1 \notin T
        BY <3>2, <3>5, Zenon
      <4>. QED
        BY <3>5, <4>1, Zenon DEF T
    <3>. QED
      BY <2>2, <2>5, <3>3, <3>4, <3>6, Zenon
  <2>7. p[Len(seqs)] = f[Len(seqs)]
    BY <1>2, <1>4, <2>6
  <2>. QED
    BY <1>1, <2>1, <2>7
<1>. QED
  BY <1>3, <1>4

(* The end of the i-th edit, where the rebuilding goes on. *)
CursorAfter(s, i) == IF i = 0 THEN 0 ELSE s[i].end

(* What the edits of a set put and keep at one position. *)
NewAt(chosen, g) ==
  IF \E e \in chosen : e.start = g THEN (CHOOSE e \in chosen : e.start = g).new ELSE <<>>
KeptAt(text, chosen, g) ==
  IF g < Len(text) /\ \A e \in chosen : ~(e.start <= g /\ g < e.end) THEN <<text[g + 1]>> ELSE <<>>

(* Edits in the order of the code, of which no neighbours overlap. *)
InOrder(text, chosen, s, n) ==
  /\ n \in Nat /\ s \in [1 .. n -> chosen] /\ ToSet(s) = chosen
  /\ chosen \subseteq EditsOf(text)
  /\ \A i, j \in 1 .. n : i < j => s[i].start < s[j].start /\ s[i].end <= s[j].start

LEMMA NeighboursSuffice ==
  ASSUME NEW text \in Seq(Marks), NEW chosen, chosen \subseteq EditsOf(text), Cardinality(chosen) \in Nat,
         NEW s \in Sortings(chosen), NeighboursApart(s)
  PROVE  InOrder(text, chosen, s, Len(s))
<1>1. PICK n \in Nat : n = Cardinality(chosen)
  OBVIOUS
<1>2. /\ s \in [1 .. n -> chosen] /\ ToSet(s) = chosen
      /\ \A i, j \in 1 .. n : i < j => Precedes(s[i], s[j])
  BY <1>1 DEF Sortings
<1>3. Len(s) = n
  BY <1>2
<1>4. Len(text) \in Nat
  BY LenProperties
<1>5. \A i \in 1 .. n : s[i].start \in 0 .. Len(text) /\ s[i].end \in 0 .. Len(text) /\ s[i].start <= s[i].end
  <2>1. \A e \in chosen : e.start \in 0 .. Len(text) /\ e.end \in 0 .. Len(text) /\ e.start <= e.end
    BY DEF EditsOf
  <2>. QED
    BY <1>2, <2>1
<1>6. PICK a \in [1 .. n -> Nat], b \in [1 .. n -> Nat] :
        \A i \in 1 .. n : a[i] = s[i].start /\ b[i] = s[i].end
  <2> DEFINE x == [i \in 1 .. n |-> s[i].start]
             y == [i \in 1 .. n |-> s[i].end]
  <2>1. x \in [1 .. n -> Nat] /\ y \in [1 .. n -> Nat]
    BY <1>4, <1>5
  <2>. QED
    BY <2>1
<1>7. \A i \in 1 .. n : a[i] <= b[i]
  BY <1>5, <1>6
<1>8. \A i, j \in 1 .. n : i < j => a[i] < a[j] \/ (a[i] = a[j] /\ b[i] <= b[j])
  <2> SUFFICES ASSUME NEW i \in 1 .. n, NEW j \in 1 .. n, i < j
               PROVE  a[i] < a[j] \/ (a[i] = a[j] /\ b[i] <= b[j])
    OBVIOUS
  <2>1. s[i].start < s[j].start \/ (s[i].start = s[j].start /\ s[i].end <= s[j].end)
    BY <1>2, Zenon DEF Precedes
  <2>2. a[i] = s[i].start /\ b[i] = s[i].end /\ a[j] = s[j].start /\ b[j] = s[j].end
    BY <1>6, Zenon
  <2>. QED
    BY <2>1, <2>2, Zenon
<1>9. ASSUME NEW i \in 1 .. n - 1 PROVE a[i] # a[i + 1] /\ ~(a[i] < b[i + 1] /\ a[i + 1] < b[i])
  <2>1. i + 1 \in 2 .. n /\ i + 1 \in 1 .. n /\ i \in 1 .. n /\ (i + 1) - 1 = i
    BY <1>1
  <2>2. ~RangesOverlap(s[(i + 1) - 1], s[i + 1])
    BY <1>3, <2>1, Zenon DEF NeighboursApart
  <2>. QED
    BY <1>6, <2>1, <2>2 DEF RangesOverlap
<1>10. \A i, j \in 1 .. n : i < j => a[i] < a[j] /\ b[i] <= a[j]
  BY <1>1, <1>7, <1>8, <1>9, SortedRangesApart
<1>11. \A i, j \in 1 .. n : i < j => s[i].start < s[j].start /\ s[i].end <= s[j].start
  BY <1>6, <1>10
<1>. QED
  BY <1>2, <1>3, <1>11, Zenon DEF InOrder

LEMMA EditShapes ==
  ASSUME NEW text \in Seq(Marks), NEW chosen, NEW s, NEW n, InOrder(text, chosen, s, n)
  PROVE  /\ Len(text) \in Nat /\ Len(s) = n
         /\ \A i \in 1 .. n : /\ s[i] \in chosen /\ s[i].new \in Seq(Marks)
                              /\ s[i].start \in 0 .. Len(text) /\ s[i].end \in 0 .. Len(text)
                              /\ s[i].start <= s[i].end
         /\ \A e \in chosen : \E i \in 1 .. n : e = s[i]
<1>1. Len(text) \in Nat
  BY LenProperties
<1>2. \A e \in chosen : /\ e.new \in NewTexts /\ e.start \in 0 .. Len(text) /\ e.end \in 0 .. Len(text)
                       /\ e.start <= e.end
  BY DEF InOrder, EditsOf
<1>3. NewTexts \subseteq Seq(Marks)
  BY FixAssumption
<1>4. n \in Nat /\ s \in [1 .. n -> chosen] /\ ToSet(s) = chosen
  BY DEF InOrder
<1>5. \A e \in chosen : \E i \in 1 .. n : e = s[i]
  <2>1. DOMAIN s = 1 .. n
    BY <1>4
  <2>. QED
    BY <1>4, <2>1, Zenon DEF ToSet
<1>. QED
  BY <1>1, <1>2, <1>3, <1>4, <1>5

(* A stretch of a text that grows by one mark. *)
LEMMA StretchGrows ==
  ASSUME NEW text \in Seq(Marks), NEW c \in 0 .. Len(text), NEW g \in 0 .. Len(text)
  PROVE  /\ SubSeq(text, c + 1, g) \in Seq(Marks)
         /\ g <= c => SubSeq(text, c + 1, g) = <<>>
         /\ g < Len(text) /\ c <= g => SubSeq(text, c + 1, g + 1) = SubSeq(text, c + 1, g) \o <<text[g + 1]>>
<1>1. Len(text) \in Nat /\ c \in Int /\ g \in Int /\ \A i \in 1 .. Len(text) : text[i] \in Marks
  BY LenProperties, ElementOfSeq
<1>2. SubSeq(text, c + 1, g) \in Seq(Marks)
  <2>1. \A i \in c + 1 .. g : text[i] \in Marks
    BY <1>1
  <2>. QED
    BY <1>1, <2>1, SubSeqProperties
<1>3. ASSUME g <= c PROVE SubSeq(text, c + 1, g) = <<>>
  <2>1. g < c + 1 /\ c + 1 \in Int
    BY <1>1, <1>3
  <2>. QED
    BY <1>1, <2>1, SubSeqEmpty
<1>4. ASSUME g < Len(text), c <= g
      PROVE  SubSeq(text, c + 1, g + 1) = SubSeq(text, c + 1, g) \o <<text[g + 1]>>
  <2>1. c + 1 \in 1 .. Len(text) /\ g + 1 \in c + 1 .. Len(text) /\ (g + 1) - 1 = g
    BY <1>1, <1>4
  <2>2. SubSeq(text, c + 1, g + 1) = SubSeq(text, c + 1, (g + 1) - 1) \o <<text[g + 1]>>
    BY <2>1, SubSeqRecursiveSecond
  <2>. QED
    BY <2>1, <2>2
<1>. QED
  BY <1>2, <1>3, <1>4

(* The text that the first i edits make, as the code rebuilds it. *)
IsRebuilt(q, text, s, n) ==
  /\ q \in [0 .. n -> Seq(Marks)] /\ q[0] = <<>>
  /\ \A i \in 1 .. n :
       q[i] = q[i - 1] \o (SubSeq(text, CursorAfter(s, i - 1) + 1, s[i].start) \o s[i].new)

LEMMA RebuiltFromTheLeft ==
  ASSUME NEW text \in Seq(Marks), NEW chosen, NEW s, NEW n, InOrder(text, chosen, s, n)
  PROVE  \E q : /\ IsRebuilt(q, text, s, n)
                /\ ApplyEdits(text, s) = q[n] \o SubSeq(text, CursorAfter(s, n) + 1, Len(text))
<1> DEFINE part(i) == SubSeq(text, CursorAfter(s, i - 1) + 1, s[i].start) \o s[i].new
           most == [i \in 1 .. n |-> part(i)]
           rest == SubSeq(text, CursorAfter(s, n) + 1, Len(text))
           parts == Append(most, rest)
<1>1. /\ Len(text) \in Nat /\ Len(s) = n /\ n \in Nat
      /\ \A i \in 1 .. n : /\ s[i].new \in Seq(Marks)
                           /\ s[i].start \in 0 .. Len(text) /\ s[i].end \in 0 .. Len(text)
  BY EditShapes DEF InOrder
<1>2. \A i \in 0 .. n : CursorAfter(s, i) \in 0 .. Len(text)
  BY <1>1 DEF CursorAfter
<1>3. ASSUME NEW i \in 1 .. n PROVE part(i) \in Seq(Marks)
  <2>1. CursorAfter(s, i - 1) \in 0 .. Len(text) /\ s[i].start \in 0 .. Len(text) /\ s[i].new \in Seq(Marks)
    BY <1>1, <1>2
  <2>2. SubSeq(text, CursorAfter(s, i - 1) + 1, s[i].start) \in Seq(Marks)
    BY <2>1, StretchGrows
  <2>. QED
    BY <2>1, <2>2, ConcatProperties
<1>4. rest \in Seq(Marks)
  <2>1. CursorAfter(s, n) \in 0 .. Len(text) /\ Len(text) \in 0 .. Len(text)
    BY <1>1, <1>2
  <2>. QED
    BY <2>1, StretchGrows
<1>5. ApplyEdits(text, s) = FlattenSeq(parts)
  BY <1>1, Zenon DEF ApplyEdits, CursorAfter
<1> HIDE DEF part, rest
<1>6. most \in Seq(Seq(Marks)) /\ Len(most) = n
  <2>1. most \in [1 .. n -> Seq(Marks)]
    BY <1>3
  <2>2. most \in Seq(Seq(Marks))
    BY <1>1, <2>1, SeqDef
  <2>. QED
    BY <1>1, <2>2
<1> HIDE DEF most
<1>7. /\ parts \in Seq(Seq(Marks)) /\ Len(parts) = n + 1 /\ parts[n + 1] = rest
      /\ \A i \in 1 .. n : parts[i] = most[i]
  BY <1>4, <1>6, AppendProperties
<1> HIDE DEF parts
<1>8. PICK f : IsJoin(f, parts, n + 1, Marks) /\ FlattenSeq(parts) = f[n + 1]
  BY <1>7, FlattenJoins
<1>9. PICK q \in [0 .. n -> Seq(Marks)] : \A i \in 0 .. n : q[i] = f[i]
  <2>1. f \in [0 .. n + 1 -> Seq(Marks)]
    BY <1>8 DEF IsJoin
  <2> DEFINE h == [i \in 0 .. n |-> f[i]]
  <2>2. h \in [0 .. n -> Seq(Marks)] /\ \A i \in 0 .. n : h[i] = f[i]
    BY <1>1, <2>1
  <2>. QED
    BY <2>2
<1>10. q[0] = <<>>
  <2>1. f[0] = <<>> /\ 0 \in 0 .. n
    BY <1>1, <1>8 DEF IsJoin
  <2>. QED
    BY <1>9, <2>1
<1>11. ASSUME NEW i \in 1 .. n PROVE q[i] = q[i - 1] \o part(i)
  <2>1. i \in 1 .. n + 1 /\ i \in 0 .. n /\ i - 1 \in 0 .. n
    BY <1>1
  <2>2. f[i] = f[i - 1] \o parts[i]
    BY <1>8, <2>1, Zenon DEF IsJoin
  <2>3. parts[i] = part(i)
    BY <1>7 DEF most
  <2>4. q[i] = f[i] /\ q[i - 1] = f[i - 1]
    BY <1>9, <2>1
  <2>. QED
    BY <2>2, <2>3, <2>4, Zenon
<1>12. IsRebuilt(q, text, s, n)
  BY <1>9, <1>10, <1>11, Zenon DEF IsRebuilt, part
<1>13. ApplyEdits(text, s) = q[n] \o rest
  <2>1. n + 1 \in 1 .. n + 1 /\ (n + 1) - 1 = n /\ n \in 0 .. n
    BY <1>1
  <2>2. f[n + 1] = f[(n + 1) - 1] \o parts[n + 1]
    BY <1>8, <2>1, Zenon DEF IsJoin
  <2>3. q[n] = f[n]
    BY <1>9, <2>1
  <2>. QED
    BY <1>5, <1>7, <1>8, <2>1, <2>2, <2>3, Zenon
<1>. QED
  BY <1>12, <1>13 DEF rest

(* The text that the first g positions make, by what the edits mean. *)
IsEdited(p, text, chosen) ==
  /\ p \in [0 .. Len(text) + 1 -> Seq(Marks)] /\ p[0] = <<>>
  /\ \A g \in 0 .. Len(text) : p[g + 1] = p[g] \o (NewAt(chosen, g) \o KeptAt(text, chosen, g))

LEMMA EditedByPosition ==
  ASSUME NEW text \in Seq(Marks), NEW chosen, chosen \subseteq EditsOf(text)
  PROVE  \E p : IsEdited(p, text, chosen) /\ Edited(text, chosen) = p[Len(text) + 1]
<1> DEFINE all == [i \in 1 .. Len(text) + 1 |-> NewAt(chosen, i - 1) \o KeptAt(text, chosen, i - 1)]
<1>1. Len(text) \in Nat /\ \A i \in 1 .. Len(text) : text[i] \in Marks
  BY LenProperties, ElementOfSeq
<1>2. ASSUME NEW g \in 0 .. Len(text)
      PROVE  NewAt(chosen, g) \in Seq(Marks) /\ KeptAt(text, chosen, g) \in Seq(Marks)
  <2>1. \A e \in chosen : e.new \in Seq(Marks)
    BY FixAssumption DEF EditsOf
  <2>2. <<>> \in Seq(Marks)
    BY EmptySeq
  <2>3. NewAt(chosen, g) \in Seq(Marks)
    BY <2>1, <2>2, Zenon DEF NewAt
  <2>4. ASSUME g < Len(text) PROVE <<text[g + 1]>> \in Seq(Marks)
    <3>1. text[g + 1] \in Marks
      BY <1>1, <2>4
    <3>. QED
      BY <3>1
  <2>5. KeptAt(text, chosen, g) \in Seq(Marks)
    BY <2>2, <2>4, Zenon DEF KeptAt
  <2>. QED
    BY <2>3, <2>5
<1>3. ASSUME NEW g \in 0 .. Len(text)
      PROVE  NewAt(chosen, g) \o KeptAt(text, chosen, g) \in Seq(Marks)
  BY <1>2, ConcatProperties
<1>4. Edited(text, chosen) = FlattenSeq(all)
  BY Zenon DEF Edited, NewAt, KeptAt
<1>5. all \in Seq(Seq(Marks)) /\ Len(all) = Len(text) + 1
  <2>1. ASSUME NEW i \in 1 .. Len(text) + 1
        PROVE  NewAt(chosen, i - 1) \o KeptAt(text, chosen, i - 1) \in Seq(Marks)
    <3>1. i - 1 \in 0 .. Len(text)
      BY <1>1
    <3>. QED
      BY <1>3, <3>1
  <2>2. all \in [1 .. Len(text) + 1 -> Seq(Marks)]
    BY <2>1, Zenon
  <2>3. Len(text) + 1 \in Nat
    BY <1>1
  <2>4. all \in Seq(Seq(Marks))
    BY <2>2, <2>3, SeqDef
  <2>. QED
    BY <2>2, <2>3, <2>4
<1>6. \A g \in 0 .. Len(text) : all[g + 1] = NewAt(chosen, g) \o KeptAt(text, chosen, g)
  <2> SUFFICES ASSUME NEW g \in 0 .. Len(text)
               PROVE  all[g + 1] = NewAt(chosen, g) \o KeptAt(text, chosen, g)
    OBVIOUS
  <2>1. g + 1 \in 1 .. Len(text) + 1 /\ (g + 1) - 1 = g
    BY <1>1
  <2>2. all[g + 1] = NewAt(chosen, (g + 1) - 1) \o KeptAt(text, chosen, (g + 1) - 1)
    BY <2>1, Zenon
  <2>. QED
    BY <2>1, <2>2
<1> HIDE DEF all
<1>7. PICK p : IsJoin(p, all, Len(text) + 1, Marks) /\ FlattenSeq(all) = p[Len(text) + 1]
  BY <1>5, FlattenJoins
<1>8. ASSUME NEW g \in 0 .. Len(text)
      PROVE  p[g + 1] = p[g] \o (NewAt(chosen, g) \o KeptAt(text, chosen, g))
  <2>1. g + 1 \in 1 .. Len(text) + 1 /\ (g + 1) - 1 = g
    BY <1>1
  <2>2. p[g + 1] = p[(g + 1) - 1] \o all[g + 1]
    BY <1>7, <2>1, Zenon DEF IsJoin
  <2>. QED
    BY <1>6, <2>1, <2>2, Zenon
<1>9. IsEdited(p, text, chosen)
  BY <1>7, <1>8, Zenon DEF IsEdited, IsJoin
<1>. QED
  BY <1>4, <1>7, <1>9

(* Regrouping, for texts. *)
LEMMA ConcatRegroups ==
  ASSUME NEW s \in Seq(Marks), NEW t \in Seq(Marks), NEW u \in Seq(Marks)
  PROVE  (s \o t) \o u = s \o (t \o u)
BY ConcatAssociative

(* The last edit i that starts at g or before it decides what becomes of the position g. *)
LEMMA PositionOfAnEdit ==
  ASSUME NEW text \in Seq(Marks), NEW chosen, NEW s, NEW n, InOrder(text, chosen, s, n),
         NEW g \in 0 .. Len(text), NEW i \in 0 .. n,
         i = 0 \/ s[i].start <= g, i = n \/ g < s[i + 1].start
  PROVE  /\ i > 0 /\ s[i].start = g => NewAt(chosen, g) = s[i].new
         /\ ~(i > 0 /\ s[i].start = g) => NewAt(chosen, g) = <<>>
         /\ g < Len(text) /\ CursorAfter(s, i) <= g => KeptAt(text, chosen, g) = <<text[g + 1]>>
         /\ ~(g < Len(text) /\ CursorAfter(s, i) <= g) => KeptAt(text, chosen, g) = <<>>
<1>1. /\ Len(text) \in Nat /\ n \in Nat
      /\ \A j \in 1 .. n : /\ s[j] \in chosen
                           /\ s[j].start \in 0 .. Len(text) /\ s[j].end \in 0 .. Len(text)
                           /\ s[j].start <= s[j].end
      /\ \A e \in chosen : \E j \in 1 .. n : e = s[j]
      /\ \A j, k \in 1 .. n : j < k => s[j].start < s[k].start /\ s[j].end <= s[k].start
  <2>1. \A j, k \in 1 .. n : j < k => s[j].start < s[k].start /\ s[j].end <= s[k].start
    BY Zenon DEF InOrder
  <2>2. n \in Nat
    BY Zenon DEF InOrder
  <2>. QED
    BY <2>1, <2>2, EditShapes
<1>2. ASSUME NEW j \in 1 .. n, j # i
      PROVE  s[j].start # g /\ ~(s[j].start <= g /\ g < s[j].end)
  <2>1. PICK a \in [1 .. n -> Nat], b \in [1 .. n -> Nat] :
          \A k \in 1 .. n : a[k] = s[k].start /\ b[k] = s[k].end
    <3> DEFINE x == [k \in 1 .. n |-> s[k].start]
               y == [k \in 1 .. n |-> s[k].end]
    <3>1. x \in [1 .. n -> Nat] /\ y \in [1 .. n -> Nat]
      BY <1>1
    <3>. QED
      BY <3>1
  <2>2. \A k, l \in 1 .. n : k < l => a[k] < a[l] /\ b[k] <= a[l]
    BY <1>1, <2>1
  <2>3. g \in Nat /\ (i = 0 \/ i \in 1 .. n) /\ (i = n \/ i + 1 \in 1 .. n)
    BY <1>1
  <2>4. (i = 0 \/ a[i] <= g) /\ (i = n \/ g < a[i + 1])
    BY <2>1, <2>3
  <2>5. a[j] # g /\ ~(a[j] <= g /\ g < b[j])
    BY <1>1, <1>2, <2>2, <2>3, <2>4, RangesElsewhere
  <2>. QED
    BY <2>1, <2>5
<1>3. ASSUME i > 0, s[i].start = g PROVE NewAt(chosen, g) = s[i].new
  <2>1. i \in 1 .. n /\ s[i] \in chosen
    BY <1>1, <1>3
  <2>2. \A e \in chosen : e.start = g => e = s[i]
    BY <1>1, <1>2
  <2>3. (CHOOSE e \in chosen : e.start = g) = s[i]
    BY <1>3, <2>1, <2>2
  <2>. QED
    BY <1>3, <2>1, <2>3, Zenon DEF NewAt
<1>4. ASSUME ~(i > 0 /\ s[i].start = g) PROVE NewAt(chosen, g) = <<>>
  <2>1. \A j \in 1 .. n : s[j].start # g
    BY <1>1, <1>2, <1>4
  <2>2. ~ \E e \in chosen : e.start = g
    BY <1>1, <2>1
  <2>. QED
    BY <2>2, Zenon DEF NewAt
<1>5. ASSUME g < Len(text), CursorAfter(s, i) <= g PROVE KeptAt(text, chosen, g) = <<text[g + 1]>>
  <2>1. \A j \in 1 .. n : ~(s[j].start <= g /\ g < s[j].end)
    BY <1>1, <1>2, <1>5 DEF CursorAfter
  <2>2. \A e \in chosen : ~(e.start <= g /\ g < e.end)
    BY <1>1, <2>1
  <2>. QED
    BY <1>5, <2>2, Zenon DEF KeptAt
<1>6. ASSUME ~(g < Len(text) /\ CursorAfter(s, i) <= g) PROVE KeptAt(text, chosen, g) = <<>>
  <2>1. CASE ~(g < Len(text))
    BY <2>1, Zenon DEF KeptAt
  <2>2. CASE g < Len(text)
    <3>1. i \in 1 .. n /\ s[i] \in chosen /\ s[i].start <= g /\ g < s[i].end
      BY <1>1, <1>6, <2>2 DEF CursorAfter
    <3>. QED
      BY <3>1, Zenon DEF KeptAt
  <2>. QED
    BY <2>1, <2>2
<1>. QED
  BY <1>3, <1>4, <1>5, <1>6

(* Before position g and after the last edit i that starts before it, the text is what the
   first i edits make and the stretch from their cursor, which may be ahead of g. *)
Upto(text, g) == IF g <= Len(text) THEN g ELSE Len(text)
AgreeAt(p, q, text, s, n, g) ==
  \A i \in 0 .. n : (i = 0 \/ s[i].start < g) /\ (i = n \/ g <= s[i + 1].start)
    => p[g] = q[i] \o SubSeq(text, CursorAfter(s, i) + 1, Upto(text, g))

LEMMA OnePositionFurther ==
  ASSUME NEW text \in Seq(Marks), NEW chosen, NEW s, NEW n, InOrder(text, chosen, s, n),
         NEW p, IsEdited(p, text, chosen), NEW q, IsRebuilt(q, text, s, n),
         NEW g \in 0 .. Len(text), AgreeAt(p, q, text, s, n, g)
  PROVE  AgreeAt(p, q, text, s, n, g + 1)
<1>1. /\ Len(text) \in Nat /\ n \in Nat
      /\ \A j \in 1 .. n : /\ s[j].new \in Seq(Marks)
                           /\ s[j].start \in 0 .. Len(text) /\ s[j].end \in 0 .. Len(text)
                           /\ s[j].start <= s[j].end
      /\ \A j, k \in 1 .. n : j < k => s[j].start < s[k].start /\ s[j].end <= s[k].start
  BY EditShapes DEF InOrder
<1>2. \A i \in 0 .. n : CursorAfter(s, i) \in 0 .. Len(text)
  BY <1>1 DEF CursorAfter
<1>3. Upto(text, g) = g
  BY <1>1 DEF Upto
<1>4. p[g + 1] = p[g] \o (NewAt(chosen, g) \o KeptAt(text, chosen, g))
  BY Zenon DEF IsEdited
<1>5. \A i \in 0 .. n : q[i] \in Seq(Marks)
  BY DEF IsRebuilt
<1>6. SUFFICES ASSUME NEW i \in 0 .. n, i = 0 \/ s[i].start < g + 1, i = n \/ g + 1 <= s[i + 1].start
               PROVE  p[g + 1] = q[i] \o SubSeq(text, CursorAfter(s, i) + 1, Upto(text, g + 1))
  BY Zenon DEF AgreeAt
<1>7. (i = 0 \/ s[i].start <= g) /\ (i = n \/ g < s[i + 1].start)
  <2>1. ASSUME i # n PROVE g < s[i + 1].start
    <3>1. i + 1 \in 1 .. n
      BY <1>1, <2>1
    <3>2. s[i + 1].start \in Nat /\ g + 1 <= s[i + 1].start
      BY <1>1, <1>6, <2>1, <3>1
    <3>. QED
      BY <1>1, <3>2
  <2>2. ASSUME i # 0 PROVE s[i].start <= g
    <3>1. i \in 1 .. n
      BY <1>1, <2>2
    <3>2. s[i].start \in Nat /\ s[i].start < g + 1
      BY <1>1, <1>6, <2>2, <3>1
    <3>. QED
      BY <1>1, <3>2
  <2>. QED
    BY <2>1, <2>2
<1> DEFINE new == NewAt(chosen, g)
           kept == KeptAt(text, chosen, g)
           c == CursorAfter(s, i)
<1>8. /\ i > 0 /\ s[i].start = g => new = s[i].new
      /\ ~(i > 0 /\ s[i].start = g) => new = <<>>
      /\ g < Len(text) /\ c <= g => kept = <<text[g + 1]>>
      /\ ~(g < Len(text) /\ c <= g) => kept = <<>>
  BY <1>7, PositionOfAnEdit
<1>9. c \in 0 .. Len(text)
  BY <1>2
<1> HIDE DEF new, kept, c
<1>m. SubSeq(text, c + 1, g) \in Seq(Marks) /\ kept \in Seq(Marks)
  <2>1. SubSeq(text, c + 1, g) \in Seq(Marks)
    BY <1>9, StretchGrows
  <2>2. ASSUME g < Len(text) PROVE <<text[g + 1]>> \in Seq(Marks)
    <3>1. text[g + 1] \in Marks
      BY <1>1, <2>2, ElementOfSeq
    <3>. QED
      BY <3>1
  <2>3. kept \in Seq(Marks)
    BY <1>8, <2>2, EmptySeq
  <2>. QED
    BY <2>1, <2>3
(* The stretch takes one mark more where one is kept. *)
<1>10. SubSeq(text, c + 1, Upto(text, g + 1)) = SubSeq(text, c + 1, g) \o kept
  <2>1. SubSeq(text, c + 1, g) \in Seq(Marks) /\ (g <= c => SubSeq(text, c + 1, g) = <<>>)
    BY <1>9, StretchGrows
  <2>2. SubSeq(text, c + 1, g) \o <<>> = SubSeq(text, c + 1, g) /\ <<>> \in Seq(Marks)
    BY <2>1, ConcatEmptySeq, EmptySeq
  <2>3. CASE g < Len(text) /\ c <= g
    <3>1. Upto(text, g + 1) = g + 1
      BY <1>1, <2>3 DEF Upto
    <3>2. SubSeq(text, c + 1, g + 1) = SubSeq(text, c + 1, g) \o <<text[g + 1]>>
      BY <1>9, <2>3, StretchGrows
    <3>3. kept = <<text[g + 1]>>
      BY <1>8, <2>3
    <3>. QED
      BY <3>1, <3>2, <3>3, Zenon
  <2>4. CASE ~(g < Len(text))
    <3>1. Upto(text, g + 1) = g
      BY <1>1, <2>4 DEF Upto
    <3>2. kept = <<>>
      BY <1>8, <2>4
    <3>. QED
      BY <2>1, <2>2, <3>1, <3>2, Zenon
  <2>5. CASE g < Len(text) /\ ~(c <= g)
    <3>1. Upto(text, g + 1) = g + 1 /\ g + 1 <= c /\ g + 1 \in 0 .. Len(text) /\ g <= c
      BY <1>1, <1>9, <2>5 DEF Upto
    <3>2. SubSeq(text, c + 1, g + 1) = <<>>
      BY <1>9, <3>1, StretchGrows
    <3>3. SubSeq(text, c + 1, g) = <<>>
      BY <2>1, <3>1
    <3>4. kept = <<>>
      BY <1>8, <2>5
    <3>. QED
      BY <2>1, <2>2, <3>1, <3>2, <3>3, <3>4, Zenon
  <2>. QED
    BY <2>3, <2>4, <2>5
<1>11. CASE i = 0 \/ s[i].start < g
  <2>1. i = n \/ g <= s[i + 1].start
    <3>1. i # n => i + 1 \in 1 .. n
      BY <1>1
    <3>. QED
      BY <1>1, <1>7, <3>1
  <2>2. p[g] = q[i] \o SubSeq(text, c + 1, g)
    BY <1>3, <1>11, <2>1, Zenon DEF AgreeAt, c
  <2>3. ~(i > 0 /\ s[i].start = g)
    BY <1>1, <1>11
  <2>4. new = <<>>
    BY <1>8, <2>3
  <2>5. <<>> \o kept = kept
    BY <1>m, ConcatEmptySeq
  <2>6. p[g + 1] = (q[i] \o SubSeq(text, c + 1, g)) \o kept
    BY <1>4, <2>2, <2>4, <2>5, Zenon DEF new, kept
  <2>7. (q[i] \o SubSeq(text, c + 1, g)) \o kept = q[i] \o (SubSeq(text, c + 1, g) \o kept)
    <3>1. q[i] \in Seq(Marks) /\ SubSeq(text, c + 1, g) \in Seq(Marks) /\ kept \in Seq(Marks)
      BY <1>5, <1>m, Zenon
    <3>. QED
      BY <3>1, ConcatRegroups, ZenonT(40)
  <2>. QED
    BY <1>10, <2>6, <2>7, Zenon DEF c
<1>12. CASE i > 0 /\ s[i].start = g
  <2>1. i \in 1 .. n /\ i - 1 \in 0 .. n /\ i - 1 # n /\ (i - 1) + 1 = i
    BY <1>1, <1>12
  <2>2. i - 1 = 0 \/ s[i - 1].start < g
    <3>1. i - 1 # 0 => i - 1 \in 1 .. n /\ i - 1 < i
      BY <1>1, <2>1
    <3>. QED
      BY <1>1, <1>12, <2>1, <3>1
  <2>3. g <= s[(i - 1) + 1].start
    BY <1>1, <1>12, <2>1
  <2> DEFINE before == SubSeq(text, CursorAfter(s, i - 1) + 1, g)
  <2>4. p[g] = q[i - 1] \o before
    BY <1>3, <2>1, <2>2, <2>3, Zenon DEF AgreeAt
  <2>5. q[i] = q[i - 1] \o (before \o new)
    <3>1. new = s[i].new /\ s[i].start = g
      BY <1>8, <1>12
    <3>. QED
      BY <2>1, <3>1, Zenon DEF IsRebuilt
  <2>6. before \in Seq(Marks)
    BY <1>2, <2>1, StretchGrows
  <2> HIDE DEF before
  <2>7. q[i - 1] \in Seq(Marks) /\ new \in Seq(Marks)
    BY <1>1, <1>5, <1>8, <1>12, <2>1
  <2>8. q[i] = p[g] \o new /\ p[g] \in Seq(Marks)
    <3>1. (q[i - 1] \o before) \o new = q[i - 1] \o (before \o new)
      BY <2>6, <2>7, ConcatRegroups, ZenonT(40)
    <3>2. q[i - 1] \o before \in Seq(Marks)
      BY <2>6, <2>7, ConcatProperties, Zenon
    <3>. QED
      BY <2>4, <2>5, <3>1, <3>2, Zenon
  <2>9. p[g + 1] = q[i] \o kept
    <3>1. kept \in Seq(Marks) /\ new \in Seq(Marks) /\ p[g] \in Seq(Marks)
      BY <1>m, <2>7, <2>8, Zenon
    <3>2. (p[g] \o new) \o kept = p[g] \o (new \o kept)
      BY <3>1, ConcatRegroups, ZenonT(40)
    <3>. QED
      BY <1>4, <2>8, <3>2, Zenon DEF new, kept
  <2>10. SubSeq(text, c + 1, g) \o kept = kept
    <3>1. g <= c
      BY <1>1, <1>12, <2>1 DEF c, CursorAfter
    <3>2. SubSeq(text, c + 1, g) = <<>>
      BY <1>9, <3>1, StretchGrows
    <3>. QED
      BY <1>m, <3>2, ConcatEmptySeq
  <2>. QED
    BY <1>10, <2>9, <2>10, Zenon DEF c
<1>. QED
  <2>1. i # 0 => i > 0 /\ s[i].start \in Nat
    BY <1>1
  <2>2. i = 0 \/ s[i].start < g \/ (i > 0 /\ s[i].start = g)
    BY <1>1, <1>7, <2>1
  <2>. QED
    BY <1>11, <1>12, <2>2, Zenon

(* Rebuilding the text from the left, edit by edit in the order of the sort, makes each edit
   in place and loses no edit and no other mark, when no neighbours overlap. *)
LEMMA RebuildingEdits ==
  ASSUME NEW text \in Seq(Marks), NEW chosen, chosen \subseteq EditsOf(text), Cardinality(chosen) \in Nat,
         NEW s \in Sortings(chosen), NeighboursApart(s)
  PROVE  ApplyEdits(text, s) = Edited(text, chosen) /\ Edited(text, chosen) \in Seq(Marks)
<1>1. PICK n : n = Len(s) /\ InOrder(text, chosen, s, n)
  BY NeighboursSuffice
<1>2. PICK q : /\ IsRebuilt(q, text, s, n)
               /\ ApplyEdits(text, s) = q[n] \o SubSeq(text, CursorAfter(s, n) + 1, Len(text))
  BY <1>1, RebuiltFromTheLeft, Zenon
<1>3. PICK p : IsEdited(p, text, chosen) /\ Edited(text, chosen) = p[Len(text) + 1]
  BY EditedByPosition, Zenon
<1>4. /\ Len(text) \in Nat /\ n \in Nat
      /\ \A j \in 1 .. n : /\ s[j].start \in 0 .. Len(text) /\ s[j].end \in 0 .. Len(text)
  <2>1. n \in Nat
    BY <1>1, Zenon DEF InOrder
  <2>. QED
    BY <1>1, <2>1, EditShapes, Zenon
<1> DEFINE T == {g \in 0 .. Len(text) + 1 : ~AgreeAt(p, q, text, s, n, g)}
<1>5. AgreeAt(p, q, text, s, n, 0)
  <2> SUFFICES ASSUME NEW i \in 0 .. n, i = 0 \/ s[i].start < 0
               PROVE  p[0] = q[i] \o SubSeq(text, CursorAfter(s, i) + 1, Upto(text, 0))
    BY Zenon DEF AgreeAt
  <2>1. i = 0
    <3>1. i # 0 => i \in 1 .. n
      BY <1>4
    <3>. QED
      BY <1>4, <3>1
  <2>2. Upto(text, 0) = 0 /\ CursorAfter(s, 0) = 0 /\ 0 \in 0 .. Len(text)
    BY <1>4 DEF Upto, CursorAfter
  <2>3. SubSeq(text, 0 + 1, 0) = <<>>
    BY <2>2, StretchGrows
  <2>4. p[0] = <<>> /\ q[0] = <<>>
    BY <1>2, <1>3, Zenon DEF IsEdited, IsRebuilt
  <2>5. <<>> \o <<>> = <<>>
    BY EmptySeq, ConcatEmptySeq
  <2>. QED
    BY <2>1, <2>2, <2>3, <2>4, <2>5, Zenon
<1>6. ASSUME T # {} PROVE FALSE
  <2>1. T \subseteq Nat
    BY <1>4
  <2>2. PICK g \in T : \A y \in T : g <= y
    BY <1>6, <2>1, LeastNatural
  <2>3. g \in 0 .. Len(text) + 1 /\ ~AgreeAt(p, q, text, s, n, g)
    BY <2>2
  <2>4. g # 0
    BY <1>5, <2>3
  <2> HIDE DEF T
  <2>5. PICK h \in 0 .. Len(text) : g = h + 1
    <3>1. g - 1 \in 0 .. Len(text) /\ g = (g - 1) + 1
      BY <1>4, <2>3, <2>4
    <3>. QED
      BY <3>1
  <2>6. h \notin T /\ h \in 0 .. Len(text) + 1
    BY <1>4, <2>2, <2>5
  <2>7. AgreeAt(p, q, text, s, n, h)
    BY <2>6 DEF T
  <2>. QED
    BY <1>1, <1>2, <1>3, <2>3, <2>5, <2>7, OnePositionFurther
<1>7. AgreeAt(p, q, text, s, n, Len(text) + 1)
  BY <1>4, <1>6
<1>8. p[Len(text) + 1] = q[n] \o SubSeq(text, CursorAfter(s, n) + 1, Len(text))
  <2>1. n \in 0 .. n /\ (n = 0 \/ s[n].start < Len(text) + 1)
    BY <1>4
  <2>2. Upto(text, Len(text) + 1) = Len(text)
    BY <1>4 DEF Upto
  <2>. QED
    BY <1>7, <2>1, <2>2, Zenon DEF AgreeAt
<1>9. p[Len(text) + 1] \in Seq(Marks)
  <2>1. Len(text) + 1 \in 0 .. Len(text) + 1
    BY <1>4
  <2>. QED
    BY <1>3, <2>1 DEF IsEdited
<1>. QED
  BY <1>2, <1>3, <1>8, <1>9, Zenon

(* A preview that was minted holds the analysed text with its edits made. *)
PreviewsAreEdited ==
  /\ document.text \in Seq(Marks)
  /\ \A p \in Previews : preview[p] # None =>
       /\ preview[p].after \in Seq(Marks)
       /\ preview[p].after = Edited(preview[p].before.text, preview[p].edits)

LEMMA PreviewsAreEditedStep ==
  ASSUME FixInvariant, PreviewsAreEdited, [FixNext]_fixVars
  PROVE  PreviewsAreEdited'
<1>1. ASSUME NEW p \in Previews, NEW f \in Pipelines, MakePreview(p, f) PROVE PreviewsAreEdited'
  <2>1. PICK chosen \in UNION {kSubset(n, EditsOf(document.text)) : n \in 0 .. MaxPlanEdits}, kind \in Kinds :
          \E s \in Sortings(chosen) :
            /\ NeighboursApart(s)
            /\ preview' = [preview EXCEPT ![p] =
                 [owner |-> f, kind |-> kind, before |-> document,
                  after |-> ApplyEdits(document.text, s), edits |-> chosen]]
    BY <1>1, Zenon DEF MakePreview
  <2>s. PICK s \in Sortings(chosen) :
          /\ NeighboursApart(s)
          /\ preview' = [preview EXCEPT ![p] =
               [owner |-> f, kind |-> kind, before |-> document,
                after |-> ApplyEdits(document.text, s), edits |-> chosen]]
    BY <2>1
  <2>2. chosen \subseteq EditsOf(document.text) /\ Cardinality(chosen) \in Nat
    BY FixAssumption DEF kSubset
  <2>3. document.text \in Seq(Marks)
    BY DEF PreviewsAreEdited
  <2>4. PICK after \in Seq(Marks) : after = Edited(document.text, chosen) /\ after = ApplyEdits(document.text, s)
    BY <2>s, <2>2, <2>3, RebuildingEdits, Zenon
  <2>5. document' = document
    BY <1>1, Zenon DEF MakePreview
  <2>6. DOMAIN preview = Previews
    BY DEF FixInvariant, FixTypeOK
  <2>7. /\ preview'[p].before = document /\ preview'[p].after = after /\ preview'[p].edits = chosen
        /\ \A r \in Previews : r # p => preview'[r] = preview[r]
    BY <2>s, <2>4, <2>6
  <2>. QED
    BY <2>3, <2>4, <2>5, <2>7, Zenon DEF PreviewsAreEdited
<1>2. ASSUME NEW a \in Applies, WriterCommits(a) PROVE PreviewsAreEdited'
  <2>1. fix[a].pc = "rename" /\ preview' = preview
    BY <1>2 DEF WriterCommits, FixAt
  <2>2. fix[a] \in BusyApply
    BY <2>1, ApplyShapes DEF FixInvariant, FixTypeOK
  <2>3. PICK p \in Previews : p = fix[a].preview /\ preview[p] # None
    BY <2>2, ApplyShapes DEF FixInvariant, PreviewIsMinted
  <2>4. document'.text = preview[p].after
    <3>1. PICK i \in Inodes : document' = [inode |-> i, text |-> preview[p].after]
      BY <1>2, <2>3 DEF WriterCommits
    <3>. QED
      BY <3>1
  <2>. QED
    BY <2>1, <2>3, <2>4, Zenon DEF PreviewsAreEdited
<1>3. ASSUME EditorSaves PROVE PreviewsAreEdited'
  <2>1. PICK text \in EditorTexts, i \in Inodes : document' = [inode |-> i, text |-> text]
    BY <1>3, Zenon DEF EditorSaves
  <2>2. document'.text \in Seq(Marks)
    BY <2>1, FixAssumption
  <2>3. preview' = preview
    BY <1>3 DEF EditorSaves
  <2>. QED
    BY <2>2, <2>3, Zenon DEF PreviewsAreEdited
<1>4. ASSUME UNCHANGED <<document, preview>> PROVE PreviewsAreEdited'
  BY <1>4, Zenon DEF PreviewsAreEdited
<1>5. ASSUME NEW a \in Applies,
             \/ \E p \in Previews, f \in Pipelines : ApplyBegins(a, p, f)
             \/ Revalidate(a) \/ WriterCompares(a) \/ ApplyReturns(a)
      PROVE  UNCHANGED <<document, preview>>
  BY <1>5, Zenon DEF ApplyBegins, Revalidate, WriterCompares, ApplyReturns
<1>6. CASE UNCHANGED fixVars
  BY <1>4, <1>6 DEF fixVars
<1>. QED
  BY <1>1, <1>2, <1>3, <1>4, <1>5, <1>6, Zenon DEF FixNext

(* One call at most is between the writer's last comparison and its rename, and there the
   file is the one that was analysed unless an editor has saved since. *)
WindowIsKnown ==
  /\ \A a \in Applies : fix[a].pc = "rename" =>
       document = preview[fix[a].preview].before \/ a \in raced
  /\ \A a, b \in Applies : fix[a].pc = "rename" /\ fix[b].pc = "rename" => a = b

(* Which calls a step can move, and whether into the window. *)
LEMMA OnlyComparisonOpensWindow ==
  ASSUME FixInvariant, NEW a \in Applies,
         \/ \E p \in Previews, f \in Pipelines : ApplyBegins(a, p, f)
         \/ Revalidate(a) \/ ApplyReturns(a) \/ WriterCommits(a)
  PROVE  /\ fix'[a].pc # "rename"
         /\ \A b \in Applies : b # a => fix'[b] = fix[b] /\ (b \in raced' <=> b \in raced)
         /\ preview' = preview
<1>f. fix \in [Applies -> IdleApply \cup BusyApply \cup DoneApply]
  BY DEF FixInvariant, FixTypeOK
<1>1. ASSUME NEW x, fix' = [fix EXCEPT ![a] = x], x.pc # "rename"
      PROVE  fix'[a].pc # "rename" /\ \A b \in Applies : b # a => fix'[b] = fix[b]
  BY <1>f, <1>1
<1>2. ASSUME NEW result, Ends(a, result)
      PROVE  fix'[a].pc # "rename" /\ \A b \in Applies : b # a => fix'[b] = fix[b]
  <2>1. fix' = [fix EXCEPT ![a] = Done(fix[a].preview, result)] /\ Done(fix[a].preview, result).pc = "done"
    BY <1>2 DEF Ends, Done
  <2>. QED
    BY <1>1, <2>1
<1>3. ASSUME NEW pc \in {"write", "committed"}, fix[a] \in BusyApply, FixGoto(a, pc)
      PROVE  fix'[a].pc # "rename" /\ \A b \in Applies : b # a => fix'[b] = fix[b]
  <2>1. fix' = [fix EXCEPT ![a] = [fix[a] EXCEPT !.pc = pc]] /\ [fix[a] EXCEPT !.pc = pc].pc = pc
    BY <1>3 DEF FixGoto, BusyApply
  <2>. QED
    BY <1>1, <1>3, <2>1
<1>4. CASE \E p \in Previews, f \in Pipelines : ApplyBegins(a, p, f)
  <2>1. PICK p \in Previews, f \in Pipelines : ApplyBegins(a, p, f)
    BY <1>4
  <2>2. \E x : fix' = [fix EXCEPT ![a] = x] /\ x.pc # "rename"
    <3>1. \/ fix' = [fix EXCEPT ![a] = Done(p, "refused")]
          \/ fix' = [fix EXCEPT ![a] = Done(p, "applied")]
          \/ fix' = [fix EXCEPT ![a] = [pc |-> "read", preview |-> p]]
      BY <2>1, Zenon DEF ApplyBegins
    <3>2. /\ Done(p, "refused").pc # "rename" /\ Done(p, "applied").pc # "rename"
          /\ [pc |-> "read", preview |-> p].pc # "rename"
      BY DEF Done
    <3>. QED
      BY <3>1, <3>2, Zenon
  <2>3. raced' = raced /\ preview' = preview
    BY <2>1, Zenon DEF ApplyBegins
  <2>. QED
    BY <1>1, <2>2, <2>3
<1>5. CASE Revalidate(a)
  <2>1. raced' = raced /\ preview' = preview
    BY <1>5 DEF Revalidate
  <2>2. fix[a] \in BusyApply
    BY <1>5, <1>f, ApplyShapes DEF Revalidate, FixAt
  <2>3. FixGoto(a, "write") \/ Ends(a, "refused")
    BY <1>5 DEF Revalidate
  <2>. QED
    BY <1>2, <1>3, <2>1, <2>2, <2>3
<1>6. CASE ApplyReturns(a)
  <2>1. raced' = raced \ {a} /\ preview' = preview
    BY <1>6 DEF ApplyReturns
  <2>2. \E result : Ends(a, result)
    BY <1>6, Zenon DEF ApplyReturns
  <2>. QED
    BY <1>2, <2>1, <2>2
<1>7. CASE WriterCommits(a)
  <2>1. raced' = raced \ {a} /\ preview' = preview /\ FixGoto(a, "committed")
    BY <1>7 DEF WriterCommits
  <2>2. fix[a] \in BusyApply
    BY <1>7, <1>f, ApplyShapes DEF WriterCommits, FixAt
  <2>. QED
    BY <1>3, <2>1, <2>2
<1>. QED
  BY <1>4, <1>5, <1>6, <1>7

LEMMA WindowStep ==
  ASSUME FixInvariant, WindowIsKnown, [FixNext]_fixVars
  PROVE  WindowIsKnown'
<1>f. fix \in [Applies -> IdleApply \cup BusyApply \cup DoneApply]
  BY DEF FixInvariant, FixTypeOK
<1>m. ASSUME NEW a \in Applies, fix[a].pc = "rename"
      PROVE  fix[a].preview \in Previews /\ preview[fix[a].preview] # None
  BY <1>f, <1>m, ApplyShapes DEF FixInvariant, PreviewIsMinted
<1>1. ASSUME NEW p \in Previews, NEW f \in Pipelines, MakePreview(p, f) PROVE WindowIsKnown'
  <2>1. UNCHANGED <<document, fix, raced>> /\ preview[p] = None
    BY <1>1, Zenon DEF MakePreview
  <2>2. \E new : preview' = [preview EXCEPT ![p] = new]
    BY <1>1, Zenon DEF MakePreview
  <2>3. \A q \in Previews : preview[q] # None => preview'[q] = preview[q]
    BY <2>1, <2>2 DEF FixInvariant, FixTypeOK
  <2>4. \A a \in Applies : fix[a].pc = "rename" => preview'[fix[a].preview] = preview[fix[a].preview]
    BY <1>m, <2>3
  <2>. QED
    BY <2>1, <2>4 DEF WindowIsKnown
<1>2. ASSUME NEW a \in Applies,
             \/ \E p \in Previews, f \in Pipelines : ApplyBegins(a, p, f)
             \/ Revalidate(a) \/ ApplyReturns(a) \/ WriterCommits(a)
      PROVE  WindowIsKnown'
  <2>1. /\ fix'[a].pc # "rename"
        /\ \A b \in Applies : b # a => fix'[b] = fix[b] /\ (b \in raced' <=> b \in raced)
        /\ preview' = preview
    BY <1>2, OnlyComparisonOpensWindow
  <2>2. document' = document \/ \A b \in Applies : b # a => fix[b].pc # "rename"
    <3>1. CASE WriterCommits(a)
      BY <3>1 DEF WriterCommits, FixAt, WindowIsKnown
    <3>2. CASE ~WriterCommits(a)
      BY <1>2, <3>2, Zenon DEF ApplyBegins, Revalidate, ApplyReturns
    <3>. QED
      BY <3>1, <3>2
  <2>. QED
    BY <2>1, <2>2 DEF WindowIsKnown
<1>3. ASSUME NEW a \in Applies, WriterCompares(a) PROVE WindowIsKnown'
  <2>1. /\ fix[a].pc = "write" /\ document = preview[fix[a].preview].before
        /\ \A b \in Applies : fix[b].pc # "rename"
        /\ fix' = [fix EXCEPT ![a] = [fix[a] EXCEPT !.pc = "rename"]]
        /\ UNCHANGED <<document, preview, raced>>
    BY <1>3 DEF WriterCompares, FixAt, FixGoto
  <2>2. fix[a] \in BusyApply
    BY <1>f, <2>1, ApplyShapes
  <2>3. [fix[a] EXCEPT !.pc = "rename"].preview = fix[a].preview
    BY <2>2 DEF BusyApply
  <2>4. fix'[a].preview = fix[a].preview /\ \A b \in Applies : b # a => fix'[b] = fix[b]
    BY <1>f, <2>1, <2>3
  <2>. QED
    BY <2>1, <2>4 DEF WindowIsKnown
<1>4. CASE EditorSaves
  <2>1. fix' = fix /\ raced' = raced \cup {a \in Applies : fix[a].pc = "rename"}
    BY <1>4, Zenon DEF EditorSaves, FixAt
  <2>. QED
    BY <2>1 DEF WindowIsKnown
<1>5. CASE UNCHANGED fixVars
  BY <1>5 DEF fixVars, WindowIsKnown
<1>. QED
  BY <1>1, <1>2, <1>3, <1>4, <1>5, Zenon DEF FixNext

(* For any texts, edits, editors and overlapping calls: the file that apply() replaces is the
   one that was analysed unless an editor saved between the writer's last comparison and its
   rename, and what it writes is the analysed text with every selected edit made in place.
   Comparing the neighbours of the sort keeps all edits apart, and the rebuilding of
   applyEdits loses none. *)
THEOREM FixesReplaceWhatWasAnalysed == FixSpec => FixReplacesAnalysed
<1>1. FixInit => PreviewsAreEdited
  <2> SUFFICES ASSUME FixInit PROVE PreviewsAreEdited
    OBVIOUS
  <2>1. document.text = FirstText /\ \A p \in Previews : preview[p] = None
    BY DEF FixInit
  <2>. QED
    BY <2>1, FixAssumption, Zenon DEF PreviewsAreEdited
<1>w. FixInit => WindowIsKnown
  BY DEF FixInit, WindowIsKnown
<1>2. FixInvariant /\ PreviewsAreEdited /\ WindowIsKnown /\ [FixNext]_fixVars
        => FixInvariant' /\ PreviewsAreEdited' /\ WindowIsKnown'
  BY FixStep, PreviewsAreEditedStep, WindowStep
<1>3. ASSUME FixInvariant, PreviewsAreEdited, WindowIsKnown, [FixNext]_fixVars
      PROVE  [\A a \in Applies :
                fix[a].pc = "rename" /\ fix'[a].pc = "committed" =>
                  LET p == preview[fix[a].preview]
                  IN /\ document = p.before \/ a \in raced
                     /\ document'.text = Edited(p.before.text, p.edits)]_fixVars
  <2> SUFFICES ASSUME FixNext, NEW a \in Applies, fix[a].pc = "rename", fix'[a].pc = "committed"
               PROVE  /\ document = preview[fix[a].preview].before \/ a \in raced
                      /\ document'.text = Edited(preview[fix[a].preview].before.text,
                                                 preview[fix[a].preview].edits)
    BY <1>3, Zenon
  <2>f. fix \in [Applies -> IdleApply \cup BusyApply \cup DoneApply]
    BY <1>3 DEF FixInvariant, FixTypeOK
  <2>1. fix' # fix /\ fix'[a] # fix[a]
    OBVIOUS
  <2>2. ASSUME NEW b \in Applies, NEW x, fix' = [fix EXCEPT ![b] = x] PROVE b = a /\ x.pc = "committed"
    BY <2>f, <2>1, <2>2
  <2>3. ASSUME NEW b \in Applies, NEW result, Ends(b, result) PROVE FALSE
    <3>1. fix' = [fix EXCEPT ![b] = Done(fix[b].preview, result)] /\ Done(fix[b].preview, result).pc = "done"
      BY <2>3 DEF Ends, Done
    <3>. QED
      BY <2>2, <3>1
  <2>4. ASSUME NEW b \in Applies, NEW p \in Previews, NEW f \in Pipelines, ApplyBegins(b, p, f) PROVE FALSE
    <3>1. PICK x : fix' = [fix EXCEPT ![b] = x] /\ x.pc # "committed"
      BY <2>4 DEF ApplyBegins, Done
    <3>. QED
      BY <2>2, <3>1
  <2>5. ASSUME NEW b \in Applies, Revalidate(b) PROVE FALSE
    <3>1. CASE \E result : Ends(b, result)
      BY <2>3, <3>1
    <3>2. CASE FixGoto(b, "write")
      <4>1. fix[b].pc = "read" /\ fix' = [fix EXCEPT ![b] = [fix[b] EXCEPT !.pc = "write"]]
        BY <2>5, <3>2 DEF Revalidate, FixAt, FixGoto
      <4>2. fix[b] \in BusyApply
        BY <2>f, <4>1, ApplyShapes
      <4>3. [fix[b] EXCEPT !.pc = "write"].pc = "write"
        BY <4>2 DEF BusyApply
      <4>. QED
        BY <2>2, <4>1, <4>3
    <3>. QED
      BY <2>5, <3>1, <3>2, Zenon DEF Revalidate
  <2>w. ASSUME NEW b \in Applies, WriterCompares(b) PROVE FALSE
    <3>1. \A c \in Applies : fix[c].pc # "rename"
      BY <2>w DEF WriterCompares, FixAt
    <3>. QED
      BY <3>1
  <2>6. ASSUME NEW b \in Applies, ApplyReturns(b) PROVE FALSE
    <3>1. \E result : Ends(b, result)
      BY <2>6, Zenon DEF ApplyReturns
    <3>. QED
      BY <2>3, <3>1
  <2>7. ~EditorSaves /\ ~ \E p \in Previews, f \in Pipelines : MakePreview(p, f)
    BY <2>1, Zenon DEF EditorSaves, MakePreview
  <2>8. PICK b \in Applies : WriterCommits(b)
    BY <2>4, <2>5, <2>w, <2>6, <2>7, Zenon DEF FixNext
  <2>9. b = a
    <3>1. fix' = [fix EXCEPT ![b] = [fix[b] EXCEPT !.pc = "committed"]]
      BY <2>8 DEF WriterCommits, FixGoto
    <3>. QED
      BY <2>f, <2>1, <3>1
  <2>10. fix[a] \in BusyApply
    BY <2>f, ApplyShapes
  <2>11. PICK p \in Previews : p = fix[a].preview /\ preview[p] # None
    BY <1>3, <2>10, ApplyShapes DEF FixInvariant, PreviewIsMinted
  <2>12. document = preview[p].before \/ a \in raced
    BY <1>3, <2>11 DEF WindowIsKnown
  <2>13. document'.text = preview[p].after
    <3>1. PICK i \in Inodes : document' = [inode |-> i, text |-> preview[p].after]
      BY <2>8, <2>9, <2>11 DEF WriterCommits
    <3>. QED
      BY <3>1
  <2>. QED
    BY <1>3, <2>11, <2>12, <2>13, Zenon DEF PreviewsAreEdited
<1>. QED
  BY <1>1, <1>w, <1>2, <1>3, FixInitially, PTL DEF FixSpec, FixReplacesAnalysed

-----------------------------------------------------------------------------
(* The import graph. *)
References == Seq(Paths \cup {Unresolved})
EdgeStates == Reuses \cup {"cycle", "rejected", "limit-exceeded", "unavailable"}
Frames == [path : Paths, imports : References, next : Nat \ {0}, position : Nat \ {0}]
NodeRecords == [path : Paths, size : Nat, depth : Nat, imports : References, state : {"loaded", "parse-failed"}]
EdgeRecords == [from : Paths, index : Nat, state : EdgeStates, path : Paths \cup {Unresolved},
                document : {<<>>} \cup {<<p>> : p \in Paths}]

(* The frame k waits for a descent, into Child(k). *)
Waiting(k) == k < Len(stack) \/ reading # <<>>
Child(k) == IF k < Len(stack) THEN stack[k + 1].path ELSE reading[1]

ImportTypeOK ==
  /\ begun \in BOOLEAN /\ halted \in BOOLEAN /\ returned \in BOOLEAN
  /\ reading \in {<<>>} \cup {<<p>> : p \in Paths}
  /\ stack \in Seq(Frames) /\ nodes \in Seq(NodeRecords) /\ edges \in Seq(EdgeRecords)
  /\ issues \in Nat /\ completed \in SUBSET Paths /\ edgeSlots \in Nat /\ totalBytes \in Nat

(* Nothing is open before the load begins and after it has returned. *)
Phases ==
  /\ ~begun => reading = <<>> /\ stack = <<>> /\ ~returned
  /\ stack = <<>> /\ ~returned => nodes = <<>> /\ edges = <<>> /\ edgeSlots = 0 /\ ~halted
  /\ stack = <<>> /\ reading # <<>> => reading[1] = EntryPath
  /\ returned => reading = <<>> /\ stack = <<>>
  /\ halted => reading = <<>> /\ issues > 0

(* The documents are those being expanded and those completed, each once; the one being read
   is new. *)
DocumentsOnce ==
  /\ NodePaths = ActivePaths \cup completed /\ ActivePaths \cap completed = {}
  /\ \A j, k \in 1 .. Len(stack) : stack[j].path = stack[k].path => j = k
  /\ \A i, j \in 1 .. Len(nodes) : nodes[i].path = nodes[j].path => i = j
  /\ reading # <<>> => reading[1] \notin NodePaths
  /\ nodes # <<>> => EntryPath \in NodePaths

(* A frame has its node's imports, and waits for the import it has come to. *)
Descents ==
  \A k \in 1 .. Len(stack) :
    /\ Len(stack[k].imports) <= MaxImports
    /\ stack[k].next <= Len(stack[k].imports) + 1
    /\ Waiting(k) => /\ stack[k].next <= Len(stack[k].imports)
                     /\ stack[k].imports[stack[k].next] = Child(k)
    /\ \A i \in 1 .. Len(nodes) : nodes[i].path = stack[k].path => nodes[i].imports = stack[k].imports

(* The descents that have not returned. *)
Pending == IF stack = <<>> THEN 0 ELSE IF reading = <<>> THEN Len(stack) - 1 ELSE Len(stack)

(* The limits: every import taken has its edge, or an open descent that will add it. *)
SizesOf(list) == [i \in 1 .. Len(list) |-> list[i].size]

WithinLimits ==
  /\ edgeSlots = Len(edges) + Pending
  /\ edgeSlots <= MaxEdges
  /\ Len(nodes) <= MaxFiles /\ (reading # <<>> => Len(nodes) < MaxFiles)
  /\ Len(stack) <= MaxDepth + 1 /\ (reading # <<>> => Len(stack) <= MaxDepth)
  /\ \A i \in 1 .. Len(nodes) : nodes[i].depth <= MaxDepth
  /\ Total(SizesOf(nodes)) = totalBytes /\ totalBytes <= MaxTotalBytes

(* The imports of the documents: those that took an edge slot, and those still to come. *)
ReferencesOf(list) == [i \in 1 .. Len(list) |-> Len(list[i].imports)]
LeftOf(frames, read, k) ==
  Len(frames[k].imports)
    - (IF k < Len(frames) \/ read # <<>> THEN frames[k].next ELSE frames[k].next - 1)
Lefts(frames, read) == [k \in 1 .. Len(frames) |-> LeftOf(frames, read, k)]

ReferencesCounted ==
  IF halted THEN Total(ReferencesOf(nodes)) <= MaxReferences
  ELSE Total(ReferencesOf(nodes)) = edgeSlots + Total(Lefts(stack, reading))

(* An edge relates documents; what is followed is complete; a document's edges come in the
   order of its text, up to the import it has come to. *)
EdgesOfDocuments ==
  /\ \A e \in Range(edges) : Relationship(e)
  /\ \A i \in 1 .. Len(edges) : edges[i].state \in Reuses => edges[i].path \in completed
  /\ \A k \in 1 .. Len(stack), i \in 1 .. Len(edges) :
       edges[i].from = stack[k].path => edges[i].index < stack[k].next
  /\ \A i, j \in 1 .. Len(edges) :
       edges[i].from = edges[j].from /\ i < j => edges[i].index < edges[j].index

CompletedIsAcyclic ==
  \A documents \in (SUBSET completed) \ {{}} :
    \E d \in documents :
      \A i \in 1 .. Len(edges) :
        edges[i].state \in Reuses /\ edges[i].from \in documents => edges[i].path # d

(* What has been encountered since a frame began to wait lies from its position on, and
   nothing else does. *)
Nested ==
  /\ \A i, j \in 1 .. Len(edges) : edges[i].state = "loaded" /\ edges[j].from = edges[i].path =>
       i < j /\ \A k \in 1 .. Len(edges) : edges[k].from = edges[i].from /\ i < k => j < k
  /\ \A k \in 1 .. Len(stack) : Waiting(k) =>
       /\ stack[k].position <= Len(edges) + 1
       /\ \A m \in 1 .. k : stack[m].position <= stack[k].position
       /\ \A j \in 1 .. Len(edges) : edges[j].from = stack[k].path => j < stack[k].position
       /\ \A i, j \in 1 .. Len(edges) :
            edges[i].from = stack[k].path /\ edges[i].state = "loaded" /\ edges[j].from = edges[i].path
              => j < stack[k].position
       /\ \A j \in 1 .. Len(edges) : edges[j].from = Child(k) => stack[k].position <= j

Covered(list, path, imports, i) ==
  \E x \in 1 .. Len(list) : /\ list[x].from = path /\ list[x].index = i
                            /\ list[x].state \in Reuses /\ list[x].path = imports[i]

(* Until there is an issue every import that was taken has been followed. *)
NothingMissed ==
  issues = 0 =>
    /\ \A k \in 1 .. Len(stack) :
         /\ Len(stack[k].imports) <= MaxFanOut
         /\ \A i \in 1 .. Len(stack[k].imports) : i < stack[k].next => Covered(edges, stack[k].path, stack[k].imports, i)
    /\ \A n \in 1 .. Len(nodes) : nodes[n].path \in completed =>
         \A i \in 1 .. Len(nodes[n].imports) : Covered(edges, nodes[n].path, nodes[n].imports, i)

ImportInvariant ==
  /\ ImportTypeOK /\ Phases /\ DocumentsOnce /\ Descents /\ WithinLimits /\ ReferencesCounted
  /\ EdgesOfDocuments /\ CompletedIsAcyclic /\ Nested /\ NothingMissed

LEMMA ImportTypes ==
  ASSUME ImportTypeOK
  PROVE  /\ Len(stack) \in Nat /\ Len(nodes) \in Nat /\ Len(edges) \in Nat
         /\ \A k \in 1 .. Len(stack) : stack[k] \in Frames /\ Len(stack[k].imports) \in Nat
         /\ \A i \in 1 .. Len(nodes) : nodes[i] \in NodeRecords
         /\ \A i \in 1 .. Len(edges) : edges[i] \in EdgeRecords
         /\ stack # <<>> <=> Len(stack) # 0
         /\ ActivePaths = {stack[k].path : k \in 1 .. Len(stack)}
         /\ NodePaths = {nodes[i].path : i \in 1 .. Len(nodes)}
         /\ Range(edges) = {edges[i] : i \in 1 .. Len(edges)}
<1>1. /\ Len(stack) \in Nat /\ Len(nodes) \in Nat /\ Len(edges) \in Nat
      /\ \A k \in 1 .. Len(stack) : stack[k] \in Frames
      /\ \A i \in 1 .. Len(nodes) : nodes[i] \in NodeRecords
      /\ \A i \in 1 .. Len(edges) : edges[i] \in EdgeRecords
  BY LenProperties, ElementOfSeq DEF ImportTypeOK
<1>2. \A k \in 1 .. Len(stack) : Len(stack[k].imports) \in Nat
  BY <1>1, LenProperties DEF Frames, References
<1>3. stack # <<>> <=> Len(stack) # 0
  BY EmptySeq DEF ImportTypeOK
<1>4. DOMAIN stack = 1 .. Len(stack) /\ DOMAIN nodes = 1 .. Len(nodes) /\ DOMAIN edges = 1 .. Len(edges)
  BY LenProperties DEF ImportTypeOK
<1>5. ActivePaths = {stack[k].path : k \in 1 .. Len(stack)}
  BY <1>4 DEF ActivePaths, Range
<1>6. NodePaths = {nodes[i].path : i \in 1 .. Len(nodes)}
  BY <1>4 DEF NodePaths, Range
<1>7. Range(edges) = {edges[i] : i \in 1 .. Len(edges)}
  BY <1>4 DEF Range
<1>. QED
  BY <1>1, <1>2, <1>3, <1>5, <1>6, <1>7

(* The place in a sequence of what is at place j after an insertion at p. *)
Before(p, j) == IF j < p THEN j ELSE j - 1

(* t is s with e inserted at p. *)
Inserted(t, s, p, e) ==
  /\ Len(t) = Len(s) + 1
  /\ t[p] = e
  /\ \A j \in 1 .. Len(s) + 1 : j # p => Before(p, j) \in 1 .. Len(s) /\ t[j] = s[Before(p, j)]

LEMMA InsertedAt ==
  ASSUME NEW S, NEW s \in Seq(S), NEW p \in 1 .. Len(s) + 1, NEW e \in S
  PROVE  InsertAt(s, p, e) \in Seq(S) /\ Inserted(InsertAt(s, p, e), s, p, e)
<1>1. Len(s) \in Nat /\ p \in Nat /\ \A i \in 1 .. Len(s) : s[i] \in S
  BY LenProperties, ElementOfSeq
<1> DEFINE a == SubSeq(s, 1, p - 1)
           b == SubSeq(s, p, Len(s))
           c == a \o <<e>>
<1>2. a \in Seq(S) /\ Len(a) = p - 1 /\ \A i \in 1 .. p - 1 : a[i] = s[i]
  <2>1. \A i \in 1 .. p - 1 : s[i] \in S
    BY <1>1
  <2>2. /\ a \in Seq(S) /\ Len(a) = (IF 1 <= p - 1 THEN (p - 1) - 1 + 1 ELSE 0)
        /\ \A i \in 1 .. (p - 1) - 1 + 1 : a[i] = s[1 + i - 1]
    BY <1>1, <2>1, SubSeqProperties
  <2>. QED
    BY <1>1, <2>2
<1>3. b \in Seq(S) /\ Len(b) = Len(s) - p + 1 /\ \A i \in 1 .. Len(s) - p + 1 : b[i] = s[p + i - 1]
  <2>1. \A i \in p .. Len(s) : s[i] \in S
    BY <1>1
  <2>. QED
    BY <1>1, <2>1, SubSeqProperties
<1> HIDE DEF a, b
<1>4. <<e>> \in Seq(S) /\ Len(<<e>>) = 1 /\ <<e>>[1] = e
  OBVIOUS
<1>5. /\ c \in Seq(S) /\ Len(c) = p
      /\ \A i \in 1 .. p : c[i] = IF i <= p - 1 THEN s[i] ELSE e
  <2>1. /\ c \in Seq(S) /\ Len(c) = (p - 1) + 1
        /\ \A i \in 1 .. (p - 1) + 1 : c[i] = IF i <= p - 1 THEN a[i] ELSE <<e>>[i - (p - 1)]
    BY <1>2, <1>4, ConcatProperties
  <2>. QED
    BY <1>1, <1>2, <1>4, <2>1
<1>6. InsertAt(s, p, e) = c \o b
  BY DEF InsertAt, a, b
<1> HIDE DEF c
<1>7. /\ c \o b \in Seq(S) /\ Len(c \o b) = p + (Len(s) - p + 1)
      /\ \A i \in 1 .. p + (Len(s) - p + 1) : (c \o b)[i] = IF i <= p THEN c[i] ELSE b[i - p]
  BY <1>3, <1>5, ConcatProperties
<1>8. p + (Len(s) - p + 1) = Len(s) + 1
  BY <1>1
<1>9. ASSUME NEW j \in 1 .. Len(s) + 1, j # p
      PROVE  Before(p, j) \in 1 .. Len(s) /\ InsertAt(s, p, e)[j] = s[Before(p, j)]
  <2>1. CASE j < p
    <3>1. Before(p, j) = j /\ j \in 1 .. p - 1 /\ j \in 1 .. Len(s) /\ j <= p /\ j \in 1 .. p
      BY <1>1, <2>1 DEF Before
    <3>. QED
      BY <1>5, <1>6, <1>7, <1>8, <3>1
  <2>2. CASE j > p
    <3>1. /\ Before(p, j) = j - 1 /\ ~(j <= p) /\ j - p \in 1 .. Len(s) - p + 1
          /\ p + (j - p) - 1 = j - 1 /\ j - 1 \in 1 .. Len(s)
      BY <1>1, <2>2 DEF Before
    <3>2. (c \o b)[j] = b[j - p]
      BY <1>7, <1>8, <3>1
    <3>3. b[j - p] = s[p + (j - p) - 1]
      BY <1>3, <3>1
    <3>. QED
      BY <1>6, <3>1, <3>2, <3>3
  <2>. QED
    BY <1>1, <1>9, <2>1, <2>2
<1>10. InsertAt(s, p, e)[p] = e
  BY <1>1, <1>5, <1>6, <1>7, <1>8
<1>11. InsertAt(s, p, e) \in Seq(S) /\ Len(InsertAt(s, p, e)) = Len(s) + 1
  BY <1>6, <1>7, <1>8
<1>. QED
  BY <1>9, <1>10, <1>11 DEF Inserted

LEMMA OrderOfBefore ==
  ASSUME NEW p \in Nat, NEW i \in Nat, NEW j \in Nat, i # p, j # p
  PROVE  /\ i < j <=> Before(p, i) < Before(p, j)
         /\ j < p <=> Before(p, j) < p
         /\ j > p <=> Before(p, j) >= p
BY DEF Before

(* An edge of the frame k is added, and the frame goes on to its next import. *)
EdgeAdded(k, p, e) ==
  /\ reading' = <<>> /\ Len(stack') = k /\ (\A m \in 1 .. k - 1 : stack'[m] = stack[m])
  /\ stack'[k] = [stack[k] EXCEPT !.next = @ + 1]
  /\ e.from = stack[k].path /\ e.index = stack[k].next
  /\ edges' = InsertAt(edges, p, e)
  /\ \/ Waiting(k) /\ p = stack[k].position
     \/ ~Waiting(k) /\ p = Len(edges) + 1

(* The edge goes after all the frame has encountered so far, and not before the place where a
   frame below it waits. *)
LEMMA PlaceOfEdge ==
  ASSUME ImportInvariant, NEW k \in 1 .. Len(stack), NEW p, NEW e \in EdgeRecords, EdgeAdded(k, p, e)
  PROVE  /\ p \in 1 .. Len(edges) + 1
         /\ \A m \in 1 .. k - 1 : stack[m].position <= p
         /\ \A j \in 1 .. Len(edges) : edges[j].from = stack[k].path => j < p
         /\ \A i, j \in 1 .. Len(edges) :
              edges[i].from = stack[k].path /\ edges[i].state = "loaded" /\ edges[j].from = edges[i].path => j < p
         /\ Waiting(k) => \A j \in 1 .. Len(edges) : edges[j].from = Child(k) => p <= j
<1>1. /\ Len(stack) \in Nat /\ Len(edges) \in Nat /\ k \in Nat
      /\ \A m \in 1 .. Len(stack) : stack[m].position \in Nat \ {0}
  BY ImportTypes DEF ImportInvariant, Frames
<1>2. CASE Waiting(k) /\ p = stack[k].position
  <2>1. /\ p <= Len(edges) + 1
        /\ \A m \in 1 .. k : stack[m].position <= p
        /\ \A j \in 1 .. Len(edges) : edges[j].from = stack[k].path => j < p
        /\ \A i, j \in 1 .. Len(edges) :
             edges[i].from = stack[k].path /\ edges[i].state = "loaded" /\ edges[j].from = edges[i].path => j < p
        /\ \A j \in 1 .. Len(edges) : edges[j].from = Child(k) => p <= j
    BY <1>2 DEF ImportInvariant, Nested
  <2>2. p \in 1 .. Len(edges) + 1 /\ \A m \in 1 .. k - 1 : m \in 1 .. k
    BY <1>1, <1>2, <2>1
  <2>. QED
    BY <2>1, <2>2
<1>3. CASE ~Waiting(k) /\ p = Len(edges) + 1
  <2>1. \A m \in 1 .. k - 1 : m \in 1 .. Len(stack) /\ Waiting(m)
    BY <1>1 DEF Waiting
  <2>2. \A m \in 1 .. k - 1 : stack[m].position <= p
    BY <1>3, <2>1 DEF ImportInvariant, Nested
  <2>. QED
    BY <1>1, <1>3, <2>2
<1>. QED
  BY <1>2, <1>3 DEF EdgeAdded

LEMMA AddedEdge ==
  ASSUME ImportInvariant, NEW k \in 1 .. Len(stack), NEW p, NEW e \in EdgeRecords, EdgeAdded(k, p, e)
  PROVE  /\ edges' \in Seq(EdgeRecords) /\ Len(edges') = Len(edges) + 1 /\ Len(edges) \in Nat
         /\ p \in 1 .. Len(edges') /\ edges'[p] = e
         /\ \A j \in 1 .. Len(edges') : j # p => Before(p, j) \in 1 .. Len(edges) /\ edges'[j] = edges[Before(p, j)]
         /\ \A i \in 1 .. Len(edges) : \E j \in 1 .. Len(edges') : edges'[j] = edges[i]
<1>1. p \in 1 .. Len(edges) + 1 /\ Len(edges) \in Nat /\ edges \in Seq(EdgeRecords)
  BY PlaceOfEdge, ImportTypes DEF ImportInvariant, ImportTypeOK
<1>2. /\ edges' \in Seq(EdgeRecords) /\ Len(edges') = Len(edges) + 1 /\ edges'[p] = e
      /\ \A j \in 1 .. Len(edges) + 1 : j # p => Before(p, j) \in 1 .. Len(edges) /\ edges'[j] = edges[Before(p, j)]
  <2>1. edges' = InsertAt(edges, p, e)
    BY DEF EdgeAdded
  <2>2. InsertAt(edges, p, e) \in Seq(EdgeRecords) /\ Inserted(InsertAt(edges, p, e), edges, p, e)
    BY <1>1, InsertedAt
  <2>. QED
    BY <2>1, <2>2, Zenon DEF Inserted
<1>3. ASSUME NEW i \in 1 .. Len(edges) PROVE \E j \in 1 .. Len(edges') : edges'[j] = edges[i]
  <2>1. CASE i < p
    <3>1. i \in 1 .. Len(edges) + 1 /\ i # p /\ Before(p, i) = i
      BY <1>1, <2>1 DEF Before
    <3>. QED
      BY <1>2, <3>1
  <2>2. CASE ~(i < p)
    <3>1. i + 1 \in 1 .. Len(edges) + 1 /\ i + 1 # p /\ Before(p, i + 1) = i
      BY <1>1, <2>2 DEF Before
    <3>. QED
      BY <1>2, <3>1
  <2>. QED
    BY <2>1, <2>2
<1>. QED
  BY <1>1, <1>2, <1>3

(* Relationship, with the documents as a parameter. *)
Relates(e, documents) ==
  /\ e.from \in documents
  /\ e.document # <<>> => e.document[1] \in documents
  /\ e.document # <<>> /\ e.state # "cycle" => e.path = e.document[1]
  /\ e.document # <<>> <=> e.state \in Reuses \cup {"cycle"}

LEMMA RelationshipRelates == \A e : Relationship(e) <=> Relates(e, NodePaths)
BY DEF Relationship, Relates

LEMMA EdgesStayInOrder ==
  ASSUME ImportInvariant, ImportTypeOK', DocumentsOnce', NodePaths \subseteq NodePaths',
         completed \subseteq completed',
         NEW k \in 1 .. Len(stack), NEW p, NEW e \in EdgeRecords, EdgeAdded(k, p, e),
         Relationship(e)', e.state \in Reuses => e.path \in completed'
  PROVE  EdgesOfDocuments'
<1>1. /\ Len(edges') = Len(edges) + 1 /\ Len(edges) \in Nat /\ p \in 1 .. Len(edges') /\ edges'[p] = e
      /\ \A j \in 1 .. Len(edges') : j # p => Before(p, j) \in 1 .. Len(edges) /\ edges'[j] = edges[Before(p, j)]
  BY AddedEdge
<1>2. /\ \A m \in 1 .. Len(stack') : m \in 1 .. Len(stack) /\ m \in Nat /\ stack'[m].path = stack[m].path
                                    /\ stack[m].next \in Nat /\ stack'[m].next \in Nat /\ stack[m].next <= stack'[m].next
      /\ k \in 1 .. Len(stack') /\ stack'[k].next = stack[k].next + 1 /\ stack'[k].path = stack[k].path
  <2>1. Len(stack) \in Nat /\ \A m \in 1 .. Len(stack) : stack[m] \in Frames /\ stack[m].next \in Nat
    BY ImportTypes DEF ImportInvariant, Frames
  <2>2. stack'[k].next = stack[k].next + 1 /\ stack'[k].path = stack[k].path
    BY <2>1 DEF EdgeAdded, Frames
  <2>3. Len(stack') = k /\ \A m \in 1 .. k - 1 : stack'[m] = stack[m]
    BY DEF EdgeAdded
  <2>4. k \in 1 .. k /\ \A m \in 1 .. k : m \in 1 .. Len(stack) /\ m \in Nat /\ (m = k \/ m \in 1 .. k - 1)
    BY <2>1
  <2>5. ASSUME NEW m \in 1 .. k
        PROVE  /\ stack'[m].path = stack[m].path /\ stack[m].next \in Nat /\ stack'[m].next \in Nat
               /\ stack[m].next <= stack'[m].next
    <3>1. CASE m = k
      BY <2>1, <2>2, <3>1
    <3>2. CASE m \in 1 .. k - 1
      BY <2>1, <2>3, <2>4, <3>2
    <3>. QED
      BY <2>4, <3>1, <3>2
  <2>. QED
    BY <2>2, <2>3, <2>4, <2>5
<1>3. /\ \A j \in 1 .. Len(edges) : edges[j].from = stack[k].path => j < p
      /\ e.from = stack[k].path /\ e.index = stack[k].next
  BY PlaceOfEdge DEF EdgeAdded
<1>4. \A i \in 1 .. Len(edges) : edges[i].index \in Nat
  BY ImportTypes DEF ImportInvariant, EdgeRecords
<1>5. \A f \in Range(edges') : Relationship(f)'
  <2>1. Range(edges') = {edges'[j] : j \in 1 .. Len(edges')}
    BY LenProperties DEF ImportTypeOK, Range
  <2>2. \A i \in 1 .. Len(edges) : Relates(edges[i], NodePaths')
    <3>1. \A i \in 1 .. Len(edges) : Relates(edges[i], NodePaths)
      BY ImportTypes, RelationshipRelates DEF ImportInvariant, EdgesOfDocuments
    <3>. QED
      BY <3>1 DEF Relates
  <2>3. Relates(e, NodePaths')
    BY DEF Relates, Relationship
  <2>4. ASSUME NEW j \in 1 .. Len(edges') PROVE Relates(edges'[j], NodePaths')
    <3>1. CASE j = p
      BY <1>1, <2>3, <3>1
    <3>2. CASE j # p
      BY <1>1, <2>2, <3>2
    <3>. QED
      BY <3>1, <3>2
  <2>5. ASSUME NEW f \in Range(edges') PROVE Relationship(f)'
    <3>1. Relates(f, NodePaths')
      BY <2>1, <2>4, <2>5
    <3>. QED
      BY <3>1 DEF Relates, Relationship
  <2>. QED
    BY <2>5
<1>6. \A j \in 1 .. Len(edges') : edges'[j].state \in Reuses => edges'[j].path \in completed'
  BY <1>1 DEF ImportInvariant, EdgesOfDocuments
<1>7. ASSUME NEW m \in 1 .. Len(stack'), NEW j \in 1 .. Len(edges'), edges'[j].from = stack'[m].path
      PROVE  edges'[j].index < stack'[m].next
  <2>1. CASE j = p
    <3>1. m = k
      BY <1>1, <1>2, <1>3, <1>7, <2>1 DEF DocumentsOnce
    <3>. QED
      BY <1>1, <1>2, <1>3, <2>1, <3>1
  <2>2. CASE j # p
    <3>1. PICK i \in 1 .. Len(edges) : edges'[j] = edges[i]
      BY <1>1, <2>2
    <3>2. edges[i].index < stack[m].next
      BY <1>2, <1>7, <3>1 DEF ImportInvariant, EdgesOfDocuments
    <3>3. PICK x \in Nat, y \in Nat, z \in Nat : x = edges[i].index /\ y = stack[m].next /\ z = stack'[m].next
      BY <1>2, <1>4, <3>1
    <3>4. x < y
      BY <3>2, <3>3
    <3>5. y <= z
      BY <1>2, <3>3
    <3>6. x < z
      BY <3>4, <3>5
    <3>. QED
      BY <3>1, <3>3, <3>6
  <2>. QED
    BY <2>1, <2>2
<1>8. ASSUME NEW i \in 1 .. Len(edges'), NEW j \in 1 .. Len(edges'), edges'[i].from = edges'[j].from, i < j
      PROVE  edges'[i].index < edges'[j].index
  <2>1. CASE i # p /\ j # p
    <3>1. p \in Nat /\ i \in Nat /\ j \in Nat
      BY <1>1
    <3>2. Before(p, i) < Before(p, j)
      BY <1>8, <2>1, <3>1, OrderOfBefore
    <3>. QED
      BY <1>1, <1>8, <2>1, <3>2 DEF ImportInvariant, EdgesOfDocuments
  <2>2. CASE i = p
    <3>1. Before(p, j) >= p
      BY <1>8, <2>2, OrderOfBefore
    <3>2. Before(p, j) \in 1 .. Len(edges) /\ edges[Before(p, j)].from = stack[k].path
      BY <1>1, <1>3, <1>8, <2>2
    <3>. QED
      BY <1>1, <1>3, <3>1, <3>2
  <2>3. CASE j = p
    <3>1. Before(p, i) \in 1 .. Len(edges) /\ edges'[i] = edges[Before(p, i)] /\ edges[Before(p, i)].from = stack[k].path
      BY <1>1, <1>3, <1>8, <2>3
    <3>2. edges[Before(p, i)].index < stack[k].next
      BY <3>1 DEF ImportInvariant, EdgesOfDocuments
    <3>. QED
      BY <1>1, <1>3, <2>3, <3>1, <3>2
  <2>. QED
    BY <2>1, <2>2, <2>3
<1>. QED
  BY <1>5, <1>6, <1>7, <1>8 DEF EdgesOfDocuments

(* An edge is added from a frame that is open, so what is complete gets no new edge: at most
   the document that has just been completed may be the one that nothing imports. *)
LEMMA CompletedStaysAcyclic ==
  ASSUME ImportInvariant, ImportTypeOK', DocumentsOnce',
         NEW k \in 1 .. Len(stack), NEW p, NEW e \in EdgeRecords, EdgeAdded(k, p, e),
         NEW c, completed' \subseteq completed \cup {c}
  PROVE  CompletedIsAcyclic'
<1>1. /\ p \in 1 .. Len(edges') /\ edges'[p] = e
      /\ \A j \in 1 .. Len(edges') : j # p => Before(p, j) \in 1 .. Len(edges) /\ edges'[j] = edges[Before(p, j)]
  BY AddedEdge
<1>2. e.from \notin completed'
  <2>1. k \in 1 .. Len(stack') /\ stack'[k].path = e.from
    BY ImportTypes DEF EdgeAdded, ImportInvariant, Frames
  <2>2. e.from \in ActivePaths'
    BY <2>1, LenProperties DEF ActivePaths, Range, ImportTypeOK
  <2>. QED
    BY <2>2 DEF DocumentsOnce
<1>3. \A i \in 1 .. Len(edges) : edges[i].state \in Reuses => edges[i].path \in completed
  BY DEF ImportInvariant, EdgesOfDocuments
<1> SUFFICES ASSUME NEW documents \in (SUBSET completed') \ {{}}
             PROVE  \E d \in documents : \A j \in 1 .. Len(edges') :
                      edges'[j].state \in Reuses /\ edges'[j].from \in documents => edges'[j].path # d
  BY DEF CompletedIsAcyclic
<1>4. CASE documents \subseteq completed
  <2>1. PICK d \in documents : \A i \in 1 .. Len(edges) :
          edges[i].state \in Reuses /\ edges[i].from \in documents => edges[i].path # d
    BY <1>4 DEF ImportInvariant, CompletedIsAcyclic
  <2>2. ASSUME NEW j \in 1 .. Len(edges'), edges'[j].state \in Reuses, edges'[j].from \in documents
        PROVE  edges'[j].path # d
    <3>1. j # p
      BY <1>1, <1>2, <2>2
    <3>. QED
      BY <1>1, <2>1, <2>2, <3>1
  <2>. QED
    BY <2>2
<1>5. CASE ~(documents \subseteq completed)
  <2>1. c \in documents /\ c \notin completed
    BY <1>5
  <2>2. ASSUME NEW j \in 1 .. Len(edges'), edges'[j].state \in Reuses, edges'[j].from \in documents
        PROVE  edges'[j].path # c
    <3>1. j # p
      BY <1>1, <1>2, <2>2
    <3>2. edges'[j].path \in completed
      BY <1>1, <1>3, <2>2, <3>1
    <3>. QED
      BY <2>1, <3>2
  <2>. QED
    BY <2>1, <2>2
<1>. QED
  BY <1>4, <1>5

LEMMA DescentsStayNested ==
  ASSUME ImportInvariant, ImportTypeOK', DocumentsOnce', completed \subseteq completed',
         NEW k \in 1 .. Len(stack), NEW p, NEW e \in EdgeRecords, EdgeAdded(k, p, e),
         e.state = "loaded" => Waiting(k) /\ e.path = Child(k)
  PROVE  Nested'
<1>1. /\ Len(edges') = Len(edges) + 1 /\ Len(edges) \in Nat /\ p \in 1 .. Len(edges') /\ edges'[p] = e /\ p \in Nat
      /\ \A j \in 1 .. Len(edges') : j # p => Before(p, j) \in 1 .. Len(edges) /\ edges'[j] = edges[Before(p, j)]
  BY AddedEdge, SMTT(30)
<1>2. /\ \A m \in 1 .. k - 1 : stack[m].position <= p
      /\ \A j \in 1 .. Len(edges) : edges[j].from = stack[k].path => j < p
      /\ \A i, j \in 1 .. Len(edges) :
           edges[i].from = stack[k].path /\ edges[i].state = "loaded" /\ edges[j].from = edges[i].path => j < p
      /\ Waiting(k) => \A j \in 1 .. Len(edges) : edges[j].from = Child(k) => p <= j
  BY PlaceOfEdge
<1>3. e.from = stack[k].path
  BY DEF EdgeAdded
<1>4. \A i \in 1 .. Len(edges) : edges[i].state = "loaded" => edges[i].path \in completed
  BY DEF ImportInvariant, EdgesOfDocuments, Reuses
<1>5. \A m \in 1 .. Len(stack) : stack[m].path \notin completed
  BY ImportTypes DEF ImportInvariant, DocumentsOnce
<1>6. \A i \in 1 .. Len(edges') : i \in Nat
  BY <1>1
<1>7. \A i, j \in 1 .. Len(edges') : i # p /\ j # p =>
        /\ i < j <=> Before(p, i) < Before(p, j)
        /\ j < p <=> Before(p, j) < p
        /\ j > p <=> Before(p, j) >= p
  BY <1>1, <1>6, OrderOfBefore
<1>8. \A i, j \in 1 .. Len(edges) : edges[i].state = "loaded" /\ edges[j].from = edges[i].path =>
        i < j /\ \A l \in 1 .. Len(edges) : edges[l].from = edges[i].from /\ i < l => j < l
  BY DEF ImportInvariant, Nested
<1>9. ASSUME NEW i \in 1 .. Len(edges'), NEW j \in 1 .. Len(edges'),
             edges'[i].state = "loaded", edges'[j].from = edges'[i].path
      PROVE  i < j /\ \A l \in 1 .. Len(edges') : edges'[l].from = edges'[i].from /\ i < l => j < l
  <2>1. CASE i = p
    <3>1. Waiting(k) /\ e.path = Child(k) /\ e.state = "loaded"
      BY <1>1, <1>9, <2>1
    <3>2. j # p
      <4>1. stack[k].path # Child(k)
        <5>1. CASE k < Len(stack)
          BY <5>1, ImportTypes DEF Child, ImportInvariant, DocumentsOnce
        <5>2. CASE ~(k < Len(stack))
          <6>1. reading # <<>> /\ Child(k) = reading[1]
            BY <3>1, <5>2 DEF Child, Waiting
          <6>2. stack[k].path \in NodePaths
            BY ImportTypes DEF ImportInvariant, DocumentsOnce
          <6>. QED
            BY <6>1, <6>2 DEF ImportInvariant, DocumentsOnce
        <5>. QED
          BY <5>1, <5>2
      <4>. QED
        BY <1>1, <1>3, <1>9, <2>1, <3>1, <4>1
    <3>3. Before(p, j) \in 1 .. Len(edges) /\ edges[Before(p, j)].from = Child(k)
      BY <1>1, <1>9, <2>1, <3>1, <3>2
    <3>4. p <= Before(p, j)
      BY <1>2, <3>1, <3>3
    <3>5. i < j
      BY <1>1, <1>6, <1>7, <2>1, <3>2, <3>3, <3>4
    <3>6. ASSUME NEW l \in 1 .. Len(edges'), edges'[l].from = edges'[i].from, i < l PROVE FALSE
      <4>1. l # p /\ l > p
        BY <1>6, <2>1, <3>6
      <4>2. Before(p, l) \in 1 .. Len(edges) /\ edges[Before(p, l)].from = stack[k].path
        BY <1>1, <1>3, <2>1, <3>6, <4>1
      <4>3. Before(p, l) >= p
        BY <1>7, <4>1
      <4>. QED
        BY <1>1, <1>2, <4>2, <4>3
    <3>. QED
      BY <3>5, <3>6
  <2>2. CASE i # p
    <3>1. /\ Before(p, i) \in 1 .. Len(edges) /\ edges'[i] = edges[Before(p, i)]
          /\ edges'[i].path \in completed
      BY <1>1, <1>4, <1>9, <2>2
    <3>2. j # p
      BY <1>1, <1>3, <1>5, <1>9, <3>1
    <3>3. Before(p, j) \in 1 .. Len(edges) /\ edges'[j] = edges[Before(p, j)]
      BY <1>1, <3>2
    <3>4. /\ Before(p, i) < Before(p, j)
          /\ \A l \in 1 .. Len(edges) : edges[l].from = edges'[i].from /\ Before(p, i) < l => Before(p, j) < l
      BY <1>8, <1>9, <3>1, <3>3
    <3>5. i < j
      BY <1>7, <2>2, <3>2, <3>4
    <3>6. ASSUME NEW l \in 1 .. Len(edges'), edges'[l].from = edges'[i].from, i < l PROVE j < l
      <4>1. CASE l = p
        <5>1. edges[Before(p, i)].from = stack[k].path
          BY <1>1, <1>3, <3>1, <3>6, <4>1
        <5>2. Before(p, j) < p
          BY <1>2, <1>9, <3>1, <3>3, <5>1
        <5>. QED
          BY <1>7, <3>2, <4>1, <5>2
      <4>2. CASE l # p
        <5>1. Before(p, l) \in 1 .. Len(edges) /\ edges'[l] = edges[Before(p, l)]
          BY <1>1, <4>2
        <5>2. Before(p, i) < Before(p, l)
          BY <1>7, <2>2, <3>6, <4>2
        <5>3. Before(p, j) < Before(p, l)
          BY <3>4, <3>6, <5>1, <5>2
        <5>. QED
          BY <1>7, <3>2, <4>2, <5>3
      <4>. QED
        BY <4>1, <4>2
    <3>. QED
      BY <3>5, <3>6
  <2>. QED
    BY <2>1, <2>2
<1>10. /\ Len(stack) \in Nat /\ Len(stack') = k /\ reading' = <<>> /\ \A m \in 1 .. k - 1 : stack'[m] = stack[m]
       /\ stack'[k].path = stack[k].path
       /\ \A m \in 1 .. Len(stack) : stack[m].position \in Nat
  BY ImportTypes DEF EdgeAdded, ImportInvariant, Frames
<1>11. ASSUME NEW m \in 1 .. Len(stack'), Waiting(m)'
       PROVE  /\ stack'[m].position <= Len(edges') + 1
              /\ \A l \in 1 .. m : stack'[l].position <= stack'[m].position
              /\ \A j \in 1 .. Len(edges') : edges'[j].from = stack'[m].path => j < stack'[m].position
              /\ \A i, j \in 1 .. Len(edges') :
                   edges'[i].from = stack'[m].path /\ edges'[i].state = "loaded" /\ edges'[j].from = edges'[i].path
                     => j < stack'[m].position
              /\ \A j \in 1 .. Len(edges') : edges'[j].from = Child(m)' => stack'[m].position <= j
  <2>1. m \in 1 .. k - 1 /\ m \in 1 .. Len(stack) /\ m < Len(stack) /\ m # k
    BY <1>10, <1>11 DEF Waiting
  <2>2. /\ stack'[m] = stack[m] /\ Waiting(m) /\ \A l \in 1 .. m : stack'[l] = stack[l]
        /\ Child(m)' = Child(m) /\ Child(m) = stack[m + 1].path /\ m + 1 \in 1 .. k
    <3>1. stack'[m] = stack[m] /\ Waiting(m) /\ m + 1 \in 1 .. k /\ (m + 1 = k \/ m + 1 \in 1 .. k - 1)
      BY <1>10, <2>1 DEF Waiting
    <3>2. \A l \in 1 .. m : l \in 1 .. k - 1
      BY <1>10, <2>1
    <3>3. Child(m) = stack[m + 1].path
      BY <2>1 DEF Child
    <3>4. Child(m)' = stack'[m + 1].path
      BY <1>10, <2>1 DEF Child
    <3>5. stack'[m + 1].path = stack[m + 1].path
      BY <1>10, <3>1
    <3>. QED
      BY <1>10, <3>1, <3>2, <3>3, <3>4, <3>5
  <2>3. PICK q \in Nat : q = stack[m].position
    BY <1>10, <2>1
  <2>4. /\ q <= Len(edges) + 1 /\ q <= p
        /\ \A l \in 1 .. m : stack[l].position <= q
        /\ \A j \in 1 .. Len(edges) : edges[j].from = stack[m].path => j < q
        /\ \A i, j \in 1 .. Len(edges) :
             edges[i].from = stack[m].path /\ edges[i].state = "loaded" /\ edges[j].from = edges[i].path => j < q
        /\ \A j \in 1 .. Len(edges) : edges[j].from = Child(m) => q <= j
    BY <1>2, <2>1, <2>2, <2>3 DEF ImportInvariant, Nested
  <2>5. \A j \in 1 .. Len(edges') : j # p => (Before(p, j) < q => j < q) /\ (q <= Before(p, j) => q <= j)
    BY <1>1, <1>6, <2>3, <2>4 DEF Before
  <2>6. stack[m].path # stack[k].path
    BY <2>1 DEF ImportInvariant, DocumentsOnce
  <2>7. ASSUME NEW j \in 1 .. Len(edges'), edges'[j].from = stack[m].path PROVE j < q
    <3>1. j # p
      BY <1>1, <1>3, <2>6, <2>7
    <3>. QED
      BY <1>1, <2>4, <2>5, <2>7, <3>1
  <2>8. ASSUME NEW i \in 1 .. Len(edges'), NEW j \in 1 .. Len(edges'),
               edges'[i].from = stack[m].path, edges'[i].state = "loaded", edges'[j].from = edges'[i].path
        PROVE  j < q
    <3>1. i # p
      BY <1>1, <1>3, <2>6, <2>8
    <3>2. Before(p, i) \in 1 .. Len(edges) /\ edges'[i] = edges[Before(p, i)] /\ edges'[i].path \in completed
      BY <1>1, <1>4, <2>8, <3>1
    <3>3. j # p
      BY <1>1, <1>3, <1>5, <2>8, <3>2
    <3>4. Before(p, j) \in 1 .. Len(edges) /\ edges'[j] = edges[Before(p, j)]
      BY <1>1, <3>3
    <3>5. Before(p, j) < q
      BY <2>4, <2>8, <3>2, <3>4
    <3>. QED
      BY <2>5, <3>3, <3>5
  <2>9. ASSUME NEW j \in 1 .. Len(edges'), edges'[j].from = Child(m) PROVE q <= j
    <3>1. CASE j = p
      BY <2>4, <3>1
    <3>2. CASE j # p
      BY <1>1, <2>4, <2>5, <2>9, <3>2
    <3>. QED
      BY <3>1, <3>2
  <2>10. q <= Len(edges') + 1
    BY <1>1, <2>3, <2>4
  <2>. QED
    BY <2>2, <2>3, <2>4, <2>7, <2>8, <2>9, <2>10
<1>. QED
  BY <1>9, <1>11 DEF Nested

LEMMA ImportsStayCovered ==
  ASSUME ImportInvariant, NEW k \in 1 .. Len(stack), NEW p, NEW e \in EdgeRecords, EdgeAdded(k, p, e),
         ImportTypeOK',
         issues' = 0 => issues = 0 /\ e.state \in Reuses /\ e.path = stack[k].imports[stack[k].next],
         \A n \in 1 .. Len(nodes') : issues' = 0 /\ nodes'[n].path \in completed' =>
           \A i \in 1 .. Len(nodes'[n].imports) : Covered(edges, nodes'[n].path, nodes'[n].imports, i)
  PROVE  NothingMissed'
<1>1. /\ p \in 1 .. Len(edges') /\ edges'[p] = e
      /\ \A i \in 1 .. Len(edges) : \E j \in 1 .. Len(edges') : edges'[j] = edges[i]
  BY AddedEdge
<1>2. ASSUME NEW path, NEW imports, NEW i, Covered(edges, path, imports, i)
      PROVE  Covered(edges', path, imports, i)
  BY <1>1, <1>2 DEF Covered
<1>3. /\ Len(stack) \in Nat /\ Len(stack') = k /\ \A m \in 1 .. k - 1 : stack'[m] = stack[m]
      /\ stack'[k].path = stack[k].path /\ stack'[k].imports = stack[k].imports
      /\ stack'[k].next = stack[k].next + 1 /\ stack[k].next \in Nat /\ Len(stack[k].imports) \in Nat
      /\ e.from = stack[k].path /\ e.index = stack[k].next
  BY ImportTypes DEF EdgeAdded, ImportInvariant, Frames
<1> SUFFICES ASSUME issues' = 0 PROVE NothingMissed'
  BY DEF NothingMissed
<1>4. \A m \in 1 .. Len(stack) :
        /\ Len(stack[m].imports) <= MaxFanOut
        /\ \A i \in 1 .. Len(stack[m].imports) : i < stack[m].next => Covered(edges, stack[m].path, stack[m].imports, i)
  BY DEF ImportInvariant, NothingMissed
<1>5. Covered(edges', stack[k].path, stack[k].imports, stack[k].next)
  BY <1>1, <1>3 DEF Covered
<1>6. ASSUME NEW m \in 1 .. Len(stack')
      PROVE  /\ Len(stack'[m].imports) <= MaxFanOut
             /\ \A i \in 1 .. Len(stack'[m].imports) :
                  i < stack'[m].next => Covered(edges', stack'[m].path, stack'[m].imports, i)
  <2>1. CASE m = k
    <3>1. \A i \in 1 .. Len(stack[k].imports) : i < stack[k].next + 1 => i < stack[k].next \/ i = stack[k].next
      BY <1>3
    <3>2. ASSUME NEW i \in 1 .. Len(stack[k].imports), i < stack[k].next + 1
          PROVE  Covered(edges', stack[k].path, stack[k].imports, i)
      BY <1>2, <1>4, <1>5, <3>1, <3>2
    <3>. QED
      BY <1>3, <1>4, <2>1, <3>2
  <2>2. CASE m # k
    <3>1. m \in 1 .. k - 1 /\ m \in 1 .. Len(stack)
      BY <1>3, <2>2
    <3>. QED
      BY <1>2, <1>3, <1>4, <3>1
  <2>. QED
    BY <2>1, <2>2
<1>7. \A n \in 1 .. Len(nodes') : nodes'[n].path \in completed' =>
        \A i \in 1 .. Len(nodes'[n].imports) : Covered(edges', nodes'[n].path, nodes'[n].imports, i)
  BY <1>2
<1>. QED
  BY <1>6, <1>7 DEF NothingMissed

LEMMA StaysAcyclic ==
  ASSUME CompletedIsAcyclic, edges' = edges, completed' = completed
  PROVE  CompletedIsAcyclic'
<1> SUFFICES ASSUME NEW documents \in (SUBSET completed') \ {{}}
             PROVE  \E d \in documents : \A i \in 1 .. Len(edges') :
                      edges'[i].state \in Reuses /\ edges'[i].from \in documents => edges'[i].path # d
  BY DEF CompletedIsAcyclic
<1>1. documents \in (SUBSET completed) \ {{}}
  OBVIOUS
<1>2. PICK d \in documents : \A i \in 1 .. Len(edges) :
        edges[i].state \in Reuses /\ edges[i].from \in documents => edges[i].path # d
  BY <1>1 DEF CompletedIsAcyclic
<1>. QED
  BY <1>2

(* The frames below go on waiting, and the frame itself has come to its next import. *)
LEMMA FramesGoOn ==
  ASSUME ImportInvariant, NEW k \in 1 .. Len(stack), NEW p, NEW e \in EdgeRecords, EdgeAdded(k, p, e),
         stack[k].next <= Len(stack[k].imports),
         \A i \in 1 .. Len(nodes') : \A m \in 1 .. k :
           nodes'[i].path = stack[m].path => nodes'[i].imports = stack[m].imports
  PROVE  Descents'
<1>1. /\ Len(stack) \in Nat /\ Len(stack') = k /\ \A m \in 1 .. k - 1 : stack'[m] = stack[m]
      /\ stack'[k].path = stack[k].path /\ stack'[k].imports = stack[k].imports /\ reading' = <<>>
      /\ stack'[k].next = stack[k].next + 1 /\ stack[k].next \in Nat /\ Len(stack[k].imports) \in Nat
  BY ImportTypes DEF EdgeAdded, ImportInvariant, Frames
<1>2. ~Waiting(k)'
  BY <1>1 DEF Waiting
<1>3. ASSUME NEW m \in 1 .. k - 1
      PROVE  m \in 1 .. Len(stack) /\ m \in 1 .. k /\ Waiting(m) /\ Child(m)' = Child(m)
  <2>1. m \in 1 .. Len(stack) /\ m < Len(stack) /\ m < k /\ m + 1 \in 1 .. k /\ (m + 1 = k \/ m + 1 \in 1 .. k - 1)
    BY <1>1
  <2>2. Child(m) = stack[m + 1].path /\ Child(m)' = stack'[m + 1].path
    BY <1>1, <2>1 DEF Child
  <2>. QED
    BY <1>1, <2>1, <2>2 DEF Waiting
<1>4. \A m \in 1 .. Len(stack) :
        /\ Len(stack[m].imports) <= MaxImports /\ stack[m].next <= Len(stack[m].imports) + 1
        /\ Waiting(m) => stack[m].next <= Len(stack[m].imports) /\ stack[m].imports[stack[m].next] = Child(m)
  BY DEF ImportInvariant, Descents
<1> SUFFICES ASSUME NEW m \in 1 .. k
             PROVE  /\ Len(stack'[m].imports) <= MaxImports
                    /\ stack'[m].next <= Len(stack'[m].imports) + 1
                    /\ Waiting(m)' => /\ stack'[m].next <= Len(stack'[m].imports)
                                      /\ stack'[m].imports[stack'[m].next] = Child(m)'
                    /\ \A i \in 1 .. Len(nodes') : nodes'[i].path = stack'[m].path => nodes'[i].imports = stack'[m].imports
  BY <1>1 DEF Descents
<1>5. CASE m = k
  BY <1>1, <1>2, <1>4, <1>5
<1>6. CASE m # k
  <2>1. m \in 1 .. k - 1
    BY <1>1, <1>6
  <2>2. stack'[m] = stack[m] /\ m \in 1 .. Len(stack) /\ Waiting(m) /\ Child(m)' = Child(m)
    BY <1>1, <1>3, <2>1
  <2>3. /\ Len(stack[m].imports) <= MaxImports /\ stack[m].next <= Len(stack[m].imports) + 1
        /\ stack[m].next <= Len(stack[m].imports) /\ stack[m].imports[stack[m].next] = Child(m)'
    BY <1>4, <2>2
  <2>. QED
    BY <2>2, <2>3
<1>. QED
  BY <1>5, <1>6

LEMMA LeftsAreNumbers ==
  ASSUME NEW frames \in Seq(Frames), NEW read,
         \A k \in 1 .. Len(frames) :
           /\ Len(frames[k].imports) <= MaxImports
           /\ frames[k].next <= Len(frames[k].imports) + 1
           /\ k < Len(frames) \/ read # <<>> => frames[k].next <= Len(frames[k].imports)
  PROVE  /\ Lefts(frames, read) \in Seq(Nat) /\ Len(Lefts(frames, read)) = Len(frames)
         /\ \A k \in 1 .. Len(frames) : /\ Lefts(frames, read)[k] = LeftOf(frames, read, k)
                                        /\ LeftOf(frames, read, k) \in 0 .. MaxImports
<1>1. Len(frames) \in Nat /\ \A k \in 1 .. Len(frames) : frames[k] \in Frames
  BY LenProperties, ElementOfSeq
<1>2. \A k \in 1 .. Len(frames) : Len(frames[k].imports) \in Nat /\ frames[k].next \in Nat \ {0}
  BY <1>1, LenProperties DEF Frames, References
<1>3. ASSUME NEW k \in 1 .. Len(frames) PROVE LeftOf(frames, read, k) \in 0 .. MaxImports
  <2>1. PICK n \in Nat, l \in Nat : n = frames[k].next /\ n # 0 /\ l = Len(frames[k].imports) /\ l <= MaxImports
    BY <1>2
  <2>2. n <= l + 1 /\ (k < Len(frames) \/ read # <<>> => n <= l) /\ MaxImports \in Nat
    BY <2>1, ImportAssumption
  <2>3. LeftOf(frames, read, k) = l - (IF k < Len(frames) \/ read # <<>> THEN n ELSE n - 1)
    BY <2>1 DEF LeftOf
  <2>. QED
    BY <2>1, <2>2, <2>3
<1>4. \A k \in 1 .. Len(frames) : LeftOf(frames, read, k) \in Nat
  BY <1>3
<1>5. Lefts(frames, read) \in [1 .. Len(frames) -> Nat]
  BY <1>4 DEF Lefts
<1>. QED
  BY <1>1, <1>3, <1>5 DEF Lefts

LEMMA IssueIsCounted ==
  ASSUME issues \in Nat, AddIssue
  PROVE  issues' \in Nat \ {0}
<1>1. MaxIssues \in Nat \ {0} /\ issues + 1 \in Nat \ {0}
  BY ImportAssumption
<1>2. issues' = IF issues + 1 <= MaxIssues THEN issues + 1 ELSE MaxIssues
  BY <1>1 DEF AddIssue, Min
<1>. QED
  BY <1>1, <1>2

LEMMA CountsOfNodes ==
  ASSUME NEW list \in Seq(NodeRecords)
  PROVE  /\ SizesOf(list) \in Seq(Nat) /\ ReferencesOf(list) \in Seq(Nat)
         /\ Len(SizesOf(list)) = Len(list) /\ Len(ReferencesOf(list)) = Len(list)
         /\ \A i \in 1 .. Len(list) : SizesOf(list)[i] = list[i].size /\ ReferencesOf(list)[i] = Len(list[i].imports)
         /\ Total(SizesOf(list)) \in Nat /\ Total(ReferencesOf(list)) \in Nat
<1>1. Len(list) \in Nat /\ \A i \in 1 .. Len(list) : list[i] \in NodeRecords
  BY LenProperties, ElementOfSeq
<1>2. \A i \in 1 .. Len(list) : list[i].size \in Nat /\ Len(list[i].imports) \in Nat
  BY <1>1, LenProperties DEF NodeRecords, References
<1>3. SizesOf(list) \in [1 .. Len(list) -> Nat] /\ ReferencesOf(list) \in [1 .. Len(list) -> Nat]
  BY <1>2 DEF SizesOf, ReferencesOf
<1>4. SizesOf(list) \in Seq(Nat) /\ ReferencesOf(list) \in Seq(Nat)
  <2>1. ASSUME NEW m \in Nat, NEW f \in [1 .. m -> Nat] PROVE f \in Seq(Nat)
    OBVIOUS
  <2>. QED
    BY <1>1, <1>3, <2>1
<1>5. Len(SizesOf(list)) = Len(list) /\ Len(ReferencesOf(list)) = Len(list)
  BY <1>1, <1>3, <1>4
<1>. QED
  BY <1>4, <1>5, TotalIsNatural DEF SizesOf, ReferencesOf

(* One more node. *)
LEMMA NodeAppended ==
  ASSUME NEW n \in NodeRecords, nodes \in Seq(NodeRecords), nodes' = Append(nodes, n)
  PROVE  /\ nodes' \in Seq(NodeRecords) /\ Len(nodes') = Len(nodes) + 1 /\ nodes'[Len(nodes')] = n
         /\ Len(nodes) \in Nat /\ \A i \in 1 .. Len(nodes) : nodes'[i] = nodes[i]
         /\ NodePaths' = NodePaths \cup {n.path}
         /\ Total(SizesOf(nodes')) = Total(SizesOf(nodes)) + n.size
         /\ Total(ReferencesOf(nodes')) = Total(ReferencesOf(nodes)) + Len(n.imports)
<1>1. /\ nodes' \in Seq(NodeRecords) /\ Len(nodes') = Len(nodes) + 1 /\ nodes'[Len(nodes')] = n
      /\ Len(nodes) \in Nat /\ \A i \in 1 .. Len(nodes) : nodes'[i] = nodes[i]
  BY AppendProperties, LenProperties
<1>2. PICK l : l = nodes'
  OBVIOUS
<1>3. DOMAIN nodes = 1 .. Len(nodes) /\ DOMAIN l = 1 .. Len(l)
  BY <1>1, <1>2, LenProperties
<1>4. \A i \in 1 .. Len(l) : i \in 1 .. Len(nodes) \/ i = Len(l)
  BY <1>1, <1>2
<1>5. Len(l) \in 1 .. Len(l) /\ \A i \in 1 .. Len(nodes) : i \in 1 .. Len(l)
  BY <1>1, <1>2
<1>6. Range(l) = Range(nodes) \cup {n}
  BY <1>1, <1>2, <1>3, <1>4, <1>5 DEF Range
<1>7. NodePaths' = NodePaths \cup {n.path}
  BY <1>2, <1>6 DEF NodePaths
<1>8. Total(SizesOf(l)) = Total(SizesOf(nodes)) + n.size
  <2>1. /\ SizesOf(l) \in Seq(Nat) /\ Len(SizesOf(l)) = Len(l) /\ \A i \in 1 .. Len(l) : SizesOf(l)[i] = l[i].size
        /\ SizesOf(nodes) \in Seq(Nat) /\ Len(SizesOf(nodes)) = Len(nodes)
        /\ \A i \in 1 .. Len(nodes) : SizesOf(nodes)[i] = nodes[i].size
    BY <1>1, <1>2, CountsOfNodes
  <2>2. \A i \in 1 .. Len(nodes) : SizesOf(l)[i] = SizesOf(nodes)[i]
    <3>1. \A i \in 1 .. Len(nodes) : i \in 1 .. Len(l) /\ l[i] = nodes[i]
      BY <1>1, <1>2, <1>5
    <3>. QED
      BY <2>1, <3>1
  <2>3. SizesOf(l)[Len(l)] = n.size
    BY <1>1, <1>2, <1>5, <2>1
  <2>. QED
    BY <1>1, <1>2, <2>1, <2>2, <2>3, TotalOfLonger, SMTT(30)
<1>9. Total(ReferencesOf(l)) = Total(ReferencesOf(nodes)) + Len(n.imports)
  <2>1. /\ ReferencesOf(l) \in Seq(Nat) /\ Len(ReferencesOf(l)) = Len(l)
        /\ \A i \in 1 .. Len(l) : ReferencesOf(l)[i] = Len(l[i].imports)
        /\ ReferencesOf(nodes) \in Seq(Nat) /\ Len(ReferencesOf(nodes)) = Len(nodes)
        /\ \A i \in 1 .. Len(nodes) : ReferencesOf(nodes)[i] = Len(nodes[i].imports)
    BY <1>1, <1>2, CountsOfNodes
  <2>2. \A i \in 1 .. Len(nodes) : ReferencesOf(l)[i] = ReferencesOf(nodes)[i]
    BY <1>1, <1>2, <1>5, <2>1
  <2>3. ReferencesOf(l)[Len(l)] = Len(n.imports)
    BY <1>1, <1>2, <1>5, <2>1
  <2>4. Len(ReferencesOf(l)) = Len(ReferencesOf(nodes)) + 1
    BY <1>1, <1>2, <2>1
  <2>5. Total(ReferencesOf(l)) = Total(ReferencesOf(nodes)) + ReferencesOf(l)[Len(ReferencesOf(l))]
    BY <2>1, <2>2, <2>4, TotalOfLonger
  <2>. QED
    BY <2>1, <2>3, <2>5
<1>. QED
  BY <1>1, <1>2, <1>7, <1>8, <1>9

(* A visit that ends: its caller adds the edge and goes on. *)
LEMMA CallerGoesOn ==
  ASSUME ImportInvariant, NEW k \in 1 .. Len(stack), Waiting(k), NEW open,
         \/ open = stack /\ k = Len(stack)
         \/ open = Front(stack) /\ k = Len(stack) - 1,
         NEW state \in EdgeStates, NEW target \in {<<>>} \cup {<<p>> : p \in Paths},
         VisitReturns(open, state, target)
  PROVE  /\ stack' \in Seq(Frames) /\ returned' = returned
         /\ EdgeOf(stack[k], state, Child(k), target) \in EdgeRecords
         /\ EdgeAdded(k, stack[k].position, EdgeOf(stack[k], state, Child(k), target))
<1>1. /\ stack \in Seq(Frames) /\ Len(stack) \in Nat /\ \A m \in 1 .. Len(stack) : stack[m] \in Frames
      /\ stack[k].imports[stack[k].next] = Child(k) /\ stack[k].next <= Len(stack[k].imports)
  BY ImportTypes DEF ImportInvariant, ImportTypeOK, Descents
<1>2. open \in Seq(Frames) /\ Len(open) = k /\ \A m \in 1 .. k : open[m] = stack[m]
  <2>1. CASE open = stack /\ k = Len(stack)
    BY <1>1, <2>1
  <2>2. CASE open = Front(stack) /\ k = Len(stack) - 1
    <3>1. open = SubSeq(stack, 1, k) /\ \A m \in 1 .. k : stack[m] \in Frames
      BY <1>1, <2>2 DEF Front
    <3>2. /\ SubSeq(stack, 1, k) \in Seq(Frames) /\ Len(SubSeq(stack, 1, k)) = (IF 1 <= k THEN k - 1 + 1 ELSE 0)
          /\ \A m \in 1 .. k - 1 + 1 : SubSeq(stack, 1, k)[m] = stack[1 + m - 1]
      BY <1>1, <3>1, SubSeqProperties
    <3>. QED
      BY <1>1, <3>1, <3>2
  <2>. QED
    BY <2>1, <2>2
<1>3. open # <<>>
  BY <1>1, <1>2, EmptySeq
<1> DEFINE c == stack[k]
           f == [c EXCEPT !.next = @ + 1]
<1>4. /\ c \in Frames /\ f \in Frames /\ c = open[Len(open)]
      /\ Child(k) \in Paths \cup {Unresolved}
  <2>1. c \in Frames /\ c = open[Len(open)]
    BY <1>1, <1>2
  <2>2. f \in Frames
    BY <2>1 DEF Frames
  <2>3. c.imports \in References /\ c.next \in 1 .. Len(c.imports)
    BY <1>1, <2>1, LenProperties, SMTT(30) DEF Frames, References
  <2>4. c.imports[c.next] \in Paths \cup {Unresolved}
    BY <2>3, ElementOfSeq DEF References
  <2>. QED
    BY <1>1, <2>1, <2>2, <2>4
<1>5. /\ reading' = <<>> /\ returned' = returned
      /\ edges' = InsertAt(edges, c.position, EdgeOf(c, state, Child(k), target))
      /\ stack' = [open EXCEPT ![k].next = @ + 1]
  BY <1>1, <1>2, <1>3, <1>4 DEF VisitReturns, AddEdge
<1>6. stack' = [open EXCEPT ![k] = f]
  BY <1>2, <1>4, <1>5
<1>7. stack' \in Seq(Frames) /\ Len(stack') = k /\ stack'[k] = f /\ \A m \in 1 .. k - 1 : stack'[m] = stack[m]
  <2>1. k \in 1 .. Len(open) /\ \A m \in 1 .. k - 1 : m \in 1 .. k /\ m # k
    BY <1>1, <1>2
  <2>. QED
    BY <1>2, <1>4, <1>6, <2>1, ExceptSeq
<1>8. EdgeOf(c, state, Child(k), target) \in EdgeRecords
  BY <1>4 DEF EdgeOf, EdgeRecords, Frames
<1>. QED
  BY <1>5, <1>7, <1>8 DEF EdgeAdded, EdgeOf

(* A reference that is settled without a read. *)
LEMMA TopGoesOn ==
  ASSUME ImportInvariant, stack # <<>>, reading = <<>>,
         NEW state \in EdgeStates, NEW path \in Paths \cup {Unresolved},
         NEW target \in {<<>>} \cup {<<p>> : p \in Paths}, SettleReference(state, path, target)
  PROVE  /\ stack' \in Seq(Frames) /\ Len(stack) \in 1 .. Len(stack)
         /\ EdgeOf(Top, state, path, target) \in EdgeRecords
         /\ EdgeAdded(Len(stack), Len(edges) + 1, EdgeOf(Top, state, path, target))
         /\ UNCHANGED <<begun, nodes, completed, halted, totalBytes, returned>>
<1>1. /\ stack \in Seq(Frames) /\ Len(stack) \in 1 .. Len(stack) /\ Len(stack) \in Nat
      /\ \A m \in 1 .. Len(stack) : stack[m] \in Frames
  BY ImportTypes DEF ImportInvariant, ImportTypeOK
<1> DEFINE k == Len(stack)
           f == [Top EXCEPT !.next = @ + 1]
<1>2. Top \in Frames /\ Top = stack[k] /\ f \in Frames
  BY <1>1 DEF Top, Frames
<1>3. Under \in Seq(Frames) /\ Len(Under) = k - 1 /\ \A m \in 1 .. k - 1 : Under[m] = stack[m]
  <2>1. PICK q \in Nat : q = k - 1
    BY <1>1
  <2>2. Under = SubSeq(stack, 1, q) /\ \A m \in 1 .. q : stack[m] \in Frames
    BY <1>1, <2>1 DEF Under, Front
  <2>3. /\ SubSeq(stack, 1, q) \in Seq(Frames) /\ Len(SubSeq(stack, 1, q)) = (IF 1 <= q THEN q - 1 + 1 ELSE 0)
        /\ \A m \in 1 .. q - 1 + 1 : SubSeq(stack, 1, q)[m] = stack[1 + m - 1]
    BY <1>1, <2>2, SubSeqProperties
  <2>4. Len(Under) = q /\ Under \in Seq(Frames) /\ \A m \in 1 .. q : Under[m] = stack[m]
    BY <2>2, <2>3
  <2>. QED
    BY <2>1, <2>4
<1>4. stack' = Append(Under, f) /\ edges' = InsertAt(edges, Len(edges) + 1, EdgeOf(Top, state, path, target))
      /\ UNCHANGED <<begun, reading, nodes, completed, halted, totalBytes, returned>>
  BY DEF SettleReference, AddEdge
<1>5. stack' \in Seq(Frames) /\ Len(stack') = k /\ stack'[k] = f /\ \A m \in 1 .. k - 1 : stack'[m] = stack[m]
  <2>1. /\ Append(Under, f) \in Seq(Frames) /\ Len(Append(Under, f)) = (k - 1) + 1
        /\ Append(Under, f)[(k - 1) + 1] = f /\ \A m \in 1 .. k - 1 : Append(Under, f)[m] = Under[m]
    BY <1>2, <1>3, AppendProperties
  <2>2. (k - 1) + 1 = k
    BY <1>1
  <2>. QED
    BY <1>3, <1>4, <2>1, <2>2
<1>6. EdgeOf(Top, state, path, target) \in EdgeRecords
  BY <1>2 DEF EdgeOf, EdgeRecords, Frames
<1>7. ~Waiting(k)
  BY <1>1 DEF Waiting
<1>. QED
  BY <1>1, <1>2, <1>4, <1>5, <1>6, <1>7 DEF EdgeAdded, EdgeOf

(* The sequences of what is left stay sequences of numbers. *)
LEMMA LeftsBeforeAndAfter ==
  ASSUME ImportInvariant, stack' \in Seq(Frames), Descents'
  PROVE  /\ Lefts(stack, reading) \in Seq(Nat) /\ Len(Lefts(stack, reading)) = Len(stack)
         /\ \A k \in 1 .. Len(stack) : /\ Lefts(stack, reading)[k] = LeftOf(stack, reading, k)
                                       /\ LeftOf(stack, reading, k) \in 0 .. MaxImports
         /\ Lefts(stack', reading') \in Seq(Nat) /\ Len(Lefts(stack', reading')) = Len(stack')
         /\ \A k \in 1 .. Len(stack') : /\ Lefts(stack', reading')[k] = LeftOf(stack', reading', k)
                                        /\ LeftOf(stack', reading', k) \in 0 .. MaxImports
         /\ Total(Lefts(stack, reading)) \in Nat /\ Total(Lefts(stack', reading')) \in Nat
<1>1. stack \in Seq(Frames)
  BY DEF ImportInvariant, ImportTypeOK
<1>2. \A k \in 1 .. Len(stack) :
        /\ Len(stack[k].imports) <= MaxImports /\ stack[k].next <= Len(stack[k].imports) + 1
        /\ k < Len(stack) \/ reading # <<>> => stack[k].next <= Len(stack[k].imports)
  BY DEF ImportInvariant, Descents, Waiting
<1>3. \A k \in 1 .. Len(stack') :
        /\ Len(stack'[k].imports) <= MaxImports /\ stack'[k].next <= Len(stack'[k].imports) + 1
        /\ k < Len(stack') \/ reading' # <<>> => stack'[k].next <= Len(stack'[k].imports)
  BY DEF Descents, Waiting
<1>4. /\ Lefts(stack, reading) \in Seq(Nat) /\ Len(Lefts(stack, reading)) = Len(stack)
      /\ \A k \in 1 .. Len(stack) : /\ Lefts(stack, reading)[k] = LeftOf(stack, reading, k)
                                    /\ LeftOf(stack, reading, k) \in 0 .. MaxImports
  BY <1>1, <1>2, LeftsAreNumbers
<1>5. /\ Lefts(stack', reading') \in Seq(Nat) /\ Len(Lefts(stack', reading')) = Len(stack')
      /\ \A k \in 1 .. Len(stack') : /\ Lefts(stack', reading')[k] = LeftOf(stack', reading', k)
                                     /\ LeftOf(stack', reading', k) \in 0 .. MaxImports
  BY <1>3, LeftsAreNumbers
<1>. QED
  BY <1>4, <1>5, TotalIsNatural

(* What an edge takes from what is left: a reference that was not yet taken. *)
LEMMA LeftsAfterEdge ==
  ASSUME ImportInvariant, stack' \in Seq(Frames), Descents',
         NEW k \in 1 .. Len(stack), NEW p, NEW e \in EdgeRecords, EdgeAdded(k, p, e)
  PROVE  /\ k = Len(stack) /\ Waiting(k) => Total(Lefts(stack', reading')) = Total(Lefts(stack, reading))
         /\ k = Len(stack) /\ ~Waiting(k) => Total(Lefts(stack', reading')) + 1 = Total(Lefts(stack, reading))
         /\ k = Len(stack) - 1 =>
              Total(Lefts(stack, reading)) = Total(Lefts(stack', reading')) + LeftOf(stack, reading, Len(stack))
<1>1. PICK old, new : old = Lefts(stack, reading) /\ new = Lefts(stack', reading')
  OBVIOUS
<1>2. /\ Len(stack) \in Nat /\ k \in Nat \ {0} /\ k <= Len(stack) /\ Len(stack') = k /\ reading' = <<>>
      /\ \A m \in 1 .. k - 1 : stack'[m] = stack[m]
      /\ stack'[k].imports = stack[k].imports /\ stack'[k].next = stack[k].next + 1
      /\ stack[k].next \in Nat /\ Len(stack[k].imports) \in Nat
  BY ImportTypes DEF EdgeAdded, ImportInvariant, Frames
<1>3. /\ old \in Seq(Nat) /\ Len(old) = Len(stack) /\ \A m \in 1 .. Len(stack) : old[m] = LeftOf(stack, reading, m)
      /\ new \in Seq(Nat) /\ Len(new) = k /\ \A m \in 1 .. k : new[m] = LeftOf(stack', reading', m)
      /\ Total(old) \in Nat /\ Total(new) \in Nat
  BY <1>1, <1>2, LeftsBeforeAndAfter
<1>4. \A m \in 1 .. k - 1 : new[m] = old[m]
  <2>1. ASSUME NEW m \in 1 .. k - 1 PROVE LeftOf(stack', reading', m) = LeftOf(stack, reading, m)
    <3>1. m < k /\ m < Len(stack)
      BY <1>2
    <3>. QED
      BY <1>2, <3>1 DEF LeftOf
  <2>2. \A m \in 1 .. k - 1 : m \in 1 .. k /\ m \in 1 .. Len(stack)
    BY <1>2
  <2>. QED
    BY <1>3, <2>1, <2>2
<1>5. new[k] = Len(stack[k].imports) - stack[k].next /\ k \in 1 .. k
  <2>1. k \in 1 .. k /\ ~(k < Len(stack') \/ reading' # <<>>)
    BY <1>2
  <2>2. new[k] = Len(stack[k].imports) - ((stack[k].next + 1) - 1)
    BY <1>2, <1>3, <2>1 DEF LeftOf
  <2>. QED
    BY <1>2, <2>1, <2>2
<1>6. old[k] = IF Waiting(k) THEN Len(stack[k].imports) - stack[k].next
                             ELSE Len(stack[k].imports) - stack[k].next + 1
  <2>1. old[k] = Len(stack[k].imports) - (IF Waiting(k) THEN stack[k].next ELSE stack[k].next - 1)
    BY <1>3 DEF LeftOf, Waiting
  <2>. QED
    BY <1>2, <2>1
<1>7. CASE k = Len(stack)
  <2>1. Total(new) + old[k] = Total(old) + new[k]
    BY <1>2, <1>3, <1>4, <1>7, TotalOfLast
  <2>. QED
    BY <1>1, <1>2, <1>3, <1>5, <1>6, <1>7, <2>1, SMTT(30)
<1>8. CASE k = Len(stack) - 1
  <2>1. Waiting(k) /\ Len(old) = Len(new) + 1 /\ Len(old) \in 1 .. Len(stack)
    BY <1>2, <1>3, <1>8 DEF Waiting
  <2>2. \A m \in 1 .. Len(new) : old[m] = new[m]
    <3>1. old[k] = new[k]
      BY <1>5, <1>6, <2>1
    <3>2. \A m \in 1 .. k : m = k \/ m \in 1 .. k - 1
      BY <1>2
    <3>. QED
      BY <1>3, <1>4, <3>1, <3>2
  <2>3. Total(old) = Total(new) + old[Len(old)]
    BY <1>3, <2>1, <2>2, TotalOfLonger
  <2>. QED
    BY <1>1, <1>2, <1>3, <1>8, <2>1, <2>3
<1>. QED
  BY <1>1, <1>2, <1>7, <1>8

LEMMA EdgeStep ==
  ASSUME ImportInvariant, ImportTypeOK', DocumentsOnce', NodePaths \subseteq NodePaths',
         NEW k \in 1 .. Len(stack), NEW p, NEW e \in EdgeRecords, EdgeAdded(k, p, e),
         stack[k].next <= Len(stack[k].imports),
         completed' = IF e.state = "loaded" THEN completed \cup {Child(k)} ELSE completed,
         e.state = "loaded" => Waiting(k) /\ e.path = Child(k),
         e.state = "already-loaded" => e.path \in completed,
         Relationship(e)',
         issues' = 0 => issues = 0 /\ e.state \in Reuses /\ e.path = stack[k].imports[stack[k].next],
         \A n \in 1 .. Len(nodes') : issues' = 0 /\ nodes'[n].path \in completed' =>
           \A i \in 1 .. Len(nodes'[n].imports) : Covered(edges, nodes'[n].path, nodes'[n].imports, i),
         \A i \in 1 .. Len(nodes') : \A m \in 1 .. k :
           nodes'[i].path = stack[m].path => nodes'[i].imports = stack[m].imports
  PROVE  Descents' /\ EdgesOfDocuments' /\ CompletedIsAcyclic' /\ Nested' /\ NothingMissed'
<1>1. /\ completed \subseteq completed' /\ completed' \subseteq completed \cup {Child(k)}
      /\ e.state \in Reuses => e.path \in completed'
  BY DEF Reuses
<1>2. Descents'
  BY FramesGoOn
<1>3. EdgesOfDocuments'
  BY <1>1, EdgesStayInOrder
<1>4. CompletedIsAcyclic'
  BY <1>1, CompletedStaysAcyclic
<1>5. Nested'
  BY <1>1, DescentsStayNested
<1>6. NothingMissed'
  BY ImportsStayCovered
<1>. QED
  BY <1>2, <1>3, <1>4, <1>5, <1>6

(* After an edge the frames up to k are open, and nothing is read. *)
LEMMA AfterEdge ==
  ASSUME ImportInvariant, stack' \in Seq(Frames),
         NEW k \in 1 .. Len(stack), NEW p, NEW e \in EdgeRecords, EdgeAdded(k, p, e),
         k = Len(stack) \/ (k = Len(stack) - 1 /\ reading = <<>>),
         UNCHANGED <<begun, halted, returned>>, halted => issues' > 0,
         nodes' \in Seq(NodeRecords), issues' \in Nat, completed' \in SUBSET Paths, totalBytes' \in Nat,
         edgeSlots' = (IF Waiting(k) THEN edgeSlots ELSE edgeSlots + 1), edgeSlots' <= MaxEdges,
         Len(nodes') <= MaxFiles, \A i \in 1 .. Len(nodes') : nodes'[i].depth <= MaxDepth,
         Total(SizesOf(nodes')) = totalBytes', totalBytes' <= MaxTotalBytes
  PROVE  /\ ImportTypeOK' /\ Phases' /\ WithinLimits'
         /\ ActivePaths' = {stack[m].path : m \in 1 .. k}
         /\ \A i, j \in 1 .. Len(stack') : stack'[i].path = stack'[j].path => i = j
<1>1. /\ Len(stack) \in Nat /\ k \in Nat \ {0} /\ k <= Len(stack) /\ Len(stack') = k /\ reading' = <<>>
      /\ Len(edges) \in Nat /\ edgeSlots \in Nat /\ reading \in {<<>>} \cup {<<q>> : q \in Paths}
      /\ stack # <<>>
  BY ImportTypes DEF EdgeAdded, ImportInvariant, ImportTypeOK
<1>2. edges' \in Seq(EdgeRecords) /\ Len(edges') = Len(edges) + 1
  BY AddedEdge
<1>3. ImportTypeOK'
  <2>1. begun' \in BOOLEAN /\ halted' \in BOOLEAN /\ returned' \in BOOLEAN
    BY DEF ImportInvariant, ImportTypeOK
  <2>2. edgeSlots' \in Nat
    BY <1>1
  <2>. QED
    BY <1>1, <1>2, <2>1, <2>2 DEF ImportTypeOK
<1>4. stack' # <<>>
  BY <1>1
<1>5. Phases'
  BY <1>1, <1>4 DEF ImportInvariant, Phases
<1>6. \A m \in 1 .. k : m \in 1 .. Len(stack) /\ stack'[m].path = stack[m].path
  <2>1. \A m \in 1 .. k : m \in 1 .. Len(stack) /\ (m \in 1 .. k - 1 \/ m = k)
    BY <1>1
  <2>2. stack'[k].path = stack[k].path /\ \A m \in 1 .. k - 1 : stack'[m] = stack[m]
    <3>1. stack[k] \in Frames /\ stack'[k] = [stack[k] EXCEPT !.next = @ + 1]
      BY ImportTypes DEF EdgeAdded, ImportInvariant
    <3>. QED
      BY <3>1 DEF EdgeAdded, Frames
  <2>. QED
    BY <2>1, <2>2
<1>7. ActivePaths' = {stack[m].path : m \in 1 .. k}
  <2>1. PICK l : l = stack'
    OBVIOUS
  <2>2. DOMAIN l = 1 .. k
    BY <1>1, <2>1, LenProperties
  <2>3. {f.path : f \in Range(l)} = {stack[m].path : m \in 1 .. k}
    <3>1. {f.path : f \in Range(l)} = {l[m].path : m \in 1 .. k}
      BY <2>2 DEF Range
    <3>2. \A m \in 1 .. k : l[m].path = stack[m].path
      BY <1>6, <2>1
    <3>3. {l[m].path : m \in 1 .. k} = {stack[m].path : m \in 1 .. k}
      BY <3>2
    <3>. QED
      BY <3>1, <3>3
  <2>. QED
    BY <2>1, <2>3 DEF ActivePaths
<1>8. \A i, j \in 1 .. Len(stack') : stack'[i].path = stack'[j].path => i = j
  <2>1. \A i, j \in 1 .. Len(stack) : stack[i].path = stack[j].path => i = j
    BY DEF ImportInvariant, DocumentsOnce
  <2>. QED
    BY <1>1, <1>6, <2>1
<1>9. WithinLimits'
  <2>1. Pending' = k - 1
    BY <1>1, <1>4 DEF Pending
  <2>2. edgeSlots = Len(edges) + (IF reading = <<>> THEN Len(stack) - 1 ELSE Len(stack)) /\ Len(stack) <= MaxDepth + 1
    BY <1>1 DEF ImportInvariant, WithinLimits, Pending
  <2>3. Waiting(k) <=> (k < Len(stack) \/ reading # <<>>)
    BY DEF Waiting
  <2>4. edgeSlots' = Len(edges') + (k - 1)
    <3>1. CASE reading = <<>> /\ k = Len(stack)
      BY <1>1, <1>2, <2>2, <2>3, <3>1
    <3>2. CASE reading = <<>> /\ k = Len(stack) - 1
      BY <1>1, <1>2, <2>2, <2>3, <3>2
    <3>3. CASE reading # <<>> /\ k = Len(stack)
      BY <1>1, <1>2, <2>2, <2>3, <3>3
    <3>. QED
      BY <3>1, <3>2, <3>3
  <2>5. Len(stack') <= MaxDepth + 1
    BY <1>1, <2>2, ImportAssumption, SMTT(30)
  <2>. QED
    BY <1>1, <2>1, <2>4, <2>5 DEF WithinLimits
<1>. QED
  BY <1>3, <1>5, <1>7, <1>8, <1>9

LEMMA SettledKeepsInvariant ==
  ASSUME ImportInvariant, Expanding, HasReference, edgeSlots < MaxEdges, edgeSlots' = edgeSlots + 1,
         NEW state \in EdgeStates \ {"loaded"}, NEW path \in Paths \cup {Unresolved},
         NEW target \in {<<>>} \cup {<<p>> : p \in Paths},
         SettleReference(state, path, target), issues' \in Nat, issues' = 0 => issues = 0,
         IF state \in {"already-loaded", "cycle"} THEN target = <<path>> /\ path \in NodePaths ELSE target = <<>>,
         state = "already-loaded" => path \in completed,
         issues' = 0 => state = "already-loaded" /\ path = Top.imports[Top.next]
  PROVE  ImportInvariant'
<1>0. PICK k, e : k = Len(stack) /\ e = EdgeOf(Top, state, path, target)
  OBVIOUS
<1>1. stack # <<>> /\ reading = <<>> /\ ~returned /\ ~halted /\ Top = stack[k] /\ Top.next <= Len(Top.imports)
  BY <1>0 DEF Expanding, HasReference, Top
<1>2. /\ stack' \in Seq(Frames) /\ k \in 1 .. Len(stack) /\ e \in EdgeRecords /\ EdgeAdded(k, Len(edges) + 1, e)
      /\ UNCHANGED <<begun, nodes, completed, halted, totalBytes, returned>>
  BY <1>0, <1>1, TopGoesOn
<1>3. /\ k \in Nat /\ edgeSlots \in Nat /\ MaxEdges \in Nat /\ ~Waiting(k)
      /\ ActivePaths = {stack[m].path : m \in 1 .. k} /\ NodePaths' = NodePaths
      /\ nodes \in Seq(NodeRecords) /\ completed \in SUBSET Paths /\ totalBytes \in Nat
  <2>1. ImportTypeOK
    BY DEF ImportInvariant
  <2>2. k \in Nat /\ ActivePaths = {stack[m].path : m \in 1 .. k}
    BY <1>0, <2>1, ImportTypes
  <2>3. NodePaths' = NodePaths
    BY <1>2, Zenon DEF NodePaths
  <2>4. ~Waiting(k)
    BY <1>0, <1>1, <2>2 DEF Waiting
  <2>5. edgeSlots \in Nat /\ nodes \in Seq(NodeRecords) /\ completed \in SUBSET Paths /\ totalBytes \in Nat
    BY <2>1 DEF ImportTypeOK
  <2>. QED
    BY <2>2, <2>3, <2>4, <2>5, ImportAssumption
<1>4. /\ Len(nodes) <= MaxFiles /\ \A i \in 1 .. Len(nodes) : nodes[i].depth <= MaxDepth
      /\ Total(SizesOf(nodes)) = totalBytes /\ totalBytes <= MaxTotalBytes
  BY DEF ImportInvariant, WithinLimits
<1>5. edgeSlots' <= MaxEdges
  BY <1>3
<1>6. /\ ImportTypeOK' /\ Phases' /\ WithinLimits' /\ ActivePaths' = ActivePaths
      /\ \A i, j \in 1 .. Len(stack') : stack'[i].path = stack'[j].path => i = j
  BY <1>0, <1>1, <1>2, <1>3, <1>4, <1>5, AfterEdge
<1>7. DocumentsOnce'
  BY <1>1, <1>2, <1>3, <1>6 DEF ImportInvariant, DocumentsOnce, EdgeAdded
<1>8. e.state = state /\ e.path = path /\ e.document = target /\ e.from = Top.path
  BY <1>0 DEF EdgeOf
<1>9. Relationship(e)'
  <2>1. Top.path \in NodePaths
    BY <1>1, <1>2, <1>3 DEF ImportInvariant, DocumentsOnce
  <2>2. target # <<>> => target[1] = path /\ path \in NodePaths
    OBVIOUS
  <2>3. target # <<>> <=> state \in {"loaded", "already-loaded"} \cup {"cycle"}
    BY SMTT(30)
  <2>4. Relates(e, NodePaths)
    BY <1>8, <2>1, <2>2, <2>3 DEF Relates, Reuses
  <2>. QED
    BY <1>3, <2>4, Zenon DEF Relationship, Relates
<1>10. Descents' /\ EdgesOfDocuments' /\ CompletedIsAcyclic' /\ Nested' /\ NothingMissed'
  <2>1. stack[k].next <= Len(stack[k].imports)
    BY <1>1
  <2>2. completed' = IF e.state = "loaded" THEN completed \cup {Child(k)} ELSE completed
    BY <1>2, <1>8
  <2>3. issues' = 0 => issues = 0 /\ e.state \in Reuses /\ e.path = stack[k].imports[stack[k].next]
    BY <1>1, <1>8 DEF Reuses, ImportInvariant, ImportTypeOK
  <2>4. \A n \in 1 .. Len(nodes') : issues' = 0 /\ nodes'[n].path \in completed' =>
           \A i \in 1 .. Len(nodes'[n].imports) : Covered(edges, nodes'[n].path, nodes'[n].imports, i)
    BY <1>2, <2>3 DEF ImportInvariant, NothingMissed
  <2>5. \A i \in 1 .. Len(nodes') : \A m \in 1 .. k : nodes'[i].path = stack[m].path => nodes'[i].imports = stack[m].imports
    BY <1>0, <1>2 DEF ImportInvariant, Descents
  <2>6. /\ e.state = "loaded" => Waiting(k) /\ e.path = Child(k)
        /\ e.state = "already-loaded" => e.path \in completed
        /\ NodePaths \subseteq NodePaths'
    BY <1>3, <1>8
  <2>. QED
    BY <1>2, <1>6, <1>7, <1>9, <2>1, <2>2, <2>3, <2>4, <2>5, <2>6, EdgeStep
<1>11. ReferencesCounted'
  <2>1. Total(Lefts(stack', reading')) + 1 = Total(Lefts(stack, reading))
    BY <1>0, <1>2, <1>3, <1>10, LeftsAfterEdge
  <2>2. Total(Lefts(stack, reading)) \in Nat /\ Total(Lefts(stack', reading')) \in Nat
    BY <1>2, <1>10, LeftsBeforeAndAfter
  <2>3. Total(ReferencesOf(nodes)) = edgeSlots + Total(Lefts(stack, reading))
    BY <1>1 DEF ImportInvariant, ReferencesCounted
  <2>4. Total(ReferencesOf(nodes')) = edgeSlots' + Total(Lefts(stack', reading'))
    BY <1>2, <1>3, <2>1, <2>2, <2>3
  <2>. QED
    BY <1>1, <1>2, <2>4 DEF ReferencesCounted
<1>. QED
  BY <1>6, <1>7, <1>10, <1>11 DEF ImportInvariant

(* The read that was awaited has ended without a node; something is reported. *)
LEMMA RefusalKeepsInvariant ==
  ASSUME ImportInvariant, reading # <<>>, issues' \in Nat \ {0},
         UNCHANGED <<begun, nodes, completed, edgeSlots, halted, totalBytes>>,
         NEW state \in EdgeStates \ Reuses, NEW target \in {<<>>} \cup {<<p>> : p \in Paths},
         IF state = "cycle" THEN target # <<>> /\ target[1] \in NodePaths ELSE target = <<>>,
         VisitReturns(stack, state, target), stack # <<>>
  PROVE  ImportInvariant'
<1>1. /\ ImportTypeOK /\ Len(stack) \in Nat \ {0} /\ ~halted /\ edgeSlots \in Nat /\ MaxEdges \in Nat
      /\ nodes \in Seq(NodeRecords) /\ completed \in SUBSET Paths /\ totalBytes \in Nat
      /\ ActivePaths = {stack[m].path : m \in 1 .. Len(stack)}
  BY ImportTypes, ImportAssumption DEF ImportInvariant, ImportTypeOK, Phases
<1>2. PICK k : k = Len(stack)
  OBVIOUS
<1>3. Waiting(k) /\ k \in 1 .. Len(stack)
  BY <1>1, <1>2 DEF Waiting
<1>4. PICK e : e = EdgeOf(stack[k], state, Child(k), target)
  OBVIOUS
<1>5. /\ stack' \in Seq(Frames) /\ returned' = returned /\ e \in EdgeRecords
      /\ EdgeAdded(k, stack[k].position, e)
  BY <1>2, <1>3, <1>4, CallerGoesOn
<1>6. PICK p : p = stack[k].position
  OBVIOUS
<1>7. EdgeAdded(k, p, e)
  BY <1>5, <1>6
<1>8. NodePaths' = NodePaths
  BY Zenon DEF NodePaths
<1>9. /\ Len(nodes) <= MaxFiles /\ \A i \in 1 .. Len(nodes) : nodes[i].depth <= MaxDepth
      /\ Total(SizesOf(nodes)) = totalBytes /\ totalBytes <= MaxTotalBytes /\ edgeSlots <= MaxEdges
  BY DEF ImportInvariant, WithinLimits
<1>10. /\ ImportTypeOK' /\ Phases' /\ WithinLimits' /\ ActivePaths' = ActivePaths
       /\ \A i, j \in 1 .. Len(stack') : stack'[i].path = stack'[j].path => i = j
  BY <1>1, <1>2, <1>3, <1>5, <1>7, <1>9, AfterEdge
<1>11. DocumentsOnce'
  BY <1>5, <1>8, <1>10 DEF ImportInvariant, DocumentsOnce, EdgeAdded
<1>12. e.state = state /\ e.path = Child(k) /\ e.document = target /\ e.from = stack[k].path
  BY <1>4 DEF EdgeOf
<1>13. Relationship(e)'
  <2>1. stack[k].path \in NodePaths
    BY <1>1, <1>3 DEF ImportInvariant, DocumentsOnce
  <2>2. Relates(e, NodePaths)
    BY <1>12, <2>1 DEF Relates, EdgeStates
  <2>. QED
    BY <1>8, <2>2, Zenon DEF Relationship, Relates
<1>14. Descents' /\ EdgesOfDocuments' /\ CompletedIsAcyclic' /\ Nested' /\ NothingMissed'
  <2>1. stack[k].next <= Len(stack[k].imports)
    BY <1>3 DEF ImportInvariant, Descents
  <2>2. e.state # "loaded" /\ e.state # "already-loaded"
    BY <1>12 DEF Reuses
  <2>3. completed' = IF e.state = "loaded" THEN completed \cup {Child(k)} ELSE completed
    BY <2>2
  <2>4. issues' # 0
    OBVIOUS
  <2>5. \A i \in 1 .. Len(nodes') : \A m \in 1 .. k : nodes'[i].path = stack[m].path => nodes'[i].imports = stack[m].imports
    BY <1>2 DEF ImportInvariant, Descents
  <2>. QED
    BY <1>3, <1>7, <1>5, <1>8, <1>10, <1>11, <1>13, <2>1, <2>2, <2>3, <2>4, <2>5, EdgeStep
<1>15. ReferencesCounted'
  <2>1. Total(Lefts(stack', reading')) = Total(Lefts(stack, reading))
    BY <1>2, <1>3, <1>5, <1>7, <1>14, LeftsAfterEdge
  <2>. QED
    BY <1>1, <2>1 DEF ImportInvariant, ReferencesCounted
<1>. QED
  BY <1>10, <1>11, <1>14, <1>15 DEF ImportInvariant

(* The read has found a document without imports. *)
LEMMA UnparsableKeepsInvariant ==
  ASSUME ImportInvariant, NEW size \in Nat, ReadUnparsable(size), stack # <<>>
  PROVE  ImportInvariant'
<1>1. /\ ImportTypeOK /\ Len(stack) \in Nat \ {0} /\ ~halted /\ edgeSlots \in Nat /\ MaxEdges \in Nat /\ MaxFiles \in Nat
      /\ nodes \in Seq(NodeRecords) /\ completed \in SUBSET Paths /\ totalBytes \in Nat /\ MaxTotalBytes \in Nat
      /\ ActivePaths = {stack[m].path : m \in 1 .. Len(stack)} /\ issues \in Nat /\ reading # <<>>
  BY ImportTypes, ImportAssumption DEF ImportInvariant, ImportTypeOK, Phases, ReadUnparsable, Admitted
<1>2. PICK k : k = Len(stack)
  OBVIOUS
<1>3. Waiting(k) /\ k \in 1 .. Len(stack) /\ Child(k) = reading[1] /\ reading[1] \in Paths
  BY <1>1, <1>2 DEF Waiting, Child, ImportTypeOK
<1>4. PICK e, r : e = EdgeOf(stack[k], "loaded", Child(k), <<reading[1]>>) /\ r = reading[1]
  OBVIOUS
<1>5. /\ stack' \in Seq(Frames) /\ returned' = returned /\ e \in EdgeRecords
      /\ EdgeAdded(k, stack[k].position, e)
  <2>1. VisitReturns(stack, "loaded", <<reading[1]>>) /\ "loaded" \in EdgeStates
    BY DEF ReadUnparsable, EdgeStates, Reuses
  <2>2. <<reading[1]>> \in {<<>>} \cup {<<q>> : q \in Paths}
    BY <1>3
  <2>. QED
    BY <1>2, <1>3, <1>4, <2>1, <2>2, CallerGoesOn
<1>6. PICK p : p = stack[k].position
  OBVIOUS
<1>7. EdgeAdded(k, p, e)
  BY <1>5, <1>6
<1>8. PICK n : n = NodeOf(size, <<>>, "parse-failed")
  OBVIOUS
<1>9. /\ n \in NodeRecords /\ nodes' = Append(nodes, n) /\ n.path = r /\ n.size = size /\ n.imports = <<>>
      /\ n.depth = Len(stack)
  <2>1. <<>> \in References
    BY DEF References
  <2>. QED
    BY <1>1, <1>3, <1>4, <1>8, <2>1 DEF ReadUnparsable, NodeOf, NodeRecords
<1>10. /\ nodes' \in Seq(NodeRecords) /\ Len(nodes') = Len(nodes) + 1 /\ nodes'[Len(nodes')] = n
       /\ Len(nodes) \in Nat /\ \A i \in 1 .. Len(nodes) : nodes'[i] = nodes[i]
       /\ NodePaths' = NodePaths \cup {r}
       /\ Total(SizesOf(nodes')) = Total(SizesOf(nodes)) + size
       /\ Total(ReferencesOf(nodes')) = Total(ReferencesOf(nodes)) + Len(<<>>)
  BY <1>1, <1>9, NodeAppended
<1>11. \A i \in 1 .. Len(nodes') : i \in 1 .. Len(nodes) \/ i = Len(nodes')
  BY <1>10
<1>12. /\ UNCHANGED <<begun, halted, edgeSlots>> /\ completed' = completed \cup {r} /\ issues' \in Nat \ {0}
       /\ totalBytes' = totalBytes + size /\ totalBytes' <= MaxTotalBytes
  BY <1>1, <1>4, IssueIsCounted DEF ReadUnparsable, Admitted
<1>13. /\ Len(nodes') <= MaxFiles /\ \A i \in 1 .. Len(nodes') : nodes'[i].depth <= MaxDepth
       /\ Total(SizesOf(nodes')) = totalBytes' /\ edgeSlots <= MaxEdges
  <2>1. /\ Len(nodes) < MaxFiles /\ \A i \in 1 .. Len(nodes) : nodes[i].depth <= MaxDepth
        /\ Total(SizesOf(nodes)) = totalBytes /\ edgeSlots <= MaxEdges /\ Len(stack) <= MaxDepth
    BY <1>1 DEF ImportInvariant, WithinLimits
  <2>. QED
    BY <1>1, <1>9, <1>10, <1>11, <1>12, <2>1
<1>14. /\ ImportTypeOK' /\ Phases' /\ WithinLimits' /\ ActivePaths' = ActivePaths
       /\ \A i, j \in 1 .. Len(stack') : stack'[i].path = stack'[j].path => i = j
  <2>1. completed' \in SUBSET Paths /\ totalBytes' \in Nat
    BY <1>1, <1>3, <1>4, <1>12
  <2>. QED
    BY <1>1, <1>2, <1>3, <1>5, <1>7, <1>10, <1>12, <1>13, <2>1, AfterEdge
<1>15. DocumentsOnce'
  <2>1. /\ NodePaths = ActivePaths \cup completed /\ ActivePaths \cap completed = {} /\ r \notin NodePaths
        /\ \A i, j \in 1 .. Len(nodes) : nodes[i].path = nodes[j].path => i = j
        /\ nodes # <<>> => EntryPath \in NodePaths
    BY <1>1, <1>4 DEF ImportInvariant, DocumentsOnce
  <2>2. NodePaths' = ActivePaths' \cup completed' /\ ActivePaths' \cap completed' = {}
    BY <1>10, <1>12, <1>14, <2>1
  <2>3. \A i \in 1 .. Len(nodes) : nodes[i].path # r
    BY <1>1, <2>1, ImportTypes
  <2>4. \A i, j \in 1 .. Len(nodes') : nodes'[i].path = nodes'[j].path => i = j
    BY <1>9, <1>10, <1>11, <2>1, <2>3
  <2>5. nodes # <<>>
    <3>1. stack[k].path \in NodePaths
      BY <1>1, <1>3, <2>1
    <3>2. NodePaths = {nodes[i].path : i \in 1 .. Len(nodes)}
      BY <1>1, ImportTypes
    <3>3. PICK i \in 1 .. Len(nodes) : nodes[i].path = stack[k].path
      BY <3>1, <3>2
    <3>. QED
      BY <1>1, <3>3
  <2>6. EntryPath \in NodePaths' /\ reading' = <<>>
    BY <1>5, <1>10, <2>1, <2>5 DEF EdgeAdded
  <2>. QED
    BY <1>14, <2>2, <2>4, <2>6 DEF DocumentsOnce
<1>16. e.state = "loaded" /\ e.path = Child(k) /\ e.document = <<r>> /\ e.from = stack[k].path /\ Child(k) = r
  BY <1>3, <1>4 DEF EdgeOf
<1>17. Relationship(e)'
  <2>1. stack[k].path \in NodePaths' /\ r \in NodePaths'
    BY <1>1, <1>3, <1>10 DEF ImportInvariant, DocumentsOnce
  <2>2. e.document[1] = r /\ e.document # <<>>
    BY <1>16
  <2>3. e.state \in Reuses \cup {"cycle"}
    BY <1>16 DEF Reuses
  <2>. QED
    BY <1>16, <2>1, <2>2, <2>3, Zenon DEF Relationship
<1>18. Descents' /\ EdgesOfDocuments' /\ CompletedIsAcyclic' /\ Nested' /\ NothingMissed'
  <2>1. stack[k].next <= Len(stack[k].imports)
    BY <1>3 DEF ImportInvariant, Descents
  <2>2. completed' = IF e.state = "loaded" THEN completed \cup {Child(k)} ELSE completed
    BY <1>12, <1>16
  <2>3. issues' # 0 /\ NodePaths \subseteq NodePaths' /\ e.state # "already-loaded"
    BY <1>10, <1>12, <1>16
  <2>4. ASSUME NEW i \in 1 .. Len(nodes'), NEW m \in 1 .. k, nodes'[i].path = stack[m].path
        PROVE  nodes'[i].imports = stack[m].imports
    <3>1. stack[m].path \in NodePaths /\ m \in 1 .. Len(stack)
      BY <1>1, <1>2 DEF ImportInvariant, DocumentsOnce
    <3>2. r \notin NodePaths
      BY <1>1, <1>4 DEF ImportInvariant, DocumentsOnce
    <3>3. i \in 1 .. Len(nodes) /\ nodes'[i] = nodes[i]
      BY <1>9, <1>10, <1>11, <2>4, <3>1, <3>2
    <3>. QED
      BY <2>4, <3>1, <3>3 DEF ImportInvariant, Descents
  <2>. QED
    BY <1>3, <1>7, <1>5, <1>14, <1>15, <1>16, <1>17, <2>1, <2>2, <2>3, <2>4, EdgeStep
<1>19. ReferencesCounted'
  <2>1. Total(Lefts(stack', reading')) = Total(Lefts(stack, reading))
    BY <1>2, <1>3, <1>5, <1>7, <1>18, LeftsAfterEdge
  <2>2. Total(ReferencesOf(nodes)) \in Nat /\ Len(<<>>) = 0
    BY <1>1, CountsOfNodes
  <2>3. Total(ReferencesOf(nodes')) = Total(ReferencesOf(nodes))
    BY <1>10, <2>2
  <2>. QED
    BY <1>1, <1>12, <2>1, <2>3 DEF ImportInvariant, ReferencesCounted
<1>. QED
  BY <1>14, <1>15, <1>18, <1>19 DEF ImportInvariant

(* A document below the entry is complete. *)
LEMMA CompletionKeepsInvariant ==
  ASSUME ImportInvariant, DocumentEnds, Len(stack) > 1
  PROVE  ImportInvariant'
<1>1. /\ ImportTypeOK /\ Len(stack) \in Nat /\ edgeSlots \in Nat /\ MaxEdges \in Nat /\ reading = <<>> /\ issues \in Nat
      /\ nodes \in Seq(NodeRecords) /\ completed \in SUBSET Paths /\ totalBytes \in Nat
      /\ ActivePaths = {stack[m].path : m \in 1 .. Len(stack)}
      /\ \A m \in 1 .. Len(stack) : stack[m] \in Frames /\ Len(stack[m].imports) \in Nat /\ stack[m].next \in Nat
      /\ UNCHANGED <<begun, nodes, issues, edgeSlots, halted, totalBytes>>
  BY ImportTypes, ImportAssumption DEF ImportInvariant, ImportTypeOK, DocumentEnds, Expanding, Frames
<1>2. PICK k \in Nat, n \in Nat : k = Len(stack) - 1 /\ n = Len(stack)
  BY <1>1
<1>3. k \in 1 .. Len(stack) /\ k < Len(stack) /\ Waiting(k) /\ n = k + 1 /\ n \in 1 .. Len(stack)
  BY <1>1, <1>2 DEF Waiting
<1>4. PICK r : r = Top.path
  OBVIOUS
<1>5. r = stack[n].path /\ Child(k) = r /\ r \in Paths /\ completed' = completed \cup {r}
  BY <1>1, <1>2, <1>3, <1>4 DEF Child, Top, Frames, DocumentEnds
<1>6. PICK e : e = EdgeOf(stack[k], "loaded", Child(k), <<r>>)
  OBVIOUS
<1>7. /\ stack' \in Seq(Frames) /\ returned' = returned /\ e \in EdgeRecords
      /\ EdgeAdded(k, stack[k].position, e)
  <2>1. Under # <<>>
    <3>1. Under = SubSeq(stack, 1, k) /\ \A m \in 1 .. k : stack[m] \in Frames
      BY <1>1, <1>2 DEF Under, Front
    <3>2. Len(SubSeq(stack, 1, k)) = (IF 1 <= k THEN k - 1 + 1 ELSE 0)
      BY <1>1, <1>2, <3>1, SubSeqProperties
    <3>3. Len(Under) # 0
      BY <1>3, <3>1, <3>2
    <3>. QED
      BY <3>3
  <2>2. VisitReturns(Front(stack), "loaded", <<r>>)
    BY <1>4, <2>1 DEF DocumentEnds, Under
  <2>3. "loaded" \in EdgeStates /\ <<r>> \in {<<>>} \cup {<<q>> : q \in Paths}
    BY <1>5 DEF EdgeStates, Reuses
  <2>. QED
    BY <1>2, <1>3, <1>6, <2>2, <2>3, CallerGoesOn
<1>8. PICK p : p = stack[k].position
  OBVIOUS
<1>9. EdgeAdded(k, p, e)
  BY <1>7, <1>8
<1>10. NodePaths' = NodePaths
  BY <1>1, Zenon DEF NodePaths
<1>11. /\ Len(nodes) <= MaxFiles /\ \A i \in 1 .. Len(nodes) : nodes[i].depth <= MaxDepth
       /\ Total(SizesOf(nodes)) = totalBytes /\ totalBytes <= MaxTotalBytes /\ edgeSlots <= MaxEdges
       /\ halted => issues > 0
  BY DEF ImportInvariant, WithinLimits, Phases
<1>12. /\ ImportTypeOK' /\ Phases' /\ WithinLimits' /\ ActivePaths' = {stack[m].path : m \in 1 .. k}
       /\ \A i, j \in 1 .. Len(stack') : stack'[i].path = stack'[j].path => i = j
  BY <1>1, <1>2, <1>3, <1>5, <1>7, <1>9, <1>11, AfterEdge
<1>13. DocumentsOnce'
  <2>1. /\ NodePaths = ActivePaths \cup completed /\ ActivePaths \cap completed = {}
        /\ \A i, j \in 1 .. Len(nodes) : nodes[i].path = nodes[j].path => i = j
        /\ \A i, j \in 1 .. Len(stack) : stack[i].path = stack[j].path => i = j
        /\ nodes # <<>> => EntryPath \in NodePaths
    BY DEF ImportInvariant, DocumentsOnce
  <2>2. \A m \in 1 .. Len(stack) : (m \in 1 .. k /\ m # n) \/ m = n
    BY <1>2, <1>3
  <2>3. \A m \in 1 .. k : m \in 1 .. Len(stack) /\ m # n
    BY <1>2, <1>3
  <2>4. ActivePaths = ActivePaths' \cup {r} /\ r \notin ActivePaths'
    BY <1>1, <1>3, <1>5, <1>12, <2>1, <2>2, <2>3
  <2>5. NodePaths' = ActivePaths' \cup completed' /\ ActivePaths' \cap completed' = {} /\ reading' = <<>>
    BY <1>5, <1>7, <1>10, <2>1, <2>4 DEF EdgeAdded
  <2>. QED
    BY <1>1, <1>10, <1>12, <2>1, <2>5 DEF DocumentsOnce
<1>14. e.state = "loaded" /\ e.path = Child(k) /\ e.document = <<r>> /\ e.from = stack[k].path
  BY <1>6 DEF EdgeOf
<1>15. Relationship(e)'
  <2>1. stack[k].path \in NodePaths' /\ r \in NodePaths'
    BY <1>1, <1>3, <1>5, <1>10 DEF ImportInvariant, DocumentsOnce
  <2>2. e.document[1] = r /\ e.document # <<>> /\ e.path = r
    BY <1>5, <1>14
  <2>3. e.state \in Reuses \cup {"cycle"}
    BY <1>14 DEF Reuses
  <2>. QED
    BY <1>14, <2>1, <2>2, <2>3, Zenon DEF Relationship
<1>16. Descents' /\ EdgesOfDocuments' /\ CompletedIsAcyclic' /\ Nested' /\ NothingMissed'
  <2>1. stack[k].next <= Len(stack[k].imports) /\ stack[k].imports[stack[k].next] = Child(k)
    BY <1>3 DEF ImportInvariant, Descents
  <2>2. completed' = IF e.state = "loaded" THEN completed \cup {Child(k)} ELSE completed
    BY <1>5, <1>14
  <2>3. /\ NodePaths \subseteq NodePaths' /\ e.state # "already-loaded"
        /\ issues' = 0 => issues = 0 /\ e.state \in Reuses /\ e.path = stack[k].imports[stack[k].next]
    BY <1>1, <1>10, <1>14, <2>1 DEF Reuses
  <2>4. \A i \in 1 .. Len(nodes') : \A m \in 1 .. k : nodes'[i].path = stack[m].path => nodes'[i].imports = stack[m].imports
    <3>1. \A m \in 1 .. k : m \in 1 .. Len(stack)
      BY <1>2, <1>3
    <3>. QED
      BY <1>1, <3>1 DEF ImportInvariant, Descents
  <2>5. ASSUME NEW x \in 1 .. Len(nodes'), issues' = 0, nodes'[x].path \in completed'
        PROVE  \A i \in 1 .. Len(nodes'[x].imports) : Covered(edges, nodes'[x].path, nodes'[x].imports, i)
    <3>1. CASE nodes[x].path \in completed
      BY <1>1, <2>5, <3>1 DEF ImportInvariant, NothingMissed
    <3>2. CASE nodes[x].path = r
      <4>1. nodes[x].imports = stack[n].imports
        BY <1>1, <1>3, <1>5, <3>2 DEF ImportInvariant, Descents
      <4>2. ~halted
        BY <1>1, <1>11, <2>5
      <4>3. stack[n].next > Len(stack[n].imports)
        BY <1>1, <1>2, <1>3, <4>2 DEF DocumentEnds, HasReference, Top
      <4>4. \A i \in 1 .. Len(stack[n].imports) : i < stack[n].next
        BY <1>1, <1>3, <4>3
      <4>5. \A i \in 1 .. Len(stack[n].imports) : Covered(edges, stack[n].path, stack[n].imports, i)
        BY <1>1, <1>3, <2>5, <4>4 DEF ImportInvariant, NothingMissed
      <4>. QED
        BY <1>1, <1>5, <3>2, <4>1, <4>5
    <3>. QED
      BY <1>1, <1>5, <2>5, <3>1, <3>2
  <2>. QED
    BY <1>3, <1>7, <1>9, <1>12, <1>13, <1>14, <1>15, <2>1, <2>2, <2>3, <2>4, <2>5, EdgeStep
<1>17. ReferencesCounted'
  <2>1. CASE halted
    BY <1>1, <2>1 DEF ImportInvariant, ReferencesCounted
  <2>2. CASE ~halted
    <3>1. Total(Lefts(stack, reading)) = Total(Lefts(stack', reading')) + LeftOf(stack, reading, Len(stack))
      BY <1>2, <1>3, <1>7, <1>9, <1>16, LeftsAfterEdge
    <3>2. stack[n].next > Len(stack[n].imports) /\ stack[n].next <= Len(stack[n].imports) + 1
      BY <1>1, <1>2, <1>3, <2>2 DEF DocumentEnds, HasReference, Top, ImportInvariant, Descents
    <3>3. LeftOf(stack, reading, n) = Len(stack[n].imports) - (stack[n].next - 1)
      BY <1>1, <1>2 DEF LeftOf
    <3>4. LeftOf(stack, reading, Len(stack)) = 0
      BY <1>1, <1>2, <1>3, <3>2, <3>3, SMTT(30)
    <3>5. Total(Lefts(stack', reading')) \in Nat
      BY <1>7, <1>16, LeftsBeforeAndAfter
    <3>. QED
      BY <1>1, <2>2, <3>1, <3>4, <3>5 DEF ImportInvariant, ReferencesCounted
  <2>. QED
    BY <2>1, <2>2
<1>. QED
  BY <1>12, <1>13, <1>16, <1>17 DEF ImportInvariant

LEMMA EmptyLists ==
  /\ Len(<<>>) = 0 /\ Range(<<>>) = {} /\ 1 .. 0 = {}
  /\ Total(SizesOf(<<>>)) = 0 /\ Total(ReferencesOf(<<>>)) = 0
  /\ \A read : Total(Lefts(<<>>, read)) = 0
<1>1. Len(<<>>) = 0 /\ 1 .. 0 = {} /\ DOMAIN <<>> = {}
  OBVIOUS
<1>2. Range(<<>>) = {}
  BY <1>1 DEF Range
<1>3. SizesOf(<<>>) = <<>> /\ ReferencesOf(<<>>) = <<>> /\ \A read : Lefts(<<>>, read) = <<>>
  BY <1>1 DEF SizesOf, ReferencesOf, Lefts
<1>. QED
  BY <1>1, <1>2, <1>3, TotalOfEmpty

LEMMA ImportInitially == ImportInit => ImportInvariant
<1> SUFFICES ASSUME ImportInit PROVE ImportInvariant
  OBVIOUS
<1>1. /\ begun = FALSE /\ reading = <<>> /\ stack = <<>> /\ nodes = <<>> /\ edges = <<>>
      /\ issues = 0 /\ completed = {} /\ edgeSlots = 0 /\ halted = FALSE /\ totalBytes = 0
      /\ returned = FALSE
  BY DEF ImportInit
<1>2. 1 .. Len(stack) = {} /\ 1 .. Len(nodes) = {} /\ 1 .. Len(edges) = {} /\ ActivePaths = {} /\ NodePaths = {}
      /\ Range(edges) = {}
  BY <1>1, EmptyLists DEF ActivePaths, NodePaths
<1>3. ImportTypeOK
  <2>1. begun \in BOOLEAN /\ halted \in BOOLEAN /\ returned \in BOOLEAN
    BY <1>1
  <2>2. stack \in Seq(Frames) /\ nodes \in Seq(NodeRecords) /\ edges \in Seq(EdgeRecords)
    BY <1>1, EmptySeq
  <2>3. reading \in {<<>>} \cup {<<p>> : p \in Paths} /\ completed \in SUBSET Paths
    BY <1>1
  <2>4. issues \in Nat /\ edgeSlots \in Nat /\ totalBytes \in Nat
    BY <1>1
  <2>. QED
    BY <2>1, <2>2, <2>3, <2>4 DEF ImportTypeOK
<1>4. Phases /\ DocumentsOnce /\ Descents
  BY <1>1, <1>2 DEF Phases, DocumentsOnce, Descents
<1>5. WithinLimits
  BY <1>1, <1>2, EmptyLists, ImportAssumption DEF WithinLimits, Pending
<1>6. ReferencesCounted
  BY <1>1, EmptyLists DEF ReferencesCounted
<1>7. EdgesOfDocuments /\ CompletedIsAcyclic /\ Nested /\ NothingMissed
  BY <1>1, <1>2 DEF EdgesOfDocuments, CompletedIsAcyclic, Nested, NothingMissed
<1>. QED
  BY <1>3, <1>4, <1>5, <1>6, <1>7 DEF ImportInvariant

(* The load begins, or ends with the entry. *)
LEMMA NoEdgesYet ==
  ASSUME ImportTypeOK', Phases', DocumentsOnce', stack' = <<>>, edges' = <<>>, edgeSlots' = 0,
         Len(nodes') \in {0, 1}, reading' # <<>> => Len(nodes') = 0,
         \A i \in 1 .. Len(nodes') : nodes'[i].depth = 0 /\ nodes'[i].imports = <<>>,
         Total(SizesOf(nodes')) = totalBytes', totalBytes' <= MaxTotalBytes
  PROVE  ImportInvariant'
<1>1. 1 .. Len(stack') = {} /\ 1 .. Len(edges') = {} /\ Len(edges') = 0 /\ Len(stack') = 0
  BY EmptyLists
<1>2. (Range(edges) = {})'
  BY EmptyLists
<1>3. WithinLimits'
  <2>1. Pending' = 0
    BY DEF Pending
  <2>2. MaxEdges \in Nat /\ MaxFiles \in Nat \ {0} /\ MaxDepth \in Nat
    BY ImportAssumption
  <2>3. edgeSlots' = Len(edges') + Pending' /\ edgeSlots' <= MaxEdges
    BY <1>1, <2>1, <2>2
  <2>4. Len(nodes') <= MaxFiles /\ (reading' # <<>> => Len(nodes') < MaxFiles)
    BY <2>2
  <2>5. Len(stack') <= MaxDepth + 1 /\ Len(stack') <= MaxDepth /\ \A i \in 1 .. Len(nodes') : nodes'[i].depth <= MaxDepth
    BY <1>1, <2>2
  <2>. QED
    BY <2>3, <2>4, <2>5 DEF WithinLimits
<1>4. ReferencesCounted'
  <2>1. nodes' \in Seq(NodeRecords)
    BY DEF ImportTypeOK
  <2>2. PICK l : l = nodes'
    OBVIOUS
  <2>3. /\ ReferencesOf(l) \in Seq(Nat) /\ Len(ReferencesOf(l)) = Len(l)
        /\ \A i \in 1 .. Len(l) : ReferencesOf(l)[i] = Len(l[i].imports)
    BY <2>1, <2>2, CountsOfNodes
  <2>4. \A i \in 1 .. Len(ReferencesOf(l)) : ReferencesOf(l)[i] = 0
    BY <2>2, <2>3, EmptyLists
  <2>5. Total(ReferencesOf(l)) = 0
    BY <2>3, <2>4, TotalOfZeros
  <2>6. Total(Lefts(stack', reading')) = 0
    BY EmptyLists
  <2>. QED
    BY <2>2, <2>5, <2>6, ImportAssumption DEF ReferencesCounted
<1>5. Descents'
  BY <1>1 DEF Descents
<1>6. EdgesOfDocuments' /\ Nested'
  BY <1>1, <1>2 DEF EdgesOfDocuments, Nested
<1>7. CompletedIsAcyclic'
  BY <1>1 DEF CompletedIsAcyclic
<1>8. NothingMissed'
  <2>1. \A i \in 1 .. Len(nodes') : 1 .. Len(nodes'[i].imports) = {}
    BY EmptyLists
  <2>. QED
    BY <1>1, <2>1 DEF NothingMissed
<1>. QED
  BY <1>3, <1>4, <1>5, <1>6, <1>7, <1>8 DEF ImportInvariant

LEMMA LoadBeginsKeepsInvariant ==
  ASSUME ImportInvariant, LoadBegins
  PROVE  ImportInvariant'
<1>1. /\ ImportTypeOK /\ reading = <<>> /\ stack = <<>> /\ ~returned /\ nodes = <<>> /\ edges = <<>> /\ edgeSlots = 0
      /\ begun' = TRUE /\ reading' = <<EntryPath>> /\ EntryPath \in Paths
      /\ UNCHANGED <<stack, nodes, edges, issues, completed, edgeSlots, halted, totalBytes, returned>>
  BY ImportAssumption DEF ImportInvariant, Phases, LoadBegins
<1>2. halted = FALSE
  BY <1>1 DEF ImportInvariant, Phases, ImportTypeOK
<1>3. ImportTypeOK'
  BY <1>1 DEF ImportTypeOK
<1>4. Phases'
  BY <1>1, <1>2 DEF Phases
<1>5. NodePaths = {} /\ NodePaths' = {} /\ ActivePaths' = ActivePaths
  BY <1>1, EmptyLists DEF NodePaths, ActivePaths
<1>6. DocumentsOnce'
  BY <1>1, <1>5 DEF ImportInvariant, DocumentsOnce
<1>7. Len(nodes') = 0 /\ Total(SizesOf(nodes')) = totalBytes' /\ totalBytes' <= MaxTotalBytes /\ 1 .. Len(nodes') = {}
  BY <1>1, EmptyLists DEF ImportInvariant, WithinLimits
<1>. QED
  BY <1>1, <1>3, <1>4, <1>6, <1>7, NoEdgesYet

(* The entry cannot be read, or has no imports. *)
LEMMA EntryReadKeepsInvariant ==
  ASSUME ImportInvariant, stack = <<>>, reading # <<>>,
         ReadRefused \/ (\E d \in Paths : ReadAlias(d)) \/ (\E size \in Sizes : ReadUnparsable(size))
  PROVE  ImportInvariant'
<1>1. /\ ImportTypeOK /\ ~returned /\ nodes = <<>> /\ edges = <<>> /\ edgeSlots = 0 /\ begun /\ ~halted
      /\ issues \in Nat /\ totalBytes \in Nat /\ reading[1] = EntryPath /\ EntryPath \in Paths
      /\ nodes \in Seq(NodeRecords)
  BY ImportAssumption DEF ImportInvariant, ImportTypeOK, Phases
<1>2. NodePaths = {} /\ ActivePaths = {} /\ completed = {} /\ Total(SizesOf(nodes)) = totalBytes /\ totalBytes <= MaxTotalBytes
  BY <1>1, EmptyLists DEF NodePaths, ActivePaths, ImportInvariant, DocumentsOnce, WithinLimits
<1>3. /\ reading' = <<>> /\ returned' = TRUE /\ UNCHANGED <<stack, edges, begun, edgeSlots, halted>>
      /\ issues' \in Nat \ {0}
  <2>1. AddIssue /\ UNCHANGED <<begun, edgeSlots, halted>>
    BY DEF ReadRefused, ReadAlias, ReadUnparsable
  <2>2. \E state, target : VisitReturns(stack, state, target)
    BY DEF ReadRefused, ReadAlias, ReadUnparsable
  <2>3. reading' = <<>> /\ returned' = TRUE /\ UNCHANGED <<stack, edges>>
    BY <2>2 DEF VisitReturns
  <2>. QED
    BY <1>1, <2>1, <2>3, IssueIsCounted
<1>4. Phases'
  BY <1>1, <1>3 DEF Phases
<1>5. 1 .. Len(stack') = {} /\ Len(stack) = 0 /\ ActivePaths' = {}
  BY <1>2, <1>3, EmptyLists DEF ActivePaths
<1>6. CASE ReadRefused \/ \E d \in Paths : ReadAlias(d)
  <2>1. UNCHANGED <<nodes, completed, totalBytes>>
    BY <1>6 DEF ReadRefused, ReadAlias
  <2>2. ImportTypeOK'
    BY <1>1, <1>3, <2>1 DEF ImportTypeOK
  <2>3. NodePaths' = {}
    BY <1>2, <2>1 DEF NodePaths
  <2>4. DocumentsOnce'
    BY <1>1, <1>2, <1>3, <1>5, <2>1, <2>3 DEF DocumentsOnce, ImportInvariant
  <2>5. Len(nodes') = 0 /\ 1 .. Len(nodes') = {}
    BY <1>1, <2>1, EmptyLists
  <2>. QED
    BY <1>1, <1>2, <1>3, <1>4, <2>1, <2>2, <2>4, <2>5, NoEdgesYet
<1>7. CASE \E size \in Sizes : ReadUnparsable(size)
  <2>1. PICK size \in Sizes : ReadUnparsable(size)
    BY <1>7
  <2>2. PICK n : n = NodeOf(size, <<>>, "parse-failed")
    OBVIOUS
  <2>3. /\ n \in NodeRecords /\ nodes' = Append(nodes, n) /\ n.path = EntryPath /\ n.size = size /\ n.imports = <<>>
        /\ n.depth = 0 /\ size \in Nat
    <3>1. <<>> \in References
      BY DEF References
    <3>2. size \in Nat
      BY ImportAssumption
    <3>. QED
      BY <1>1, <1>5, <2>1, <2>2, <3>1, <3>2 DEF ReadUnparsable, NodeOf, NodeRecords
  <2>4. /\ nodes' \in Seq(NodeRecords) /\ Len(nodes') = 1 /\ nodes'[1] = n /\ NodePaths' = {EntryPath}
        /\ Total(SizesOf(nodes')) = totalBytes + size
    <3>1. /\ nodes' \in Seq(NodeRecords) /\ Len(nodes') = Len(nodes) + 1 /\ nodes'[Len(nodes')] = n
          /\ NodePaths' = NodePaths \cup {n.path}
          /\ Total(SizesOf(nodes')) = Total(SizesOf(nodes)) + n.size
      BY <1>1, <2>3, NodeAppended
    <3>2. Len(nodes) = 0
      BY <1>1
    <3>. QED
      BY <1>2, <2>3, <3>1, <3>2
  <2>5. completed' = {EntryPath} /\ totalBytes' = totalBytes + size /\ totalBytes' <= MaxTotalBytes
    BY <1>1, <1>2, <2>1 DEF ReadUnparsable, Admitted
  <2>6. ImportTypeOK'
    <3>1. totalBytes' \in Nat /\ completed' \in SUBSET Paths
      BY <1>1, <2>3, <2>5
    <3>. QED
      BY <1>1, <1>3, <2>4, <3>1 DEF ImportTypeOK
  <2>7. \A i \in 1 .. Len(nodes') : i = 1
    BY <2>4
  <2>8. DocumentsOnce'
    BY <1>3, <1>5, <2>4, <2>5, <2>7 DEF DocumentsOnce
  <2>. QED
    BY <1>1, <1>3, <1>4, <2>3, <2>4, <2>5, <2>6, <2>7, <2>8, NoEdgesYet
<1>. QED
  BY <1>6, <1>7

(* The entry is complete, and with it the graph. *)
LEMMA EntryEndsKeepsInvariant ==
  ASSUME ImportInvariant, DocumentEnds, Len(stack) = 1
  PROVE  ImportInvariant'
<1>1. /\ ImportTypeOK /\ reading = <<>> /\ edgeSlots \in Nat /\ stack \in Seq(Frames) /\ begun
      /\ stack[1] \in Frames /\ Len(stack[1].imports) \in Nat /\ stack[1].next \in Nat \ {0}
      /\ Top = stack[1] /\ NodePaths = ActivePaths \cup completed /\ ActivePaths = {stack[1].path}
      /\ nodes \in Seq(NodeRecords) /\ completed \in SUBSET Paths /\ 1 \in 1 .. Len(stack)
      /\ Len(edges) \in Nat /\ issues \in Nat
  <2>1. ImportTypeOK /\ 1 \in 1 .. Len(stack) /\ \A m \in 1 .. Len(stack) : m = 1
    BY DEF ImportInvariant
  <2>2. ActivePaths = {stack[m].path : m \in 1 .. Len(stack)}
    BY <2>1, ImportTypes
  <2>3. stack[1] \in Frames /\ Len(stack[1].imports) \in Nat /\ stack # <<>> /\ Len(edges) \in Nat
    BY <2>1, ImportTypes
  <2>. QED
    BY <2>1, <2>2, <2>3 DEF ImportInvariant, ImportTypeOK, Top, DocumentEnds, Expanding, Frames, Phases, DocumentsOnce
<1>2. /\ returned' = TRUE /\ stack' = <<>> /\ reading' = <<>> /\ completed' = NodePaths
      /\ UNCHANGED <<begun, edges, nodes, issues, edgeSlots, halted, totalBytes>>
  <2>1. Under = <<>>
    BY <1>1 DEF Under, Front
  <2>. QED
    BY <1>1, <2>1 DEF DocumentEnds
<1>3. NodePaths' = NodePaths /\ ActivePaths' = {} /\ 1 .. Len(stack') = {} /\ Len(stack') = 0
  <2>1. NodePaths' = NodePaths
    BY <1>2, Zenon DEF NodePaths
  <2>. QED
    BY <1>2, <2>1, EmptyLists DEF ActivePaths
<1>4. ImportTypeOK'
  <2>1. completed' \in SUBSET Paths
    BY <1>1, <1>2 DEF Frames
  <2>. QED
    BY <1>1, <1>2, <2>1 DEF ImportTypeOK
<1>5. Phases'
  BY <1>1, <1>2 DEF ImportInvariant, Phases
<1>6. DocumentsOnce'
  BY <1>2, <1>3 DEF ImportInvariant, DocumentsOnce
<1>7. Descents'
  BY <1>3 DEF Descents
<1>8. WithinLimits'
  <2>1. Pending = 0 /\ Pending' = 0
    BY <1>1, <1>2 DEF Pending
  <2>2. Len(stack') <= MaxDepth + 1
    BY <1>3, ImportAssumption
  <2>. QED
    BY <1>1, <1>2, <2>1, <2>2 DEF ImportInvariant, WithinLimits
<1>9. ReferencesCounted'
  <2>1. CASE halted
    BY <1>2, <2>1 DEF ImportInvariant, ReferencesCounted
  <2>2. CASE ~halted
    <3>1. stack[1].next = Len(stack[1].imports) + 1
      BY <1>1, <2>2 DEF ImportInvariant, Descents, DocumentEnds, HasReference
    <3>2. LeftOf(stack, reading, 1) = Len(stack[1].imports) - (stack[1].next - 1)
      BY <1>1 DEF LeftOf
    <3>3. LeftOf(stack, reading, 1) = 0
      BY <1>1, <3>1, <3>2
    <3>4. stack' \in Seq(Frames)
      BY <1>4 DEF ImportTypeOK
    <3>5. /\ Lefts(stack, reading) \in Seq(Nat) /\ Len(Lefts(stack, reading)) = 1
          /\ Lefts(stack, reading)[1] = 0
      BY <1>1, <1>7, <3>3, <3>4, LeftsBeforeAndAfter
    <3>6. Total(Lefts(stack, reading)) = 0
      <4>1. \A i \in 1 .. Len(Lefts(stack, reading)) : Lefts(stack, reading)[i] = 0
        BY <3>5
      <4>. QED
        BY <3>5, <4>1, TotalOfZeros
    <3>7. Total(Lefts(stack', reading')) = 0
      BY <1>2, EmptyLists
    <3>. QED
      BY <1>2, <2>2, <3>6, <3>7 DEF ImportInvariant, ReferencesCounted
  <2>. QED
    BY <2>1, <2>2
<1>10. EdgesOfDocuments'
  <2>1. \A e : Relationship(e) => Relationship(e)'
    BY <1>3, Zenon DEF Relationship
  <2>2. \A e \in Range(edges) : Relationship(e)'
    BY <2>1 DEF ImportInvariant, EdgesOfDocuments
  <2>3. \A i \in 1 .. Len(edges) : edges[i].state \in Reuses => edges[i].path \in completed'
    BY <1>1, <1>2 DEF ImportInvariant, EdgesOfDocuments
  <2>4. \A i, j \in 1 .. Len(edges) : edges[i].from = edges[j].from /\ i < j => edges[i].index < edges[j].index
    BY DEF ImportInvariant, EdgesOfDocuments
  <2>. QED
    BY <1>2, <1>3, <2>2, <2>3, <2>4 DEF EdgesOfDocuments
<1>11. CompletedIsAcyclic'
  <2>1. \A i \in 1 .. Len(edges) : edges[i].state \in Reuses => edges[i].path # stack[1].path
    BY <1>1 DEF ImportInvariant, EdgesOfDocuments, DocumentsOnce
  <2> SUFFICES ASSUME NEW documents \in (SUBSET completed') \ {{}}
               PROVE  \E d \in documents : \A i \in 1 .. Len(edges') :
                        edges'[i].state \in Reuses /\ edges'[i].from \in documents => edges'[i].path # d
    BY DEF CompletedIsAcyclic
  <2>. edges' = edges
    BY <1>2
  <2>2. CASE stack[1].path \in documents
    BY <2>1, <2>2
  <2>3. CASE stack[1].path \notin documents
    <3>1. documents \in (SUBSET completed) \ {{}}
      BY <1>1, <1>2, <2>3
    <3>2. CompletedIsAcyclic
      BY DEF ImportInvariant
    <3>3. \E d \in documents : \A i \in 1 .. Len(edges) :
            edges[i].state \in Reuses /\ edges[i].from \in documents => edges[i].path # d
      BY <3>1, <3>2, Zenon DEF CompletedIsAcyclic
    <3>. QED
      BY <3>3, Zenon
  <2>. QED
    BY <2>2, <2>3
<1>12. Nested'
  BY <1>2, <1>3 DEF ImportInvariant, Nested
<1>13. NothingMissed'
  <2> SUFFICES ASSUME issues = 0, NEW x \in 1 .. Len(nodes), nodes[x].path \in completed'
               PROVE  \A i \in 1 .. Len(nodes[x].imports) : Covered(edges, nodes[x].path, nodes[x].imports, i)
    BY <1>2, <1>3 DEF NothingMissed
  <2>1. CASE nodes[x].path \in completed
    BY <2>1 DEF ImportInvariant, NothingMissed
  <2>2. CASE nodes[x].path = stack[1].path
    <3>1. ~halted
      BY <1>1 DEF ImportInvariant, Phases
    <3>2. nodes[x].imports = stack[1].imports
      BY <1>1, <2>2 DEF ImportInvariant, Descents
    <3>3. \A i \in 1 .. Len(stack[1].imports) : i < stack[1].next
      BY <1>1, <3>1 DEF DocumentEnds, HasReference
    <3>4. \A i \in 1 .. Len(stack[1].imports) : Covered(edges, stack[1].path, stack[1].imports, i)
      BY <1>1, <3>3 DEF ImportInvariant, NothingMissed
    <3>. QED
      BY <2>2, <3>2, <3>4
  <2>. QED
    BY <1>1, <1>2, <2>1, <2>2
<1>. QED
  BY <1>4, <1>5, <1>6, <1>7, <1>8, <1>9, <1>10, <1>11, <1>12, <1>13 DEF ImportInvariant

(* A document is opened. *)
LEMMA OpeningKeepsInvariant ==
  ASSUME ImportInvariant, NEW size \in Sizes, NEW imports \in Texts, ReadLoads(size, imports)
  PROVE  ImportInvariant'
<1>1. /\ ImportTypeOK /\ Len(stack) \in Nat /\ stack \in Seq(Frames) /\ nodes \in Seq(NodeRecords)
      /\ reading # <<>> /\ reading[1] \in Paths /\ edges \in Seq(EdgeRecords) /\ Len(edges) \in Nat
      /\ begun /\ ~halted /\ ~returned /\ issues \in Nat /\ totalBytes \in Nat /\ size \in Nat
      /\ imports \in References /\ Len(imports) \in Nat /\ Len(imports) <= MaxImports
      /\ MaxFiles \in Nat /\ MaxDepth \in Nat /\ MaxTotalBytes \in Nat
  <2>1. ImportTypeOK /\ reading # <<>>
    BY DEF ImportInvariant, ReadLoads, Admitted
  <2>2. reading[1] \in Paths
    BY <2>1 DEF ImportTypeOK
  <2>3. imports \in References /\ Len(imports) \in Nat /\ Len(imports) <= MaxImports
    BY ImportAssumption, LenProperties DEF References
  <2>. QED
    BY <2>1, <2>2, <2>3, ImportTypes, ImportAssumption DEF ImportInvariant, Phases, ImportTypeOK
<1>2. PICK n \in Nat, r \in Paths : n = Len(stack) /\ r = reading[1]
  BY <1>1
<1>3. PICK f : f = [path |-> r, imports |-> imports, next |-> 1, position |-> 1]
  OBVIOUS
<1>4. f \in Frames /\ f.path = r /\ f.imports = imports /\ f.next = 1
  BY <1>1, <1>3 DEF Frames
<1>5. PICK node : node = NodeOf(size, imports, "loaded")
  OBVIOUS
<1>6. /\ node \in NodeRecords /\ node.path = r /\ node.size = size /\ node.imports = imports /\ node.depth = n
  BY <1>1, <1>2, <1>5 DEF NodeOf, NodeRecords
<1>7. /\ nodes' = Append(nodes, node) /\ stack' = Append(stack, f) /\ reading' = <<>>
      /\ totalBytes' = totalBytes + size /\ totalBytes' <= MaxTotalBytes
      /\ UNCHANGED <<begun, edges, completed, edgeSlots, halted, returned>>
  BY <1>2, <1>3, <1>5 DEF ReadLoads, Admitted
<1>8. issues' \in Nat /\ (issues' = 0 => issues = 0 /\ Len(imports) <= MaxFanOut)
  <2>1. CASE Len(imports) > MaxFanOut
    BY <1>1, <2>1, IssueIsCounted DEF ReadLoads
  <2>2. CASE ~(Len(imports) > MaxFanOut)
    BY <1>1, <2>2, ImportAssumption DEF ReadLoads
  <2>. QED
    BY <2>1, <2>2
<1>9. /\ nodes' \in Seq(NodeRecords) /\ Len(nodes') = Len(nodes) + 1 /\ nodes'[Len(nodes')] = node
      /\ Len(nodes) \in Nat /\ \A i \in 1 .. Len(nodes) : nodes'[i] = nodes[i]
      /\ NodePaths' = NodePaths \cup {r}
      /\ Total(SizesOf(nodes')) = Total(SizesOf(nodes)) + size
      /\ Total(ReferencesOf(nodes')) = Total(ReferencesOf(nodes)) + Len(imports)
  BY <1>1, <1>6, <1>7, NodeAppended
<1>10. \A i \in 1 .. Len(nodes') : i \in 1 .. Len(nodes) \/ i = Len(nodes')
  BY <1>9
<1>11. /\ stack' \in Seq(Frames) /\ Len(stack') = n + 1 /\ stack'[n + 1] = f
       /\ \A m \in 1 .. n : stack'[m] = stack[m]
  BY <1>1, <1>2, <1>4, <1>7, AppendProperties
<1>12. \A m \in 1 .. n + 1 : m \in 1 .. n \/ m = n + 1
  BY <1>2
<1>13. r \notin NodePaths /\ NodePaths = ActivePaths \cup completed /\ ActivePaths \cap completed = {}
  BY <1>1, <1>2 DEF ImportInvariant, DocumentsOnce
<1>14. /\ ActivePaths = {stack[m].path : m \in 1 .. n} /\ NodePaths = {nodes[i].path : i \in 1 .. Len(nodes)}
       /\ Range(edges) = {edges[i] : i \in 1 .. Len(edges)}
  BY <1>1, <1>2, ImportTypes
<1>15. (\A m \in 1 .. n : stack[m].path # r) /\ (\A i \in 1 .. Len(nodes) : nodes[i].path # r)
  BY <1>13, <1>14
<1>16. ActivePaths' = ActivePaths \cup {r}
  <2>1. PICK l : l = stack'
    OBVIOUS
  <2>2. DOMAIN l = 1 .. n + 1
    BY <1>11, <2>1, LenProperties
  <2>3. n + 1 \in 1 .. n + 1 /\ \A m \in 1 .. n : m \in 1 .. n + 1
    BY <1>2
  <2>4. {g.path : g \in Range(l)} = {l[m].path : m \in 1 .. n + 1}
    BY <2>2 DEF Range
  <2>5. {l[m].path : m \in 1 .. n + 1} = {stack[m].path : m \in 1 .. n} \cup {r}
    BY <1>4, <1>11, <1>12, <2>1, <2>3
  <2>. QED
    BY <1>14, <2>1, <2>4, <2>5 DEF ActivePaths
<1>17. ImportTypeOK'
  BY <1>1, <1>7, <1>8, <1>9, <1>11 DEF ImportTypeOK
<1>18. Phases'
  <2>1. stack' # <<>>
    BY <1>2, <1>11
  <2>. QED
    BY <1>1, <1>7, <2>1 DEF Phases
<1>19. DocumentsOnce'
  <2>1. NodePaths' = ActivePaths' \cup completed' /\ ActivePaths' \cap completed' = {}
    BY <1>7, <1>9, <1>13, <1>16
  <2>2. \A j, k \in 1 .. Len(stack') : stack'[j].path = stack'[k].path => j = k
    <3>1. \A j, k \in 1 .. n : stack[j].path = stack[k].path => j = k
      BY <1>2 DEF ImportInvariant, DocumentsOnce
    <3>. QED
      BY <1>4, <1>11, <1>12, <1>15, <3>1
  <2>3. \A i, j \in 1 .. Len(nodes') : nodes'[i].path = nodes'[j].path => i = j
    <3>1. \A i, j \in 1 .. Len(nodes) : nodes[i].path = nodes[j].path => i = j
      BY DEF ImportInvariant, DocumentsOnce
    <3>. QED
      BY <1>6, <1>9, <1>10, <1>15, <3>1
  <2>4. EntryPath \in NodePaths'
    <3>1. CASE nodes # <<>>
      BY <1>9, <3>1 DEF ImportInvariant, DocumentsOnce
    <3>2. CASE nodes = <<>>
      <4>1. NodePaths = {} /\ ActivePaths = {}
        BY <1>13, <3>2, EmptyLists DEF NodePaths
      <4>2. ASSUME 1 \in 1 .. n PROVE FALSE
        <5>1. stack[1].path \in {stack[m].path : m \in 1 .. n}
          BY <4>2
        <5>. QED
          BY <1>14, <4>1, <5>1
      <4>3. Len(stack) = 0
        BY <1>2, <4>2
      <4>4. stack = <<>>
        BY <1>1, <4>3, EmptySeq
      <4>. QED
        BY <1>1, <1>2, <1>9, <4>4 DEF ImportInvariant, Phases
    <3>. QED
      BY <3>1, <3>2
  <2>. QED
    BY <1>7, <2>1, <2>2, <2>3, <2>4 DEF DocumentsOnce
<1>20. ASSUME NEW m \in 1 .. n
       PROVE  Waiting(m) /\ Waiting(m)' /\ Child(m)' = Child(m) /\ m \in 1 .. Len(stack)
  <2>1. m < n + 1 /\ m \in Nat /\ (m < n => m + 1 \in 1 .. n) /\ (~(m < n) => m = n)
    BY <1>2
  <2>2. Waiting(m) /\ Waiting(m)' /\ m \in 1 .. Len(stack)
    BY <1>1, <1>2, <1>11, <2>1 DEF Waiting
  <2>3. Child(m)' = stack'[m + 1].path /\ Child(m) = IF m < n THEN stack[m + 1].path ELSE r
    BY <1>2, <1>11, <2>1 DEF Child
  <2>4. CASE m < n
    BY <1>11, <2>1, <2>2, <2>3, <2>4
  <2>5. CASE ~(m < n)
    BY <1>4, <1>11, <2>1, <2>2, <2>3, <2>5
  <2>. QED
    BY <2>4, <2>5
<1>21. ~Waiting(n + 1)' /\ n + 1 \in 1 .. Len(stack') /\ n + 1 \in Nat
  BY <1>2, <1>7, <1>11 DEF Waiting
<1>22. Descents'
  <2>1. \A m \in 1 .. n :
          /\ Len(stack[m].imports) <= MaxImports /\ stack[m].next <= Len(stack[m].imports) + 1
          /\ stack[m].next <= Len(stack[m].imports) /\ stack[m].imports[stack[m].next] = Child(m)'
          /\ \A i \in 1 .. Len(nodes) : nodes[i].path = stack[m].path => nodes[i].imports = stack[m].imports
    BY <1>20 DEF ImportInvariant, Descents
  <2>2. \A i \in 1 .. Len(nodes') : nodes'[i].path = r => nodes'[i].imports = imports
    BY <1>6, <1>9, <1>10, <1>15
  <2>3. ASSUME NEW m \in 1 .. n, NEW i \in 1 .. Len(nodes'), nodes'[i].path = stack[m].path
        PROVE  nodes'[i].imports = stack[m].imports
    BY <1>6, <1>9, <1>10, <1>15, <2>1, <2>3, SMTT(30)
  <2> SUFFICES ASSUME NEW m \in 1 .. Len(stack')
               PROVE  /\ Len(stack'[m].imports) <= MaxImports
                      /\ stack'[m].next <= Len(stack'[m].imports) + 1
                      /\ Waiting(m)' => /\ stack'[m].next <= Len(stack'[m].imports)
                                        /\ stack'[m].imports[stack'[m].next] = Child(m)'
                      /\ \A i \in 1 .. Len(nodes') : nodes'[i].path = stack'[m].path => nodes'[i].imports = stack'[m].imports
    BY DEF Descents
  <2>4. CASE m \in 1 .. n
    BY <1>11, <2>1, <2>3, <2>4, SMTT(30)
  <2>5. CASE m = n + 1
    BY <1>1, <1>4, <1>11, <1>21, <2>2, <2>5
  <2>. QED
    BY <1>11, <1>12, <2>4, <2>5
<1>23. WithinLimits'
  <2>1. Pending = n /\ Pending' = n
    BY <1>1, <1>2, <1>7, <1>11, SMTT(30) DEF Pending
  <2>2. n <= MaxDepth /\ Len(nodes) < MaxFiles /\ Total(SizesOf(nodes)) = totalBytes
        /\ edgeSlots = Len(edges) + Pending /\ edgeSlots <= MaxEdges
        /\ \A i \in 1 .. Len(nodes) : nodes[i].depth <= MaxDepth
    BY <1>1, <1>2 DEF ImportInvariant, WithinLimits
  <2>3. Len(stack') <= MaxDepth + 1 /\ Len(nodes') <= MaxFiles
    BY <1>1, <1>2, <1>9, <1>11, <2>2
  <2>4. \A i \in 1 .. Len(nodes') : nodes'[i].depth <= MaxDepth
    BY <1>6, <1>9, <1>10, <2>2
  <2>. QED
    BY <1>7, <1>9, <2>1, <2>2, <2>3, <2>4 DEF WithinLimits
<1>24. ReferencesCounted'
  <2>1. PICK old, new : old = Lefts(stack, reading) /\ new = Lefts(stack', reading')
    OBVIOUS
  <2>2. /\ old \in Seq(Nat) /\ Len(old) = n /\ (\A m \in 1 .. n : old[m] = LeftOf(stack, reading, m))
        /\ new \in Seq(Nat) /\ Len(new) = n + 1 /\ (\A m \in 1 .. n + 1 : new[m] = LeftOf(stack', reading', m))
        /\ Total(old) \in Nat
    BY <1>2, <1>11, <1>22, <2>1, LeftsBeforeAndAfter
  <2>3. \A m \in 1 .. n : new[m] = old[m]
    <3>1. \A m \in 1 .. n : m < n + 1 /\ m \in 1 .. n + 1
      BY <1>2
    <3>2. \A m \in 1 .. n : LeftOf(stack', reading', m) = LeftOf(stack, reading, m)
      BY <1>1, <1>11, <3>1 DEF LeftOf
    <3>. QED
      BY <2>2, <3>1, <3>2
  <2>4. new[n + 1] = Len(imports)
    <3>1. LeftOf(stack', reading', n + 1) = Len(imports) - (1 - 1)
      BY <1>2, <1>4, <1>7, <1>11 DEF LeftOf
    <3>. QED
      BY <1>1, <1>11, <1>21, <2>2, <3>1
  <2>5. Total(new) = Total(old) + Len(imports)
    BY <2>2, <2>3, <2>4, TotalOfLonger
  <2>6. Total(ReferencesOf(nodes)) = edgeSlots + Total(old) /\ edgeSlots \in Nat
    BY <1>1, <2>1 DEF ImportInvariant, ReferencesCounted, ImportTypeOK
  <2>7. Total(ReferencesOf(nodes')) = edgeSlots' + Total(new)
    BY <1>1, <1>7, <1>9, <2>2, <2>5, <2>6
  <2>. QED
    BY <1>1, <1>7, <2>1, <2>7 DEF ReferencesCounted
<1>25. EdgesOfDocuments'
  <2>1. \A e \in Range(edges) : Relationship(e)'
    <3>1. NodePaths \subseteq NodePaths'
      BY <1>9
    <3>2. \A e : Relationship(e) => Relationship(e)'
      BY <3>1, Zenon DEF Relationship
    <3>. QED
      BY <3>2 DEF ImportInvariant, EdgesOfDocuments
  <2>2. \A i \in 1 .. Len(edges) : edges[i].from # r
    BY <1>13, <1>14 DEF ImportInvariant, EdgesOfDocuments, Relationship
  <2>3. \A k \in 1 .. Len(stack'), i \in 1 .. Len(edges) : edges[i].from = stack'[k].path => edges[i].index < stack'[k].next
    <3>1. \A k \in 1 .. n, i \in 1 .. Len(edges) : edges[i].from = stack[k].path => edges[i].index < stack[k].next
      BY <1>2 DEF ImportInvariant, EdgesOfDocuments
    <3>. QED
      BY <1>4, <1>11, <1>12, <2>2, <3>1
  <2>4. /\ \A i \in 1 .. Len(edges) : edges[i].state \in Reuses => edges[i].path \in completed
        /\ \A i, j \in 1 .. Len(edges) : edges[i].from = edges[j].from /\ i < j => edges[i].index < edges[j].index
    BY DEF ImportInvariant, EdgesOfDocuments
  <2>. QED
    BY <1>7, <2>1, <2>3, <2>4 DEF EdgesOfDocuments
<1>26. CompletedIsAcyclic'
  BY <1>7, StaysAcyclic DEF ImportInvariant
<1>27. Nested'
  <2>1. ASSUME NEW k \in 1 .. n
        PROVE  /\ stack'[k].position <= Len(edges) + 1
               /\ \A m \in 1 .. k : stack'[m].position <= stack'[k].position
               /\ \A j \in 1 .. Len(edges) : edges[j].from = stack'[k].path => j < stack'[k].position
               /\ \A i, j \in 1 .. Len(edges) :
                    edges[i].from = stack'[k].path /\ edges[i].state = "loaded" /\ edges[j].from = edges[i].path
                      => j < stack'[k].position
               /\ \A j \in 1 .. Len(edges) : edges[j].from = Child(k)' => stack'[k].position <= j
    <3>1. \A m \in 1 .. k : m \in 1 .. n
      BY <1>2
    <3>2. stack'[k] = stack[k] /\ \A m \in 1 .. k : stack'[m] = stack[m]
      BY <1>11, <3>1
    <3>3. k \in 1 .. Len(stack) /\ Waiting(k) /\ Child(k)' = Child(k)
      BY <1>20
    <3>. QED
      BY <3>2, <3>3 DEF ImportInvariant, Nested
  <2>2. \A k \in 1 .. Len(stack') : Waiting(k)' => k \in 1 .. n
    BY <1>11, <1>12, <1>21
  <2>3. \A i, j \in 1 .. Len(edges) : edges[i].state = "loaded" /\ edges[j].from = edges[i].path =>
          i < j /\ \A k \in 1 .. Len(edges) : edges[k].from = edges[i].from /\ i < k => j < k
    BY DEF ImportInvariant, Nested
  <2>. QED
    BY <1>7, <2>1, <2>2, <2>3, SMTT(30) DEF Nested
<1>28. NothingMissed'
  <2> SUFFICES ASSUME issues' = 0 PROVE NothingMissed'
    BY DEF NothingMissed
  <2>1. issues = 0 /\ Len(imports) <= MaxFanOut
    BY <1>8
  <2>2. \A k \in 1 .. n :
          /\ Len(stack[k].imports) <= MaxFanOut
          /\ \A i \in 1 .. Len(stack[k].imports) : i < stack[k].next => Covered(edges, stack[k].path, stack[k].imports, i)
    BY <1>2, <2>1 DEF ImportInvariant, NothingMissed
  <2>3. \A i \in 1 .. Len(imports) : ~(i < 1)
    BY <1>1
  <2>4. \A k \in 1 .. Len(stack') :
          /\ Len(stack'[k].imports) <= MaxFanOut
          /\ \A i \in 1 .. Len(stack'[k].imports) : i < stack'[k].next => Covered(edges, stack'[k].path, stack'[k].imports, i)
    BY <1>4, <1>11, <1>12, <2>1, <2>2, <2>3
  <2>5. \A x \in 1 .. Len(nodes') : nodes'[x].path \in completed =>
          \A i \in 1 .. Len(nodes'[x].imports) : Covered(edges, nodes'[x].path, nodes'[x].imports, i)
    <3>1. r \notin completed
      BY <1>13
    <3>2. \A x \in 1 .. Len(nodes) : nodes[x].path \in completed =>
            \A i \in 1 .. Len(nodes[x].imports) : Covered(edges, nodes[x].path, nodes[x].imports, i)
      BY <2>1 DEF ImportInvariant, NothingMissed
    <3>. QED
      BY <1>6, <1>9, <1>10, <3>1, <3>2
  <2>. QED
    BY <1>7, <2>4, <2>5 DEF NothingMissed
<1>. QED
  BY <1>17, <1>18, <1>19, <1>22, <1>23, <1>24, <1>25, <1>26, <1>27, <1>28 DEF ImportInvariant

(* No more edges: what is left stays within what the import DAG admits. *)
LEMMA EdgeLimitKeepsInvariant ==
  ASSUME ImportInvariant, EdgeLimit
  PROVE  ImportInvariant'
<1>1. /\ ImportTypeOK /\ reading = <<>> /\ stack # <<>> /\ ~returned /\ ~halted /\ issues \in Nat /\ begun
      /\ halted' = TRUE /\ issues' \in Nat \ {0}
      /\ UNCHANGED <<begun, reading, stack, nodes, edges, completed, edgeSlots, totalBytes, returned>>
  BY IssueIsCounted DEF ImportInvariant, ImportTypeOK, Phases, EdgeLimit, Expanding, HasReference
<1>2. ImportTypeOK'
  BY <1>1 DEF ImportTypeOK
<1>3. Phases'
  BY <1>1 DEF Phases
<1>4. NodePaths' = NodePaths /\ ActivePaths' = ActivePaths
  BY <1>1, Zenon DEF NodePaths, ActivePaths
<1>5. DocumentsOnce'
  BY <1>1, <1>4 DEF ImportInvariant, DocumentsOnce
<1>6. \A k : (Waiting(k)' <=> Waiting(k)) /\ Child(k)' = Child(k)
  BY <1>1 DEF Waiting, Child
<1>7. Descents'
  BY <1>1, <1>6 DEF ImportInvariant, Descents
<1>8. WithinLimits'
  BY <1>1 DEF ImportInvariant, WithinLimits, Pending
<1>9. ReferencesCounted'
  <2>1. stack' \in Seq(Frames)
    BY <1>2 DEF ImportTypeOK
  <2>2. PICK left : left = Lefts(stack, reading)
    OBVIOUS
  <2>3. /\ left \in Seq(Nat) /\ Len(left) = Len(stack) /\ Total(left) \in Nat
        /\ \A k \in 1 .. Len(left) : left[k] \in 0 .. MaxImports
    BY <1>7, <2>1, <2>2, LeftsBeforeAndAfter
  <2>4. MaxImports \in Nat /\ MaxDepth \in Nat /\ MaxEdges \in Nat /\ MaxReferences \in Nat
        /\ MaxReferences >= MaxEdges + (MaxDepth + 1) * MaxImports
    BY ImportAssumption
  <2>5. \A k \in 1 .. Len(left) : left[k] <= MaxImports
    BY <2>3, <2>4
  <2>6. Total(left) <= Len(left) * MaxImports
    BY <2>3, <2>4, <2>5, TotalIsBounded
  <2>7. Len(left) \in Nat /\ Len(left) <= MaxDepth + 1 /\ edgeSlots \in Nat /\ edgeSlots <= MaxEdges
    BY <1>1, <2>3, LenProperties DEF ImportInvariant, WithinLimits, ImportTypeOK
  <2>8. \A a, b, c \in Nat : a <= b => a * c <= b * c
    OBVIOUS
  <2>9. Len(left) * MaxImports <= (MaxDepth + 1) * MaxImports
    BY <2>4, <2>7, <2>8
  <2>10. PICK x \in Nat, y \in Nat : x = Len(left) * MaxImports /\ y = (MaxDepth + 1) * MaxImports
    BY <2>4, <2>7
  <2>11. Total(ReferencesOf(nodes)) = edgeSlots + Total(left)
    BY <1>1, <2>2 DEF ImportInvariant, ReferencesCounted
  <2>12. Total(ReferencesOf(nodes)) <= MaxReferences
    BY <2>3, <2>4, <2>6, <2>7, <2>9, <2>10, <2>11
  <2>. QED
    BY <1>1, <2>12 DEF ReferencesCounted
<1>10. EdgesOfDocuments'
  <2>1. \A e : Relationship(e) => Relationship(e)'
    BY <1>4, Zenon DEF Relationship
  <2>2. \A e \in Range(edges) : Relationship(e)'
    BY <2>1 DEF ImportInvariant, EdgesOfDocuments
  <2>. QED
    BY <1>1, <2>2 DEF ImportInvariant, EdgesOfDocuments
<1>11. CompletedIsAcyclic'
  <2>1. edges' = edges /\ completed' = completed /\ CompletedIsAcyclic
    BY <1>1 DEF ImportInvariant
  <2>. QED
    BY <2>1, StaysAcyclic
<1>12. Nested'
  BY <1>1, <1>6 DEF ImportInvariant, Nested
<1>13. NothingMissed'
  BY <1>1 DEF NothingMissed
<1>. QED
  BY <1>2, <1>3, <1>5, <1>7, <1>8, <1>9, <1>10, <1>11, <1>12, <1>13 DEF ImportInvariant

(* A descent begins: the top frame notes the place of its edge and waits. *)
LEMMA DescentKeepsInvariant ==
  ASSUME ImportInvariant, Expanding, HasReference, edgeSlots < MaxEdges, edgeSlots' = edgeSlots + 1,
         Decision(Top.imports[Top.next]) = "visit", reading' = <<Top.imports[Top.next]>>,
         stack' = Append(Under, [Top EXCEPT !.position = Len(edges) + 1]),
         UNCHANGED <<begun, nodes, edges, issues, completed, halted, totalBytes, returned>>
  PROVE  ImportInvariant'
<1>1. /\ ImportTypeOK /\ Len(stack) \in Nat \ {0} /\ stack \in Seq(Frames) /\ Len(edges) \in Nat
      /\ reading = <<>> /\ ~returned /\ ~halted /\ edgeSlots \in Nat /\ Len(nodes) \in Nat /\ begun
      /\ \A m \in 1 .. Len(stack) : stack[m] \in Frames /\ Len(stack[m].imports) \in Nat
      /\ MaxEdges \in Nat /\ MaxDepth \in Nat /\ MaxFiles \in Nat
  BY ImportTypes, ImportAssumption DEF ImportInvariant, ImportTypeOK, Expanding, HasReference, Phases
<1>2. PICK n \in Nat : n = Len(stack) /\ n # 0
  BY <1>1
<1>3. PICK q \in Nat : q = n - 1
  BY <1>2, SMTT(30)
<1>4. PICK c, r : c = stack[n] /\ r = c.imports[c.next]
  OBVIOUS
<1>5. /\ c \in Frames /\ Top = c /\ n \in 1 .. n /\ n \in 1 .. Len(stack) /\ c.next \in 1 .. Len(c.imports)
      /\ r \in Paths \cup {Unresolved} /\ c.next \in Nat /\ Len(c.imports) \in Nat
  <2>1. c \in Frames /\ Top = c /\ n \in 1 .. n /\ n \in 1 .. Len(stack) /\ Len(c.imports) \in Nat
    BY <1>1, <1>2, <1>4 DEF Top
  <2>2. c.next \in 1 .. Len(c.imports) /\ c.imports \in References
    BY <2>1 DEF HasReference, Frames
  <2>3. c.imports[c.next] \in Paths \cup {Unresolved}
    BY <2>2, ElementOfSeq DEF References
  <2>. QED
    BY <1>4, <2>1, <2>2, <2>3
<1>6. r \notin ActivePaths /\ r \notin completed /\ n - 1 < MaxDepth /\ Len(nodes) < MaxFiles /\ r \in Paths
  <2>1. Decision(r) = "visit"
    BY <1>4, <1>5
  <2>2. /\ r # Unresolved /\ r \notin ActivePaths /\ r \notin completed
        /\ ~(Len(stack) - 1 >= MaxDepth) /\ ~(Len(nodes) >= MaxFiles)
    BY <2>1 DEF Decision
  <2>. QED
    BY <1>1, <1>2, <1>5, <2>2
<1>7. PICK f : f = [c EXCEPT !.position = Len(edges) + 1]
  OBVIOUS
<1>8. /\ f \in Frames /\ f.path = c.path /\ f.imports = c.imports /\ f.next = c.next
      /\ f.position = Len(edges) + 1
  <2>1. PICK p \in Nat \ {0} : p = Len(edges) + 1
    BY <1>1
  <2>2. c \in [path : Paths, imports : References, next : Nat \ {0}, position : Nat \ {0}]
    BY <1>5 DEF Frames
  <2>3. f = [c EXCEPT !.position = p]
    BY <1>7, <2>1
  <2>4. f \in Frames
    BY <2>1, <2>2, <2>3 DEF Frames
  <2>5. f.path = c.path /\ f.imports = c.imports /\ f.next = c.next /\ f.position = p
    BY <2>2, <2>3
  <2>. QED
    BY <2>1, <2>4, <2>5
<1>9. Under \in Seq(Frames) /\ Len(Under) = q /\ \A m \in 1 .. q : Under[m] = stack[m]
  <2>1. Under = SubSeq(stack, 1, q) /\ \A m \in 1 .. q : stack[m] \in Frames
    BY <1>1, <1>2, <1>3 DEF Under, Front
  <2>2. /\ SubSeq(stack, 1, q) \in Seq(Frames) /\ Len(SubSeq(stack, 1, q)) = (IF 1 <= q THEN q - 1 + 1 ELSE 0)
        /\ \A m \in 1 .. q - 1 + 1 : SubSeq(stack, 1, q)[m] = stack[1 + m - 1]
    BY <1>1, <2>1, SubSeqProperties
  <2>. QED
    BY <2>1, <2>2
<1>10. /\ stack' \in Seq(Frames) /\ Len(stack') = n /\ stack'[n] = f /\ (\A m \in 1 .. q : stack'[m] = stack[m])
       /\ reading' = <<r>> /\ reading' # <<>> /\ reading'[1] = r
  <2>1. /\ Append(Under, f) \in Seq(Frames) /\ Len(Append(Under, f)) = q + 1
        /\ Append(Under, f)[q + 1] = f /\ \A m \in 1 .. q : Append(Under, f)[m] = Under[m]
    BY <1>8, <1>9, AppendProperties
  <2>2. q + 1 = n
    BY <1>2, <1>3
  <2>. QED
    BY <1>4, <1>5, <1>7, <1>9, <2>1, <2>2
<1>11. \A m \in 1 .. n : (m \in 1 .. q /\ m < n) \/ m = n
  BY <1>2, <1>3
<1>12. \A m \in 1 .. n : /\ stack'[m].path = stack[m].path /\ stack'[m].imports = stack[m].imports
                         /\ stack'[m].next = stack[m].next
  BY <1>4, <1>8, <1>10, <1>11
<1>13. /\ ActivePaths = {stack[m].path : m \in 1 .. n} /\ NodePaths' = NodePaths
       /\ Range(edges) = {edges[i] : i \in 1 .. Len(edges)}
  <2>1. NodePaths' = NodePaths
    BY Zenon DEF NodePaths
  <2>. QED
    BY <1>1, <1>2, <2>1, ImportTypes
<1>14. ActivePaths' = ActivePaths
  <2>1. PICK l : l = stack'
    OBVIOUS
  <2>2. DOMAIN l = 1 .. n
    BY <1>10, <2>1, LenProperties
  <2>3. {g.path : g \in Range(l)} = {l[m].path : m \in 1 .. n}
    BY <2>2 DEF Range
  <2>4. {l[m].path : m \in 1 .. n} = {stack[m].path : m \in 1 .. n}
    BY <1>12, <2>1
  <2>. QED
    BY <1>13, <2>1, <2>3, <2>4 DEF ActivePaths
<1>15. ImportTypeOK'
  <2>1. edgeSlots' \in Nat /\ reading' \in {<<>>} \cup {<<p>> : p \in Paths}
    BY <1>1, <1>6, <1>10
  <2>. QED
    BY <1>1, <1>10, <2>1 DEF ImportTypeOK
<1>16. stack' # <<>>
  BY <1>2, <1>10
<1>17. Phases'
  BY <1>1, <1>16 DEF Phases
<1>18. r \notin NodePaths
  BY <1>6 DEF ImportInvariant, DocumentsOnce
<1>19. DocumentsOnce'
  <2>1. \A j, k \in 1 .. n : stack[j].path = stack[k].path => j = k
    BY <1>2 DEF ImportInvariant, DocumentsOnce
  <2>2. \A j, k \in 1 .. Len(stack') : stack'[j].path = stack'[k].path => j = k
    BY <1>10, <1>12, <2>1
  <2>. QED
    BY <1>10, <1>13, <1>14, <1>18, <2>2 DEF ImportInvariant, DocumentsOnce
<1>20. ASSUME NEW m \in 1 .. q PROVE Waiting(m) /\ Child(m)' = Child(m) /\ m \in 1 .. Len(stack) /\ m \in 1 .. n
  <2>1. m < n /\ m \in 1 .. n /\ m + 1 \in 1 .. n
    BY <1>2, <1>3
  <2>2. Child(m) = stack[m + 1].path /\ Child(m)' = stack'[m + 1].path
    BY <1>2, <1>10, <2>1 DEF Child
  <2>. QED
    BY <1>2, <1>12, <2>1, <2>2 DEF Waiting
<1>21. Child(n)' = r /\ Waiting(n)'
  BY <1>2, <1>10 DEF Child, Waiting
<1>22. Descents'
  <2>1. \A m \in 1 .. n :
          /\ Len(stack[m].imports) <= MaxImports /\ stack[m].next <= Len(stack[m].imports) + 1
          /\ \A i \in 1 .. Len(nodes) : nodes[i].path = stack[m].path => nodes[i].imports = stack[m].imports
    BY <1>2 DEF ImportInvariant, Descents
  <2>2. \A m \in 1 .. q : stack[m].next <= Len(stack[m].imports) /\ stack[m].imports[stack[m].next] = Child(m)'
    BY <1>20 DEF ImportInvariant, Descents
  <2>3. \A m \in 1 .. n : stack[m].next <= Len(stack[m].imports) /\ stack[m].imports[stack[m].next] = Child(m)'
    <3>1. stack[n].next <= Len(stack[n].imports) /\ stack[n].imports[stack[n].next] = Child(n)'
      BY <1>4, <1>5, <1>21
    <3>. QED
      BY <1>11, <2>2, <3>1
  <2>. QED
    <3> SUFFICES ASSUME NEW m \in 1 .. n
                 PROVE  /\ Len(stack'[m].imports) <= MaxImports
                        /\ stack'[m].next <= Len(stack'[m].imports) + 1
                        /\ stack'[m].next <= Len(stack'[m].imports)
                        /\ stack'[m].imports[stack'[m].next] = Child(m)'
                        /\ \A i \in 1 .. Len(nodes) : nodes[i].path = stack'[m].path => nodes[i].imports = stack'[m].imports
      BY <1>10 DEF Descents
    <3>. QED
      BY <1>12, <2>1, <2>3
<1>23. WithinLimits'
  <2>1. Pending = n - 1 /\ Pending' = n
    BY <1>1, <1>2, <1>10, <1>16 DEF Pending
  <2>2. edgeSlots = Len(edges) + Pending /\ edgeSlots <= MaxEdges
    BY DEF ImportInvariant, WithinLimits
  <2>3. edgeSlots' = Len(edges) + n /\ edgeSlots' <= MaxEdges /\ n <= MaxDepth /\ n <= MaxDepth + 1
    BY <1>1, <1>2, <1>6, <2>1, <2>2, SMTT(30)
  <2>. QED
    BY <1>6, <1>10, <2>1, <2>3 DEF ImportInvariant, WithinLimits
<1>24. ReferencesCounted'
  <2>1. PICK old, new : old = Lefts(stack, reading) /\ new = Lefts(stack', reading')
    OBVIOUS
  <2>2. /\ old \in Seq(Nat) /\ Len(old) = n /\ (\A m \in 1 .. n : old[m] = LeftOf(stack, reading, m))
        /\ new \in Seq(Nat) /\ Len(new) = n /\ (\A m \in 1 .. n : new[m] = LeftOf(stack', reading', m))
        /\ Total(old) \in Nat /\ Total(new) \in Nat
    BY <1>2, <1>10, <1>22, <2>1, LeftsBeforeAndAfter
  <2>3. \A m \in 1 .. n - 1 : new[m] = old[m]
    <3>1. \A m \in 1 .. n - 1 : m < n /\ m \in 1 .. n
      BY <1>2
    <3>2. \A m \in 1 .. n - 1 : LeftOf(stack', reading', m) = LeftOf(stack, reading, m)
      BY <1>2, <1>10, <1>12, <3>1 DEF LeftOf
    <3>. QED
      BY <2>2, <3>1, <3>2
  <2>4. new[n] = Len(c.imports) - c.next
    BY <1>4, <1>5, <1>10, <1>12, <2>2 DEF LeftOf
  <2>5. old[n] = Len(c.imports) - (c.next - 1)
    BY <1>1, <1>2, <1>4, <1>5, <2>2 DEF LeftOf
  <2>6. Total(new) + old[n] = Total(old) + new[n]
    BY <1>2, <2>2, <2>3, TotalOfLast
  <2>7. Total(new) + 1 = Total(old)
    <3>1. PICK a \in Nat, b \in Nat : a = Len(c.imports) /\ b = c.next
      BY <1>5
    <3>2. PICK x \in Nat, y \in Nat : x = Total(new) /\ y = Total(old)
      BY <2>2
    <3>3. x + (a - (b - 1)) = y + (a - b)
      BY <2>4, <2>5, <2>6, <3>1, <3>2
    <3>. QED
      BY <3>2, <3>3
  <2>8. Total(ReferencesOf(nodes)) = edgeSlots + Total(old)
    BY <1>1, <2>1 DEF ImportInvariant, ReferencesCounted
  <2>9. Total(ReferencesOf(nodes')) = edgeSlots' + Total(new)
    BY <1>1, <2>2, <2>7, <2>8
  <2>. QED
    BY <1>1, <2>1, <2>9 DEF ReferencesCounted
<1>25. EdgesOfDocuments'
  <2>1. \A e : Relationship(e) => Relationship(e)'
    BY <1>13, Zenon DEF Relationship
  <2>2. \A e \in Range(edges) : Relationship(e)'
    BY <2>1 DEF ImportInvariant, EdgesOfDocuments
  <2>3. \A k \in 1 .. Len(stack'), i \in 1 .. Len(edges) : edges[i].from = stack'[k].path => edges[i].index < stack'[k].next
    <3>1. \A k \in 1 .. n, i \in 1 .. Len(edges) : edges[i].from = stack[k].path => edges[i].index < stack[k].next
      BY <1>2 DEF ImportInvariant, EdgesOfDocuments
    <3>2. \A k \in 1 .. Len(stack') : k \in 1 .. n /\ stack'[k].path = stack[k].path /\ stack'[k].next = stack[k].next
      BY <1>10, <1>12
    <3>. QED
      BY <3>1, <3>2
  <2>4. /\ \A i \in 1 .. Len(edges) : edges[i].state \in Reuses => edges[i].path \in completed
        /\ \A i, j \in 1 .. Len(edges) : edges[i].from = edges[j].from /\ i < j => edges[i].index < edges[j].index
    BY DEF ImportInvariant, EdgesOfDocuments
  <2>. QED
    BY <2>2, <2>3, <2>4 DEF EdgesOfDocuments
<1>26. CompletedIsAcyclic'
  <2>1. edges' = edges /\ completed' = completed /\ CompletedIsAcyclic
    BY DEF ImportInvariant
  <2>. QED
    BY <2>1, StaysAcyclic
<1>27. Nested'
  <2>1. \A i, j \in 1 .. Len(edges) : edges[i].state = "loaded" /\ edges[j].from = edges[i].path =>
          i < j /\ \A k \in 1 .. Len(edges) : edges[k].from = edges[i].from /\ i < k => j < k
    BY DEF ImportInvariant, Nested
  <2>2. \A m \in 1 .. n : stack[m].position \in Nat /\ stack'[m].position \in Nat
    <3>1. \A m \in 1 .. n : stack[m] \in Frames /\ stack'[m] \in Frames
      BY <1>1, <1>2, <1>10, ElementOfSeq
    <3>. QED
      BY <3>1 DEF Frames
  <2>3. \A k \in 1 .. q : stack[k].position <= Len(edges) + 1
    BY <1>20 DEF ImportInvariant, Nested
  <2>4. \A j \in 1 .. Len(edges) : j < Len(edges) + 1
    BY <1>1
  <2>5. \A j \in 1 .. Len(edges) : edges[j].from # r
    BY <1>13, <1>18 DEF ImportInvariant, EdgesOfDocuments, Relationship
  <2>6. ASSUME NEW k \in 1 .. n
        PROVE  /\ stack'[k].position <= Len(edges) + 1
               /\ \A m \in 1 .. k : stack'[m].position <= stack'[k].position
               /\ \A j \in 1 .. Len(edges) : edges[j].from = stack'[k].path => j < stack'[k].position
               /\ \A i, j \in 1 .. Len(edges) :
                    edges[i].from = stack'[k].path /\ edges[i].state = "loaded" /\ edges[j].from = edges[i].path
                      => j < stack'[k].position
               /\ \A j \in 1 .. Len(edges) : edges[j].from = Child(k)' => stack'[k].position <= j
    <3>1. CASE k = n
      <4>1. \A m \in 1 .. n : stack'[m].position <= Len(edges) + 1
        <5>1. stack'[n].position <= Len(edges) + 1
          BY <1>1, <1>8, <1>10
        <5>. QED
          BY <1>10, <1>11, <2>3, <5>1
      <4>. QED
        BY <1>1, <1>8, <1>10, <1>21, <2>4, <2>5, <3>1, <4>1
    <3>2. CASE k \in 1 .. q
      <4>1. \A m \in 1 .. k : m \in 1 .. q
        BY <1>3, <3>2
      <4>2. stack'[k] = stack[k] /\ \A m \in 1 .. k : stack'[m] = stack[m]
        BY <1>10, <3>2, <4>1
      <4>3. k \in 1 .. Len(stack) /\ Waiting(k) /\ Child(k)' = Child(k)
        BY <1>20, <3>2
      <4>. QED
        BY <4>2, <4>3 DEF ImportInvariant, Nested
    <3>. QED
      BY <1>11, <3>1, <3>2
  <2>7. edges' = edges /\ 1 .. Len(stack') = 1 .. n
    BY <1>10
  <2>. QED
    BY <2>1, <2>6, <2>7, ZenonT(60) DEF Nested
<1>28. NothingMissed'
  BY <1>2, <1>10, <1>12, SMTT(30) DEF ImportInvariant, NothingMissed
<1>. QED
  BY <1>15, <1>17, <1>19, <1>22, <1>23, <1>24, <1>25, <1>26, <1>27, <1>28 DEF ImportInvariant

LEMMA TakingKeepsInvariant ==
  ASSUME ImportInvariant, TakeReference
  PROVE  ImportInvariant'
<1>1. PICK path : path = Top.imports[Top.next]
  OBVIOUS
<1>2. /\ Expanding /\ HasReference /\ edgeSlots < MaxEdges /\ edgeSlots' = edgeSlots + 1
      /\ reading = <<>> /\ stack # <<>> /\ issues \in Nat
  BY DEF TakeReference, Expanding, ImportInvariant, ImportTypeOK
<1>3. path \in Paths \cup {Unresolved}
  <2>1. Top \in Frames /\ Len(Top.imports) \in Nat
    BY <1>2, ImportTypes DEF ImportInvariant, Top
  <2>2. Top.imports \in References /\ Top.next \in 1 .. Len(Top.imports)
    BY <1>2, <2>1 DEF HasReference, Frames
  <2>. QED
    BY <1>1, <2>2, ElementOfSeq DEF References
<1>4. Unresolved \notin Paths
  BY ImportAssumption
<1>5. ActivePaths \subseteq NodePaths /\ completed \subseteq NodePaths
  BY DEF ImportInvariant, DocumentsOnce
<1>6. CASE Decision(path) = "already-loaded" /\ SettleReference("already-loaded", path, <<path>>) /\ UNCHANGED issues
  <2>1. path # Unresolved /\ path \in completed
    BY <1>6 DEF Decision
  <2>2. path \in Paths /\ path \in NodePaths /\ "already-loaded" \in EdgeStates \ {"loaded"}
    BY <1>3, <1>5, <2>1 DEF EdgeStates, Reuses
  <2>3. <<path>> \in {<<>>} \cup {<<p>> : p \in Paths} /\ issues' \in Nat /\ issues' = issues
    BY <1>2, <1>6, <2>2
  <2>. QED
    BY <1>1, <1>2, <1>3, <1>6, <2>1, <2>2, <2>3, SettledKeepsInvariant
<1>7. CASE /\ Decision(path) \in {"rejected", "cycle", "limit-exceeded"}
           /\ SettleReference(Decision(path), path, IF Decision(path) = "cycle" THEN <<path>> ELSE <<>>)
           /\ AddIssue
  <2>1. PICK state, target : state = Decision(path) /\ target = IF Decision(path) = "cycle" THEN <<path>> ELSE <<>>
    OBVIOUS
  <2>2. issues' \in Nat \ {0}
    BY <1>2, <1>7, IssueIsCounted
  <2>4. state \in EdgeStates \ {"loaded"} /\ state # "already-loaded"
    BY <1>7, <2>1 DEF EdgeStates, Reuses
  <2>5. state = "cycle" => path # Unresolved /\ path \in ActivePaths
    BY <2>1 DEF Decision
  <2>6. state = "cycle" => path \in NodePaths /\ path \in Paths
    BY <1>3, <1>5, <2>5
  <2>7. target \in {<<>>} \cup {<<p>> : p \in Paths} /\ SettleReference(state, path, target)
    BY <1>7, <2>1, <2>6
  <2>8. IF state \in {"already-loaded", "cycle"} THEN target = <<path>> /\ path \in NodePaths ELSE target = <<>>
    BY <2>1, <2>4, <2>6
  <2>. QED
    BY <1>2, <1>3, <2>2, <2>4, <2>7, <2>8, SettledKeepsInvariant
<1>8. CASE /\ Decision(path) = "visit" /\ reading' = <<path>>
           /\ stack' = Append(Under, [Top EXCEPT !.position = Len(edges) + 1])
           /\ UNCHANGED <<begun, nodes, edges, issues, completed, halted, totalBytes, returned>>
  BY <1>1, <1>2, <1>8, DescentKeepsInvariant
<1>. QED
  BY <1>1, <1>6, <1>7, <1>8 DEF TakeReference

LEMMA ImportStep == ImportInvariant /\ [ImportNext]_importVars => ImportInvariant'
<1> SUFFICES ASSUME ImportInvariant, [ImportNext]_importVars PROVE ImportInvariant'
  OBVIOUS
<1>1. CASE LoadBegins
  BY <1>1, LoadBeginsKeepsInvariant
<1>2. CASE ReadRefused
  <2>1. CASE stack = <<>>
    BY <1>2, <2>1, EntryReadKeepsInvariant DEF ReadRefused
  <2>2. CASE stack # <<>>
    <3>1. issues' \in Nat \ {0}
      BY <1>2, IssueIsCounted DEF ReadRefused, ImportInvariant, ImportTypeOK
    <3>2. PICK state \in {"unavailable", "limit-exceeded"} : VisitReturns(stack, state, <<>>)
      BY <1>2 DEF ReadRefused
    <3>3. state \in EdgeStates \ Reuses /\ state # "cycle"
      BY <3>2 DEF EdgeStates, Reuses
    <3>. QED
      BY <1>2, <2>2, <3>1, <3>2, <3>3, RefusalKeepsInvariant DEF ReadRefused
  <2>. QED
    BY <2>1, <2>2
<1>3. CASE \E d \in Paths : ReadAlias(d)
  <2>1. PICK d \in Paths : ReadAlias(d)
    BY <1>3
  <2>2. CASE stack = <<>>
    BY <1>3, <2>1, <2>2, EntryReadKeepsInvariant DEF ReadAlias
  <2>3. CASE stack # <<>>
    <3>1. issues' \in Nat \ {0}
      BY <2>1, IssueIsCounted DEF ReadAlias, ImportInvariant, ImportTypeOK
    <3>2. VisitReturns(stack, "cycle", <<d>>) /\ "cycle" \in EdgeStates \ Reuses
      BY <2>1 DEF ReadAlias, EdgeStates, Reuses
    <3>3. d \in NodePaths
      BY <2>1 DEF ReadAlias, ImportInvariant, DocumentsOnce
    <3>4. <<d>> # <<>> /\ <<d>>[1] \in NodePaths
      BY <3>3
    <3>. QED
      BY <2>1, <2>3, <3>1, <3>2, <3>4, RefusalKeepsInvariant DEF ReadAlias
  <2>. QED
    BY <2>2, <2>3
<1>4. CASE \E size \in Sizes : ReadUnparsable(size)
  <2>1. PICK size \in Sizes : ReadUnparsable(size)
    BY <1>4
  <2>2. size \in Nat /\ reading # <<>>
    BY <2>1, ImportAssumption DEF ReadUnparsable, Admitted
  <2>3. CASE stack = <<>>
    BY <1>4, <2>2, <2>3, EntryReadKeepsInvariant
  <2>4. CASE stack # <<>>
    BY <2>1, <2>2, <2>4, UnparsableKeepsInvariant
  <2>. QED
    BY <2>3, <2>4
<1>5. CASE \E size \in Sizes : \E imports \in Texts : ReadLoads(size, imports)
  BY <1>5, OpeningKeepsInvariant
<1>6. CASE EdgeLimit
  BY <1>6, EdgeLimitKeepsInvariant
<1>7. CASE BeyondFanOut
  <2>1. /\ Expanding /\ HasReference /\ edgeSlots < MaxEdges /\ edgeSlots' = edgeSlots + 1 /\ Top.next > MaxFanOut
        /\ SettleReference("limit-exceeded", Unresolved, <<>>) /\ issues' = issues /\ issues \in Nat /\ MaxFanOut \in Nat
    BY <1>7, ImportAssumption DEF BeyondFanOut, ImportInvariant, ImportTypeOK
  <2>2. issues # 0
    <3>1. /\ Len(stack) \in 1 .. Len(stack) /\ Top = stack[Len(stack)] /\ Top \in Frames /\ Len(Top.imports) \in Nat
          /\ Top.next \in Nat
      BY <2>1, ImportTypes DEF ImportInvariant, Expanding, Top, Frames
    <3>2. issues = 0 => Len(Top.imports) <= MaxFanOut
      BY <3>1 DEF ImportInvariant, NothingMissed
    <3>. QED
      BY <2>1, <3>1, <3>2 DEF HasReference
  <2>3. "limit-exceeded" \in EdgeStates \ {"loaded"}
    BY DEF EdgeStates, Reuses
  <2>. QED
    BY <2>1, <2>2, <2>3, SettledKeepsInvariant
<1>8. CASE TakeReference
  BY <1>8, TakingKeepsInvariant
<1>9. CASE DocumentEnds
  <2>1. Len(stack) \in Nat \ {0}
    BY <1>9, ImportTypes DEF DocumentEnds, Expanding, ImportInvariant
  <2>2. CASE Len(stack) = 1
    BY <1>9, <2>2, EntryEndsKeepsInvariant
  <2>3. CASE Len(stack) > 1
    BY <1>9, <2>3, CompletionKeepsInvariant
  <2>4. Len(stack) = 1 \/ Len(stack) > 1
    <3>1. \A n \in Nat \ {0} : n = 1 \/ n > 1
      OBVIOUS
    <3>. QED
      BY <2>1, <3>1
  <2>. QED
    BY <2>2, <2>3, <2>4
<1>10. CASE UNCHANGED importVars
  <2>1. UNCHANGED <<begun, reading, stack, nodes, edges, issues, completed, edgeSlots, halted, totalBytes, returned>>
    BY <1>10 DEF importVars
  <2>2. ImportTypeOK' /\ Phases' /\ DocumentsOnce' /\ WithinLimits' /\ ReferencesCounted'
    <3>1. ImportTypeOK' /\ Phases'
      BY <2>1, Zenon DEF ImportInvariant, ImportTypeOK, Phases
    <3>2. NodePaths' = NodePaths /\ ActivePaths' = ActivePaths /\ Pending' = Pending
      BY <2>1, Zenon DEF NodePaths, ActivePaths, Pending
    <3>3. DocumentsOnce'
      BY <2>1, <3>2, Zenon DEF ImportInvariant, DocumentsOnce
    <3>4. WithinLimits' /\ ReferencesCounted'
      BY <2>1, <3>2, Zenon DEF ImportInvariant, WithinLimits, ReferencesCounted
    <3>. QED
      BY <3>1, <3>3, <3>4
  <2>3. \A k : (Waiting(k)' <=> Waiting(k)) /\ Child(k)' = Child(k)
    BY <2>1, Zenon DEF Waiting, Child
  <2>4. Descents' /\ Nested'
    BY <2>1, <2>3, SMTT(30) DEF ImportInvariant, Descents, Nested
  <2>5. NodePaths' = NodePaths
    BY <2>1, Zenon DEF NodePaths
  <2>6. EdgesOfDocuments'
    BY <2>1, <2>5, Zenon DEF ImportInvariant, EdgesOfDocuments, Relationship
  <2>7. CompletedIsAcyclic'
    BY <2>1, StaysAcyclic DEF ImportInvariant
  <2>8. NothingMissed'
    BY <2>1, Zenon DEF ImportInvariant, NothingMissed
  <2>. QED
    BY <2>2, <2>4, <2>6, <2>7, <2>8 DEF ImportInvariant
<1>. QED
  BY <1>1, <1>2, <1>3, <1>4, <1>5, <1>6, <1>7, <1>8, <1>9, <1>10 DEF ImportNext

LEMMA ImportAlways == ImportSpec => []ImportInvariant
BY ImportInitially, ImportStep, PTL DEF ImportSpec

LEMMA ClosedWhenReturned ==
  ASSUME ImportInvariant, returned
  PROVE  NodePaths = completed
<1>1. stack = <<>>
  BY DEF ImportInvariant, Phases
<1>2. ActivePaths = {}
  BY <1>1, EmptyLists DEF ActivePaths
<1>. QED
  BY <1>2 DEF ImportInvariant, DocumentsOnce

(* Every graph loadImportGraph returns is one buildDocumentImportDag accepts, for all limits,
   whatever the files hold and however they change while they are read: what is followed has
   no cycle because an edge is followed only to a document that was complete before it, and
   the totals stay within both components' limits because every import has taken an edge slot
   or belongs to one of the open documents. *)
THEOREM ReturnedGraphsAreAccepted == ImportSpec => []GraphIsAccepted
<1>1. ImportInvariant => GraphIsAccepted
  <2> SUFFICES ASSUME ImportInvariant, returned PROVE GraphIsAccepted
    BY DEF GraphIsAccepted
  <2>1. /\ ImportTypeOK /\ NodePaths = completed
        /\ DOMAIN nodes = 1 .. Len(nodes) /\ DOMAIN edges = 1 .. Len(edges) /\ Len(edges) \in Nat
        /\ Range(edges) = {edges[i] : i \in 1 .. Len(edges)} /\ Range(nodes) = {nodes[i] : i \in 1 .. Len(nodes)}
        /\ \A i \in 1 .. Len(edges) : edges[i].index \in Nat
    <3>1. ImportTypeOK /\ NodePaths = completed
      BY ClosedWhenReturned DEF ImportInvariant
    <3>2. DOMAIN nodes = 1 .. Len(nodes) /\ DOMAIN edges = 1 .. Len(edges)
      BY <3>1, LenProperties DEF ImportTypeOK
    <3>3. Range(nodes) = {nodes[i] : i \in 1 .. Len(nodes)}
      BY <3>2 DEF Range
    <3>. QED
      BY <3>1, <3>2, <3>3, ImportTypes DEF EdgeRecords
  <2>2. ExpansionIsAcyclic
    <3> SUFFICES ASSUME NEW documents \in (SUBSET NodePaths) \ {{}}
                 PROVE  \E d \in documents : \A e \in Range(edges) :
                          e.state \in Reuses /\ e.from \in documents => e.path # d
      BY DEF ExpansionIsAcyclic
    <3>1. documents \in (SUBSET completed) \ {{}}
      BY <2>1
    <3>2. PICK d \in documents : \A i \in 1 .. Len(edges) :
            edges[i].state \in Reuses /\ edges[i].from \in documents => edges[i].path # d
      BY <3>1 DEF ImportInvariant, CompletedIsAcyclic
    <3>3. \A e \in Range(edges) : e.state \in Reuses /\ e.from \in documents => e.path # d
      BY <2>1, <3>2
    <3>. QED
      BY <3>3
  <2>3. \A i, j \in DOMAIN nodes : i # j => nodes[i].path # nodes[j].path
    BY <2>1 DEF ImportInvariant, DocumentsOnce
  <2>4. \A i, j \in DOMAIN edges : i # j => <<edges[i].from, edges[i].index>> # <<edges[j].from, edges[j].index>>
    <3> SUFFICES ASSUME NEW i \in 1 .. Len(edges), NEW j \in 1 .. Len(edges), i # j
                 PROVE  ~(edges[i].from = edges[j].from /\ edges[i].index = edges[j].index)
      BY <2>1
    <3>1. edges[i].from = edges[j].from => (i < j => edges[i].index < edges[j].index) /\ (j < i => edges[j].index < edges[i].index)
      BY DEF ImportInvariant, EdgesOfDocuments
    <3>2. i < j \/ j < i
      BY <2>1
    <3>. QED
      BY <2>1, <3>1, <3>2
  <2>5. /\ nodes # <<>> => EntryPath \in NodePaths
        /\ \A e \in Range(edges) : Relationship(e)
    BY DEF ImportInvariant, DocumentsOnce, EdgesOfDocuments
  <2>6. /\ stack = <<>> /\ reading = <<>> /\ Pending = 0 /\ edgeSlots = Len(edges)
        /\ Len(nodes) <= MaxFiles /\ Len(edges) <= MaxEdges
        /\ \A i \in 1 .. Len(nodes) : nodes[i].depth <= MaxDepth
        /\ Total(SizesOf(nodes)) = totalBytes /\ totalBytes <= MaxTotalBytes
    BY <2>1 DEF ImportInvariant, WithinLimits, Phases, Pending
  <2>7. \A n \in Range(nodes) : n.depth <= MaxDepth
    BY <2>1, <2>6
  <2>8. Total(ReferencesOf(nodes)) <= MaxReferences
    <3>1. CASE halted
      BY <3>1 DEF ImportInvariant, ReferencesCounted
    <3>2. CASE ~halted
      <4>1. Total(Lefts(stack, reading)) = 0
        BY <2>6, EmptyLists
      <4>2. Total(ReferencesOf(nodes)) = Len(edges)
        BY <2>1, <2>6, <3>2, <4>1 DEF ImportInvariant, ReferencesCounted
      <4>3. PICK y \in Nat : y = (MaxDepth + 1) * MaxImports
        BY ImportAssumption
      <4>4. MaxReferences \in Nat /\ MaxEdges \in Nat /\ MaxReferences >= MaxEdges + y
        BY <4>3, ImportAssumption
      <4>. QED
        BY <2>1, <2>6, <4>2, <4>3, <4>4
    <3>. QED
      BY <3>1, <3>2
  <2>. QED
    BY <2>2, <2>3, <2>4, <2>5, <2>6, <2>7, <2>8 DEF GraphIsAccepted, SizesOf, ReferencesOf
<1>. QED
  BY <1>1, ImportAlways, PTL

(* addEdge inserts the edge of a descent after the descent has returned, at the position noted
   when it was encountered; the edges of every returned graph are nevertheless in encounter
   order, the edges below an import between its own edge and the next of its document. *)
THEOREM EdgesAreInEncounterOrder == ImportSpec => []EncounterOrder
<1>1. ImportInvariant => EncounterOrder
  <2> SUFFICES ASSUME ImportInvariant PROVE EncounterOrder
    OBVIOUS
  <2>1. DOMAIN edges = 1 .. Len(edges)
    BY LenProperties DEF ImportInvariant, ImportTypeOK
  <2>2. \A i, j \in 1 .. Len(edges) : edges[i].from = edges[j].from /\ i < j => edges[i].index < edges[j].index
    BY DEF ImportInvariant, EdgesOfDocuments
  <2>3. \A i, j \in 1 .. Len(edges) : edges[i].state = "loaded" /\ edges[j].from = edges[i].path =>
          i < j /\ \A k \in 1 .. Len(edges) : edges[k].from = edges[i].from /\ i < k => j < k
    BY DEF ImportInvariant, Nested
  <2>. QED
    BY <2>1, <2>2, <2>3 DEF EncounterOrder
<1>. QED
  BY <1>1, ImportAlways, PTL

(* A graph loadImportGraph returns without an issue is complete: every import of every document
   was followed, to the document it names. *)
THEOREM CompleteGraphsAreClosed == ImportSpec => []CompleteIsClosed
<1>1. ImportInvariant => CompleteIsClosed
  <2> SUFFICES ASSUME ImportInvariant, returned, issues = 0, NEW n \in Range(nodes), NEW i \in DOMAIN n.imports
               PROVE  \E e \in Range(edges) : /\ e.from = n.path /\ e.index = i
                                              /\ e.state \in Reuses /\ e.path = n.imports[i]
    BY DEF CompleteIsClosed
  <2>1. /\ NodePaths = completed /\ Range(edges) = {edges[x] : x \in 1 .. Len(edges)}
    BY ClosedWhenReturned, ImportTypes DEF ImportInvariant
  <2>2. PICK x \in 1 .. Len(nodes) : n = nodes[x]
    BY LenProperties DEF ImportInvariant, ImportTypeOK, Range
  <2>3. nodes[x] \in NodeRecords /\ n.path \in completed
    BY <2>1, <2>2, ImportTypes DEF ImportInvariant, NodePaths
  <2>4. i \in 1 .. Len(nodes[x].imports)
    BY <2>2, <2>3, LenProperties DEF NodeRecords, References
  <2>5. Covered(edges, nodes[x].path, nodes[x].imports, i)
    BY <2>2, <2>3, <2>4 DEF ImportInvariant, NothingMissed
  <2>. QED
    BY <2>1, <2>2, <2>5 DEF Covered
<1>. QED
  BY <1>1, ImportAlways, PTL

-----------------------------------------------------------------------------
(* Scans of the changed files: first the shapes of the scan's own steps, as far as the
   invariants need them. *)
RepoRests == repo' = repo /\ edits' = edits /\ held' = held
CollectionRests ==
  /\ RepoRests /\ DOMAIN scan' = ScanFields
  /\ scan'.round = scan.round /\ scan'.first = scan.first /\ scan'.ledger = scan.ledger

Gets(from, to, field, value) ==
  /\ scan.pc = from /\ scan'.pc = to /\ CollectionRests
  /\ scan'.next = scan.next /\ scan'.failed = scan.failed
  /\ DOMAIN scan'.got = DOMAIN scan.got \cup {field} /\ scan'.got[field] = value
  /\ \A f \in DOMAIN scan.got : f # field => scan'.got[f] = scan.got[f]

Passes(from, to) ==
  /\ scan.pc = from /\ scan'.pc = to /\ CollectionRests
  /\ scan'.next = scan.next /\ scan'.failed = scan.failed /\ scan'.got = scan.got

Fails ==
  /\ scan.pc \in Collecting /\ scan'.pc = "collected" /\ CollectionRests
  /\ scan'.next \in {scan.next, 1} /\ scan'.got = NoMetadata
  /\ scan'.failed \in {scan.failed, TRUE}

Walks(from, to) ==
  /\ scan.pc = from /\ CollectionRests /\ scan'.failed = scan.failed
  /\ LET p == scan.next
     IN \/ p > NPaths /\ scan'.pc = to /\ scan'.next = 1 /\ scan'.got = scan.got
        \/ /\ p <= NPaths /\ scan'.pc = from /\ scan'.next = p + 1
           /\ scan.got.snapshot.index[p] = Absent /\ scan'.got = scan.got
        \/ /\ p <= NPaths /\ scan'.pc = from /\ scan'.next = p + 1
           /\ scan.got.snapshot.index[p] # Absent
           /\ ~ Unreadable(scan.got.snapshot.index, repo.tree, p)
           /\ scan'.got.snapshot = [scan.got.snapshot EXCEPT !.files[p] = repo.tree[p]]
           /\ DOMAIN scan'.got = DOMAIN scan.got
           /\ \A f \in DOMAIN scan.got : f # "snapshot" => scan'.got[f] = scan.got[f]

LEMMA GettingFields ==
  ASSUME DOMAIN scan = ScanFields, NEW field, NEW value, NEW to, With(field, value, to)
  PROVE  Gets(scan.pc, to, field, value)
<1>1. scan' = [scan EXCEPT !.pc = to, !.got = [f \in DOMAIN @ \cup {field} |-> IF f = field THEN value ELSE @[f]]]
  BY DEF With, Proceed
<1> DEFINE got == [f \in DOMAIN scan.got \cup {field} |-> IF f = field THEN value ELSE scan.got[f]]
<1>2. scan' = [scan EXCEPT !.pc = to, !.got = got]
  BY <1>1 DEF ScanFields
<1>3. /\ DOMAIN got = DOMAIN scan.got \cup {field} /\ got[field] = value
      /\ \A f \in DOMAIN scan.got : f # field => got[f] = scan.got[f]
  OBVIOUS
<1> HIDE DEF got
<1>4. /\ DOMAIN scan' = ScanFields /\ scan'.got = got /\ scan'.pc = to /\ scan'.next = scan.next
      /\ scan'.round = scan.round /\ scan'.first = scan.first /\ scan'.ledger = scan.ledger
      /\ scan'.failed = scan.failed
  BY <1>2 DEF ScanFields
<1>. QED
  BY <1>3, <1>4 DEF Gets, CollectionRests, RepoRests, With, Proceed

LEMMA PassingFields ==
  ASSUME DOMAIN scan = ScanFields, NEW to, Proceed([scan EXCEPT !.pc = to])
  PROVE  Passes(scan.pc, to)
BY DEF Passes, CollectionRests, RepoRests, Proceed, ScanFields

LEMMA FailingFields ==
  ASSUME DOMAIN scan = ScanFields, scan.pc \in Collecting,
         \/ Proceed(CollectionFailed)
         \/ Proceed([CollectionFailed EXCEPT !.failed = TRUE])
         \/ Proceed([CollectionFailed EXCEPT !.next = 1])
  PROVE  /\ Fails
         /\ Proceed([CollectionFailed EXCEPT !.failed = TRUE]) => scan'.failed
<1> DEFINE failed == CollectionFailed
<1>1. /\ DOMAIN failed = ScanFields /\ failed.pc = "collected" /\ failed.got = NoMetadata
      /\ failed.next = scan.next /\ failed.round = scan.round /\ failed.first = scan.first
      /\ failed.ledger = scan.ledger /\ failed.failed = scan.failed
  BY DEF CollectionFailed, ScanFields
<1> HIDE DEF failed
<1>2. CASE Proceed(failed) /\ ~ Proceed([failed EXCEPT !.failed = TRUE])
  BY <1>1, <1>2 DEF Proceed, Fails, CollectionRests, RepoRests, ScanFields, failed
<1>3. CASE Proceed([failed EXCEPT !.failed = TRUE])
  BY <1>1, <1>3 DEF Proceed, Fails, CollectionRests, RepoRests, ScanFields, failed
<1>4. CASE Proceed([failed EXCEPT !.next = 1]) /\ ~ Proceed([failed EXCEPT !.failed = TRUE])
  BY <1>1, <1>4 DEF Proceed, Fails, CollectionRests, RepoRests, ScanFields, failed
<1>. QED
  BY <1>2, <1>3, <1>4 DEF failed

LEMMA WalkingFields ==
  ASSUME DOMAIN scan = ScanFields, NEW from, NEW to, SnapshotFile(from, to),
         "snapshot" \in DOMAIN scan.got, scan.got.snapshot \in Snapshots,
         from \in FilesPcs, scan.next \in 1 .. NPaths + 1
  PROVE  Walks(from, to) \/ (Fails /\ scan.next <= NPaths
                                 /\ Unreadable(scan.got.snapshot.index, repo.tree, scan.next)
                                 /\ scan.got.snapshot.index[scan.next] # Absent)
<1> DEFINE p == scan.next
           snapshot == scan.got.snapshot
           unreadable == Unreadable(snapshot.index, repo.tree, p)
<1>0. NPaths \in Nat /\ p \in Nat
  BY ScanAssumption
<1>1. CASE p > NPaths
  <2>1. scan.pc = from /\ Proceed([scan EXCEPT !.pc = to, !.next = 1])
    BY <1>1 DEF SnapshotFile, ScanAt
  <2>. QED
    BY <1>1, <2>1 DEF Walks, Proceed, CollectionRests, RepoRests, ScanFields
<1>2. CASE p <= NPaths /\ snapshot.index[p] = Absent
  <2>1. scan.pc = from /\ Proceed([scan EXCEPT !.next = p + 1])
    BY <1>0, <1>2 DEF SnapshotFile, ScanAt
  <2>. QED
    BY <1>2, <2>1 DEF Walks, Proceed, CollectionRests, RepoRests, ScanFields
<1>3. CASE p <= NPaths /\ snapshot.index[p] # Absent /\ unreadable
  <2>1. scan.pc = from /\ Proceed([CollectionFailed EXCEPT !.next = 1])
    BY <1>0, <1>3 DEF SnapshotFile, ScanAt
  <2>2. scan.pc \in Collecting
    BY <2>1 DEF FilesPcs, Collecting
  <2>. QED
    BY <1>3, <2>1, <2>2, FailingFields
<1>4. CASE p <= NPaths /\ snapshot.index[p] # Absent /\ ~ unreadable
  <2>1. scan.pc = from /\ Proceed([scan EXCEPT !.next = p + 1, !.got.snapshot.files[p] = repo.tree[p]])
    BY <1>0, <1>4 DEF SnapshotFile, ScanAt
  <2> DEFINE value == [snapshot EXCEPT !.files[p] = repo.tree[p]]
             got == [scan.got EXCEPT !.snapshot = value]
  <2>2. scan' = [scan EXCEPT !.next = p + 1, !.got = got]
    BY <2>1 DEF Proceed, ScanFields
  <2>3. DOMAIN got = DOMAIN scan.got /\ got.snapshot = value /\ \A f \in DOMAIN scan.got : f # "snapshot" => got[f] = scan.got[f]
    OBVIOUS
  <2> HIDE DEF got, value
  <2>4. /\ DOMAIN scan' = ScanFields /\ scan'.pc = from /\ scan'.round = scan.round
        /\ scan'.first = scan.first /\ scan'.ledger = scan.ledger /\ scan'.failed = scan.failed
        /\ scan'.next = p + 1 /\ scan'.got = got /\ RepoRests
    BY <2>1, <2>2 DEF ScanFields, Proceed, RepoRests
  <2>5. scan'.got.snapshot = [scan.got.snapshot EXCEPT !.files[p] = repo.tree[p]]
    BY <2>3, <2>4 DEF value
  <2>. QED
    BY <1>4, <2>1, <2>3, <2>4, <2>5 DEF Walks, CollectionRests
<1>. QED
  BY <1>0, <1>1, <1>2, <1>3, <1>4

-----------------------------------------------------------------------------
Starts(from, to) == Gets(from, to, "snapshot", [index |-> repo.index, files |-> NoTree])

HeadRead == Gets("head", "head-again", "head", repo.head)
HeadHolds == Passes("head-again", "base") /\ repo.head = scan.got.head
BaseRead == Gets("base", "base-again", "base", repo.base)
BaseHolds == Passes("base-again", "diff") /\ repo.base = scan.got.base
BeforeRead == Gets("diff", "git", "before", repo.index)
DiffRead == Gets("git", "diff-after", "changes",
                 Statuses(repo.index, CommitTree(MergeBase(scan.got.head, scan.got.base))))
DiffHolds == Starts("diff-after", "diff-files") /\ repo.index = scan.got.before
DiffDone ==
  /\ Gets("diff-end", "index", "changes", MergeWorktree(scan.got.changes, scan.got.snapshot))
  /\ repo.index = scan.got.snapshot.index
IndexRead == Gets("index", "state", "index", repo.index)
StateDone ==
  Gets("state-end", "final", "worktree", scan.got.snapshot) /\ repo.index = scan.got.snapshot.index
FinalRead == Gets("final", "final-state", "final", repo.head)
FinalHolds == /\ Passes("final-end", "final-again")
              /\ repo.index = scan.got.snapshot.index /\ scan.got.snapshot = scan.got.worktree
CollectionDone ==
  /\ scan.pc = "final-again" /\ scan'.pc = "collected" /\ CollectionRests
  /\ scan'.next = scan.next /\ scan'.failed = scan.failed
  /\ scan'.got = [ready |-> TRUE, head |-> scan.got.head, base |-> scan.got.base,
                  changes |-> scan.got.changes, index |-> scan.got.index,
                  worktree |-> scan.got.worktree]
  /\ repo.head = scan.got.final /\ scan.got.final = scan.got.head

FailsBecause ==
  /\ Fails
  /\ \/ scan'.failed
     \/ scan.pc = "head-again" /\ repo.head # scan.got.head
     \/ scan.pc = "base-again" /\ repo.base # scan.got.base
     \/ scan.pc = "diff-after" /\ repo.index # scan.got.before
     \/ /\ scan.pc \in FilesPcs /\ scan.next <= NPaths
        /\ Unreadable(scan.got.snapshot.index, repo.tree, scan.next)
        /\ scan.got.snapshot.index[scan.next] # Absent
     \/ scan.pc \in {"diff-end", "state-end", "final-end"} /\ repo.index # scan.got.snapshot.index
     \/ scan.pc = "final-end" /\ scan.got.snapshot # scan.got.worktree
     \/ scan.pc = "final-again" /\ ~ (repo.head = scan.got.final /\ scan.got.final = scan.got.head)

Rests == RepoRests /\ DOMAIN scan' = ScanFields /\ scan'.failed = scan.failed

FirstCollected ==
  /\ scan.pc = "collected" /\ scan.round = 1 /\ Rests
  /\ scan'.pc = IF scan.got.ready THEN "read" ELSE "full"
  /\ scan'.first = scan.got /\ scan'.got = scan.got
  /\ scan'.round = scan.round /\ scan'.next = scan.next /\ scan'.ledger = scan.ledger

CollectedAgain ==
  /\ scan.pc = "collected" /\ scan.round # 1
  /\ scan'.pc = IF SameMetadata(scan.first, scan.got) THEN "reread" ELSE "full"
  /\ CollectionRests /\ scan'.got = scan.got
  /\ scan'.next = scan.next /\ scan'.failed = scan.failed

PathRead ==
  /\ scan.pc = "read" /\ scan'.pc = "read" /\ Rests
  /\ scan.next <= NPaths /\ scan'.next = scan.next + 1
  /\ scan'.ledger = [scan.ledger EXCEPT ![scan.next] = Observe(repo.tree, scan.next)]
  /\ scan'.round = scan.round /\ scan'.first = scan.first /\ scan'.got = scan.got

ReadsEnd ==
  /\ scan.pc = "read" /\ scan'.pc = "schedule" /\ CollectionRests /\ scan'.failed = scan.failed
  /\ scan.next > NPaths /\ scan'.next = 1 /\ scan'.got = scan.got

Scheduled ==
  /\ scan.pc = "schedule" /\ scan'.pc = "head" /\ Rests
  /\ scan'.round = 2 /\ scan'.got = NoMetadata
  /\ scan'.first = scan.first /\ scan'.next = scan.next /\ scan'.ledger = scan.ledger

PathSame ==
  /\ scan.pc = "reread" /\ scan'.pc = "reread" /\ CollectionRests /\ scan'.failed = scan.failed
  /\ scan.next <= NPaths /\ scan'.next = scan.next + 1 /\ scan'.got = scan.got
  /\ Observe(repo.tree, scan.next) = scan.ledger[scan.next]

PathDiffers ==
  /\ Passes("reread", "full")
  /\ scan.next <= NPaths /\ Observe(repo.tree, scan.next) # scan.ledger[scan.next]

RereadsAgain ==
  /\ scan.pc = "reread" /\ scan'.pc = "head" /\ Rests /\ scan.round = 2 /\ scan.next > NPaths
  /\ InventoryIsComplete(scan.ledger)
  /\ scan'.round = 3 /\ scan'.got = NoMetadata /\ scan'.next = 1
  /\ scan'.first = scan.first /\ scan'.ledger = scan.ledger

RereadsEnd ==
  \/ Passes("reread", "plan") /\ scan.round # 2 /\ scan.next > NPaths
  \/ Passes("reread", "full") /\ scan.round = 2 /\ ~ InventoryIsComplete(scan.ledger)

(* What the plan decides on. *)
Mapped ==
  /\ ~ HasUntracked /\ Plannable(scan.got.changes)
  /\ Covers(scan.ledger, ChangedPaths(scan.got.changes))

Planned ==
  \/ Passes("plan", "changed") /\ Mapped
  \/ Passes("plan", "full") /\ ~ Mapped

OthersChange ==
  /\ scan' = scan /\ scan.pc \notin {"changed", "full"}
  /\ repo' \in RepoStates /\ repo' # repo
  /\ held' = (IF scan.pc = "idle" THEN {} ELSE held) \cup {repo'}

CollectShape ==
  \/ HeadRead \/ HeadHolds \/ BaseRead \/ BaseHolds
  \/ BeforeRead \/ DiffRead \/ DiffHolds \/ Walks("diff-files", "diff-end") \/ DiffDone
  \/ IndexRead
  \/ Starts("state", "state-files") \/ Walks("state-files", "state-end") \/ StateDone
  \/ FinalRead \/ Starts("final-state", "final-files") \/ Walks("final-files", "final-end")
  \/ FinalHolds \/ CollectionDone

ScanShape ==
  \/ FirstCollected \/ CollectedAgain \/ PathRead \/ ReadsEnd \/ Scheduled
  \/ PathSame \/ PathDiffers \/ RereadsAgain \/ RereadsEnd \/ Planned

LEMMA CollectSteps ==
  ASSUME ScanTypeInvariant, CollectStep
  PROVE  CollectShape \/ FailsBecause
<1>0. DOMAIN scan = ScanFields
  BY DEF ScanTypeInvariant, ScanTypeOK, ScanFields
<1>1. CASE CollectFails
  <2>1. scan.pc \in Collecting /\ Proceed([CollectionFailed EXCEPT !.failed = TRUE])
    BY <1>1 DEF CollectFails
  <2>. QED
    BY <1>0, <2>1, FailingFields DEF FailsBecause
<1>2. CASE ResolveHead
  BY <1>0, <1>2, GettingFields DEF ResolveHead, ScanAt, CollectShape, HeadRead
<1>3. CASE ResolveHeadAgain
  <2>1. scan.pc = "head-again" /\ scan.pc \in Collecting
    BY <1>3 DEF ResolveHeadAgain, ScanAt, Collecting
  <2>2. CASE repo.head = scan.got.head
    <3>1. Proceed([scan EXCEPT !.pc = "base"])
      BY <1>3, <2>2 DEF ResolveHeadAgain
    <3>. QED
      BY <1>0, <2>1, <2>2, <3>1, PassingFields DEF CollectShape, HeadHolds
  <2>3. CASE repo.head # scan.got.head
    <3>1. Proceed(CollectionFailed)
      BY <1>3, <2>3 DEF ResolveHeadAgain
    <3>. QED
      BY <1>0, <2>1, <2>3, <3>1, FailingFields DEF FailsBecause
  <2>. QED
    BY <2>2, <2>3
<1>4. CASE ResolveBase
  BY <1>0, <1>4, GettingFields DEF ResolveBase, ScanAt, CollectShape, BaseRead
<1>5. CASE ResolveBaseAgain
  <2>1. scan.pc = "base-again" /\ scan.pc \in Collecting
    BY <1>5 DEF ResolveBaseAgain, ScanAt, Collecting
  <2>2. CASE repo.base = scan.got.base
    <3>1. Proceed([scan EXCEPT !.pc = "diff"])
      BY <1>5, <2>2 DEF ResolveBaseAgain
    <3>. QED
      BY <1>0, <2>1, <2>2, <3>1, PassingFields DEF CollectShape, BaseHolds
  <2>3. CASE repo.base # scan.got.base
    <3>1. Proceed(CollectionFailed)
      BY <1>5, <2>3 DEF ResolveBaseAgain
    <3>. QED
      BY <1>0, <2>1, <2>3, <3>1, FailingFields DEF FailsBecause
  <2>. QED
    BY <2>2, <2>3
<1>6. CASE DiffBegins
  BY <1>0, <1>6, GettingFields DEF DiffBegins, ScanAt, CollectShape, BeforeRead
<1>7. CASE GitDiff
  BY <1>0, <1>7, GettingFields DEF GitDiff, ScanAt, CollectShape, DiffRead
<1>8. CASE DiffAfter
  <2>1. scan.pc = "diff-after" /\ scan.pc \in Collecting
    BY <1>8 DEF DiffAfter, ScanAt, Collecting
  <2>2. CASE repo.index = scan.got.before
    <3>1. With("snapshot", [index |-> repo.index, files |-> NoTree], "diff-files")
      BY <1>8, <2>2 DEF DiffAfter
    <3>. QED
      BY <1>0, <2>1, <2>2, <3>1, GettingFields DEF CollectShape, DiffHolds, Starts
  <2>3. CASE repo.index # scan.got.before
    <3>1. Proceed(CollectionFailed)
      BY <1>8, <2>3 DEF DiffAfter
    <3>. QED
      BY <1>0, <2>1, <2>3, <3>1, FailingFields DEF FailsBecause
  <2>. QED
    BY <2>2, <2>3
<1>9. ASSUME NEW from \in FilesPcs, NEW to, SnapshotFile(from, to)
      PROVE  Walks(from, to) \/ FailsBecause
  <2>1. scan.pc = from
    BY <1>9 DEF SnapshotFile, ScanAt
  <2>2. /\ "snapshot" \in DOMAIN scan.got /\ scan.got.snapshot \in Snapshots
        /\ scan.next \in 1 .. NPaths + 1
    BY <2>1 DEF ScanTypeInvariant, ScanTypeOK, GotHasFields, FilesPcs, SnapPcs, DiffPcs,
       IndexPcs, StatePcs, WorkPcs, FinalPcs
  <2>. QED
    BY <1>0, <1>9, <2>1, <2>2, WalkingFields DEF FailsBecause
<1>10. CASE SnapshotFile("diff-files", "diff-end") \/ SnapshotFile("state-files", "state-end")
            \/ SnapshotFile("final-files", "final-end")
  BY <1>9, <1>10 DEF FilesPcs, CollectShape
<1>11. CASE DiffEnds
  <2>1. scan.pc = "diff-end" /\ scan.pc \in Collecting
    BY <1>11 DEF DiffEnds, ScanAt, Collecting
  <2>2. CASE repo.index = scan.got.snapshot.index
    <3>1. With("changes", MergeWorktree(scan.got.changes, scan.got.snapshot), "index")
      BY <1>11, <2>2 DEF DiffEnds
    <3>. QED
      BY <1>0, <2>1, <2>2, <3>1, GettingFields DEF CollectShape, DiffDone
  <2>3. CASE repo.index # scan.got.snapshot.index
    <3>1. Proceed(CollectionFailed)
      BY <1>11, <2>3 DEF DiffEnds
    <3>. QED
      BY <1>0, <2>1, <2>3, <3>1, FailingFields DEF FailsBecause
  <2>. QED
    BY <2>2, <2>3
<1>12. CASE IndexState
  BY <1>0, <1>12, GettingFields DEF IndexState, ScanAt, CollectShape, IndexRead
<1>13. CASE StateBegins
  BY <1>0, <1>13, GettingFields DEF StateBegins, ScanAt, CollectShape, Starts
<1>14. CASE StateEnds
  <2>1. scan.pc = "state-end" /\ scan.pc \in Collecting
    BY <1>14 DEF StateEnds, ScanAt, Collecting
  <2>2. CASE repo.index = scan.got.snapshot.index
    <3>1. With("worktree", scan.got.snapshot, "final")
      BY <1>14, <2>2 DEF StateEnds
    <3>. QED
      BY <1>0, <2>1, <2>2, <3>1, GettingFields DEF CollectShape, StateDone
  <2>3. CASE repo.index # scan.got.snapshot.index
    <3>1. Proceed(CollectionFailed)
      BY <1>14, <2>3 DEF StateEnds
    <3>. QED
      BY <1>0, <2>1, <2>3, <3>1, FailingFields DEF FailsBecause
  <2>. QED
    BY <2>2, <2>3
<1>15. CASE FinalHead
  BY <1>0, <1>15, GettingFields DEF FinalHead, ScanAt, CollectShape, FinalRead
<1>16. CASE FinalState
  BY <1>0, <1>16, GettingFields DEF FinalState, ScanAt, CollectShape, Starts
<1>17. CASE FinalStateEnds
  <2>1. scan.pc = "final-end" /\ scan.pc \in Collecting
    BY <1>17 DEF FinalStateEnds, ScanAt, Collecting
  <2> DEFINE holds == repo.index = scan.got.snapshot.index /\ scan.got.snapshot = scan.got.worktree
  <2>2. CASE holds
    <3>1. Proceed([scan EXCEPT !.pc = "final-again"])
      BY <1>17, <2>2 DEF FinalStateEnds
    <3>. QED
      BY <1>0, <2>1, <2>2, <3>1, PassingFields DEF CollectShape, FinalHolds
  <2>3. CASE ~ holds
    <3>1. Proceed(CollectionFailed)
      BY <1>17, <2>3 DEF FinalStateEnds
    <3>. QED
      BY <1>0, <2>1, <2>3, <3>1, FailingFields DEF FailsBecause
  <2>. QED
    BY <2>2, <2>3
<1>18. CASE FinalHeadAgain
  <2>1. scan.pc = "final-again" /\ scan.pc \in Collecting
    BY <1>18 DEF FinalHeadAgain, ScanAt, Collecting
  <2> DEFINE holds == repo.head = scan.got.final /\ scan.got.final = scan.got.head
  <2>2. CASE holds
    <3> DEFINE got == [ready |-> TRUE, head |-> scan.got.head, base |-> scan.got.base,
                       changes |-> scan.got.changes, index |-> scan.got.index,
                       worktree |-> scan.got.worktree]
    <3>1. Proceed([scan EXCEPT !.pc = "collected", !.got = got])
      BY <1>0, <1>18, <2>2 DEF FinalHeadAgain, ScanFields
    <3> HIDE DEF got
    <3>2. /\ scan'.pc = "collected" /\ CollectionRests /\ scan'.got = got
          /\ scan'.next = scan.next /\ scan'.failed = scan.failed
      BY <1>0, <3>1 DEF Proceed, CollectionRests, RepoRests, ScanFields
    <3>. QED
      BY <2>1, <2>2, <3>2 DEF got, CollectShape, CollectionDone
  <2>3. CASE ~ holds
    <3>1. Proceed(CollectionFailed)
      BY <1>18, <2>3 DEF FinalHeadAgain
    <3>. QED
      BY <1>0, <2>1, <2>3, <3>1, FailingFields DEF FailsBecause
  <2>. QED
    BY <2>2, <2>3
<1>. QED
  BY <1>1, <1>2, <1>3, <1>4, <1>5, <1>6, <1>7, <1>8, <1>10, <1>11, <1>12, <1>13, <1>14, <1>15,
     <1>16, <1>17, <1>18 DEF CollectStep

LEMMA ScanSteps ==
  ASSUME ScanTypeInvariant, ScanStep
  PROVE  ScanShape
<1>0. /\ DOMAIN scan = ScanFields /\ scan.next \in Nat /\ NPaths \in Nat
      /\ scan.round \in 1 .. 3
  BY ScanAssumption DEF ScanTypeInvariant, ScanTypeOK, ScanFields
<1>1. CASE Collected /\ scan.round = 1
  <2>1. Proceed([scan EXCEPT !.pc = IF scan.got.ready THEN "read" ELSE "full", !.first = scan.got])
    BY <1>1 DEF Collected
  <2> DEFINE pc == IF scan.got.ready THEN "read" ELSE "full"
  <2>2. Proceed([scan EXCEPT !.pc = pc, !.first = scan.got])
    BY <2>1
  <2> HIDE DEF pc
  <2>3. /\ scan'.pc = pc /\ Rests /\ scan'.first = scan.got /\ scan'.got = scan.got
        /\ scan'.round = scan.round /\ scan'.next = scan.next /\ scan'.ledger = scan.ledger
    BY <1>0, <2>2 DEF Proceed, Rests, RepoRests, ScanFields
  <2>. QED
    BY <1>1, <2>3 DEF pc, FirstCollected, ScanShape, Collected, ScanAt
<1>2. CASE Collected /\ scan.round # 1
  <2> DEFINE pc == IF SameMetadata(scan.first, scan.got) THEN "reread" ELSE "full"
  <2>1. Proceed([scan EXCEPT !.pc = pc])
    BY <1>2 DEF Collected
  <2> HIDE DEF pc
  <2>2. Passes(scan.pc, pc)
    BY <1>0, <2>1, PassingFields
  <2>. QED
    BY <1>2, <2>2 DEF pc, CollectedAgain, ScanShape, Collected, ScanAt, Passes
<1>3. CASE ReadPath /\ scan.next > NPaths
  <2>1. scan.pc = "read" /\ Proceed([scan EXCEPT !.pc = "schedule", !.next = 1])
    BY <1>3 DEF ReadPath, ScanAt
  <2>. QED
    BY <1>0, <1>3, <2>1 DEF ScanShape, ReadsEnd, Proceed, CollectionRests, RepoRests, ScanFields
<1>4. CASE ReadPath /\ ~ scan.next > NPaths
  <2> DEFINE ledger == [scan.ledger EXCEPT ![scan.next] = Observe(repo.tree, scan.next)]
  <2>1. scan.pc = "read" /\ Proceed([scan EXCEPT !.next = scan.next + 1, !.ledger = ledger])
    BY <1>0, <1>4 DEF ReadPath, ScanAt, ScanFields
  <2> HIDE DEF ledger
  <2>2. /\ scan'.pc = scan.pc /\ Rests /\ scan'.next = scan.next + 1 /\ scan'.ledger = ledger
        /\ scan'.round = scan.round /\ scan'.first = scan.first /\ scan'.got = scan.got
    BY <1>0, <2>1 DEF Proceed, Rests, RepoRests, ScanFields
  <2>. QED
    BY <1>0, <1>4, <2>1, <2>2 DEF ScanShape, PathRead, ledger
<1>5. CASE Schedule
  <2>1. scan.pc = "schedule" /\ Proceed([scan EXCEPT !.pc = "head", !.round = 2, !.got = NoMetadata])
    BY <1>5 DEF Schedule, ScanAt
  <2>. QED
    BY <1>0, <2>1 DEF ScanShape, Scheduled, Proceed, Rests, RepoRests, ScanFields
<1>6. CASE RereadPath /\ scan.next <= NPaths
  <2>0. scan.pc = "reread"
    BY <1>6 DEF RereadPath, ScanAt
  <2>1. CASE Observe(repo.tree, scan.next) = scan.ledger[scan.next]
    <3>1. Proceed([scan EXCEPT !.next = scan.next + 1])
      BY <1>6, <2>1 DEF RereadPath
    <3>. QED
      BY <1>0, <1>6, <2>0, <2>1, <3>1 DEF ScanShape, PathSame, Proceed, CollectionRests,
         RepoRests, ScanFields
  <2>2. CASE Observe(repo.tree, scan.next) # scan.ledger[scan.next]
    <3>1. Proceed([scan EXCEPT !.pc = "full"])
      BY <1>6, <2>2 DEF RereadPath
    <3>. QED
      BY <1>0, <1>6, <2>0, <2>2, <3>1, PassingFields DEF ScanShape, PathDiffers
  <2>. QED
    BY <2>1, <2>2
<1>7. CASE RereadPath /\ ~ scan.next <= NPaths /\ scan.round = 2
  <2>0. scan.pc = "reread"
    BY <1>7 DEF RereadPath, ScanAt
  <2>1. CASE InventoryIsComplete(scan.ledger)
    <3>1. Proceed([scan EXCEPT !.pc = "head", !.round = 3, !.next = 1, !.got = NoMetadata])
      BY <1>7, <2>1 DEF RereadPath
    <3>. QED
      BY <1>0, <1>7, <2>0, <2>1, <3>1 DEF ScanShape, RereadsAgain, Proceed, Rests, RepoRests, ScanFields
  <2>2. CASE ~ InventoryIsComplete(scan.ledger)
    <3>1. Proceed([scan EXCEPT !.pc = "full"])
      BY <1>7, <2>2 DEF RereadPath
    <3>. QED
      BY <1>0, <1>7, <2>0, <2>2, <3>1, PassingFields DEF ScanShape, RereadsEnd
  <2>. QED
    BY <2>1, <2>2
<1>8. CASE RereadPath /\ ~ scan.next <= NPaths /\ scan.round # 2
  <2>1. scan.pc = "reread" /\ scan.next > NPaths /\ Proceed([scan EXCEPT !.pc = "plan"])
    BY <1>0, <1>8 DEF RereadPath, ScanAt
  <2>. QED
    BY <1>0, <1>8, <2>1, PassingFields DEF ScanShape, RereadsEnd
<1>9. CASE Plan
  <2>1. scan.pc = "plan" /\ Proceed([scan EXCEPT !.pc = IF Mapped THEN "changed" ELSE "full"])
    BY <1>9 DEF Plan, ScanAt, Mapped
  <2>2. CASE Mapped
    <3>1. Proceed([scan EXCEPT !.pc = "changed"])
      BY <2>1, <2>2
    <3>. QED
      BY <1>0, <2>1, <2>2, <3>1, PassingFields DEF ScanShape, Planned
  <2>3. CASE ~ Mapped
    <3>1. Proceed([scan EXCEPT !.pc = "full"])
      BY <2>1, <2>3
    <3>. QED
      BY <1>0, <2>1, <2>3, <3>1, PassingFields DEF ScanShape, Planned
  <2>. QED
    BY <2>2, <2>3
<1>. QED
  BY <1>1, <1>2, <1>3, <1>4, <1>5, <1>6, <1>7, <1>8, <1>9 DEF ScanStep

LEMMA OtherSteps ==
  ASSUME ScanTypeInvariant, MoveHead \/ MoveBase \/ Stage \/ WriteFile
  PROVE  OthersChange
<1>0. repo \in RepoStates /\ Absent \notin Contents
  BY ScanAssumption DEF ScanTypeInvariant, ScanTypeOK
<1>1. PICK new \in RepoStates : Changes(new)
  <2>1. CASE MoveHead
    BY <1>0, <2>1 DEF MoveHead, RepoStates
  <2>2. CASE MoveBase
    BY <1>0, <2>2 DEF MoveBase, RepoStates
  <2>3. CASE Stage
    BY <1>0, <2>3 DEF Stage, RepoStates, FileTrees
  <2>4. CASE WriteFile
    BY <1>0, <2>4 DEF WriteFile, RepoStates, FileTrees
  <2>. QED
    BY <2>1, <2>2, <2>3, <2>4
<1>. QED
  BY <1>1 DEF Changes, OthersChange

-----------------------------------------------------------------------------
LEMMA ScanTypeInit ==
  ASSUME ScanInit
  PROVE  ScanTypeInvariant
<1>1. repo \in RepoStates
  <2>1. NCommits \in 1 .. NCommits /\ CommitTree(NCommits) \in FileTrees
    BY ScanAssumption DEF FileTrees, ScanPaths
  <2>. QED
    BY <2>1 DEF ScanInit, RepoStates
<1>2. IsFiniteSet(held)
  BY FS_Singleton DEF ScanInit
<1>3. 1 \in 1 .. NPaths + 1 /\ NoTree \in Ledgers
  BY ScanAssumption DEF NoTree, Ledgers
<1>. QED
  BY <1>1, <1>2, <1>3 DEF ScanInit, ScanTypeInvariant, ScanTypeOK, ScanFields, WalksStart, Rounds,
     GotHasFields, MetadataIsWhole, InUse, FilesPcs, LaterPcs, HeadPcs, BasePcs, BeforePcs,
     ChangePcs, SnapPcs, DiffPcs, IndexPcs, StatePcs, WorkPcs, FinalPcs

Positions == ScanTypeOK /\ WalksStart /\ Rounds

LEMMA PositionsKept ==
  ASSUME ScanTypeInvariant, CollectShape \/ FailsBecause
  PROVE  Positions'
<1> USE DEF FilesPcs, LaterPcs, HeadPcs, BasePcs, BeforePcs, ChangePcs, SnapPcs, DiffPcs,
            IndexPcs, StatePcs, WorkPcs, FinalPcs
<1>1. CASE HeadRead
  BY <1>1, ScanAssumption DEF HeadRead, Gets, CollectionRests, RepoRests, ScanFields,
     ScanTypeInvariant, Positions, ScanTypeOK, WalksStart, Rounds
<1>2. CASE HeadHolds
  BY <1>2, ScanAssumption DEF HeadHolds, Passes, CollectionRests, RepoRests, ScanFields,
     ScanTypeInvariant, Positions, ScanTypeOK, WalksStart, Rounds
<1>3. CASE BaseRead
  BY <1>3, ScanAssumption DEF BaseRead, Gets, CollectionRests, RepoRests, ScanFields,
     ScanTypeInvariant, Positions, ScanTypeOK, WalksStart, Rounds
<1>4. CASE BaseHolds
  BY <1>4, ScanAssumption DEF BaseHolds, Passes, CollectionRests, RepoRests, ScanFields,
     ScanTypeInvariant, Positions, ScanTypeOK, WalksStart, Rounds
<1>5. CASE BeforeRead
  BY <1>5, ScanAssumption DEF BeforeRead, Gets, CollectionRests, RepoRests, ScanFields,
     ScanTypeInvariant, Positions, ScanTypeOK, WalksStart, Rounds
<1>6. CASE DiffRead
  BY <1>6, ScanAssumption DEF DiffRead, Gets, CollectionRests, RepoRests, ScanFields,
     ScanTypeInvariant, Positions, ScanTypeOK, WalksStart, Rounds
<1>7. CASE DiffHolds
  BY <1>7, ScanAssumption DEF DiffHolds, Starts, Gets, CollectionRests, RepoRests, ScanFields,
     ScanTypeInvariant, Positions, ScanTypeOK, WalksStart, Rounds
<1>8. CASE Walks("diff-files", "diff-end")
  BY <1>8, ScanAssumption DEF Walks, CollectionRests, RepoRests, ScanFields, ScanTypeInvariant,
     Positions, ScanTypeOK, WalksStart, Rounds
<1>9. CASE DiffDone
  BY <1>9, ScanAssumption DEF DiffDone, Gets, CollectionRests, RepoRests, ScanFields,
     ScanTypeInvariant, Positions, ScanTypeOK, WalksStart, Rounds
<1>10. CASE IndexRead
  BY <1>10, ScanAssumption DEF IndexRead, Gets, CollectionRests, RepoRests, ScanFields,
     ScanTypeInvariant, Positions, ScanTypeOK, WalksStart, Rounds
<1>11. CASE Starts("state", "state-files")
  BY <1>11, ScanAssumption DEF Starts, Gets, CollectionRests, RepoRests, ScanFields,
     ScanTypeInvariant, Positions, ScanTypeOK, WalksStart, Rounds
<1>12. CASE Walks("state-files", "state-end")
  BY <1>12, ScanAssumption DEF Walks, CollectionRests, RepoRests, ScanFields, ScanTypeInvariant,
     Positions, ScanTypeOK, WalksStart, Rounds
<1>13. CASE StateDone
  BY <1>13, ScanAssumption DEF StateDone, Gets, CollectionRests, RepoRests, ScanFields,
     ScanTypeInvariant, Positions, ScanTypeOK, WalksStart, Rounds
<1>14. CASE FinalRead
  BY <1>14, ScanAssumption DEF FinalRead, Gets, CollectionRests, RepoRests, ScanFields,
     ScanTypeInvariant, Positions, ScanTypeOK, WalksStart, Rounds
<1>15. CASE Starts("final-state", "final-files")
  BY <1>15, ScanAssumption DEF Starts, Gets, CollectionRests, RepoRests, ScanFields,
     ScanTypeInvariant, Positions, ScanTypeOK, WalksStart, Rounds
<1>16. CASE Walks("final-files", "final-end")
  BY <1>16, ScanAssumption DEF Walks, CollectionRests, RepoRests, ScanFields, ScanTypeInvariant,
     Positions, ScanTypeOK, WalksStart, Rounds
<1>17. CASE FinalHolds
  BY <1>17, ScanAssumption DEF FinalHolds, Passes, CollectionRests, RepoRests, ScanFields,
     ScanTypeInvariant, Positions, ScanTypeOK, WalksStart, Rounds
<1>18. CASE CollectionDone
  BY <1>18, ScanAssumption DEF CollectionDone, CollectionRests, RepoRests, ScanFields,
     ScanTypeInvariant, Positions, ScanTypeOK, WalksStart, Rounds
<1>19. CASE FailsBecause
  <2>1. Fails
    BY <1>19 DEF FailsBecause
  <2>2. /\ scan'.pc = "collected" /\ scan'.got = NoMetadata /\ scan'.next \in {scan.next, 1}
        /\ scan'.failed \in BOOLEAN /\ CollectionRests /\ scan.pc \in Collecting
    BY <2>1 DEF Fails, ScanTypeInvariant, ScanTypeOK
  <2>3. /\ repo' \in RepoStates /\ held' \subseteq RepoStates /\ repo' \in held' /\ IsFiniteSet(held')
        /\ DOMAIN scan' = ScanFields /\ scan'.round \in 1 .. 3 /\ scan'.ledger \in Ledgers
    BY <2>2 DEF CollectionRests, RepoRests, ScanTypeInvariant, ScanTypeOK
  <2>4. scan'.next \in 1 .. NPaths + 1
    BY <2>2, ScanAssumption DEF ScanTypeInvariant, ScanTypeOK
  <2>. QED
    BY <2>2, <2>3, <2>4 DEF Positions, ScanTypeOK, WalksStart, Rounds, ScanFields
<1>. QED
  BY <1>1, <1>2, <1>3, <1>4, <1>5, <1>6, <1>7, <1>8, <1>9, <1>10,
     <1>11, <1>12, <1>13, <1>14, <1>15, <1>16, <1>17, <1>18, <1>19 DEF CollectShape

LEMMA PositionsKeptByScan ==
  ASSUME ScanTypeInvariant, ScanShape
  PROVE  Positions'
<1> USE DEF FilesPcs, LaterPcs, HeadPcs, BasePcs, BeforePcs, ChangePcs, SnapPcs, DiffPcs,
            IndexPcs, StatePcs, WorkPcs, FinalPcs
<1>1. CASE FirstCollected
  BY <1>1, ScanAssumption DEF FirstCollected, Rests, CollectionRests, RepoRests, ScanFields,
     ScanTypeInvariant, Positions, ScanTypeOK, WalksStart, Rounds
<1>2. CASE CollectedAgain
  BY <1>2, ScanAssumption DEF CollectedAgain, CollectionRests, RepoRests, ScanFields,
     ScanTypeInvariant, Positions, ScanTypeOK, WalksStart, Rounds
<1>3. CASE PathRead
  <2>1. scan.next \in ScanPaths /\ scan.next + 1 \in 1 .. NPaths + 1
    BY <1>3, ScanAssumption DEF PathRead, ScanTypeInvariant, ScanTypeOK, ScanPaths
  <2>2. Observe(repo.tree, scan.next) \in Contents \cup {Absent, Present}
    BY <2>1 DEF ScanTypeInvariant, ScanTypeOK, RepoStates, FileTrees, Observe
  <2>3. scan'.ledger \in Ledgers
    BY <1>3, <2>2 DEF PathRead, ScanTypeInvariant, ScanTypeOK, Ledgers
  <2>. QED
    BY <1>3, <2>1, <2>3 DEF PathRead, Rests, RepoRests, ScanFields, ScanTypeInvariant,
       Positions, ScanTypeOK, WalksStart, Rounds
<1>4. CASE ReadsEnd
  BY <1>4, ScanAssumption DEF ReadsEnd, CollectionRests, RepoRests, ScanFields,
     ScanTypeInvariant, Positions, ScanTypeOK, WalksStart, Rounds
<1>5. CASE Scheduled
  BY <1>5, ScanAssumption DEF Scheduled, Rests, CollectionRests, RepoRests, ScanFields,
     ScanTypeInvariant, Positions, ScanTypeOK, WalksStart, Rounds
<1>6. CASE PathSame
  BY <1>6, ScanAssumption DEF PathSame, CollectionRests, RepoRests, ScanFields,
     ScanTypeInvariant, Positions, ScanTypeOK, WalksStart, Rounds
<1>7. CASE PathDiffers
  BY <1>7, ScanAssumption DEF PathDiffers, Passes, CollectionRests, RepoRests, ScanFields,
     ScanTypeInvariant, Positions, ScanTypeOK, WalksStart, Rounds
<1>8. CASE RereadsAgain
  BY <1>8, ScanAssumption DEF RereadsAgain, Rests, CollectionRests, RepoRests, ScanFields,
     ScanTypeInvariant, Positions, ScanTypeOK, WalksStart, Rounds
<1>9. CASE RereadsEnd
  BY <1>9, ScanAssumption DEF RereadsEnd, Passes, CollectionRests, RepoRests, ScanFields,
     ScanTypeInvariant, Positions, ScanTypeOK, WalksStart, Rounds
<1>10. CASE Planned
  BY <1>10, ScanAssumption DEF Planned, Passes, CollectionRests, RepoRests, ScanFields,
     ScanTypeInvariant, Positions, ScanTypeOK, WalksStart, Rounds
<1>. QED
  BY <1>1, <1>2, <1>3, <1>4, <1>5, <1>6, <1>7, <1>8, <1>9, <1>10 DEF ScanShape

LEMMA StatusesAreByPath ==
  ASSUME NEW index, NEW base
  PROVE  IsByPath(Statuses(index, base))
BY DEF IsByPath, Statuses

LEMMA MergedAreByPath ==
  ASSUME NEW changes, NEW snapshot
  PROVE  IsByPath(MergeWorktree(changes, snapshot))
BY DEF IsByPath, MergeWorktree

LEMMA FieldsKept ==
  ASSUME ScanTypeInvariant, CollectShape \/ FailsBecause
  PROVE  GotHasFields' /\ MetadataIsWhole'
<1> USE DEF FilesPcs, LaterPcs, HeadPcs, BasePcs, BeforePcs, ChangePcs, SnapPcs, DiffPcs,
            IndexPcs, StatePcs, WorkPcs, FinalPcs
<1>0. repo.index \in FileTrees /\ NoTree \in FileTrees /\ [index |-> repo.index, files |-> NoTree] \in Snapshots
  BY DEF ScanTypeInvariant, ScanTypeOK, RepoStates, FileTrees, NoTree, Snapshots
<1>50. ASSUME NEW from, NEW to, Walks(from, to), from \in FilesPcs
      PROVE  scan'.got.snapshot \in Snapshots /\ DOMAIN scan'.got = DOMAIN scan.got
             /\ \A f \in DOMAIN scan.got : f # "snapshot" => scan'.got[f] = scan.got[f]
  <2>1. scan.got.snapshot \in Snapshots
    BY <1>50 DEF Walks, ScanTypeInvariant, GotHasFields
  <2>2. CASE scan'.got = scan.got
    BY <2>1, <2>2
  <2>3. CASE /\ scan.next <= NPaths
             /\ scan'.got.snapshot = [scan.got.snapshot EXCEPT !.files[scan.next] = repo.tree[scan.next]]
             /\ DOMAIN scan'.got = DOMAIN scan.got
             /\ \A f \in DOMAIN scan.got : f # "snapshot" => scan'.got[f] = scan.got[f]
    <3>1. scan.next \in ScanPaths
      BY <2>3, ScanAssumption DEF ScanTypeInvariant, ScanTypeOK, ScanPaths
    <3>2. repo.tree[scan.next] \in Contents \cup {Absent}
      BY <3>1 DEF ScanTypeInvariant, ScanTypeOK, RepoStates, FileTrees
    <3>. QED
      BY <2>1, <2>3, <3>1, <3>2 DEF Snapshots, FileTrees
  <2>. QED
    BY <1>50, <2>2, <2>3 DEF Walks
<1>1. CASE HeadRead
  BY <1>1 DEF HeadRead, Gets, CollectionRests, ScanTypeInvariant, GotHasFields, MetadataIsWhole,
     InUse
<1>2. CASE HeadHolds
  BY <1>2 DEF HeadHolds, Passes, CollectionRests, ScanTypeInvariant, GotHasFields,
     MetadataIsWhole, InUse
<1>3. CASE BaseRead
  BY <1>3 DEF BaseRead, Gets, CollectionRests, ScanTypeInvariant, GotHasFields, MetadataIsWhole,
     InUse
<1>4. CASE BaseHolds
  BY <1>4 DEF BaseHolds, Passes, CollectionRests, ScanTypeInvariant, GotHasFields,
     MetadataIsWhole, InUse
<1>5. CASE BeforeRead
  BY <1>5 DEF BeforeRead, Gets, CollectionRests, ScanTypeInvariant, GotHasFields,
     MetadataIsWhole, InUse
<1>6. CASE DiffRead
  <2>1. IsByPath(scan'.got.changes)
    BY <1>6, StatusesAreByPath DEF DiffRead, Gets
  <2>. QED
    BY <1>6, <2>1 DEF DiffRead, Gets, CollectionRests, ScanTypeInvariant, GotHasFields,
       MetadataIsWhole, InUse
<1>7. CASE DiffHolds
  <2>1. PICK snapshot \in Snapshots : Gets(scan.pc, scan'.pc, "snapshot", snapshot)
    BY <1>0, <1>7 DEF DiffHolds, Starts, Gets
  <2>. QED
    BY <1>7, <2>1 DEF DiffHolds, Starts, Gets, CollectionRests, ScanTypeInvariant, GotHasFields,
       MetadataIsWhole, InUse
<1>8. CASE Walks("diff-files", "diff-end")
  <2>1. /\ scan'.got.snapshot \in Snapshots /\ DOMAIN scan'.got = DOMAIN scan.got
        /\ \A f \in DOMAIN scan.got : f # "snapshot" => scan'.got[f] = scan.got[f]
    BY <1>50, <1>8
  <2>2. /\ scan.pc = "diff-files" /\ scan'.pc \in {"diff-files", "diff-end"} /\ CollectionRests
    BY <1>8 DEF Walks
  <2>. QED
    BY <2>1, <2>2 DEF CollectionRests, ScanTypeInvariant, GotHasFields, MetadataIsWhole, InUse
<1>9. CASE DiffDone
  <2>1. IsByPath(scan'.got.changes)
    BY <1>9, MergedAreByPath DEF DiffDone, Gets
  <2>. QED
    BY <1>9, <2>1 DEF DiffDone, Gets, CollectionRests, ScanTypeInvariant, GotHasFields,
       MetadataIsWhole, InUse
<1>10. CASE IndexRead
  BY <1>10 DEF IndexRead, Gets, CollectionRests, ScanTypeInvariant, GotHasFields,
     MetadataIsWhole, InUse
<1>11. CASE Starts("state", "state-files")
  <2>1. PICK snapshot \in Snapshots : Gets(scan.pc, scan'.pc, "snapshot", snapshot)
    BY <1>0, <1>11 DEF Starts, Gets
  <2>. QED
    BY <1>11, <2>1 DEF Starts, Gets, CollectionRests, ScanTypeInvariant, GotHasFields,
       MetadataIsWhole, InUse
<1>12. CASE Walks("state-files", "state-end")
  <2>1. /\ scan'.got.snapshot \in Snapshots /\ DOMAIN scan'.got = DOMAIN scan.got
        /\ \A f \in DOMAIN scan.got : f # "snapshot" => scan'.got[f] = scan.got[f]
    BY <1>50, <1>12
  <2>2. /\ scan.pc = "state-files" /\ scan'.pc \in {"state-files", "state-end"} /\ CollectionRests
    BY <1>12 DEF Walks
  <2>. QED
    BY <2>1, <2>2 DEF CollectionRests, ScanTypeInvariant, GotHasFields, MetadataIsWhole, InUse
<1>13. CASE StateDone
  BY <1>13 DEF StateDone, Gets, CollectionRests, ScanTypeInvariant, GotHasFields,
     MetadataIsWhole, InUse
<1>14. CASE FinalRead
  BY <1>14 DEF FinalRead, Gets, CollectionRests, ScanTypeInvariant, GotHasFields,
     MetadataIsWhole, InUse
<1>15. CASE Starts("final-state", "final-files")
  <2>1. PICK snapshot \in Snapshots : Gets(scan.pc, scan'.pc, "snapshot", snapshot)
    BY <1>0, <1>15 DEF Starts, Gets
  <2>. QED
    BY <1>15, <2>1 DEF Starts, Gets, CollectionRests, ScanTypeInvariant, GotHasFields,
       MetadataIsWhole, InUse
<1>16. CASE Walks("final-files", "final-end")
  <2>1. /\ scan'.got.snapshot \in Snapshots /\ DOMAIN scan'.got = DOMAIN scan.got
        /\ \A f \in DOMAIN scan.got : f # "snapshot" => scan'.got[f] = scan.got[f]
    BY <1>50, <1>16
  <2>2. /\ scan.pc = "final-files" /\ scan'.pc \in {"final-files", "final-end"} /\ CollectionRests
    BY <1>16 DEF Walks
  <2>. QED
    BY <2>1, <2>2 DEF CollectionRests, ScanTypeInvariant, GotHasFields, MetadataIsWhole, InUse
<1>17. CASE FinalHolds
  BY <1>17 DEF FinalHolds, Passes, CollectionRests, ScanTypeInvariant, GotHasFields,
     MetadataIsWhole, InUse
<1>18. CASE CollectionDone
  <2>1. scan'.pc = "collected" /\ scan.round = scan'.round /\ scan'.first = scan.first
    BY <1>18 DEF CollectionDone, CollectionRests
  <2>2. IsByPath(scan.got.changes) /\ scan.got.worktree \in Snapshots
    BY <1>18 DEF CollectionDone, ScanTypeInvariant, GotHasFields
  <2>3. Ready(scan'.got)
    BY <1>18, <2>2 DEF CollectionDone, Ready
  <2>. QED
    BY <1>18, <2>1, <2>3 DEF CollectionDone, CollectionRests, ScanTypeInvariant, GotHasFields,
       MetadataIsWhole, InUse
<1>19. CASE FailsBecause
  <2>1. Fails
    BY <1>19 DEF FailsBecause
  <2>. QED
    BY <2>1 DEF Fails, Collecting, CollectionRests, ScanTypeInvariant, GotHasFields,
       MetadataIsWhole, InUse
<1>. QED
  BY <1>1, <1>2, <1>3, <1>4, <1>5, <1>6, <1>7, <1>8, <1>9, <1>10,
     <1>11, <1>12, <1>13, <1>14, <1>15, <1>16, <1>17, <1>18, <1>19 DEF CollectShape

LEMMA FieldsKeptByScan ==
  ASSUME ScanTypeInvariant, ScanShape
  PROVE  GotHasFields' /\ MetadataIsWhole'
<1> USE DEF FilesPcs, LaterPcs, HeadPcs, BasePcs, BeforePcs, ChangePcs, SnapPcs, DiffPcs,
            IndexPcs, StatePcs, WorkPcs, FinalPcs
<1>1. CASE FirstCollected
  BY <1>1 DEF FirstCollected, Rests, Rounds, CollectionRests, ScanTypeInvariant, GotHasFields,
     MetadataIsWhole, InUse, NoMetadata, Ready
<1>2. CASE CollectedAgain
  BY <1>2 DEF CollectedAgain, Rounds, CollectionRests, ScanTypeInvariant, GotHasFields,
     MetadataIsWhole, InUse, SameMetadata
<1>3. CASE PathRead
  BY <1>3 DEF PathRead, Rests, Rounds, CollectionRests, ScanTypeInvariant, GotHasFields,
     MetadataIsWhole, InUse
<1>4. CASE ReadsEnd
  BY <1>4 DEF ReadsEnd, Rounds, CollectionRests, ScanTypeInvariant, GotHasFields,
     MetadataIsWhole, InUse
<1>5. CASE Scheduled
  BY <1>5 DEF Scheduled, Rests, Rounds, CollectionRests, ScanTypeInvariant, GotHasFields,
     MetadataIsWhole, InUse
<1>6. CASE PathSame
  BY <1>6 DEF PathSame, Rounds, CollectionRests, ScanTypeInvariant, GotHasFields,
     MetadataIsWhole, InUse
<1>7. CASE PathDiffers
  BY <1>7 DEF PathDiffers, Passes, Rounds, CollectionRests, ScanTypeInvariant, GotHasFields,
     MetadataIsWhole, InUse
<1>8. CASE RereadsAgain
  BY <1>8 DEF RereadsAgain, Rests, Rounds, CollectionRests, ScanTypeInvariant, GotHasFields,
     MetadataIsWhole, InUse
<1>9. CASE RereadsEnd
  BY <1>9 DEF RereadsEnd, Passes, Rounds, CollectionRests, ScanTypeInvariant, GotHasFields,
     MetadataIsWhole, InUse
<1>10. CASE Planned
  BY <1>10 DEF Planned, Passes, Rounds, CollectionRests, ScanTypeInvariant, GotHasFields,
     MetadataIsWhole, InUse
<1>. QED
  BY <1>1, <1>2, <1>3, <1>4, <1>5, <1>6, <1>7, <1>8, <1>9, <1>10 DEF ScanShape

LEMMA ScanTypesKept ==
  ASSUME ScanTypeInvariant, [ScanNext]_scanVars
  PROVE  ScanTypeInvariant'
<1>1. CASE CollectStep
  BY <1>1, CollectSteps, PositionsKept, FieldsKept DEF Positions, ScanTypeInvariant
<1>2. CASE ScanStep
  BY <1>2, ScanSteps, PositionsKeptByScan, FieldsKeptByScan DEF Positions, ScanTypeInvariant
<1>3. CASE ScanBegins
  <2>0. DOMAIN scan = ScanFields
    BY DEF ScanTypeInvariant, ScanTypeOK, ScanFields
  <2>1. Passes("idle", "head")
    BY <1>3, <2>0, PassingFields DEF ScanBegins, ScanAt
  <2>. QED
    BY <2>1 DEF Passes, CollectionRests, RepoRests, ScanFields, ScanTypeInvariant, ScanTypeOK,
       WalksStart, Rounds, GotHasFields, MetadataIsWhole, InUse, FilesPcs, LaterPcs, HeadPcs,
       BasePcs, BeforePcs, ChangePcs, SnapPcs, DiffPcs, IndexPcs, StatePcs, WorkPcs, FinalPcs
<1>4. CASE MoveHead \/ MoveBase \/ Stage \/ WriteFile
  <2>1. OthersChange
    BY <1>4, OtherSteps
  <2>2. /\ repo' \in RepoStates /\ held' \subseteq RepoStates /\ repo' \in held' /\ IsFiniteSet(held')
        /\ scan.pc = "idle" => held' = {repo'}
    BY <2>1, FS_AddElement, FS_EmptySet DEF OthersChange, ScanTypeInvariant, ScanTypeOK
  <2>3. scan' = scan
    BY <2>1 DEF OthersChange
  <2>. QED
    BY <2>2, <2>3 DEF ScanTypeInvariant, ScanTypeOK, WalksStart, Rounds, GotHasFields,
       MetadataIsWhole, InUse
<1>5. CASE UNCHANGED scanVars
  BY <1>5 DEF scanVars, ScanTypeInvariant, ScanTypeOK, WalksStart, Rounds, GotHasFields,
     MetadataIsWhole, InUse
<1>. QED
  BY <1>1, <1>2, <1>3, <1>4, <1>5 DEF ScanNext

-----------------------------------------------------------------------------
LEMMA SnapshotStarts ==
  ASSUME NEW s
  PROVE  SnapshotUpTo(s, 1) = [index |-> s.index, files |-> NoTree]
<1>1. \A p \in ScanPaths : ~ p < 1
  BY DEF ScanPaths
<1>2. [p \in ScanPaths |-> IF p < 1 /\ s.index[p] # Absent THEN s.tree[p] ELSE Absent] = NoTree
  BY <1>1 DEF NoTree
<1>. QED
  BY <1>2 DEF SnapshotUpTo

LEMMA SnapshotGrows ==
  ASSUME NEW s, NEW n \in ScanPaths
  PROVE  /\ s.index[n] = Absent => SnapshotUpTo(s, n + 1) = SnapshotUpTo(s, n)
         /\ s.index[n] # Absent =>
              SnapshotUpTo(s, n + 1) = [SnapshotUpTo(s, n) EXCEPT !.files[n] = s.tree[n]]
<1> DEFINE files(k) == [p \in ScanPaths |-> IF p < k /\ s.index[p] # Absent THEN s.tree[p] ELSE Absent]
<1>1. \A p \in ScanPaths : p < n + 1 <=> (p < n \/ p = n)
  BY DEF ScanPaths
<1>2. s.index[n] = Absent => files(n + 1) = files(n)
  BY <1>1
<1>3. s.index[n] # Absent => files(n + 1) = [files(n) EXCEPT ![n] = s.tree[n]]
  BY <1>1
<1>4. \A k : SnapshotUpTo(s, k) = [index |-> s.index, files |-> files(k)]
  BY DEF SnapshotUpTo
<1> HIDE DEF files
<1>. QED
  BY <1>2, <1>3, <1>4

LEMMA SnapshotEnds ==
  ASSUME NEW s, NEW n \in 1 .. NPaths + 1, n > NPaths
  PROVE  SnapshotUpTo(s, n) = Snapshot(s)
BY ScanAssumption DEF Snapshot

LEMMA SnapshotShowsChanges ==
  ASSUME NEW s, NEW snapshot, snapshot = Snapshot(s)
  PROVE  /\ snapshot.index = s.index
         /\ MergeWorktree(Statuses(s.index, CommitTree(MergeBase(s.head, s.base))), snapshot) = ChangesIn(s)
<1>1. \A p \in ScanPaths : p < NPaths + 1
  BY ScanAssumption DEF ScanPaths
<1>2. snapshot.index = s.index /\ \A p \in Tracked(s.index) : snapshot.files[p] = s.tree[p]
  BY <1>1 DEF Snapshot, SnapshotUpTo, Tracked
<1> DEFINE base == CommitTree(MergeBase(s.head, s.base))
           statuses == Statuses(s.index, base)
           differs(p) == p \in Tracked(snapshot.index) /\ snapshot.files[p] # snapshot.index[p]
<1>3. \A p \in ScanPaths : statuses[p] = StatusOf(base[p], s.index[p])
  BY DEF Statuses
<1>4. \A p \in ScanPaths : differs(p) <=> p \in Tracked(s.index) /\ s.tree[p] # s.index[p]
  BY <1>2
<1> HIDE DEF statuses, differs
<1>5. ASSUME NEW p \in ScanPaths PROVE Merged(statuses[p], differs(p)) = ChangeIn(s, p)
  BY <1>3, <1>4 DEF ChangeIn, base, Merged
<1>6. MergeWorktree(statuses, snapshot) = [p \in ScanPaths |-> Merged(statuses[p], differs(p))]
  BY DEF MergeWorktree, differs
<1>. QED
  BY <1>2, <1>5, <1>6 DEF ChangesIn, statuses, base

LEMMA SnapshotIndex ==
  ASSUME NEW s, NEW n
  PROVE  SnapshotUpTo(s, n).index = s.index
BY DEF SnapshotUpTo

LEMMA UndisturbedCollectionKept ==
  ASSUME ScanTypeInvariant, UndisturbedCollection, CollectShape \/ FailsBecause
  PROVE  UndisturbedCollection'
<1> USE DEF FilesPcs, LaterPcs, HeadPcs, BasePcs, BeforePcs, ChangePcs, SnapPcs, DiffPcs,
            IndexPcs, StatePcs, WorkPcs, FinalPcs
<1> SUFFICES ASSUME Undisturbed' PROVE UndisturbedCollection'
  BY DEF UndisturbedCollection
<1>50. Undisturbed /\ RepoRests
  <2>1. RepoRests /\ scan'.failed \in {scan.failed, TRUE}
    BY DEF CollectShape, FailsBecause, CollectionRests, Fails, BaseHolds, BaseRead, BeforeRead,
       CollectionDone, DiffDone, DiffHolds, DiffRead, FinalHolds, FinalRead, Gets, HeadHolds,
       HeadRead, IndexRead, Passes, Starts, StateDone, Walks
  <2>. QED
    BY <2>1 DEF Undisturbed, RepoRests, ScanTypeInvariant, ScanTypeOK
<1>51. SnapshotUpTo(repo, 1) = [index |-> repo.index, files |-> NoTree]
  BY SnapshotStarts
<1>52. \A n \in 1 .. NPaths + 1 : n > NPaths => SnapshotUpTo(repo, n) = Snapshot(repo)
  BY SnapshotEnds
<1>53. repo' = repo
  BY <1>50 DEF RepoRests
<1>54. ASSUME NEW from, NEW to, Walks(from, to), from \in FilesPcs, to \notin FilesPcs
      PROVE  /\ scan.pc = from
             /\ scan'.pc = from => scan'.got.snapshot = SnapshotUpTo(repo, scan'.next)
             /\ scan'.pc # from => scan'.pc = to /\ scan'.got.snapshot = Snapshot(repo)
             /\ \A f \in DOMAIN scan.got : f # "snapshot" => scan'.got[f] = scan.got[f]
  <2>1. scan.got.snapshot = SnapshotUpTo(repo, scan.next) /\ scan.pc = from
    BY <1>50, <1>54 DEF UndisturbedCollection, Walks
  <2>2. scan.next \in 1 .. NPaths + 1 /\ NPaths \in Nat
    BY ScanAssumption DEF ScanTypeInvariant, ScanTypeOK
  <2>3. scan.got.snapshot.index = repo.index
    BY <2>1, SnapshotIndex
  <2>4. CASE scan.next > NPaths /\ scan'.pc = to /\ scan'.got = scan.got
    <3>1. SnapshotUpTo(repo, scan.next) = Snapshot(repo)
      BY <1>52, <2>2, <2>4
    <3>2. to # from
      BY <1>54
    <3>. QED
      BY <2>1, <2>4, <3>1, <3>2
  <2>5. CASE /\ scan.next <= NPaths /\ scan'.pc = from /\ scan'.next = scan.next + 1
             /\ scan.got.snapshot.index[scan.next] = Absent /\ scan'.got = scan.got
    <3>1. scan.next \in ScanPaths
      BY <2>2, <2>5 DEF ScanPaths
    <3>2. SnapshotUpTo(repo, scan.next + 1) = SnapshotUpTo(repo, scan.next)
      BY <2>3, <2>5, <3>1, SnapshotGrows
    <3>. QED
      BY <2>1, <2>5, <3>2
  <2>6. CASE /\ scan.next <= NPaths /\ scan'.pc = from /\ scan'.next = scan.next + 1
             /\ scan.got.snapshot.index[scan.next] # Absent
             /\ scan'.got.snapshot = [scan.got.snapshot EXCEPT !.files[scan.next] = repo.tree[scan.next]]
             /\ \A f \in DOMAIN scan.got : f # "snapshot" => scan'.got[f] = scan.got[f]
    <3>1. scan.next \in ScanPaths
      BY <2>2, <2>6 DEF ScanPaths
    <3>2. SnapshotUpTo(repo, scan.next + 1)
            = [SnapshotUpTo(repo, scan.next) EXCEPT !.files[scan.next] = repo.tree[scan.next]]
      BY <2>3, <2>6, <3>1, SnapshotGrows, SMTT(30)
    <3>. QED
      BY <2>1, <2>6, <3>2
  <2>. QED
    BY <1>54, <2>4, <2>5, <2>6 DEF Walks
<1>1. CASE HeadRead
  BY <1>50, <1>53, <1>1 DEF HeadRead, Gets, UndisturbedCollection, CollectionRests,
     ScanTypeInvariant, GotHasFields
<1>2. CASE HeadHolds
  BY <1>50, <1>53, <1>2 DEF HeadHolds, Passes, UndisturbedCollection, CollectionRests,
     ScanTypeInvariant, GotHasFields
<1>3. CASE BaseRead
  BY <1>50, <1>53, <1>3 DEF BaseRead, Gets, UndisturbedCollection, CollectionRests,
     ScanTypeInvariant, GotHasFields
<1>4. CASE BaseHolds
  BY <1>50, <1>53, <1>4 DEF BaseHolds, Passes, UndisturbedCollection, CollectionRests,
     ScanTypeInvariant, GotHasFields
<1>5. CASE BeforeRead
  BY <1>50, <1>53, <1>5 DEF BeforeRead, Gets, UndisturbedCollection, CollectionRests,
     ScanTypeInvariant, GotHasFields
<1>6. CASE DiffRead
  <2>1. scan'.got.changes = Statuses(repo.index, CommitTree(MergeBase(repo.head, repo.base)))
    <3>1. scan.got.head = repo.head /\ scan.got.base = repo.base
      BY <1>50, <1>6 DEF DiffRead, Gets, UndisturbedCollection
    <3>. QED
      BY <1>6, <3>1 DEF DiffRead, Gets
  <2>2. Gets("git", "diff-after", "changes", scan'.got.changes)
    BY <1>6 DEF DiffRead, Gets
  <2>. QED
    BY <1>50, <1>53, <2>1, <2>2 DEF Gets, UndisturbedCollection, CollectionRests,
       ScanTypeInvariant, GotHasFields
<1>7. CASE DiffHolds
  <2>1. scan.next = 1
    BY <1>7 DEF DiffHolds, Starts, Gets, ScanTypeInvariant, WalksStart
  <2>2. Gets("diff-after", "diff-files", "snapshot", SnapshotUpTo(repo, 1))
    BY <1>51, <1>7 DEF DiffHolds, Starts
  <2>. QED
    BY <1>50, <1>53, <2>1, <2>2 DEF Gets, UndisturbedCollection, CollectionRests,
       ScanTypeInvariant, GotHasFields
<1>8. CASE Walks("diff-files", "diff-end")
  <2>1. /\ scan.pc = "diff-files" /\ scan'.pc \in {"diff-files", "diff-end"}
        /\ scan'.pc = "diff-files" => scan'.got.snapshot = SnapshotUpTo(repo, scan'.next)
        /\ scan'.pc = "diff-end" => scan'.got.snapshot = Snapshot(repo)
        /\ \A f \in DOMAIN scan.got : f # "snapshot" => scan'.got[f] = scan.got[f]
    BY <1>54, <1>8
  <2>. QED
    BY <1>50, <1>53, <2>1 DEF UndisturbedCollection, CollectionRests, ScanTypeInvariant,
       GotHasFields
<1>9. CASE DiffDone
  <2>1. scan'.got.changes = ChangesIn(repo)
    <3>1. /\ scan.got.snapshot = Snapshot(repo)
          /\ scan.got.changes = Statuses(repo.index, CommitTree(MergeBase(repo.head, repo.base)))
      BY <1>50, <1>9 DEF DiffDone, Gets, UndisturbedCollection
    <3>2. MergeWorktree(Statuses(repo.index, CommitTree(MergeBase(repo.head, repo.base))),
                        scan.got.snapshot) = ChangesIn(repo)
      BY <3>1, SnapshotShowsChanges
    <3>3. scan'.got.changes = MergeWorktree(scan.got.changes, scan.got.snapshot)
      BY <1>9 DEF DiffDone, Gets
    <3>. QED
      BY <3>1, <3>2, <3>3
  <2>2. Gets("diff-end", "index", "changes", scan'.got.changes)
    BY <1>9 DEF DiffDone, Gets
  <2>. QED
    BY <1>50, <1>53, <2>1, <2>2 DEF Gets, UndisturbedCollection, CollectionRests,
       ScanTypeInvariant, GotHasFields
<1>10. CASE IndexRead
  BY <1>50, <1>53, <1>10 DEF IndexRead, Gets, UndisturbedCollection, CollectionRests,
     ScanTypeInvariant, GotHasFields
<1>11. CASE Starts("state", "state-files")
  <2>1. scan.next = 1
    BY <1>11 DEF Starts, Gets, ScanTypeInvariant, WalksStart
  <2>2. Gets("state", "state-files", "snapshot", SnapshotUpTo(repo, 1))
    BY <1>51, <1>11 DEF DiffHolds, Starts
  <2>. QED
    BY <1>50, <1>53, <2>1, <2>2 DEF Gets, UndisturbedCollection, CollectionRests,
       ScanTypeInvariant, GotHasFields
<1>12. CASE Walks("state-files", "state-end")
  <2>1. /\ scan.pc = "state-files" /\ scan'.pc \in {"state-files", "state-end"}
        /\ scan'.pc = "state-files" => scan'.got.snapshot = SnapshotUpTo(repo, scan'.next)
        /\ scan'.pc = "state-end" => scan'.got.snapshot = Snapshot(repo)
        /\ \A f \in DOMAIN scan.got : f # "snapshot" => scan'.got[f] = scan.got[f]
    BY <1>54, <1>12
  <2>. QED
    BY <1>50, <1>53, <2>1 DEF UndisturbedCollection, CollectionRests, ScanTypeInvariant,
       GotHasFields
<1>13. CASE StateDone
  BY <1>50, <1>53, <1>13 DEF StateDone, Gets, UndisturbedCollection, CollectionRests,
     ScanTypeInvariant, GotHasFields
<1>14. CASE FinalRead
  BY <1>50, <1>53, <1>14 DEF FinalRead, Gets, UndisturbedCollection, CollectionRests,
     ScanTypeInvariant, GotHasFields
<1>15. CASE Starts("final-state", "final-files")
  <2>1. scan.next = 1
    BY <1>15 DEF Starts, Gets, ScanTypeInvariant, WalksStart
  <2>2. Gets("final-state", "final-files", "snapshot", SnapshotUpTo(repo, 1))
    BY <1>51, <1>15 DEF DiffHolds, Starts
  <2>. QED
    BY <1>50, <1>53, <2>1, <2>2 DEF Gets, UndisturbedCollection, CollectionRests,
       ScanTypeInvariant, GotHasFields
<1>16. CASE Walks("final-files", "final-end")
  <2>1. /\ scan.pc = "final-files" /\ scan'.pc \in {"final-files", "final-end"}
        /\ scan'.pc = "final-files" => scan'.got.snapshot = SnapshotUpTo(repo, scan'.next)
        /\ scan'.pc = "final-end" => scan'.got.snapshot = Snapshot(repo)
        /\ \A f \in DOMAIN scan.got : f # "snapshot" => scan'.got[f] = scan.got[f]
    BY <1>54, <1>16
  <2>. QED
    BY <1>50, <1>53, <2>1 DEF UndisturbedCollection, CollectionRests, ScanTypeInvariant,
       GotHasFields
<1>17. CASE FinalHolds
  BY <1>50, <1>53, <1>17 DEF FinalHolds, Passes, UndisturbedCollection, CollectionRests,
     ScanTypeInvariant, GotHasFields
<1>18. CASE CollectionDone
  <2>1. /\ scan.got.head = repo.head /\ scan.got.base = repo.base /\ scan.got.changes = ChangesIn(repo)
        /\ scan.got.index = repo.index /\ scan.got.worktree = Snapshot(repo)
    BY <1>50, <1>18 DEF CollectionDone, UndisturbedCollection
  <2>2. scan'.got = MetadataOf(repo)
    BY <1>18, <2>1 DEF CollectionDone, MetadataOf
  <2>. QED
    BY <1>53, <1>18, <2>2 DEF CollectionDone, UndisturbedCollection
<1>19. CASE FailsBecause
  <2>1. ~ scan'.failed
    BY DEF Undisturbed
  <2>2. HasUnreadable(repo)
    <3>1. CASE /\ scan.pc \in FilesPcs /\ scan.next <= NPaths
               /\ Unreadable(scan.got.snapshot.index, repo.tree, scan.next)
               /\ scan.got.snapshot.index[scan.next] # Absent
      <4>1. scan.next \in ScanPaths
        BY <3>1, ScanAssumption DEF ScanTypeInvariant, ScanTypeOK, ScanPaths
      <4>2. scan.got.snapshot.index = repo.index
        BY <1>50, <3>1, SnapshotIndex DEF UndisturbedCollection
      <4>. QED
        BY <3>1, <4>1, <4>2 DEF HasUnreadable, Tracked
    <3>2. CASE scan.pc \in {"diff-end", "state-end", "final-end"} /\ repo.index # scan.got.snapshot.index
      BY <1>50, <3>2, SnapshotShowsChanges DEF UndisturbedCollection
    <3>3. CASE scan.pc = "final-end" /\ scan.got.snapshot # scan.got.worktree
      BY <1>50, <3>3 DEF UndisturbedCollection
    <3>4. CASE scan.pc \in {"head-again", "base-again", "diff-after", "final-again"}
      BY <1>19, <1>50, <2>1, <3>4 DEF FailsBecause, UndisturbedCollection
    <3>. QED
      BY <1>19, <2>1, <3>1, <3>2, <3>3, <3>4 DEF FailsBecause
  <2>3. scan'.pc = "collected" /\ scan'.got = NoMetadata
    BY <1>19 DEF FailsBecause, Fails
  <2>. QED
    BY <1>53, <2>2, <2>3 DEF UndisturbedCollection
<1>. QED
  BY <1>1, <1>2, <1>3, <1>4, <1>5, <1>6, <1>7, <1>8, <1>9, <1>10,
     <1>11, <1>12, <1>13, <1>14, <1>15, <1>16, <1>17, <1>18, <1>19 DEF CollectShape

LEMMA UndisturbedReadsKept ==
  ASSUME ScanTypeInvariant, UndisturbedReads, CollectShape \/ FailsBecause
  PROVE  UndisturbedReads'
<1>1. /\ CollectionRests /\ scan'.failed \in {scan.failed, TRUE}
      /\ scan'.pc \notin {"read", "schedule", "full"}
  BY DEF CollectShape, FailsBecause, Fails, BaseHolds, BaseRead, BeforeRead, CollectionDone,
     DiffDone, DiffHolds, DiffRead, FinalHolds, FinalRead, Gets, HeadHolds, HeadRead, IndexRead,
     Passes, Starts, StateDone, Walks
<1>2. Undisturbed' => Undisturbed
  BY <1>1 DEF Undisturbed, CollectionRests, RepoRests, ScanTypeInvariant, ScanTypeOK
<1>. QED
  BY <1>1, <1>2 DEF UndisturbedReads, InUse, CollectionRests, RepoRests

LEMMA UndisturbedReadsKeptByScan ==
  ASSUME ScanTypeInvariant, UndisturbedCollection, UndisturbedReads, ScanShape
  PROVE  UndisturbedCollection' /\ UndisturbedReads'
<1>1. RepoRests /\ scan'.failed = scan.failed
  BY DEF ScanShape, CollectionRests, Rests, CollectedAgain, FirstCollected, Passes, PathDiffers,
     PathRead, PathSame, Planned, ReadsEnd, RereadsAgain, RereadsEnd, Scheduled
<1>2. Undisturbed' <=> Undisturbed
  BY <1>1 DEF Undisturbed, RepoRests
<1>3. repo' = repo
  BY <1>1 DEF RepoRests
<1>4. UndisturbedCollection'
  <2>1. scan'.pc \in {"head"} \cup LaterPcs
    BY DEF ScanShape, LaterPcs, CollectedAgain, FirstCollected, Passes, PathDiffers, PathRead,
       PathSame, Planned, ReadsEnd, RereadsAgain, RereadsEnd, Rests, Scheduled
  <2>. QED
    BY <2>1 DEF UndisturbedCollection, FilesPcs, LaterPcs, HeadPcs, BasePcs, BeforePcs,
       ChangePcs, SnapPcs, DiffPcs, IndexPcs, StatePcs, WorkPcs, FinalPcs
<1> SUFFICES ASSUME Undisturbed PROVE UndisturbedReads'
  BY <1>2, <1>4 DEF UndisturbedReads
<1>5. /\ NPaths \in Nat /\ scan.next \in 1 .. NPaths + 1 /\ scan.ledger \in Ledgers
      /\ scan.round \in 1 .. 3
  BY ScanAssumption DEF ScanTypeInvariant, ScanTypeOK
<1>6. HasUnreadable(repo) => SubsetImpossible
  BY DEF HasUnreadable, SubsetImpossible
<1>7. MetadataOf(repo).ready /\ ~ NoMetadata.ready
  BY DEF MetadataOf, NoMetadata
<1>8. SubsetImpossible => SubsetImpossible'
  BY <1>3 DEF SubsetImpossible, ChangesIn, ChangeIn
<1>11. CASE FirstCollected
  BY <1>3, <1>6, <1>7, <1>8, <1>11 DEF FirstCollected, UndisturbedCollection, UndisturbedReads, InUse,
     ScanTypeInvariant, WalksStart, FilesPcs, ScanPaths
<1>12. CASE CollectedAgain
  <2>1. scan.first = MetadataOf(repo) /\ scan.round > 1
    BY <1>5, <1>12 DEF CollectedAgain, UndisturbedReads, InUse
  <2>2. CASE scan.got = MetadataOf(repo)
    BY <1>3, <1>7, <1>12, <2>1, <2>2 DEF CollectedAgain, CollectionRests, SameMetadata,
       UndisturbedReads, InUse
  <2>3. CASE scan.got = NoMetadata /\ HasUnreadable(repo)
    BY <1>3, <1>6, <1>7, <1>8, <1>12, <2>1, <2>3 DEF CollectedAgain, CollectionRests, SameMetadata,
       UndisturbedReads, InUse
  <2>. QED
    BY <1>12, <2>2, <2>3 DEF CollectedAgain, UndisturbedCollection
<1>13. CASE PathRead
  <2>1. /\ \A p \in ScanPaths : p < scan'.next => scan'.ledger[p] = Observe(repo.tree, p)
        /\ scan.round = 1
    BY <1>5, <1>13 DEF PathRead, UndisturbedReads, ScanTypeInvariant, Rounds, Ledgers, ScanPaths
  <2>. QED
    BY <1>3, <1>13, <2>1 DEF PathRead, UndisturbedReads, InUse
<1>14. CASE ReadsEnd
  <2>1. \A p \in ScanPaths : scan.ledger[p] = Observe(repo.tree, p)
    BY <1>5, <1>14 DEF ReadsEnd, UndisturbedReads, ScanPaths
  <2>. QED
    BY <1>3, <1>14, <2>1 DEF ReadsEnd, CollectionRests, UndisturbedReads, InUse
<1>15. CASE Scheduled
  BY <1>3, <1>15 DEF Scheduled, UndisturbedReads, InUse
<1>16. CASE PathSame
  BY <1>3, <1>16 DEF PathSame, CollectionRests, UndisturbedReads, InUse
<1>17. CASE PathDiffers
  <2>1. scan.next \in ScanPaths /\ scan.round > 1
    BY <1>5, <1>17 DEF PathDiffers, Passes, ScanTypeInvariant, Rounds, ScanPaths
  <2>. QED
    BY <1>17, <2>1 DEF PathDiffers, UndisturbedReads
<1>18. CASE RereadsAgain
  BY <1>3, <1>18 DEF RereadsAgain, UndisturbedReads, InUse
<1>19. CASE RereadsEnd
  <2>1. scan.round > 1 /\ \A p \in ScanPaths : scan.ledger[p] = Observe(repo.tree, p)
    BY <1>19 DEF RereadsEnd, Passes, ScanTypeInvariant, Rounds, UndisturbedReads
  <2>2. ~ InventoryIsComplete(scan.ledger) => SubsetImpossible
    <3>1. scan.ledger = Observed(repo.tree)
      BY <1>5, <2>1 DEF Ledgers, Observed
    <3>. QED
      BY <3>1 DEF SubsetImpossible
  <2>. QED
    BY <1>3, <1>8, <1>19, <2>1, <2>2 DEF RereadsEnd, Passes, CollectionRests, UndisturbedReads, InUse
<1>20. CASE Planned
  <2>1. /\ scan.round > 1 /\ scan.first = MetadataOf(repo) /\ scan.got = scan.first
        /\ \A p \in ScanPaths : scan.ledger[p] = Observe(repo.tree, p)
    BY <1>20 DEF Planned, Passes, ScanTypeInvariant, Rounds, MetadataIsWhole, UndisturbedReads, InUse
  <2>2. ~ Mapped => SubsetImpossible
    <3>1. scan.ledger = Observed(repo.tree) /\ scan.got.changes = ChangesIn(repo)
      BY <1>5, <2>1 DEF Ledgers, Observed, MetadataOf
    <3>2. CASE HasUntracked
      BY <2>1, <3>2 DEF HasUntracked, MetadataOf, Tracked, Observe, SubsetImpossible
    <3>3. CASE ~ HasUntracked /\ ~ Mapped
      BY <3>1, <3>3 DEF Mapped, SubsetImpossible
    <3>. QED
      BY <3>2, <3>3 DEF Mapped
  <2>. QED
    BY <1>3, <1>8, <1>20, <2>1, <2>2 DEF Planned, Passes, CollectionRests, UndisturbedReads, InUse
<1>. QED
  BY <1>11, <1>12, <1>13, <1>14, <1>15, <1>16, <1>17, <1>18, <1>19, <1>20 DEF ScanShape

LEMMA UndisturbedInvariantInit ==
  ASSUME ScanInit
  PROVE  UndisturbedInvariant
BY ScanTypeInit DEF ScanInit, UndisturbedInvariant, UndisturbedCollection, UndisturbedReads,
   InUse, FilesPcs, LaterPcs, HeadPcs, BasePcs, BeforePcs, ChangePcs, SnapPcs, DiffPcs,
   IndexPcs, StatePcs, WorkPcs, FinalPcs

LEMMA UndisturbedInvariantKept ==
  ASSUME UndisturbedInvariant, [ScanNext]_scanVars
  PROVE  UndisturbedInvariant'
<1>0. ScanTypeInvariant'
  BY ScanTypesKept DEF UndisturbedInvariant
<1>1. CASE CollectStep
  BY <1>0, <1>1, CollectSteps, UndisturbedCollectionKept, UndisturbedReadsKept DEF
     UndisturbedInvariant
<1>2. CASE ScanStep
  BY <1>0, <1>2, ScanSteps, UndisturbedReadsKeptByScan DEF UndisturbedInvariant
<1>3. CASE ScanBegins
  <2>0. DOMAIN scan = ScanFields
    BY DEF UndisturbedInvariant, ScanTypeInvariant, ScanTypeOK, ScanFields
  <2>1. Passes("idle", "head") /\ scan.round = 1
    BY <1>3, <2>0, PassingFields DEF ScanBegins, ScanAt, UndisturbedInvariant,
       ScanTypeInvariant, Rounds
  <2>. QED
    BY <1>0, <2>1 DEF Passes, CollectionRests, RepoRests, UndisturbedInvariant,
       UndisturbedCollection, UndisturbedReads, InUse, FilesPcs, LaterPcs, HeadPcs, BasePcs,
       BeforePcs, ChangePcs, SnapPcs, DiffPcs, IndexPcs, StatePcs, WorkPcs, FinalPcs
<1>4. CASE MoveHead \/ MoveBase \/ Stage \/ WriteFile
  <2>1. OthersChange
    BY <1>4, OtherSteps DEF UndisturbedInvariant
  <2>2. CASE scan.pc = "idle"
    <3>1. scan'.pc = "idle" /\ scan'.round = 1
      BY <2>1, <2>2 DEF OthersChange, UndisturbedInvariant, ScanTypeInvariant, Rounds
    <3>. QED
      BY <1>0, <3>1 DEF UndisturbedInvariant, UndisturbedCollection, UndisturbedReads, InUse,
         FilesPcs, LaterPcs, HeadPcs, BasePcs, BeforePcs, ChangePcs, SnapPcs, DiffPcs, IndexPcs,
         StatePcs, WorkPcs, FinalPcs
  <2>3. CASE scan.pc # "idle"
    <3>1. repo \in held /\ repo \in held' /\ repo' # repo
      BY <2>1, <2>3 DEF OthersChange, UndisturbedInvariant, ScanTypeInvariant, ScanTypeOK
    <3>2. ~ Undisturbed'
      BY <3>1 DEF Undisturbed
    <3>. QED
      BY <1>0, <3>2 DEF UndisturbedInvariant, UndisturbedCollection, UndisturbedReads
  <2>. QED
    BY <2>2, <2>3
<1>5. CASE UNCHANGED scanVars
  BY <1>0, <1>5 DEF scanVars, UndisturbedInvariant, UndisturbedCollection, UndisturbedReads,
     Undisturbed, InUse, SubsetImpossible, ChangesIn, ChangeIn
<1>. QED
  BY <1>1, <1>2, <1>3, <1>4, <1>5 DEF ScanNext

LEMMA FullFromUndisturbed ==
  ASSUME UndisturbedInvariant
  PROVE  FullHasReason
<1> SUFFICES ASSUME scan.pc = "full", ~ scan.failed, ~ Cardinality(held) > 1
             PROVE  SubsetImpossible
  BY DEF FullHasReason, ScanAt
<1>1. IsFiniteSet(held) /\ repo \in held
  BY DEF UndisturbedInvariant, ScanTypeInvariant, ScanTypeOK
<1>2. ASSUME NEW t \in held, t # repo PROVE FALSE
  <2>1. IsFiniteSet({repo}) /\ Cardinality({repo}) = 1
    BY FS_Singleton
  <2>2. Cardinality({repo} \cup {t}) = 2
    BY <1>2, <2>1, FS_AddElement
  <2>3. Cardinality({repo} \cup {t}) <= Cardinality(held) /\ Cardinality(held) \in Nat
    BY <1>1, FS_Subset, FS_CardinalityType
  <2>. QED
    BY <2>2, <2>3
<1>3. held = {repo}
  BY <1>1, <1>2
<1>. QED
  BY <1>3 DEF UndisturbedInvariant, UndisturbedReads, Undisturbed, ScanTypeInvariant, ScanTypeOK

(* For any number of paths, commits, contents and changes by others: a scan of changed files
   ends with the full result only if a command failed, somebody changed the repository while
   it ran, or the repository does not allow a subset: a file is untracked, missing or a link, a
   change is a deletion, a change of type or one of a controlling path, or what is there cannot
   be enumerated or covered.  A scan that nobody disturbs is never taken for one that was: every
   comparison that reconcileGitChangedFileMetadata and the re-reads make succeeds, and the plan
   decides on what the repository is. *)
THEOREM FullResultsHaveReasons == ScanSpec => []FullHasReason
<1>1. ScanInit => UndisturbedInvariant
  BY UndisturbedInvariantInit
<1>2. UndisturbedInvariant /\ [ScanNext]_scanVars => UndisturbedInvariant'
  BY UndisturbedInvariantKept
<1>3. UndisturbedInvariant => FullHasReason
  BY FullFromUndisturbed
<1>. QED
  BY <1>1, <1>2, <1>3, PTL DEF ScanSpec

-----------------------------------------------------------------------------
LEMMA NothingComesBack ==
  ASSUME ScanTypeInvariant, OthersChange, Fresh, scan.pc # "idle"
  PROVE  /\ held \subseteq held' /\ repo \in held'
         /\ \A t \in held : repo'.head = t.head => repo.head = t.head
         /\ \A t \in held : repo'.base = t.base => repo.base = t.base
         /\ \A t \in held : repo'.index = t.index => repo.index = t.index
         /\ \A t \in held, p \in ScanPaths : repo'.tree[p] = t.tree[p] => repo.tree[p] = t.tree[p]
BY DEF OthersChange, Fresh, ScanTypeInvariant, ScanTypeOK

LEMMA WalkIsSeen ==
  ASSUME ScanTypeInvariant, NEW from \in FilesPcs, NEW to, to \notin FilesPcs, Walks(from, to),
         \A p \in Tracked(scan.got.snapshot.index) : Walked(p) => FileSeen(scan.got.snapshot, p)
  PROVE  /\ scan.pc = from /\ scan'.pc \in {from, to} /\ held' = held /\ repo' = repo
         /\ scan'.got.snapshot.index = scan.got.snapshot.index
         /\ \A f \in DOMAIN scan.got : f # "snapshot" => scan'.got[f] = scan.got[f]
         /\ \A p \in Tracked(scan'.got.snapshot.index) :
              Walked(p)' => FileSeen(scan'.got.snapshot, p)
<1>1. /\ scan.pc = from /\ held' = held /\ repo' = repo
      /\ scan.next \in 1 .. NPaths + 1 /\ NPaths \in Nat /\ repo \in held
  BY ScanAssumption DEF Walks, CollectionRests, RepoRests, ScanTypeInvariant, ScanTypeOK
<1>2. scan.got.snapshot \in Snapshots
  BY <1>1 DEF ScanTypeInvariant, GotHasFields, FilesPcs, SnapPcs, DiffPcs, IndexPcs, StatePcs,
     WorkPcs, FinalPcs
<1>3. CASE scan.next > NPaths /\ scan'.pc = to /\ scan'.got = scan.got
  <2>1. \A p \in ScanPaths : p < scan.next
    BY <1>1, <1>3 DEF ScanPaths
  <2>2. \A p \in Tracked(scan.got.snapshot.index) : FileSeen(scan.got.snapshot, p)
    BY <1>1, <2>1 DEF Walked, Tracked
  <2>. QED
    BY <1>1, <1>3, <2>2
<1>4. CASE /\ scan.next <= NPaths /\ scan'.pc = from /\ scan'.next = scan.next + 1
           /\ scan.got.snapshot.index[scan.next] = Absent /\ scan'.got = scan.got
  <2>1. \A p \in Tracked(scan.got.snapshot.index) : p < scan.next + 1 => p < scan.next
    BY <1>1, <1>4 DEF Tracked, ScanPaths
  <2>. QED
    BY <1>1, <1>4, <2>1 DEF Walked
<1>5. CASE /\ scan.next <= NPaths /\ scan'.pc = from /\ scan'.next = scan.next + 1
           /\ scan'.got.snapshot = [scan.got.snapshot EXCEPT !.files[scan.next] = repo.tree[scan.next]]
           /\ \A f \in DOMAIN scan.got : f # "snapshot" => scan'.got[f] = scan.got[f]
  <2> DEFINE new == scan'.got.snapshot
             old == scan.got.snapshot
  <2>1. scan.next \in ScanPaths
    BY <1>1, <1>5 DEF ScanPaths
  <2>2. /\ new.index = old.index /\ new.files[scan.next] = repo.tree[scan.next]
        /\ \A p \in ScanPaths : p # scan.next => new.files[p] = old.files[p]
    BY <1>2, <1>5, <2>1 DEF Snapshots, FileTrees
  <2> HIDE DEF new, old
  <2>3. ASSUME NEW p \in Tracked(new.index), p < scan.next + 1
        PROVE  FileSeen(new, p)
    <3>1. p \in ScanPaths /\ p \in Tracked(old.index)
      BY <2>2, <2>3 DEF Tracked
    <3>2. CASE p = scan.next
      BY <1>1, <2>2, <3>2 DEF FileSeen
    <3>3. CASE p # scan.next
      <4>1. p < scan.next
        BY <1>1, <2>3, <3>1, <3>3 DEF ScanPaths
      <4>. QED
        BY <2>2, <3>1, <3>3, <4>1 DEF FileSeen, Walked, old
    <3>. QED
      BY <3>2, <3>3
  <2>. QED
    BY <1>1, <1>5, <2>2, <2>3 DEF Walked, new, old
<1>. QED
  BY <1>3, <1>4, <1>5 DEF Walks

LEMMA SeenKept ==
  ASSUME ScanTypeInvariant, CollectionIsSeen, CollectShape \/ FailsBecause
  PROVE  CollectionIsSeen'
<1> USE DEF FilesPcs, LaterPcs, HeadPcs, BasePcs, BeforePcs, ChangePcs, SnapPcs, DiffPcs,
            IndexPcs, StatePcs, WorkPcs, FinalPcs
<1>0. repo' = repo /\ held' = held /\ repo \in held
  BY DEF ScanTypeInvariant, ScanTypeOK, CollectionRests, RepoRests, CollectShape, FailsBecause,
     Fails, BaseHolds, BaseRead, BeforeRead, CollectionDone, DiffDone, DiffHolds, DiffRead,
     FinalHolds, FinalRead, Gets, HeadHolds, HeadRead, IndexRead, Passes, Starts, StateDone,
     Walks
<1>1. CASE HeadRead
  BY <1>0, <1>1 DEF HeadRead, Gets, CollectionIsSeen, CollectionRests, ScanTypeInvariant,
     GotHasFields, HeadSeen, BaseSeen, IndexSeen, FilesSeen, FileSeen
<1>2. CASE HeadHolds
  BY <1>0, <1>2 DEF HeadHolds, Passes, CollectionIsSeen, CollectionRests, ScanTypeInvariant,
     GotHasFields, HeadSeen, BaseSeen, IndexSeen, FilesSeen, FileSeen
<1>3. CASE BaseRead
  BY <1>0, <1>3 DEF BaseRead, Gets, CollectionIsSeen, CollectionRests, ScanTypeInvariant,
     GotHasFields, HeadSeen, BaseSeen, IndexSeen, FilesSeen, FileSeen
<1>4. CASE BaseHolds
  BY <1>0, <1>4 DEF BaseHolds, Passes, CollectionIsSeen, CollectionRests, ScanTypeInvariant,
     GotHasFields, HeadSeen, BaseSeen, IndexSeen, FilesSeen, FileSeen
<1>5. CASE BeforeRead
  BY <1>0, <1>5 DEF BeforeRead, Gets, CollectionIsSeen, CollectionRests, ScanTypeInvariant,
     GotHasFields, HeadSeen, BaseSeen, IndexSeen, FilesSeen, FileSeen
<1>6. CASE DiffRead
  BY <1>0, <1>6 DEF DiffRead, Gets, CollectionIsSeen, CollectionRests, ScanTypeInvariant,
     GotHasFields, HeadSeen, BaseSeen, IndexSeen, FilesSeen, FileSeen
<1>7. CASE DiffHolds
  <2>1. scan.next = 1
    BY <1>7 DEF DiffHolds, Starts, Gets, ScanTypeInvariant, WalksStart
  <2>2. /\ Gets("diff-after", "diff-files", "snapshot", scan'.got.snapshot) /\ scan'.got.snapshot.index = repo.index
    BY <1>7 DEF DiffHolds, Starts, Gets
  <2>3. \A p \in Tracked(scan'.got.snapshot.index) : ~ Walked(p)'
    BY <2>1, <2>2 DEF Walked, Gets, Tracked, ScanPaths
  <2>. QED
    BY <1>0, <2>1, <2>2, <2>3 DEF Gets, CollectionIsSeen, CollectionRests, ScanTypeInvariant,
       GotHasFields, HeadSeen, BaseSeen, IndexSeen, FilesSeen, FileSeen
<1>8. CASE Walks("diff-files", "diff-end")
  <2>1. \A p \in Tracked(scan.got.snapshot.index) : Walked(p) => FileSeen(scan.got.snapshot, p)
    BY <1>8 DEF Walks, CollectionIsSeen
  <2>2. /\ scan.pc = "diff-files" /\ scan'.pc \in {"diff-files", "diff-end"}
        /\ scan'.got.snapshot.index = scan.got.snapshot.index
        /\ \A f \in DOMAIN scan.got : f # "snapshot" => scan'.got[f] = scan.got[f]
        /\ \A p \in Tracked(scan'.got.snapshot.index) :
             Walked(p)' => FileSeen(scan'.got.snapshot, p)
    BY <1>8, <2>1, WalkIsSeen
  <2>3. \A p : FileSeen(scan.got.snapshot, p)' <=> FileSeen(scan'.got.snapshot, p)
    BY <1>0 DEF FileSeen
  <2>. QED
    BY <1>0, <2>2, <2>3 DEF CollectionIsSeen, CollectionRests, ScanTypeInvariant, GotHasFields,
       HeadSeen, BaseSeen, IndexSeen, FilesSeen, FileSeen
<1>9. CASE DiffDone
  BY <1>0, <1>9 DEF DiffDone, Gets, CollectionIsSeen, CollectionRests, ScanTypeInvariant,
     GotHasFields, HeadSeen, BaseSeen, IndexSeen, FilesSeen, FileSeen
<1>10. CASE IndexRead
  BY <1>0, <1>10 DEF IndexRead, Gets, CollectionIsSeen, CollectionRests, ScanTypeInvariant,
     GotHasFields, HeadSeen, BaseSeen, IndexSeen, FilesSeen, FileSeen
<1>11. CASE Starts("state", "state-files")
  <2>1. scan.next = 1
    BY <1>11 DEF Starts, Gets, ScanTypeInvariant, WalksStart
  <2>2. /\ Gets("state", "state-files", "snapshot", scan'.got.snapshot) /\ scan'.got.snapshot.index = repo.index
    BY <1>11 DEF Starts, Gets
  <2>3. \A p \in Tracked(scan'.got.snapshot.index) : ~ Walked(p)'
    BY <2>1, <2>2 DEF Walked, Gets, Tracked, ScanPaths
  <2>. QED
    BY <1>0, <2>1, <2>2, <2>3 DEF Gets, CollectionIsSeen, CollectionRests, ScanTypeInvariant,
       GotHasFields, HeadSeen, BaseSeen, IndexSeen, FilesSeen, FileSeen
<1>12. CASE Walks("state-files", "state-end")
  <2>1. \A p \in Tracked(scan.got.snapshot.index) : Walked(p) => FileSeen(scan.got.snapshot, p)
    BY <1>12 DEF Walks, CollectionIsSeen
  <2>2. /\ scan.pc = "state-files" /\ scan'.pc \in {"state-files", "state-end"}
        /\ scan'.got.snapshot.index = scan.got.snapshot.index
        /\ \A f \in DOMAIN scan.got : f # "snapshot" => scan'.got[f] = scan.got[f]
        /\ \A p \in Tracked(scan'.got.snapshot.index) :
             Walked(p)' => FileSeen(scan'.got.snapshot, p)
    BY <1>12, <2>1, WalkIsSeen
  <2>3. \A p : FileSeen(scan.got.snapshot, p)' <=> FileSeen(scan'.got.snapshot, p)
    BY <1>0 DEF FileSeen
  <2>. QED
    BY <1>0, <2>2, <2>3 DEF CollectionIsSeen, CollectionRests, ScanTypeInvariant, GotHasFields,
       HeadSeen, BaseSeen, IndexSeen, FilesSeen, FileSeen
<1>13. CASE StateDone
  <2>1. FilesSeen(scan.got.snapshot)
    BY <1>13 DEF StateDone, Gets, CollectionIsSeen, FilesSeen, Walked
  <2>2. scan'.got.worktree = scan.got.snapshot
    BY <1>13 DEF StateDone, Gets
  <2>3. FilesSeen(scan.got.worktree)'
    BY <1>0, <2>1, <2>2 DEF FilesSeen, FileSeen
  <2>4. repo.index = scan.got.snapshot.index
    BY <1>13 DEF StateDone
  <2>. QED
    BY <1>0, <1>13, <2>2, <2>3, <2>4 DEF StateDone, Gets, CollectionIsSeen, CollectionRests,
       ScanTypeInvariant, GotHasFields, HeadSeen, BaseSeen, IndexSeen
<1>14. CASE FinalRead
  BY <1>0, <1>14 DEF FinalRead, Gets, CollectionIsSeen, CollectionRests, ScanTypeInvariant,
     GotHasFields, HeadSeen, BaseSeen, IndexSeen, FilesSeen, FileSeen
<1>15. CASE Starts("final-state", "final-files")
  <2>1. scan.next = 1
    BY <1>15 DEF Starts, Gets, ScanTypeInvariant, WalksStart
  <2>2. /\ Gets("final-state", "final-files", "snapshot", scan'.got.snapshot) /\ scan'.got.snapshot.index = repo.index
    BY <1>15 DEF Starts, Gets
  <2>3. \A p \in Tracked(scan'.got.snapshot.index) : ~ Walked(p)'
    BY <2>1, <2>2 DEF Walked, Gets, Tracked, ScanPaths
  <2>. QED
    BY <1>0, <2>1, <2>2, <2>3 DEF Gets, CollectionIsSeen, CollectionRests, ScanTypeInvariant,
       GotHasFields, HeadSeen, BaseSeen, IndexSeen, FilesSeen, FileSeen
<1>16. CASE Walks("final-files", "final-end")
  <2>1. \A p \in Tracked(scan.got.snapshot.index) : Walked(p) => FileSeen(scan.got.snapshot, p)
    BY <1>16 DEF Walks, CollectionIsSeen
  <2>2. /\ scan.pc = "final-files" /\ scan'.pc \in {"final-files", "final-end"}
        /\ scan'.got.snapshot.index = scan.got.snapshot.index
        /\ \A f \in DOMAIN scan.got : f # "snapshot" => scan'.got[f] = scan.got[f]
        /\ \A p \in Tracked(scan'.got.snapshot.index) :
             Walked(p)' => FileSeen(scan'.got.snapshot, p)
    BY <1>16, <2>1, WalkIsSeen
  <2>3. \A p : FileSeen(scan.got.snapshot, p)' <=> FileSeen(scan'.got.snapshot, p)
    BY <1>0 DEF FileSeen
  <2>. QED
    BY <1>0, <2>2, <2>3 DEF CollectionIsSeen, CollectionRests, ScanTypeInvariant, GotHasFields,
       HeadSeen, BaseSeen, IndexSeen, FilesSeen, FileSeen
<1>17. CASE FinalHolds
  BY <1>0, <1>17 DEF FinalHolds, Passes, CollectionIsSeen, CollectionRests, ScanTypeInvariant,
     GotHasFields, HeadSeen, BaseSeen, IndexSeen, FilesSeen, FileSeen
<1>18. CASE CollectionDone
  BY <1>18 DEF CollectionDone, CollectionIsSeen
<1>19. CASE FailsBecause
  BY <1>19 DEF FailsBecause, Fails, CollectionIsSeen
<1>. QED
  BY <1>1, <1>2, <1>3, <1>4, <1>5, <1>6, <1>7, <1>8, <1>9, <1>10,
     <1>11, <1>12, <1>13, <1>14, <1>15, <1>16, <1>17, <1>18, <1>19 DEF CollectShape

LEMMA MetadataSeenKept ==
  ASSUME ScanTypeInvariant, CollectionIsSeen, MetadataIsSeen, LedgerIsSeen, CollectShape \/ FailsBecause
  PROVE  MetadataIsSeen' /\ LedgerIsSeen'
<1>0. /\ CollectionRests /\ scan.pc \notin {"read", "schedule"} /\ scan'.pc \notin {"read", "schedule"}
  BY DEF CollectShape, FailsBecause, Fails, Collecting, BaseHolds, BaseRead, BeforeRead,
     CollectionDone, DiffDone, DiffHolds, DiffRead, FinalHolds, FinalRead, Gets, HeadHolds,
     HeadRead, IndexRead, Passes, Starts, StateDone, Walks
<1>1. repo' = repo /\ held' = held /\ scan'.first = scan.first /\ scan'.ledger = scan.ledger
      /\ scan'.round = scan.round
  BY <1>0 DEF CollectionRests, RepoRests
<1>2. LedgerIsSeen'
  BY <1>0, <1>1 DEF LedgerIsSeen, HasRead, Fits
<1>3. InUse' => MetadataSeen(scan.first)'
  BY <1>0, <1>1 DEF InUse, MetadataIsSeen, MetadataSeen, HeadSeen, BaseSeen, IndexSeen,
     FilesSeen, FileSeen
<1>4. CASE CollectionDone
  <2>1. scan.pc = "final-again"
    BY <1>4 DEF CollectionDone
  <2>2. /\ HeadSeen(scan.got) /\ BaseSeen(scan.got) /\ IndexSeen(scan.got) /\ FilesSeen(scan.got.worktree)
        /\ repo.index = scan.got.index => scan.got.worktree.index = repo.index
    BY <2>1 DEF CollectionIsSeen, FilesPcs, LaterPcs, HeadPcs, BasePcs, BeforePcs, ChangePcs,
       SnapPcs, DiffPcs, IndexPcs, StatePcs, WorkPcs, FinalPcs
  <2>3. /\ scan'.got.head = scan.got.head /\ scan'.got.base = scan.got.base
        /\ scan'.got.index = scan.got.index /\ scan'.got.worktree = scan.got.worktree
    BY <1>4 DEF CollectionDone
  <2>4. MetadataSeen(scan.got)'
    BY <1>1, <2>2, <2>3 DEF MetadataSeen, HeadSeen, BaseSeen, IndexSeen, FilesSeen, FileSeen
  <2>. QED
    BY <1>2, <1>3, <2>4 DEF MetadataIsSeen
<1>5. CASE scan'.pc # "collected" \/ scan'.got = NoMetadata
  BY <1>2, <1>3, <1>5 DEF MetadataIsSeen
<1>. QED
  BY <1>4, <1>5 DEF CollectShape, FailsBecause, Fails, BaseHolds, BaseRead, BeforeRead,
     CollectionDone, DiffDone, DiffHolds, DiffRead, FinalHolds, FinalRead, Gets, HeadHolds,
     HeadRead, IndexRead, Passes, Starts, StateDone, Walks

LEMMA SeenKeptByScan ==
  ASSUME ScanTypeInvariant, CollectionIsSeen, MetadataIsSeen, LedgerIsSeen, ScanShape
  PROVE  CollectionIsSeen' /\ MetadataIsSeen' /\ LedgerIsSeen'
<1>1. RepoRests /\ scan'.pc \in {"head"} \cup LaterPcs
  BY DEF ScanShape, CollectionRests, LaterPcs, CollectedAgain, FirstCollected, Passes,
     PathDiffers, PathRead, PathSame, Planned, ReadsEnd, RereadsAgain, RereadsEnd, Rests,
     Scheduled
<1>2. CollectionIsSeen'
  BY <1>1 DEF CollectionIsSeen, FilesPcs, LaterPcs, HeadPcs, BasePcs, BeforePcs, ChangePcs,
     SnapPcs, DiffPcs, IndexPcs, StatePcs, WorkPcs, FinalPcs
<1>3. repo' = repo /\ held' = held /\ repo \in held
  BY <1>1 DEF RepoRests, ScanTypeInvariant, ScanTypeOK
<1>4. \A m : MetadataSeen(m) => MetadataSeen(m)'
  BY <1>3 DEF MetadataSeen, HeadSeen, BaseSeen, IndexSeen, FilesSeen, FileSeen
<1>5. InUse' => MetadataSeen(scan'.first)
  <2>1. CASE FirstCollected
    BY <2>1 DEF FirstCollected, MetadataIsSeen, InUse, NoMetadata
  <2>2. CASE scan'.first = scan.first /\ (InUse' => InUse)
    BY <2>2 DEF MetadataIsSeen
  <2>. QED
    <3>1. scan.round \in 1 .. 3
      BY DEF ScanTypeInvariant, ScanTypeOK
    <3>. QED
      BY <2>1, <2>2, <3>1 DEF ScanShape, InUse, CollectionRests, ScanTypeInvariant, Rounds,
         CollectedAgain, PathRead, ReadsEnd, Scheduled, PathSame, PathDiffers, Passes,
         Planned, RereadsAgain, RereadsEnd, Rests
<1>6. MetadataIsSeen'
  <2>1. MetadataSeen(scan'.first) => MetadataSeen(scan.first)'
    BY <1>3 DEF MetadataSeen, HeadSeen, BaseSeen, IndexSeen, FilesSeen, FileSeen
  <2>. QED
    BY <1>1, <1>5, <2>1 DEF MetadataIsSeen, LaterPcs
<1>7. LedgerIsSeen'
  <2>0. /\ NPaths \in Nat /\ scan.next \in 1 .. NPaths + 1 /\ scan.ledger \in Ledgers
        /\ scan.round \in 1 .. 3 /\ Absent # Present
    BY ScanAssumption DEF ScanTypeInvariant, ScanTypeOK
  <2>1. CASE FirstCollected
    <3>1. \/ scan'.pc \in {"read", "full"} /\ scan'.round = 1 /\ scan'.next = 1
          \/ scan'.pc = "full" /\ scan'.round = 1
      BY <2>1 DEF FirstCollected, ScanTypeInvariant, WalksStart, FilesPcs, NoMetadata
    <3>. QED
      BY <3>1 DEF LedgerIsSeen, HasRead, ScanPaths
  <2>2. CASE PathRead
    <3>1. scan.next \in ScanPaths /\ scan.round = 1 /\ scan'.round = 1 /\ scan'.first = scan.first
      BY <2>0, <2>2 DEF PathRead, ScanPaths, ScanTypeInvariant, Rounds
    <3> SUFFICES ASSUME NEW p \in ScanPaths, HasRead(p)'
                 PROVE  /\ Fits(repo, p)'
                        /\ scan'.ledger[p] = Absent => \E t \in held' : t.tree[p] = Absent
      BY DEF LedgerIsSeen
    <3>2. CASE p = scan.next
      <4>1. scan'.ledger[p] = Observe(repo.tree, p)
        BY <2>0, <2>2, <3>1, <3>2 DEF PathRead, Ledgers
      <4>2. Observe(repo.tree, p) = Absent => repo.tree[p] = Absent
        BY <2>0 DEF Observe
      <4>3. Fits(repo, p)'
        BY <1>3, <4>1 DEF Fits, Observe
      <4>. QED
        BY <1>3, <4>1, <4>2, <4>3
    <3>3. CASE p # scan.next
      <4>1. scan'.ledger[p] = scan.ledger[p] /\ HasRead(p)
        BY <2>0, <2>2, <3>1, <3>3 DEF PathRead, Ledgers, HasRead, ScanPaths
      <4>2. /\ Fits(repo, p)
            /\ scan.ledger[p] = Absent => \E t \in held : t.tree[p] = Absent
        BY <3>1, <4>1 DEF LedgerIsSeen
      <4>3. Fits(repo, p)'
        BY <1>3, <3>1, <4>1, <4>2 DEF Fits
      <4>. QED
        BY <1>3, <4>1, <4>2, <4>3
    <3>. QED
      BY <3>2, <3>3
  <2>3. CASE /\ scan'.first = scan.first /\ scan'.ledger = scan.ledger
             /\ \A p \in ScanPaths : HasRead(p)' => HasRead(p)
             /\ scan'.round = 1 => scan.round = 1
    BY <1>3, <2>3 DEF LedgerIsSeen, Fits
  <2>4. CASE ReadsEnd
    BY <2>0, <2>3, <2>4 DEF ReadsEnd, CollectionRests, HasRead, ScanPaths
  <2>5. CASE Scheduled \/ RereadsAgain
    BY <2>0, <2>3, <2>5 DEF Scheduled, RereadsAgain, HasRead
  <2>6. CASE CollectedAgain \/ PathSame \/ PathDiffers \/ RereadsEnd \/ Planned
    <3>1. /\ scan'.first = scan.first /\ scan'.ledger = scan.ledger /\ scan.round > 1 /\ scan'.round = scan.round
      BY <2>0, <2>6 DEF CollectedAgain, PathSame, PathDiffers, RereadsEnd, Planned, Passes,
         CollectionRests, ScanTypeInvariant, Rounds
    <3>. QED
      BY <2>0, <2>3, <3>1 DEF HasRead
  <2>. QED
    BY <2>1, <2>2, <2>4, <2>5, <2>6 DEF ScanShape
<1>. QED
  BY <1>2, <1>6, <1>7

LEMMA SeenKeptByOthers ==
  ASSUME ScanTypeInvariant, CollectionIsSeen, MetadataIsSeen, LedgerIsSeen, OthersChange, Fresh
  PROVE  CollectionIsSeen' /\ MetadataIsSeen' /\ LedgerIsSeen'
<1>0. scan' = scan
  BY DEF OthersChange
<1>1. CASE scan.pc = "idle"
  <2>1. scan'.pc = "idle" /\ scan'.round = 1
    BY <1>0, <1>1 DEF ScanTypeInvariant, Rounds
  <2>. QED
    BY <2>1 DEF CollectionIsSeen, MetadataIsSeen, LedgerIsSeen, InUse, HasRead, FilesPcs,
       LaterPcs, HeadPcs, BasePcs, BeforePcs, ChangePcs, SnapPcs, DiffPcs, IndexPcs, StatePcs,
       WorkPcs, FinalPcs
<1>2. CASE scan.pc # "idle"
  <2>1. /\ held \subseteq held' /\ repo \in held'
        /\ \A t \in held : repo'.index = t.index => repo.index = t.index
        /\ \A t \in held, p \in ScanPaths : repo'.tree[p] = t.tree[p] => repo.tree[p] = t.tree[p]
    BY <1>2, NothingComesBack
  <2>3. ASSUME NEW m, MetadataSeen(m) PROVE MetadataSeen(m)'
    <3>1. HeadSeen(m)' /\ BaseSeen(m)' /\ IndexSeen(m)'
      BY <2>1, <2>3 DEF MetadataSeen, HeadSeen, BaseSeen, IndexSeen
    <3>2. FilesSeen(m.worktree)'
      BY <2>1, <2>3 DEF MetadataSeen, FilesSeen, FileSeen
    <3>3. repo'.index = m.index => repo.index = m.index
      BY <2>1, <2>3 DEF MetadataSeen, IndexSeen
    <3>. QED
      BY <2>3, <3>1, <3>2, <3>3 DEF MetadataSeen
  <2>4. CollectionIsSeen'
    <3>1. /\ scan.pc \in HeadPcs => HeadSeen(scan.got)'
          /\ scan.pc \in BasePcs => BaseSeen(scan.got)'
          /\ scan.pc \in IndexPcs => IndexSeen(scan.got)'
      BY <1>0, <2>1 DEF CollectionIsSeen, HeadSeen, BaseSeen, IndexSeen
    <3>2. /\ scan.pc \in FilesPcs \cup {"state-end"} =>
               \A p \in Tracked(scan.got.snapshot.index) : Walked(p) => FileSeen(scan.got.snapshot, p)'
          /\ scan.pc \in WorkPcs => FilesSeen(scan.got.worktree)'
      BY <1>0, <2>1 DEF CollectionIsSeen, FilesSeen, FileSeen
    <3>3. /\ scan.pc \in StatePcs /\ repo'.index = scan.got.index => scan.got.snapshot.index = repo'.index
          /\ scan.pc \in WorkPcs /\ repo'.index = scan.got.index => scan.got.worktree.index = repo'.index
      <4>1. scan.pc \in StatePcs \cup WorkPcs => IndexSeen(scan.got)
        BY DEF CollectionIsSeen, IndexPcs
      <4>2. IndexSeen(scan.got) /\ repo'.index = scan.got.index => repo.index = scan.got.index
        BY <2>1 DEF IndexSeen
      <4>. QED
        BY <4>1, <4>2 DEF CollectionIsSeen
    <3>4. \A p : Walked(p)' <=> Walked(p)
      BY <1>0 DEF Walked
    <3>. QED
      BY <1>0, <3>1, <3>2, <3>3, <3>4 DEF CollectionIsSeen
  <2>5. MetadataIsSeen'
    BY <1>0, <2>3 DEF MetadataIsSeen, InUse, MetadataSeen, HeadSeen, BaseSeen, IndexSeen,
       FilesSeen, FileSeen
  <2>6. LedgerIsSeen'
    <3> SUFFICES ASSUME NEW p \in ScanPaths, HasRead(p)
                 PROVE  /\ scan.round = 1 => Fits(repo, p)'
                        /\ scan.ledger[p] = Absent => \E t \in held' : t.tree[p] = Absent
      BY <1>0 DEF LedgerIsSeen, HasRead
    <3>1. /\ scan.round = 1 => Fits(repo, p)
          /\ scan.ledger[p] = Absent => \E t \in held : t.tree[p] = Absent
      BY DEF LedgerIsSeen
    <3>2. ASSUME scan.round = 1, p \in Tracked(scan.first.worktree.index),
                 repo'.tree[p] = scan.first.worktree.files[p]
          PROVE  scan.ledger[p] = Observe(repo'.tree, p)
      <4>1. FileSeen(scan.first.worktree, p)
        BY <3>2 DEF HasRead, MetadataIsSeen, InUse, MetadataSeen, FilesSeen
      <4>2. repo.tree[p] = scan.first.worktree.files[p]
        BY <2>1, <3>2, <4>1 DEF FileSeen
      <4>. QED
        BY <3>1, <3>2, <4>2 DEF Fits, Observe
    <3>. QED
      BY <1>0, <2>1, <3>1, <3>2 DEF Fits
  <2>. QED
    BY <2>4, <2>5, <2>6
<1>. QED
  BY <1>1, <1>2

-----------------------------------------------------------------------------
LEMMA ScheduledHolds ==
  ASSUME ScanTypeInvariant, SeenInvariant, Scheduled
  PROVE  LaterRounds'
<1>1. /\ repo' = repo /\ held' = held /\ repo \in held /\ scan'.first = scan.first
      /\ scan'.ledger = scan.ledger /\ scan'.pc = "head" /\ scan.round = 1 /\ scan.pc = "schedule"
  BY DEF Scheduled, Rests, RepoRests, ScanTypeInvariant, ScanTypeOK, Rounds
<1>2. \A p \in ScanPaths : Fits(repo, p)
  BY <1>1 DEF SeenInvariant, LedgerIsSeen, HasRead
<1>3. \A p \in ScanPaths : Fits(repo, p)'
  BY <1>1, <1>2 DEF Fits
<1>4. Persists(repo)'
  BY <1>1, <1>3 DEF Persists
<1>5. Instant(repo)'
  BY <1>1, <1>4 DEF Instant, CollectionConfirms, FilesPcs, LaterPcs, HeadPcs, BasePcs,
     BeforePcs, ChangePcs, SnapPcs, DiffPcs, IndexPcs, StatePcs, WorkPcs, FinalPcs
<1>6. ChangesFollow'
  BY <1>1 DEF ChangesFollow, FilesPcs, LaterPcs, HeadPcs, BasePcs, BeforePcs, ChangePcs,
     SnapPcs, DiffPcs, IndexPcs, StatePcs, WorkPcs, FinalPcs
<1>. QED
  BY <1>1, <1>5, <1>6 DEF LaterRounds

LEMMA LaterKeptByScan ==
  ASSUME ScanTypeInvariant, SeenInvariant, ScanShape, LaterRounds
  PROVE  LaterRounds'
<1>1. CASE Scheduled
  BY <1>1, ScheduledHolds
<1>2. CASE FirstCollected \/ PathRead \/ ReadsEnd
  <2>1. scan'.round = 1
    BY <1>2 DEF FirstCollected, PathRead, ReadsEnd, CollectionRests, ScanTypeInvariant, Rounds
  <2>. QED
    BY <2>1 DEF LaterRounds
<1>3. CASE CollectedAgain \/ PathSame \/ PathDiffers \/ RereadsAgain \/ RereadsEnd \/ Planned
  <2>0. /\ scan.round > 1 /\ NPaths \in Nat /\ scan.next \in 1 .. NPaths + 1 /\ Absent # Present
    BY <1>3, ScanAssumption DEF CollectedAgain, PathSame, PathDiffers, RereadsAgain, RereadsEnd,
       Planned, Passes, ScanTypeInvariant, ScanTypeOK, Rounds
  <2>1. /\ repo' = repo /\ held' = held /\ scan'.first = scan.first /\ scan'.ledger = scan.ledger
        /\ scan'.pc \in {"reread", "plan", "changed", "full", "head"}
    BY <1>3 DEF CollectedAgain, PathSame, PathDiffers, RereadsAgain, RereadsEnd, Planned, Passes,
       CollectionRests, Rests, RepoRests
  <2>2. ChangesFollow'
    BY <2>1 DEF ChangesFollow, FilesPcs, LaterPcs, HeadPcs, BasePcs, BeforePcs, ChangePcs,
       SnapPcs, DiffPcs, IndexPcs, StatePcs, WorkPcs, FinalPcs
  <2>3. PICK s \in held : Instant(s)
    BY <2>0 DEF LaterRounds
  <2>4. Persists(s)'
    BY <2>1, <2>3 DEF Instant, Persists, Fits
  <2>5. CollectionConfirms(s)'
    BY <2>1 DEF CollectionConfirms, FilesPcs, LaterPcs, HeadPcs, BasePcs, BeforePcs, ChangePcs,
       SnapPcs, DiffPcs, IndexPcs, StatePcs, WorkPcs, FinalPcs
  <2>6. scan'.pc \in {"reread", "plan", "changed"} => Agreed(s, scan'.first)
    BY <1>3, <2>1, <2>3 DEF Instant, CollectedAgain, SameMetadata, PathSame, PathDiffers,
       RereadsAgain, RereadsEnd, Planned, Passes
  <2>7. ASSUME NEW p \in ScanPaths,
               (scan'.pc = "reread" /\ p < scan'.next) \/ scan'.pc \in {"plan", "changed"},
               scan'.ledger[p] = Absent
        PROVE  s.tree[p] = Absent
    <3>1. CASE CollectedAgain
      <4>1. scan'.next = 1 /\ scan'.pc \notin {"plan", "changed"}
        BY <2>7, <3>1 DEF CollectedAgain, ScanTypeInvariant, WalksStart, FilesPcs, SameMetadata,
           NoMetadata
      <4>2. ~ p < 1
        BY DEF ScanPaths
      <4>. QED
        BY <2>7, <4>1, <4>2
    <3>2. CASE PathSame /\ p = scan.next
      <4>1. Observe(repo.tree, p) = Absent
        BY <2>1, <2>7, <3>2 DEF PathSame
      <4>2. repo.tree[p] = Absent
        BY <2>0, <4>1 DEF Observe
      <4>. QED
        BY <2>1, <2>3, <2>7, <4>2 DEF Instant, Persists
    <3>3. CASE PathSame /\ p # scan.next
      <4>1. p < scan.next /\ scan.pc = "reread"
        BY <2>0, <2>7, <3>3 DEF PathSame, ScanPaths
      <4>. QED
        BY <2>1, <2>3, <2>7, <4>1 DEF Instant
    <3>4. CASE RereadsEnd
      <4>1. p < scan.next /\ scan.pc = "reread"
        BY <2>0, <2>7, <3>4 DEF RereadsEnd, Passes, ScanPaths
      <4>. QED
        BY <2>1, <2>3, <2>7, <4>1 DEF Instant
    <3>5. CASE PathDiffers \/ RereadsAgain
      BY <2>7, <3>5 DEF PathDiffers, RereadsAgain, Passes
    <3>6. CASE Planned
      <4>1. scan.pc = "plan"
        BY <3>6 DEF Planned, Passes
      <4>. QED
        BY <2>1, <2>3, <2>7, <4>1 DEF Instant
    <3>. QED
      BY <1>3, <3>1, <3>2, <3>3, <3>4, <3>5, <3>6
  <2>8. scan'.pc = "changed" => ~ HasUntracked' /\ Plannable(scan'.got.changes)
    <3>1. scan'.pc = "changed" => Mapped /\ scan'.got = scan.got
      BY <1>3 DEF CollectedAgain, PathSame, PathDiffers, RereadsAgain, RereadsEnd, Planned, Passes
    <3>. QED
      BY <2>1, <3>1 DEF HasUntracked, Mapped
  <2>9. Instant(s)'
    BY <2>1, <2>4, <2>5, <2>6, <2>7, <2>8 DEF Instant
  <2>. QED
    BY <2>1, <2>2, <2>3, <2>9 DEF LaterRounds
<1>. QED
  BY <1>1, <1>2, <1>3 DEF ScanShape

LEMMA LaterKeptByOthers ==
  ASSUME ScanTypeInvariant, SeenInvariant, OthersChange, Fresh, LaterRounds
  PROVE  LaterRounds'
<1>0. scan' = scan
  BY DEF OthersChange
<1> SUFFICES ASSUME scan.round > 1 PROVE LaterRounds'
  BY <1>0 DEF LaterRounds
<1> DEFINE m == scan.first
<1>1. /\ scan.pc # "idle" /\ MetadataSeen(m) /\ m.worktree \in Snapshots
  BY DEF ScanTypeInvariant, Rounds, SeenInvariant, MetadataIsSeen, InUse, MetadataIsWhole, Ready
<1>2. /\ held \subseteq held'
      /\ \A t \in held : repo'.head = t.head => repo.head = t.head
      /\ \A t \in held : repo'.base = t.base => repo.base = t.base
      /\ \A t \in held : repo'.index = t.index => repo.index = t.index
      /\ \A t \in held, p \in ScanPaths : repo'.tree[p] = t.tree[p] => repo.tree[p] = t.tree[p]
  BY <1>1, NothingComesBack
<1>3. /\ repo'.head = m.head => repo.head = m.head
      /\ repo'.base = m.base => repo.base = m.base
      /\ repo'.index = m.index => repo.index = m.index
      /\ \A p \in Tracked(m.worktree.index) :
           repo'.tree[p] = m.worktree.files[p] => repo.tree[p] = m.worktree.files[p]
  BY <1>1, <1>2 DEF MetadataSeen, HeadSeen, BaseSeen, IndexSeen, FilesSeen, FileSeen, Tracked
<1>4. \A p \in ScanPaths : scan.ledger[p] = Absent /\ repo'.tree[p] = Absent => repo.tree[p] = Absent
  BY <1>2 DEF SeenInvariant, LedgerIsSeen, HasRead
<1>5. PICK s \in held : Instant(s)
  BY DEF LaterRounds
<1>6. Persists(s)'
  BY <1>0, <1>3, <1>4, <1>5 DEF Instant, Persists, Fits
<1>7. Instant(s)'
  <2>1. CollectionConfirms(s)'
    BY <1>0, <1>5 DEF Instant, CollectionConfirms, HeadConfirms, BaseConfirms, IndexConfirms,
       SnapshotConfirms, Walked
  <2>. QED
    BY <1>0, <1>5, <1>6, <2>1 DEF Instant, HasUntracked
<1>8. ChangesFollow'
  <2>0. ChangesFollow
    BY DEF LaterRounds
  <2>1. m.worktree.index = m.index => \A p \in ScanPaths : TreeAgrees(p)' => TreeAgrees(p)
    BY <1>0, <1>3 DEF TreeAgrees
  <2>2. \A p : IsExact(p)' <=> IsExact(p)
    BY <1>0 DEF IsExact, Base
  <2>3. \A p, snapshot : SnapshotAgrees(snapshot, p)' <=> SnapshotAgrees(snapshot, p)
    BY <1>0 DEF SnapshotAgrees
  <2>4. \A p : Walked(p)' <=> Walked(p)
    BY <1>0 DEF Walked
  <2>5. /\ repo.index = m.index => m.worktree.index = m.index
        /\ scan.pc \in IndexPcs /\ scan.got.index = m.index => m.worktree.index = m.index
    BY <1>1, <1>5 DEF MetadataSeen, Instant, CollectionConfirms, IndexConfirms
  <2>6. Base' = Base
    BY <1>0 DEF Base
  <2>7. /\ scan.pc \in {"diff-after"} \cup DiffPcs /\ repo'.index = m.index =>
             scan.got.changes = Statuses(m.index, Base)
        /\ scan.pc \in DiffPcs /\ repo'.index = m.index => scan.got.snapshot.index = m.index
    BY <1>3, <2>0 DEF ChangesFollow
  <2>8. scan.pc \in DiffPcs =>
          \A p \in Tracked(scan.got.snapshot.index) :
            Walked(p) /\ p \in Tracked(m.worktree.index) /\ repo'.tree[p] = m.worktree.files[p] =>
              scan.got.snapshot.files[p] = m.worktree.files[p]
    BY <1>3, <2>0 DEF ChangesFollow
  <2>9. scan.pc = "index" /\ repo'.index = m.index =>
          \A p \in ScanPaths : TreeAgrees(p)' => IsExact(p)
    BY <1>3, <2>0, <2>1, <2>5 DEF ChangesFollow
  <2>10. scan.pc \in {"state"} \cup StatePcs /\ scan.got.index = m.index =>
           \A p \in ScanPaths : (scan.pc \in StatePcs /\ Walked(p)) \/ (TreeAgrees(p)' => IsExact(p))
    BY <2>0, <2>1, <2>5 DEF ChangesFollow, IndexPcs
  <2>11. /\ scan.pc \in StatePcs /\ scan.got.index = m.index =>
              \A p \in ScanPaths : Walked(p) /\ SnapshotAgrees(scan.got.snapshot, p) => IsExact(p)
         /\ scan.pc \in WorkPcs /\ scan.got.index = m.index =>
              \A p \in ScanPaths : SnapshotAgrees(scan.got.worktree, p) => IsExact(p)
    BY <2>0 DEF ChangesFollow
  <2>12. \A p : SnapshotAgrees(scan.got.snapshot, p)' <=> SnapshotAgrees(scan.got.snapshot, p)
    BY <1>0 DEF SnapshotAgrees
  <2>13. \A p : SnapshotAgrees(scan.got.worktree, p)' <=> SnapshotAgrees(scan.got.worktree, p)
    BY <1>0 DEF SnapshotAgrees
  <2>. QED
    BY <1>0, <2>2, <2>4, <2>6, <2>7, <2>8, <2>9, <2>10, <2>11, <2>12, <2>13 DEF ChangesFollow
<1>. QED
  BY <1>0, <1>2, <1>5, <1>7, <1>8 DEF LaterRounds

LEMMA SubsetFromLater ==
  ASSUME ScanTypeInvariant, LaterRounds
  PROVE  SubsetIsConsistent
<1> SUFFICES ASSUME scan.pc = "changed" PROVE SubsetIsConsistent
  BY DEF SubsetIsConsistent, ScanAt
<1> DEFINE m == scan.first
<1>1. scan.got = m /\ scan.round > 1
  BY DEF ScanTypeInvariant, MetadataIsWhole, Rounds
<1>2. PICK s \in held : Instant(s)
  BY <1>1 DEF LaterRounds
<1>3. /\ Agreed(s, m) /\ \A p \in ScanPaths : Fits(s, p)
      /\ \A p \in ScanPaths : scan.ledger[p] = Absent => s.tree[p] = Absent
      /\ \A p \in ScanPaths : scan.ledger[p] = Absent \/ p \in Tracked(m.index)
      /\ Plannable(m.changes)
  BY <1>1, <1>2 DEF Instant, Persists, HasUntracked
<1>4. \A p \in ScanPaths : Observe(s.tree, p) = scan.ledger[p]
  BY <1>3 DEF Agreed, Fits, Observe
<1>5. \A p \in ScanPaths : s.tree[p] # Absent => p \in Tracked(s.index)
  <2>1. \A p \in ScanPaths : s.tree[p] # Absent => scan.ledger[p] # Absent
    BY <1>3, <1>4
  <2>. QED
    BY <1>3, <2>1 DEF Agreed
<1>6. scan.ledger = Observed(s.tree)
  BY <1>4 DEF ScanTypeInvariant, ScanTypeOK, Ledgers, Observed
<1>. QED
  BY <1>1, <1>3, <1>5, <1>6 DEF Agreed, SubsetIsConsistent

-----------------------------------------------------------------------------
LEMMA WalkConfirms ==
  ASSUME ScanTypeInvariant, NEW s, Persists(s), CollectionConfirms(s), scan.round > 1,
         Walks("state-files", "state-end")
  PROVE  CollectionConfirms(s)'
<1> USE DEF FilesPcs, LaterPcs, HeadPcs, BasePcs, BeforePcs, ChangePcs, SnapPcs, DiffPcs,
            IndexPcs, StatePcs, WorkPcs, FinalPcs
<1>1. /\ scan.pc = "state-files" /\ scan'.pc \in {"state-files", "state-end"}
      /\ scan'.first = scan.first /\ repo' = repo
      /\ scan.next \in 1 .. NPaths + 1 /\ NPaths \in Nat
  BY ScanAssumption DEF Walks, CollectionRests, RepoRests, ScanTypeInvariant, ScanTypeOK
<1>2. scan.got.snapshot \in Snapshots
  BY <1>1 DEF ScanTypeInvariant, GotHasFields
<1>3. scan'.got.index = scan.got.index /\ scan'.got.head = scan.got.head /\ scan'.got.base = scan.got.base
  BY <1>1 DEF Walks, ScanTypeInvariant, GotHasFields
<1>4. HeadConfirms(s)' /\ BaseConfirms(s)' /\ IndexConfirms(s)'
  BY <1>1, <1>3 DEF CollectionConfirms, HeadConfirms, BaseConfirms, IndexConfirms
<1>5. ASSUME NEW p \in ScanPaths, Walked(p)'
      PROVE  SnapshotConfirms(s, scan.got.snapshot, p)'
  <2>1. Walked(p) => SnapshotConfirms(s, scan.got.snapshot, p)
    BY <1>1 DEF CollectionConfirms
  <2>2. CASE scan.next > NPaths /\ scan'.got = scan.got
    <3>1. Walked(p)
      BY <1>1, <2>2 DEF Walked, ScanPaths
    <3>. QED
      BY <1>1, <2>1, <2>2, <3>1 DEF SnapshotConfirms
  <2>3. CASE /\ scan.next <= NPaths /\ scan'.pc = "state-files" /\ scan'.next = scan.next + 1
             /\ scan.got.snapshot.index[scan.next] = Absent /\ scan'.got = scan.got
    <3>1. Walked(p) \/ p = scan.next
      BY <1>1, <1>5, <2>3 DEF Walked, ScanPaths
    <3>. QED
      BY <1>1, <2>1, <2>3, <3>1 DEF SnapshotConfirms, Tracked
  <2>4. CASE /\ scan.next <= NPaths /\ scan'.pc = "state-files" /\ scan'.next = scan.next + 1
             /\ scan'.got.snapshot = [scan.got.snapshot EXCEPT !.files[scan.next] = repo.tree[scan.next]]
    <3>1. scan.next \in ScanPaths /\ scan'.pc = "state-files" /\ scan'.next = scan.next + 1
      BY <1>1, <2>4 DEF ScanPaths
    <3>2. /\ scan'.got.snapshot.index = scan.got.snapshot.index
          /\ scan'.got.snapshot.files[scan.next] = repo.tree[scan.next]
          /\ p # scan.next => scan'.got.snapshot.files[p] = scan.got.snapshot.files[p]
      BY <1>2, <2>4, <3>1 DEF Snapshots, FileTrees
    <3>3. CASE p = scan.next
      BY <1>1, <3>2, <3>3 DEF SnapshotConfirms, Persists
    <3>4. CASE p # scan.next
      <4>1. Walked(p)
        BY <1>1, <1>5, <3>1, <3>4 DEF Walked, ScanPaths
      <4>. QED
        BY <1>1, <2>1, <3>2, <3>4, <4>1 DEF SnapshotConfirms
    <3>. QED
      BY <3>3, <3>4
  <2>. QED
    BY <1>1, <2>2, <2>3, <2>4 DEF Walks
<1>. QED
  BY <1>1, <1>4, <1>5 DEF CollectionConfirms

LEMMA ConfirmsKept ==
  ASSUME ScanTypeInvariant, SeenInvariant, NEW s, Persists(s), CollectionConfirms(s), scan.round > 1, CollectShape
  PROVE  CollectionConfirms(s)'
<1> USE DEF FilesPcs, LaterPcs, HeadPcs, BasePcs, BeforePcs, ChangePcs, SnapPcs, DiffPcs,
            IndexPcs, StatePcs, WorkPcs, FinalPcs
<1>0. repo' = repo /\ scan'.first = scan.first
  BY DEF CollectionRests, RepoRests, CollectShape, BaseHolds, BaseRead, BeforeRead,
     CollectionDone, DiffDone, DiffHolds, DiffRead, FinalHolds, FinalRead, Gets, HeadHolds,
     HeadRead, IndexRead, Passes, Starts, StateDone, Walks
<1>50. repo.index = scan.first.index => scan.first.worktree.index = scan.first.index
  BY DEF SeenInvariant, MetadataIsSeen, InUse, MetadataSeen
<1>1. CASE HeadRead
  BY <1>0, <1>50, <1>1 DEF HeadRead, Gets, ScanTypeInvariant, GotHasFields, CollectionConfirms,
     HeadConfirms, BaseConfirms, IndexConfirms, Persists, SnapshotConfirms
<1>2. CASE HeadHolds
  BY <1>0, <1>50, <1>2 DEF HeadHolds, Passes, ScanTypeInvariant, GotHasFields,
     CollectionConfirms, HeadConfirms, BaseConfirms, IndexConfirms, Persists, SnapshotConfirms
<1>3. CASE BaseRead
  BY <1>0, <1>50, <1>3 DEF BaseRead, Gets, ScanTypeInvariant, GotHasFields, CollectionConfirms,
     HeadConfirms, BaseConfirms, IndexConfirms, Persists, SnapshotConfirms
<1>4. CASE BaseHolds
  BY <1>0, <1>50, <1>4 DEF BaseHolds, Passes, ScanTypeInvariant, GotHasFields,
     CollectionConfirms, HeadConfirms, BaseConfirms, IndexConfirms, Persists, SnapshotConfirms
<1>5. CASE BeforeRead
  BY <1>0, <1>50, <1>5 DEF BeforeRead, Gets, ScanTypeInvariant, GotHasFields,
     CollectionConfirms, HeadConfirms, BaseConfirms, IndexConfirms, Persists, SnapshotConfirms
<1>6. CASE DiffRead
  BY <1>0, <1>50, <1>6 DEF DiffRead, Gets, ScanTypeInvariant, GotHasFields, CollectionConfirms,
     HeadConfirms, BaseConfirms, IndexConfirms, Persists, SnapshotConfirms
<1>7. CASE DiffHolds
  <2>1. Gets("diff-after", "diff-files", "snapshot", scan'.got.snapshot)
    BY <1>7 DEF DiffHolds, Starts, Gets
  <2>. QED
    BY <1>0, <2>1 DEF Gets, ScanTypeInvariant, GotHasFields, CollectionConfirms, HeadConfirms,
       BaseConfirms, IndexConfirms, SnapshotConfirms
<1>8. CASE Walks("diff-files", "diff-end")
  <2>1. /\ scan.pc = "diff-files" /\ scan'.pc \in {"diff-files", "diff-end"}
        /\ \A f \in DOMAIN scan.got : f # "snapshot" => scan'.got[f] = scan.got[f]
    BY <1>8 DEF Walks
  <2>. QED
    BY <1>0, <2>1 DEF ScanTypeInvariant, GotHasFields, CollectionConfirms, HeadConfirms,
       BaseConfirms, IndexConfirms, SnapshotConfirms
<1>9. CASE DiffDone
  BY <1>0, <1>50, <1>9 DEF DiffDone, Gets, ScanTypeInvariant, GotHasFields, CollectionConfirms,
     HeadConfirms, BaseConfirms, IndexConfirms, Persists, SnapshotConfirms
<1>10. CASE IndexRead
  BY <1>0, <1>50, <1>10 DEF IndexRead, Gets, ScanTypeInvariant, GotHasFields,
     CollectionConfirms, HeadConfirms, BaseConfirms, IndexConfirms, Persists, SnapshotConfirms
<1>11. CASE Starts("state", "state-files")
  <2>1. scan.next = 1
    BY <1>11 DEF Starts, Gets, ScanTypeInvariant, WalksStart
  <2>2. Gets("state", "state-files", "snapshot", scan'.got.snapshot)
    BY <1>11 DEF Starts, Gets
  <2>3. \A p \in ScanPaths : ~ Walked(p)'
    BY <2>1, <2>2 DEF Walked, Gets, ScanPaths
  <2>. QED
    BY <1>0, <2>1, <2>2, <2>3 DEF Gets, ScanTypeInvariant, GotHasFields, CollectionConfirms,
       HeadConfirms, BaseConfirms, IndexConfirms
<1>12. CASE Walks("state-files", "state-end")
  BY <1>12, WalkConfirms
<1>13. CASE StateDone
  <2>1. \A p \in ScanPaths : SnapshotConfirms(s, scan.got.snapshot, p)
    BY <1>13 DEF StateDone, Gets, CollectionConfirms, Walked
  <2>2. scan'.got.worktree = scan.got.snapshot
    BY <1>13 DEF StateDone, Gets
  <2>3. \A p \in ScanPaths : SnapshotConfirms(s, scan.got.worktree, p)'
    BY <1>0, <2>1, <2>2 DEF SnapshotConfirms
  <2>. QED
    BY <1>0, <1>13, <2>3 DEF StateDone, Gets, ScanTypeInvariant, GotHasFields,
       CollectionConfirms, HeadConfirms, BaseConfirms, IndexConfirms
<1>14. CASE FinalRead
  BY <1>0, <1>50, <1>14 DEF FinalRead, Gets, ScanTypeInvariant, GotHasFields,
     CollectionConfirms, HeadConfirms, BaseConfirms, IndexConfirms, Persists, SnapshotConfirms
<1>15. CASE Starts("final-state", "final-files")
  <2>1. Gets("final-state", "final-files", "snapshot", scan'.got.snapshot)
    BY <1>15 DEF DiffHolds, Starts, Gets
  <2>. QED
    BY <1>0, <2>1 DEF Gets, ScanTypeInvariant, GotHasFields, CollectionConfirms, HeadConfirms,
       BaseConfirms, IndexConfirms, SnapshotConfirms
<1>16. CASE Walks("final-files", "final-end")
  <2>1. /\ scan.pc = "final-files" /\ scan'.pc \in {"final-files", "final-end"}
        /\ \A f \in DOMAIN scan.got : f # "snapshot" => scan'.got[f] = scan.got[f]
    BY <1>16 DEF Walks
  <2>. QED
    BY <1>0, <2>1 DEF ScanTypeInvariant, GotHasFields, CollectionConfirms, HeadConfirms,
       BaseConfirms, IndexConfirms, SnapshotConfirms
<1>17. CASE FinalHolds
  BY <1>0, <1>50, <1>17 DEF FinalHolds, Passes, ScanTypeInvariant, GotHasFields,
     CollectionConfirms, HeadConfirms, BaseConfirms, IndexConfirms, Persists, SnapshotConfirms
<1>18. CASE CollectionDone
  BY <1>18 DEF CollectionDone, CollectionConfirms
<1>. QED
  BY <1>1, <1>2, <1>3, <1>4, <1>5, <1>6, <1>7, <1>8, <1>9, <1>10,
     <1>11, <1>12, <1>13, <1>14, <1>15, <1>16, <1>17, <1>18 DEF CollectShape

LEMMA ChangesFollowKept ==
  ASSUME ScanTypeInvariant, SeenInvariant, scan.round > 1, ChangesFollow, CollectShape
  PROVE  ChangesFollow'
<1> USE DEF FilesPcs, LaterPcs, HeadPcs, BasePcs, BeforePcs, ChangePcs, SnapPcs, DiffPcs,
            IndexPcs, StatePcs, WorkPcs, FinalPcs
<1> DEFINE m == scan.first
<1>0. /\ repo' = repo /\ scan'.first = m /\ scan.next \in 1 .. NPaths + 1 /\ NPaths \in Nat
      /\ m.worktree \in Snapshots
  BY ScanAssumption DEF CollectionRests, RepoRests, CollectShape, ScanTypeInvariant, ScanTypeOK,
     MetadataIsWhole, InUse, Ready, BaseHolds, BaseRead, BeforeRead, CollectionDone, DiffDone,
     DiffHolds, DiffRead, FinalHolds, FinalRead, Gets, HeadHolds, HeadRead, IndexRead, Passes,
     Starts, StateDone, Walks
<1>50. repo.index = m.index => m.worktree.index = m.index
  BY DEF SeenInvariant, MetadataIsSeen, InUse, MetadataSeen
<1>51. \A p : TreeAgrees(p)' <=> TreeAgrees(p)
  BY <1>0 DEF TreeAgrees
<1>52. ASSUME scan'.got.changes = scan.got.changes, scan'.got.head = scan.got.head,
              scan'.got.base = scan.got.base
       PROVE  Base' = Base /\ \A p : IsExact(p)' <=> IsExact(p)
  BY <1>0, <1>52 DEF IsExact, Base
<1>53. ASSUME NEW snapshot PROVE \A p : SnapshotAgrees(snapshot, p)' <=> SnapshotAgrees(snapshot, p)
  BY <1>0 DEF SnapshotAgrees
<1>1. CASE HeadRead
  BY <1>1 DEF HeadRead, Gets, ChangesFollow
<1>2. CASE HeadHolds
  BY <1>2 DEF HeadHolds, Passes, ChangesFollow
<1>3. CASE BaseRead
  BY <1>3 DEF BaseRead, Gets, ChangesFollow
<1>4. CASE BaseHolds
  BY <1>4 DEF BaseHolds, Passes, ChangesFollow
<1>5. CASE BeforeRead
  BY <1>5 DEF BeforeRead, Gets, ChangesFollow
<1>6. CASE DiffRead
  <2>1. /\ scan'.pc = "diff-after" /\ scan'.got.changes = Statuses(repo.index, Base)
        /\ scan'.got.head = scan.got.head /\ scan'.got.base = scan.got.base
    BY <1>6 DEF DiffRead, Gets, Base, ScanTypeInvariant, GotHasFields
  <2>2. Base' = Base
    BY <2>1 DEF Base
  <2>. QED
    BY <1>0, <2>1, <2>2 DEF ChangesFollow
<1>7. CASE DiffHolds
  <2>1. /\ scan.pc = "diff-after" /\ scan'.pc = "diff-files" /\ scan'.got.snapshot.index = repo.index
        /\ scan'.got.changes = scan.got.changes /\ scan'.got.head = scan.got.head
        /\ scan'.got.base = scan.got.base /\ scan'.next = 1
    BY <1>7 DEF DiffHolds, Starts, Gets, ScanTypeInvariant, WalksStart, GotHasFields
  <2>2. Base' = Base
    BY <2>1 DEF Base
  <2>3. \A p \in ScanPaths : ~ Walked(p)'
    BY <2>1 DEF Walked, ScanPaths
  <2>4. repo.index = m.index => scan.got.changes = Statuses(m.index, Base)
    BY <2>1 DEF ChangesFollow
  <2>. QED
    BY <1>0, <2>1, <2>2, <2>3, <2>4 DEF ChangesFollow, Tracked
<1>8. CASE Walks("diff-files", "diff-end")
  <2>1. /\ scan.pc = "diff-files" /\ scan'.pc \in DiffPcs /\ scan.got.snapshot \in Snapshots
        /\ scan'.got.changes = scan.got.changes /\ scan'.got.head = scan.got.head
        /\ scan'.got.base = scan.got.base
    BY <1>8 DEF Walks, ScanTypeInvariant, GotHasFields
  <2>2. Base' = Base
    BY <2>1 DEF Base
  <2>3. scan'.got.snapshot.index = scan.got.snapshot.index
    BY <1>8, <2>1 DEF Walks, Snapshots
  <2>4. ASSUME NEW p \in Tracked(scan.got.snapshot.index), Walked(p)', p \in Tracked(m.worktree.index),
               repo.tree[p] = m.worktree.files[p]
        PROVE  scan'.got.snapshot.files[p] = m.worktree.files[p]
    <3>0. p \in ScanPaths /\ scan.got.snapshot.index[p] # Absent
      BY DEF Tracked
    <3>1. Walked(p) => scan.got.snapshot.files[p] = m.worktree.files[p]
      BY <2>1, <2>4 DEF ChangesFollow
    <3>2. CASE scan.next > NPaths /\ scan'.got = scan.got
      BY <1>0, <3>0, <3>1, <3>2 DEF Walked, ScanPaths
    <3>3. CASE /\ scan'.pc = "diff-files" /\ scan'.next = scan.next + 1 /\ scan.next <= NPaths
               /\ scan.got.snapshot.index[scan.next] = Absent /\ scan'.got = scan.got
      <4>1. p < scan.next
        BY <1>0, <2>4, <3>0, <3>3 DEF Walked, ScanPaths
      <4>. QED
        BY <3>1, <3>3, <4>1 DEF Walked
    <3>4. CASE /\ scan'.pc = "diff-files" /\ scan'.next = scan.next + 1 /\ scan.next <= NPaths
               /\ scan'.got.snapshot = [scan.got.snapshot EXCEPT !.files[scan.next] = repo.tree[scan.next]]
      <4>1. /\ scan.next \in ScanPaths
            /\ p = scan.next \/ p < scan.next
        BY <1>0, <2>4, <3>0, <3>4 DEF Walked, ScanPaths
      <4>2. /\ p = scan.next => scan'.got.snapshot.files[p] = repo.tree[p]
            /\ p # scan.next => scan'.got.snapshot.files[p] = scan.got.snapshot.files[p]
        BY <2>1, <3>0, <3>4, <4>1 DEF Snapshots, FileTrees
      <4>. QED
        BY <2>4, <3>1, <4>1, <4>2 DEF Walked
    <3>. QED
      BY <1>8, <3>2, <3>3, <3>4 DEF Walks
  <2>5. scan.pc \in DiffPcs
    BY <2>1
  <2>6. /\ repo.index = m.index => scan.got.changes = Statuses(m.index, Base)
        /\ repo.index = m.index => scan.got.snapshot.index = m.index
    BY <2>5 DEF ChangesFollow
  <2>7. scan'.pc \notin {"index", "state"} \cup StatePcs \cup WorkPcs
    BY <2>1
  <2>. QED
    BY <1>0, <2>1, <2>2, <2>3, <2>4, <2>6, <2>7 DEF ChangesFollow
<1>9. CASE DiffDone
  <2>1. /\ scan.pc = "diff-end" /\ scan'.pc = "index" /\ repo.index = scan.got.snapshot.index
        /\ scan'.got.changes = MergeWorktree(scan.got.changes, scan.got.snapshot)
        /\ scan'.got.head = scan.got.head /\ scan'.got.base = scan.got.base
    BY <1>9 DEF DiffDone, Gets, ScanTypeInvariant, GotHasFields
  <2>2. Base' = Base
    BY <2>1 DEF Base
  <2>3. ASSUME repo.index = m.index, NEW p \in ScanPaths, TreeAgrees(p)
        PROVE  IsExact(p)'
    <3>1. scan.got.changes[p] = StatusOf(Base[p], m.index[p])
      BY <2>1, <2>3 DEF ChangesFollow, Statuses
    <3>2. p \in Tracked(m.index) => scan.got.snapshot.files[p] = m.worktree.files[p]
      BY <1>50, <2>1, <2>3 DEF ChangesFollow, TreeAgrees, Walked
    <3> DEFINE differs == p \in Tracked(m.index) /\ m.worktree.files[p] # m.index[p]
               found == /\ p \in Tracked(scan.got.snapshot.index)
                        /\ scan.got.snapshot.files[p] # scan.got.snapshot.index[p]
    <3>3. differs <=> found
      BY <2>1, <2>3, <3>2
    <3>4. scan'.got.changes[p] = Merged(scan.got.changes[p], found)
      BY <2>1 DEF MergeWorktree
    <3> HIDE DEF found, differs
    <3>5. scan'.got.changes[p] = Merged(StatusOf(Base[p], m.index[p]), differs)
      BY <3>1, <3>3, <3>4 DEF Merged
    <3>. QED
      BY <1>0, <2>2, <3>5 DEF IsExact, differs
  <2>4. scan'.pc \notin {"diff-after", "state"} \cup DiffPcs \cup StatePcs \cup WorkPcs
    BY <2>1
  <2>. QED
    BY <1>0, <1>51, <2>3, <2>4 DEF ChangesFollow
<1>10. CASE IndexRead
  <2>1. /\ scan.pc = "index" /\ scan'.pc = "state" /\ scan'.got.index = repo.index
        /\ scan'.got.changes = scan.got.changes
        /\ scan'.got.head = scan.got.head /\ scan'.got.base = scan.got.base
    BY <1>10 DEF IndexRead, Gets, ScanTypeInvariant, GotHasFields
  <2>2. \A p : IsExact(p)' <=> IsExact(p)
    BY <1>52, <2>1
  <2>3. repo.index = m.index => \A p \in ScanPaths : TreeAgrees(p) => IsExact(p)
    BY <2>1 DEF ChangesFollow
  <2>4. scan'.pc \notin {"diff-after", "index"} \cup DiffPcs \cup StatePcs \cup WorkPcs
    BY <2>1
  <2>. QED
    BY <1>0, <1>51, <2>1, <2>2, <2>3, <2>4 DEF ChangesFollow
<1>11. CASE Starts("state", "state-files")
  <2>1. /\ scan.pc = "state" /\ scan'.pc = "state-files" /\ scan'.got.index = scan.got.index
        /\ scan'.got.changes = scan.got.changes /\ scan'.next = 1
        /\ scan'.got.head = scan.got.head /\ scan'.got.base = scan.got.base
    BY <1>11 DEF Starts, Gets, ScanTypeInvariant, WalksStart, GotHasFields
  <2>2. \A p : IsExact(p)' <=> IsExact(p)
    BY <1>52, <2>1
  <2>3. scan.got.index = m.index => \A p \in ScanPaths : TreeAgrees(p) => IsExact(p)
    BY <2>1 DEF ChangesFollow
  <2>4. \A p \in ScanPaths : ~ Walked(p)'
    BY <2>1 DEF Walked, ScanPaths
  <2>5. scan'.pc \notin {"diff-after", "index"} \cup DiffPcs \cup WorkPcs
    BY <2>1
  <2>. QED
    BY <1>0, <1>51, <2>1, <2>2, <2>3, <2>4, <2>5 DEF ChangesFollow
<1>12. CASE Walks("state-files", "state-end")
  <2>1. /\ scan.pc = "state-files" /\ scan'.pc \in StatePcs /\ scan'.got.index = scan.got.index
        /\ scan'.got.changes = scan.got.changes /\ scan.got.snapshot \in Snapshots
        /\ scan'.got.head = scan.got.head /\ scan'.got.base = scan.got.base
    BY <1>12 DEF Walks, ScanTypeInvariant, GotHasFields
  <2>2. \A p : IsExact(p)' <=> IsExact(p)
    BY <1>52, <2>1
  <2>3. ASSUME scan.got.index = m.index, NEW p \in ScanPaths
        PROVE  /\ Walked(p) /\ SnapshotAgrees(scan.got.snapshot, p) => IsExact(p)
               /\ Walked(p) \/ (TreeAgrees(p) => IsExact(p))
    BY <2>1, <2>3 DEF ChangesFollow
  <2>4. ASSUME scan.got.index = m.index, NEW p \in ScanPaths
        PROVE  /\ Walked(p)' \/ (TreeAgrees(p) => IsExact(p))
               /\ Walked(p)' /\ SnapshotAgrees(scan'.got.snapshot, p) => IsExact(p)
    <3>1. CASE /\ scan.next > NPaths /\ scan'.got = scan.got /\ scan'.pc = "state-end"
      <4>1. Walked(p)
        BY <1>0, <3>1 DEF Walked, ScanPaths
      <4>2. Walked(p)'
        BY <3>1 DEF Walked
      <4>. QED
        BY <2>3, <2>4, <3>1, <4>1, <4>2
    <3>2. CASE /\ scan'.pc = "state-files" /\ scan'.next = scan.next + 1 /\ scan.next <= NPaths
               /\ scan.got.snapshot.index[scan.next] = Absent /\ scan'.got = scan.got
      <4>1. Walked(p)' <=> (Walked(p) \/ p = scan.next)
        BY <1>0, <2>1, <3>2 DEF Walked, ScanPaths
      <4>2. p = scan.next /\ SnapshotAgrees(scan.got.snapshot, p) => TreeAgrees(p)
        BY <3>2 DEF SnapshotAgrees, TreeAgrees, Tracked
      <4>. QED
        BY <2>3, <2>4, <3>2, <4>1, <4>2
    <3>3. CASE /\ scan'.pc = "state-files" /\ scan'.next = scan.next + 1 /\ scan.next <= NPaths
               /\ scan'.got.snapshot = [scan.got.snapshot EXCEPT !.files[scan.next] = repo.tree[scan.next]]
      <4>1. (Walked(p)' <=> (Walked(p) \/ p = scan.next)) /\ scan.next \in ScanPaths
        BY <1>0, <2>1, <3>3 DEF Walked, ScanPaths
      <4>2. /\ scan'.got.snapshot.index = scan.got.snapshot.index
            /\ scan'.got.snapshot.files[scan.next] = repo.tree[scan.next]
            /\ p # scan.next => scan'.got.snapshot.files[p] = scan.got.snapshot.files[p]
        BY <2>1, <3>3, <4>1 DEF Snapshots, FileTrees
      <4>3. p = scan.next /\ SnapshotAgrees(scan'.got.snapshot, p) => TreeAgrees(p)
        BY <4>2 DEF SnapshotAgrees, TreeAgrees
      <4>4. p # scan.next /\ SnapshotAgrees(scan'.got.snapshot, p) => SnapshotAgrees(scan.got.snapshot, p)
        BY <4>2 DEF SnapshotAgrees
      <4>5. p = scan.next => ~ Walked(p)
        BY <1>0, <2>1 DEF Walked
      <4>. QED
        BY <2>3, <2>4, <4>1, <4>3, <4>4, <4>5
    <3>. QED
      BY <1>12, <3>1, <3>2, <3>3 DEF Walks
  <2>5. scan'.pc \notin {"diff-after", "index"} \cup DiffPcs \cup WorkPcs
    BY <2>1
  <2>6. \A p : SnapshotAgrees(scan.got.snapshot, p)' <=> SnapshotAgrees(scan'.got.snapshot, p)
    BY <1>0 DEF SnapshotAgrees
  <2>. QED
    BY <1>0, <1>51, <2>1, <2>2, <2>4, <2>5, <2>6 DEF ChangesFollow
<1>13. CASE StateDone
  <2>1. /\ scan.pc = "state-end" /\ scan'.pc = "final" /\ scan'.got.index = scan.got.index
        /\ scan'.got.changes = scan.got.changes /\ scan'.got.worktree = scan.got.snapshot
        /\ scan'.got.head = scan.got.head /\ scan'.got.base = scan.got.base
    BY <1>13 DEF StateDone, Gets, ScanTypeInvariant, GotHasFields
  <2>2. \A p : IsExact(p)' <=> IsExact(p)
    BY <1>52, <2>1
  <2>3. scan.got.index = m.index =>
          \A p \in ScanPaths : SnapshotAgrees(scan.got.snapshot, p) => IsExact(p)
    BY <2>1 DEF ChangesFollow, Walked
  <2>4. \A p : SnapshotAgrees(scan.got.worktree, p)' <=> SnapshotAgrees(scan.got.snapshot, p)
    BY <1>0, <2>1 DEF SnapshotAgrees
  <2>5. scan'.pc \notin {"diff-after", "index", "state"} \cup DiffPcs \cup StatePcs
    BY <2>1
  <2>. QED
    BY <1>0, <2>1, <2>2, <2>3, <2>4, <2>5 DEF ChangesFollow
<1>14. CASE FinalRead
  <2>1. /\ scan.pc \in WorkPcs /\ scan'.pc \in WorkPcs
        /\ scan'.got.changes = scan.got.changes /\ scan'.got.head = scan.got.head
        /\ scan'.got.base = scan.got.base /\ scan'.got.index = scan.got.index
        /\ scan'.got.worktree = scan.got.worktree
    BY <1>14 DEF FinalRead, Gets, ScanTypeInvariant, GotHasFields
  <2>2. \A p : IsExact(p)' <=> IsExact(p)
    BY <1>52, <2>1
  <2>3. scan.got.index = m.index => \A p \in ScanPaths : SnapshotAgrees(scan.got.worktree, p) => IsExact(p)
    BY <2>1 DEF ChangesFollow
  <2>4. scan'.got.index = m.index =>
          \A p \in ScanPaths : SnapshotAgrees(scan.got.worktree, p)' => IsExact(p)'
    BY <1>0, <2>1, <2>2, <2>3 DEF SnapshotAgrees
  <2>. QED
    BY <1>0, <2>1, <2>4 DEF ChangesFollow
<1>15. CASE Starts("final-state", "final-files")
  <2>1. /\ scan.pc \in WorkPcs /\ scan'.pc \in WorkPcs
        /\ scan'.got.changes = scan.got.changes /\ scan'.got.head = scan.got.head
        /\ scan'.got.base = scan.got.base /\ scan'.got.index = scan.got.index
        /\ scan'.got.worktree = scan.got.worktree
    BY <1>15 DEF Starts, Gets, ScanTypeInvariant, GotHasFields
  <2>2. \A p : IsExact(p)' <=> IsExact(p)
    BY <1>52, <2>1
  <2>3. scan.got.index = m.index => \A p \in ScanPaths : SnapshotAgrees(scan.got.worktree, p) => IsExact(p)
    BY <2>1 DEF ChangesFollow
  <2>4. scan'.got.index = m.index =>
          \A p \in ScanPaths : SnapshotAgrees(scan.got.worktree, p)' => IsExact(p)'
    BY <1>0, <2>1, <2>2, <2>3 DEF SnapshotAgrees
  <2>. QED
    BY <1>0, <2>1, <2>4 DEF ChangesFollow
<1>16. CASE Walks("final-files", "final-end")
  <2>1. /\ scan.pc \in WorkPcs /\ scan'.pc \in WorkPcs
        /\ scan'.got.changes = scan.got.changes /\ scan'.got.head = scan.got.head
        /\ scan'.got.base = scan.got.base /\ scan'.got.index = scan.got.index
        /\ scan'.got.worktree = scan.got.worktree
    BY <1>16 DEF Walks, ScanTypeInvariant, GotHasFields
  <2>2. \A p : IsExact(p)' <=> IsExact(p)
    BY <1>52, <2>1
  <2>3. scan.got.index = m.index => \A p \in ScanPaths : SnapshotAgrees(scan.got.worktree, p) => IsExact(p)
    BY <2>1 DEF ChangesFollow
  <2>4. scan'.got.index = m.index =>
          \A p \in ScanPaths : SnapshotAgrees(scan.got.worktree, p)' => IsExact(p)'
    BY <1>0, <2>1, <2>2, <2>3 DEF SnapshotAgrees
  <2>. QED
    BY <1>0, <2>1, <2>4 DEF ChangesFollow
<1>17. CASE FinalHolds
  <2>1. /\ scan.pc \in WorkPcs /\ scan'.pc \in WorkPcs
        /\ scan'.got.changes = scan.got.changes /\ scan'.got.head = scan.got.head
        /\ scan'.got.base = scan.got.base /\ scan'.got.index = scan.got.index
        /\ scan'.got.worktree = scan.got.worktree
    BY <1>17 DEF FinalHolds, Passes, ScanTypeInvariant, GotHasFields
  <2>2. \A p : IsExact(p)' <=> IsExact(p)
    BY <1>52, <2>1
  <2>3. scan.got.index = m.index => \A p \in ScanPaths : SnapshotAgrees(scan.got.worktree, p) => IsExact(p)
    BY <2>1 DEF ChangesFollow
  <2>4. scan'.got.index = m.index =>
          \A p \in ScanPaths : SnapshotAgrees(scan.got.worktree, p)' => IsExact(p)'
    BY <1>0, <2>1, <2>2, <2>3 DEF SnapshotAgrees
  <2>. QED
    BY <1>0, <2>1, <2>4 DEF ChangesFollow
<1>18. CASE CollectionDone
  BY <1>18 DEF CollectionDone, ChangesFollow
<1>. QED
  BY <1>1, <1>2, <1>3, <1>4, <1>5, <1>6, <1>7, <1>8, <1>9, <1>10,
     <1>11, <1>12, <1>13, <1>14, <1>15, <1>16, <1>17, <1>18 DEF CollectShape

LEMMA AgreedWhenCollected ==
  ASSUME ScanTypeInvariant, SeenInvariant, scan.round > 1, ChangesFollow, NEW s, CollectionConfirms(s),
         CollectionDone, scan'.got = scan.first
  PROVE  Agreed(s, scan.first)
<1> DEFINE m == scan.first
<1>1. /\ scan.pc = "final-again" /\ m.head = scan.got.head /\ m.base = scan.got.base
      /\ m.changes = scan.got.changes /\ m.index = scan.got.index /\ m.worktree = scan.got.worktree
  BY DEF CollectionDone
<1>2. s.head = m.head /\ s.base = m.base /\ s.index = m.index /\ m.worktree.index = m.index
  BY <1>1 DEF CollectionConfirms, HeadConfirms, BaseConfirms, IndexConfirms, FilesPcs, LaterPcs,
     HeadPcs, BasePcs, BeforePcs, ChangePcs, SnapPcs, DiffPcs, IndexPcs, StatePcs, WorkPcs,
     FinalPcs
<1>3. \A p \in Tracked(m.index) : s.tree[p] = m.worktree.files[p]
  <2>1. \A p \in ScanPaths : SnapshotConfirms(s, scan.got.worktree, p)
    BY <1>1 DEF CollectionConfirms, WorkPcs, FinalPcs
  <2>. QED
    BY <1>1, <1>2, <2>1 DEF SnapshotConfirms, Tracked
<1>4. \A p \in ScanPaths : IsExact(p)
  BY <1>1, <1>2 DEF ChangesFollow, SnapshotAgrees, WorkPcs, FinalPcs
<1>5. Base = CommitTree(MergeBase(s.head, s.base))
  BY <1>1, <1>2 DEF Base
<1>6. ASSUME NEW p \in ScanPaths PROVE m.changes[p] = ChangeIn(s, p)
  <2> DEFINE differs == p \in Tracked(m.index) /\ m.worktree.files[p] # m.index[p]
             found == p \in Tracked(s.index) /\ s.tree[p] # s.index[p]
  <2>1. differs <=> found
    BY <1>2, <1>3
  <2>2. m.changes[p] = Merged(StatusOf(Base[p], m.index[p]), differs)
    BY <1>1, <1>4 DEF IsExact
  <2> HIDE DEF differs, found
  <2>3. m.changes[p] = Merged(StatusOf(Base[p], s.index[p]), found)
    BY <1>2, <2>1, <2>2 DEF Merged
  <2>. QED
    BY <1>5, <2>3 DEF ChangeIn, found
<1>7. m.changes = [p \in ScanPaths |-> m.changes[p]]
  BY DEF ScanTypeInvariant, MetadataIsWhole, InUse, Ready, IsByPath
<1>8. m.changes = ChangesIn(s)
  BY <1>6, <1>7 DEF ChangesIn
<1>. QED
  BY <1>2, <1>3, <1>8 DEF Agreed

LEMMA LaterKept ==
  ASSUME ScanTypeInvariant, SeenInvariant, LaterRounds, CollectShape \/ FailsBecause
  PROVE  LaterRounds'
<1>0. CollectionRests
  BY DEF CollectShape, FailsBecause, Fails, BaseHolds, BaseRead, BeforeRead, CollectionDone,
     DiffDone, DiffHolds, DiffRead, FinalHolds, FinalRead, Gets, HeadHolds, HeadRead, IndexRead,
     Passes, Starts, StateDone, Walks
<1>1. /\ repo' = repo /\ held' = held /\ scan'.first = scan.first /\ scan'.ledger = scan.ledger
      /\ scan'.round = scan.round
  BY <1>0 DEF CollectionRests, RepoRests
<1> SUFFICES ASSUME scan.round > 1 PROVE LaterRounds'
  BY <1>1 DEF LaterRounds
<1>2. PICK s \in held : Instant(s) /\ ChangesFollow
  BY DEF LaterRounds
<1>3. Persists(s)'
  BY <1>1, <1>2 DEF Instant, Persists, Fits
<1>4. scan'.pc \notin LaterPcs
  BY DEF CollectShape, FailsBecause, Fails, LaterPcs, BaseHolds, BaseRead, BeforeRead,
     CollectionDone, DiffDone, DiffHolds, DiffRead, FinalHolds, FinalRead, Gets, HeadHolds,
     HeadRead, IndexRead, Passes, Starts, StateDone, Walks
<1>5. CASE FailsBecause
  <2>1. scan'.pc = "collected" /\ scan'.got # scan'.first
    BY <1>1, <1>5 DEF FailsBecause, Fails, ScanTypeInvariant, MetadataIsWhole, InUse, Ready,
       NoMetadata
  <2>2. Instant(s)'
    BY <1>3, <2>1 DEF Instant, CollectionConfirms, FilesPcs, LaterPcs, HeadPcs, BasePcs,
       BeforePcs, ChangePcs, SnapPcs, DiffPcs, IndexPcs, StatePcs, WorkPcs, FinalPcs
  <2>3. ChangesFollow'
    BY <2>1 DEF ChangesFollow, FilesPcs, LaterPcs, HeadPcs, BasePcs, BeforePcs, ChangePcs,
       SnapPcs, DiffPcs, IndexPcs, StatePcs, WorkPcs, FinalPcs
  <2>. QED
    BY <1>1, <2>2, <2>3 DEF LaterRounds
<1>6. CASE CollectShape
  <2>1. CollectionConfirms(s)' /\ ChangesFollow'
    BY <1>2, <1>6, ConfirmsKept, ChangesFollowKept DEF Instant
  <2>2. scan'.pc = "collected" => CollectionDone
    BY <1>6 DEF CollectShape, BaseHolds, BaseRead, BeforeRead, CollectionDone, DiffDone,
       DiffHolds, DiffRead, FinalHolds, FinalRead, Gets, HeadHolds, HeadRead, IndexRead, Passes,
       Starts, StateDone, Walks
  <2>3. scan'.pc = "collected" /\ scan'.got = scan'.first => Agreed(s, scan'.first)
    BY <1>1, <1>2, <2>2, AgreedWhenCollected DEF Instant
  <2>4. Instant(s)'
    BY <1>3, <1>4, <2>1, <2>3 DEF Instant, LaterPcs
  <2>. QED
    BY <1>1, <2>1, <2>4 DEF LaterRounds
<1>. QED
  BY <1>5, <1>6

LEMMA ScanInvariantInit ==
  ASSUME ScanInit
  PROVE  ScanInvariant
BY UndisturbedInvariantInit DEF ScanInit, ScanInvariant, SeenInvariant, CollectionIsSeen,
   MetadataIsSeen, LedgerIsSeen, InUse, HasRead, LaterRounds, FilesPcs, LaterPcs, HeadPcs,
   BasePcs, BeforePcs, ChangePcs, SnapPcs, DiffPcs, IndexPcs, StatePcs, WorkPcs, FinalPcs

LEMMA ScanInvariantKept ==
  ASSUME ScanInvariant, [ScanNext]_scanVars, [Fresh]_scanVars
  PROVE  ScanInvariant'
<1>0. UndisturbedInvariant' /\ ScanTypeInvariant /\ SeenInvariant /\ LaterRounds
  BY UndisturbedInvariantKept DEF ScanInvariant, UndisturbedInvariant
<1>1. CASE CollectStep
  <2>1. CollectShape \/ FailsBecause
    BY <1>0, <1>1, CollectSteps
  <2>2. SeenInvariant'
    BY <1>0, <2>1, SeenKept, MetadataSeenKept DEF SeenInvariant
  <2>. QED
    BY <1>0, <2>1, <2>2, LaterKept DEF ScanInvariant
<1>2. CASE ScanStep
  <2>1. ScanShape
    BY <1>0, <1>2, ScanSteps
  <2>2. SeenInvariant'
    BY <1>0, <2>1, SeenKeptByScan DEF SeenInvariant
  <2>. QED
    BY <1>0, <2>1, <2>2, LaterKeptByScan DEF ScanInvariant
<1>3. CASE ScanBegins
  <2>1. DOMAIN scan = ScanFields
    BY <1>0 DEF ScanTypeInvariant, ScanTypeOK, ScanFields
  <2>2. Passes("idle", "head")
    BY <1>3, <2>1, PassingFields DEF ScanBegins, ScanAt
  <2>3. scan'.pc = "head" /\ scan'.round = 1
    BY <1>0, <2>2 DEF Passes, CollectionRests, ScanTypeInvariant, Rounds
  <2>. QED
    BY <1>0, <2>3 DEF ScanInvariant, SeenInvariant, CollectionIsSeen, MetadataIsSeen,
       LedgerIsSeen, InUse, HasRead, LaterRounds, FilesPcs, LaterPcs, HeadPcs, BasePcs,
       BeforePcs, ChangePcs, SnapPcs, DiffPcs, IndexPcs, StatePcs, WorkPcs, FinalPcs
<1>4. CASE MoveHead \/ MoveBase \/ Stage \/ WriteFile
  <2>1. OthersChange
    BY <1>0, <1>4, OtherSteps
  <2>2. Fresh
    BY <2>1 DEF OthersChange, scanVars
  <2>3. SeenInvariant'
    BY <1>0, <2>1, <2>2, SeenKeptByOthers DEF SeenInvariant
  <2>. QED
    BY <1>0, <2>1, <2>2, <2>3, LaterKeptByOthers DEF ScanInvariant
<1>5. CASE UNCHANGED scanVars
  <2>1. repo' = repo /\ held' = held /\ scan' = scan
    BY <1>5 DEF scanVars
  <2>2. SeenInvariant'
    BY <1>0, <2>1 DEF SeenInvariant, CollectionIsSeen, MetadataIsSeen, LedgerIsSeen, InUse,
       HasRead, Fits, MetadataSeen, HeadSeen, BaseSeen, IndexSeen, FilesSeen, FileSeen, Walked
  <2>3. LaterRounds'
    <3>1. \A s : Instant(s)' <=> Instant(s)
      BY <2>1 DEF Instant, Persists, Fits, CollectionConfirms, HeadConfirms, BaseConfirms,
         IndexConfirms, SnapshotConfirms, Walked, HasUntracked
    <3>2. ChangesFollow' <=> ChangesFollow
      BY <2>1 DEF ChangesFollow, IsExact, Base, TreeAgrees, SnapshotAgrees, Walked
    <3>. QED
      BY <1>0, <2>1, <3>1, <3>2 DEF LaterRounds
  <2>. QED
    BY <1>0, <2>2, <2>3 DEF ScanInvariant
<1>. QED
  BY <1>1, <1>2, <1>3, <1>4, <1>5 DEF ScanNext

(* For any number of paths, commits, contents and changes by others, as long as nothing they
   change returns to a value it had earlier in the scan: when the scan reports the changed
   files only, there was one moment at which the repository had exactly those changes, none that
   planChangedFileMode refuses, that head and base and every file as the scan read it, and
   tracked all its files, although metadata and files were read piece by piece and others
   changed them all the while (collectChangedScanState, readWorktreeSnapshot,
   reconcileGitChangedFileMetadata).  Without the hypothesis it is false: the code compares
   values, and a file that is swapped away and back around every read defeats
   any such comparison. *)
THEOREM ScansAreTruthful == ScanSpec /\ NothingReturns => []ScanIsTruthful
<1>1. ScanInit => ScanInvariant
  BY ScanInvariantInit
<1>2. ScanInvariant /\ [ScanNext]_scanVars /\ [Fresh]_scanVars => ScanInvariant'
  BY ScanInvariantKept
<1>3. ScanInvariant => ScanIsTruthful
  BY SubsetFromLater, FullFromUndisturbed DEF ScanInvariant, UndisturbedInvariant,
     ScanIsTruthful
<1>. QED
  BY <1>1, <1>2, <1>3, PTL DEF ScanSpec, NothingReturns
=============================================================================
