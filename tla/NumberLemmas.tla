---------------------------- MODULE NumberLemmas ----------------------------
(***************************************************************************)
(* Facts about numbers and sums that the proofs of several components need *)
(* and that take an induction: a set of numbers has a least element, so a  *)
(* claim about all numbers that fails has a least counterexample.          *)
(***************************************************************************)
EXTENDS Totals, Integers, SequenceTheorems, WellFoundedInduction, TLAPS

(* Induction over numbers, as the existence of a least counterexample. *)
LEMMA LeastNatural ==
  ASSUME NEW T, T \subseteq Nat, T # {}
  PROVE  \E x \in T : \A y \in T : x <= y
<1> DEFINE R == OpToRel(<, Nat)
<1>1. IsWellFoundedOn(R, Nat)
  BY NatLessThanWellFounded
<1>2. \A x, y \in Nat : y < x => <<y, x>> \in R
  BY DEF OpToRel
<1> HIDE DEF R
<1>3. PICK x \in T : \A y \in T : ~ (<<y, x>> \in R)
  BY <1>1, WFMin
<1>4. ASSUME NEW y \in T PROVE x <= y
  <2>1. x \in Nat /\ y \in Nat /\ ~(y < x)
    BY <1>2, <1>3, Zenon
  <2>. QED
    BY <2>1
<1>. QED
  BY <1>4

(* Partial sums exist for every sequence of numbers, and are what their definition says. *)
IsSum(f, s, m) ==
  /\ f \in [0 .. m -> Nat] /\ f[0] = 0
  /\ \A n \in 1 .. m : f[n] = f[n - 1] + s[n]

LEMMA SumsExist ==
  ASSUME NEW s \in Seq(Nat), NEW k \in 0 .. Len(s)
  PROVE  \E f : IsSum(f, s, k)
<1> DEFINE T == {m \in 0 .. Len(s) : ~ \E f : IsSum(f, s, m)}
<1>0. Len(s) \in Nat /\ \A i \in 1 .. Len(s) : s[i] \in Nat
  BY ElementOfSeq, LenProperties
<1> SUFFICES ASSUME T # {} PROVE FALSE
  OBVIOUS
<1>1. PICK m \in T : \A y \in T : m <= y
  <2>1. T \subseteq Nat
    BY <1>0
  <2>. QED
    BY <2>1, LeastNatural
<1>2. m # 0
  <2>1. IsSum([n \in 0 .. 0 |-> 0], s, 0)
    BY DEF IsSum
  <2>. QED
    BY <2>1, <1>1
<1>3. m - 1 \in 0 .. Len(s) /\ m - 1 \notin T /\ m \in 1 .. Len(s)
  BY <1>0, <1>1, <1>2, SMTT(30)
<1>4. PICK g : IsSum(g, s, m - 1)
  BY <1>3
<1> DEFINE f == [n \in 0 .. m |-> IF n = m THEN g[m - 1] + s[m] ELSE g[n]]
<1>5. g[m - 1] \in Nat /\ s[m] \in Nat
  BY <1>0, <1>3, <1>4 DEF IsSum
<1>6. f \in [0 .. m -> Nat]
  BY <1>3, <1>4, <1>5, SMTT(30) DEF IsSum
<1>7. f[0] = 0
  BY <1>3, <1>4 DEF IsSum
<1>8. ASSUME NEW n \in 1 .. m PROVE f[n] = f[n - 1] + s[n]
  <2>1. CASE n = m
    BY <1>3, <2>1
  <2>2. CASE n # m
    <3>1. n \in 1 .. m - 1 /\ n - 1 \in 0 .. m - 1 /\ n - 1 # m
      BY <1>3, <2>2
    <3>. QED
      BY <1>3, <1>4, <2>2, <3>1 DEF IsSum
  <2>. QED
    BY <2>1, <2>2
<1>9. IsSum(f, s, m)
  BY <1>6, <1>7, <1>8 DEF IsSum
<1>. QED
  BY <1>1, <1>9

LEMMA SumsDefined ==
  ASSUME NEW s \in Seq(Nat)
  PROVE  IsSum(PartialSums(s), s, Len(s))
<1> DEFINE step(f) == [n \in 0 .. Len(s) |-> IF n = 0 THEN 0 ELSE f[n - 1] + s[n]]
<1>1. PICK f : IsSum(f, s, Len(s))
  BY SumsExist, LenProperties
<1>2. f = step(f)
  BY <1>1 DEF IsSum
<1>3. PartialSums(s) = CHOOSE g : g = step(g)
  BY DEF PartialSums
<1> DEFINE p == PartialSums(s)
           T == {n \in 0 .. Len(s) : p[n] \notin Nat}
<1>4. p = step(p)
  BY <1>2, <1>3
<1> HIDE DEF p
<1>5. Len(s) \in Nat /\ \A i \in 1 .. Len(s) : s[i] \in Nat
  BY ElementOfSeq, LenProperties
<1>6. DOMAIN p = 0 .. Len(s) /\ p[0] = 0 /\ \A n \in 1 .. Len(s) : p[n] = p[n - 1] + s[n]
  BY <1>4, <1>5
<1>7. ASSUME T # {} PROVE FALSE
  <2>1. T \subseteq Nat
    BY <1>5
  <2>2. PICK n \in T : \A y \in T : n <= y
    BY <1>7, <2>1, LeastNatural
  <2>3. n # 0 /\ n \in 1 .. Len(s)
    BY <1>5, <1>6, <2>2
  <2>4. n - 1 \in 0 .. Len(s) /\ n - 1 \notin T
    BY <1>5, <2>2, <2>3
  <2>5. p[n - 1] \in Nat /\ s[n] \in Nat
    BY <1>5, <2>3, <2>4
  <2>. QED
    BY <1>6, <2>2, <2>3, <2>5
<1>8. p = [n \in 0 .. Len(s) |-> p[n]]
  BY <1>4
<1>9. p \in [0 .. Len(s) -> Nat]
  BY <1>7, <1>8
<1>. QED
  BY <1>6, <1>9 DEF IsSum, p

(* The partial sums of a part of a sequence are differences of those of the whole. *)
LEMMA SumsOfPart ==
  ASSUME NEW s \in Seq(Nat), NEW t \in Seq(Nat), NEW k \in Nat, NEW m \in Nat,
         k + m <= Len(s), m <= Len(t), \A i \in 1 .. m : t[i] = s[k + i]
  PROVE  PartialSums(t)[m] = PartialSums(s)[k + m] - PartialSums(s)[k]
<1> DEFINE a == PartialSums(s)
           b == PartialSums(t)
           T == {n \in 0 .. m : b[n] # a[k + n] - a[k]}
<1>1. /\ a \in [0 .. Len(s) -> Nat] /\ \A n \in 1 .. Len(s) : a[n] = a[n - 1] + s[n]
      /\ b \in [0 .. Len(t) -> Nat] /\ b[0] = 0 /\ \A n \in 1 .. Len(t) : b[n] = b[n - 1] + t[n]
      /\ Len(s) \in Nat /\ Len(t) \in Nat
      /\ \A i \in 1 .. Len(s) : s[i] \in Nat
  BY SumsDefined, LenProperties, ElementOfSeq DEF IsSum
<1> HIDE DEF a, b
<1>2. ASSUME T # {} PROVE FALSE
  <2>0. T \subseteq Nat
    OBVIOUS
  <2>1. PICK n \in T : \A y \in T : n <= y
    BY <1>2, <2>0, LeastNatural
  <2>2. n # 0
    <3>1. k \in 0 .. Len(s) /\ k + 0 = k
      BY <1>1
    <3>2. a[k + 0] - a[k] = 0
      <4>1. a[k] \in Nat
        BY <1>1, <3>1
      <4>. QED
        BY <3>1, <4>1
    <3>. QED
      BY <1>1, <2>1, <3>2
  <2>3. n \in 1 .. m /\ n - 1 \in 0 .. m /\ n - 1 \notin T
    BY <2>1, <2>2
  <2>4. b[n - 1] = a[k + (n - 1)] - a[k]
    BY <2>3
  <2>5. n \in 1 .. Len(t) /\ k + n \in 1 .. Len(s) /\ k + (n - 1) = (k + n) - 1
    BY <1>1, <2>3
  <2>6. b[n] = b[n - 1] + t[n] /\ a[k + n] = a[(k + n) - 1] + s[k + n]
    BY <1>1, <2>5
  <2>7. t[n] = s[k + n] /\ s[k + n] \in Nat
    BY <1>1, <2>3, <2>5
  <2>8. a[(k + n) - 1] \in Nat /\ a[k] \in Nat
    <3>1. (k + n) - 1 \in 0 .. Len(s) /\ k \in 0 .. Len(s)
      BY <1>1, <2>5
    <3>. QED
      BY <1>1, <3>1
  <2>9. b[n] = (a[(k + n) - 1] - a[k]) + s[k + n]
    BY <2>4, <2>5, <2>6, <2>7
  <2>10. b[n] = a[k + n] - a[k]
    BY <2>6, <2>7, <2>8, <2>9, SMTT(30)
  <2>. QED
    BY <2>1, <2>10
<1>3. m \in 0 .. m
  OBVIOUS
<1>. QED
  BY <1>2, <1>3 DEF a, b

LEMMA TotalIsNatural ==
  ASSUME NEW s \in Seq(Nat)
  PROVE  Total(s) \in Nat
BY SumsDefined, LenProperties DEF IsSum, Total

LEMMA TotalOfEmpty == Total(<<>>) = 0
<1>1. <<>> \in Seq(Nat) /\ Len(<<>>) = 0
  BY EmptySeq
<1>. QED
  BY <1>1, SumsDefined DEF IsSum, Total

LEMMA TotalOfAppend ==
  ASSUME NEW s \in Seq(Nat), NEW n \in Nat
  PROVE  Total(Append(s, n)) = Total(s) + n
<1> DEFINE t == Append(s, n)
<1>1. /\ t \in Seq(Nat) /\ Len(t) = Len(s) + 1 /\ t[Len(s) + 1] = n
      /\ \A i \in 1 .. Len(s) : t[i] = s[i]
  BY AppendProperties
<1>2. Len(s) \in Nat
  BY LenProperties
<1> HIDE DEF t
<1>3. PartialSums(t)[Len(s)] = PartialSums(s)[0 + Len(s)] - PartialSums(s)[0]
  <2>1. /\ \A i \in 1 .. Len(s) : t[i] = s[0 + i]
        /\ 0 \in Nat /\ 0 + Len(s) <= Len(s) /\ Len(s) <= Len(t)
    BY <1>1, <1>2
  <2>. QED
    BY <1>1, <1>2, <2>1, SumsOfPart
<1>4. PartialSums(s)[0] = 0 /\ PartialSums(s)[Len(s)] \in Nat
  BY <1>2, SumsDefined DEF IsSum
<1>5. PartialSums(t)[Len(s) + 1] = PartialSums(t)[(Len(s) + 1) - 1] + t[Len(s) + 1]
  <2>1. Len(s) + 1 \in 1 .. Len(t)
    BY <1>1, <1>2
  <2>. QED
    BY <1>1, <2>1, SumsDefined DEF IsSum
<1>6. (Len(s) + 1) - 1 = Len(s) /\ 0 + Len(s) = Len(s)
  BY <1>2
<1>. QED
  BY <1>1, <1>3, <1>4, <1>5, <1>6 DEF Total, t

(* A sequence without its first numbers. *)
LEMMA TotalOfRest ==
  ASSUME NEW s \in Seq(Nat), NEW k \in 0 .. Len(s)
  PROVE  Total(SubSeq(s, k + 1, Len(s))) = Total(s) - Total(SubSeq(s, 1, k))
<1>1. Len(s) \in Nat /\ \A i \in 1 .. Len(s) : s[i] \in Nat
  BY ElementOfSeq, LenProperties
<1> DEFINE t == SubSeq(s, k + 1, Len(s))
           u == SubSeq(s, 1, k)
<1>2. /\ t \in Seq(Nat) /\ Len(t) = Len(s) - k
      /\ \A i \in 1 .. Len(s) - k : t[i] = s[k + i]
  <2>1. \A i \in k + 1 .. Len(s) : s[i] \in Nat
    BY <1>1
  <2>2. /\ k + 1 \in Int /\ Len(s) - (k + 1) + 1 = Len(s) - k
        /\ (k + 1 <= Len(s) \/ Len(s) - k = 0)
        /\ \A i \in 1 .. Len(s) - k : (k + 1) + i - 1 = k + i
    BY <1>1
  <2>3. /\ t \in Seq(Nat)
        /\ Len(t) = IF k + 1 <= Len(s) THEN Len(s) - (k + 1) + 1 ELSE 0
        /\ \A i \in 1 .. Len(s) - (k + 1) + 1 : t[i] = s[(k + 1) + i - 1]
    <3>1. k + 1 \in Int /\ Len(s) \in Int
      BY <1>1
    <3>. QED
      BY <2>1, <3>1, SubSeqProperties
  <2> HIDE DEF t
  <2>4. Len(t) = Len(s) - k
    BY <1>1, <2>2, <2>3
  <2>5. \A i \in 1 .. Len(s) - k : t[i] = s[k + i]
    BY <2>2, <2>3
  <2>. QED
    BY <2>3, <2>4, <2>5
<1>3. /\ u \in Seq(Nat) /\ Len(u) = k
      /\ \A i \in 1 .. k : u[i] = s[0 + i]
  <2>1. \A i \in 1 .. k : s[i] \in Nat
    BY <1>1
  <2>2. k \in Int /\ k - 1 + 1 = k /\ \A i \in Int : 1 + i - 1 = i /\ 0 + i = i
    OBVIOUS
  <2>3. /\ u \in Seq(Nat)
        /\ Len(u) = IF 1 <= k THEN k - 1 + 1 ELSE 0
        /\ \A i \in 1 .. k - 1 + 1 : u[i] = s[1 + i - 1]
    BY <2>1, <2>2, SubSeqProperties
  <2> HIDE DEF u
  <2>. QED
    BY <1>1, <2>2, <2>3
<1> HIDE DEF t, u
<1>4. Total(t) = PartialSums(s)[k + (Len(s) - k)] - PartialSums(s)[k]
  <2>1. Len(s) - k \in Nat /\ k + (Len(s) - k) <= Len(s) /\ k \in Nat /\ Len(s) - k <= Len(t)
    BY <1>1, <1>2
  <2>2. PartialSums(t)[Len(s) - k] = PartialSums(s)[k + (Len(s) - k)] - PartialSums(s)[k]
    BY <1>2, <2>1, SumsOfPart
  <2>. QED
    BY <1>2, <2>2 DEF Total
<1>5. Total(u) = PartialSums(s)[0 + k] - PartialSums(s)[0]
  <2>1. 0 \in Nat /\ k \in Nat /\ 0 + k <= Len(s) /\ k <= Len(u)
    BY <1>1, <1>3
  <2>2. PartialSums(u)[k] = PartialSums(s)[0 + k] - PartialSums(s)[0]
    BY <1>3, <2>1, SumsOfPart
  <2>. QED
    BY <1>3, <2>2 DEF Total
<1>6. PartialSums(s)[0] = 0 /\ PartialSums(s)[k] \in Nat /\ PartialSums(s)[Len(s)] \in Nat
  <2>1. PartialSums(s) \in [0 .. Len(s) -> Nat] /\ PartialSums(s)[0] = 0
    BY SumsDefined DEF IsSum
  <2>. QED
    BY <1>1, <2>1
<1>7. k + (Len(s) - k) = Len(s) /\ 0 + k = k
  BY <1>1
<1>. QED
  BY <1>4, <1>5, <1>6, <1>7 DEF Total, t, u

(* Zeros add up to nothing; larger numbers to more; one new number to that number more. *)
LEMMA TotalOfZeros ==
  ASSUME NEW s \in Seq(Nat), \A i \in 1 .. Len(s) : s[i] = 0
  PROVE  Total(s) = 0
<1> DEFINE a == PartialSums(s)
           T == {n \in 0 .. Len(s) : a[n] # 0}
<1>1. /\ a \in [0 .. Len(s) -> Nat] /\ a[0] = 0 /\ \A n \in 1 .. Len(s) : a[n] = a[n - 1] + s[n]
      /\ Len(s) \in Nat
  BY SumsDefined, LenProperties DEF IsSum
<1> HIDE DEF a
<1>2. ASSUME T # {} PROVE FALSE
  <2>1. T \subseteq Nat
    OBVIOUS
  <2>2. PICK n \in T : \A y \in T : n <= y
    BY <1>2, <2>1, LeastNatural
  <2>3. n \in 1 .. Len(s) /\ n - 1 \in 0 .. Len(s)
    BY <1>1, <2>2
  <2>4. n - 1 \notin T
    BY <2>2, <2>3
  <2>5. a[n - 1] = 0 /\ s[n] = 0
    BY <2>3, <2>4
  <2>. QED
    BY <1>1, <2>2, <2>3, <2>5
<1>3. Len(s) \in 0 .. Len(s)
  BY <1>1
<1>. QED
  BY <1>2, <1>3 DEF a, Total

LEMMA TotalIsMonotone ==
  ASSUME NEW s \in Seq(Nat), NEW t \in Seq(Nat), Len(s) = Len(t), \A i \in 1 .. Len(s) : s[i] <= t[i]
  PROVE  Total(s) <= Total(t)
<1> DEFINE a == PartialSums(s)
           b == PartialSums(t)
           T == {n \in 0 .. Len(s) : ~(a[n] <= b[n])}
<1>1. /\ a \in [0 .. Len(s) -> Nat] /\ a[0] = 0 /\ \A n \in 1 .. Len(s) : a[n] = a[n - 1] + s[n]
      /\ b \in [0 .. Len(s) -> Nat] /\ b[0] = 0 /\ \A n \in 1 .. Len(s) : b[n] = b[n - 1] + t[n]
      /\ Len(s) \in Nat /\ \A i \in 1 .. Len(s) : s[i] \in Nat /\ t[i] \in Nat
  BY SumsDefined, LenProperties, ElementOfSeq DEF IsSum
<1> HIDE DEF a, b
<1>2. ASSUME T # {} PROVE FALSE
  <2>1. T \subseteq Nat
    OBVIOUS
  <2>2. PICK n \in T : \A y \in T : n <= y
    BY <1>2, <2>1, LeastNatural
  <2>3. n \in 1 .. Len(s) /\ n - 1 \in 0 .. Len(s)
    BY <1>1, <2>2
  <2>4. n - 1 \notin T
    BY <2>2, <2>3
  <2>5. /\ a[n - 1] <= b[n - 1] /\ s[n] <= t[n]
        /\ a[n - 1] \in Nat /\ b[n - 1] \in Nat /\ s[n] \in Nat /\ t[n] \in Nat
        /\ a[n] = a[n - 1] + s[n] /\ b[n] = b[n - 1] + t[n]
    BY <1>1, <2>3, <2>4
  <2>6. a[n] <= b[n]
    BY <2>5
  <2>. QED
    BY <2>2, <2>6
<1>3. Len(s) \in 0 .. Len(s)
  BY <1>1
<1>. QED
  BY <1>2, <1>3 DEF a, b, Total

LEMMA TotalOfChange ==
  ASSUME NEW s \in Seq(Nat), NEW t \in Seq(Nat), Len(s) = Len(t), NEW k \in 1 .. Len(s),
         s[k] = 0, \A i \in 1 .. Len(s) : i # k => t[i] = s[i]
  PROVE  Total(t) = Total(s) + t[k]
<1> DEFINE a == PartialSums(s)
           b == PartialSums(t)
           T == {n \in 0 .. Len(s) : b[n] # a[n] + (IF n < k THEN 0 ELSE t[k])}
<1>1. /\ a \in [0 .. Len(s) -> Nat] /\ a[0] = 0 /\ \A n \in 1 .. Len(s) : a[n] = a[n - 1] + s[n]
      /\ b \in [0 .. Len(s) -> Nat] /\ b[0] = 0 /\ \A n \in 1 .. Len(s) : b[n] = b[n - 1] + t[n]
      /\ Len(s) \in Nat /\ \A i \in 1 .. Len(s) : s[i] \in Nat /\ t[i] \in Nat
  BY SumsDefined, LenProperties, ElementOfSeq DEF IsSum
<1> HIDE DEF a, b
<1>2. ASSUME T # {} PROVE FALSE
  <2>1. T \subseteq Nat
    OBVIOUS
  <2>2. PICK n \in T : \A y \in T : n <= y
    BY <1>2, <2>1, LeastNatural
  <2>3. n \in 1 .. Len(s) /\ n - 1 \in 0 .. Len(s)
    BY <1>1, <2>2
  <2>4. n - 1 \notin T
    BY <2>2, <2>3
  <2>5. /\ b[n - 1] = a[n - 1] + (IF n - 1 < k THEN 0 ELSE t[k])
        /\ a[n - 1] \in Nat /\ b[n - 1] \in Nat /\ s[n] \in Nat /\ t[n] \in Nat /\ t[k] \in Nat
        /\ a[n] = a[n - 1] + s[n] /\ b[n] = b[n - 1] + t[n]
    BY <1>1, <2>3, <2>4
  <2>6. b[n] = a[n] + (IF n < k THEN 0 ELSE t[k])
    <3>1. CASE n < k
      <4>1. t[n] = s[n] /\ n - 1 < k
        BY <2>3, <3>1
      <4>. QED
        BY <2>5, <3>1, <4>1
    <3>2. CASE n = k
      <4>1. n - 1 < k
        BY <2>3, <3>2
      <4>. QED
        BY <2>5, <3>2, <4>1
    <3>3. CASE n > k
      <4>1. t[n] = s[n] /\ ~(n - 1 < k) /\ ~(n < k)
        BY <2>3, <3>3
      <4>2. b[n - 1] = a[n - 1] + t[k]
        BY <2>5, <4>1
      <4>3. b[n] = (a[n - 1] + t[k]) + s[n]
        BY <2>5, <4>1, <4>2
      <4>4. b[n] = a[n] + t[k]
        <5>1. \A x, y, z \in Nat : (x + y) + z = (x + z) + y
          OBVIOUS
        <5>. QED
          BY <2>5, <4>3, <5>1, SMTT(30)
      <4>. QED
        BY <4>1, <4>4
    <3>. QED
      BY <2>3, <3>1, <3>2, <3>3
  <2>. QED
    BY <2>2, <2>6
<1>3. Len(s) \in 0 .. Len(s) /\ ~(Len(s) < k)
  BY <1>1
<1>. QED
  BY <1>2, <1>3 DEF a, b, Total

(* A sequence that is another one with a last number more. *)
LEMMA TotalOfLonger ==
  ASSUME NEW s \in Seq(Nat), NEW t \in Seq(Nat), Len(t) = Len(s) + 1,
         \A i \in 1 .. Len(s) : t[i] = s[i]
  PROVE  Total(t) = Total(s) + t[Len(t)]
<1>1. Len(s) \in Nat /\ Len(t) \in 1 .. Len(t)
  BY LenProperties
<1>2. PICK x \in Nat : x = t[Len(t)]
  BY <1>1, ElementOfSeq
<1> DEFINE u == Append(s, x)
<1>3. u \in Seq(Nat) /\ Len(u) = Len(s) + 1 /\ u[Len(s) + 1] = x /\ \A i \in 1 .. Len(s) : u[i] = s[i]
  BY AppendProperties
<1> HIDE DEF u
<1>4. ASSUME NEW i \in 1 .. Len(t) PROVE t[i] = u[i]
  <2>1. i \in 1 .. Len(s) \/ i = Len(s) + 1
    BY <1>1
  <2>. QED
    BY <1>2, <1>3, <2>1
<1>5. t = u
  BY <1>3, <1>4, SeqEqual
<1>. QED
  BY <1>2, <1>5, TotalOfAppend DEF u

(* Numbers up to c. *)
LEMMA TotalIsBounded ==
  ASSUME NEW s \in Seq(Nat), NEW c \in Nat, \A i \in 1 .. Len(s) : s[i] <= c
  PROVE  Total(s) <= Len(s) * c
<1> DEFINE a == PartialSums(s)
           T == {n \in 0 .. Len(s) : ~(a[n] <= n * c)}
<1>1. /\ a \in [0 .. Len(s) -> Nat] /\ a[0] = 0 /\ \A n \in 1 .. Len(s) : a[n] = a[n - 1] + s[n]
      /\ Len(s) \in Nat /\ \A i \in 1 .. Len(s) : s[i] \in Nat
  BY SumsDefined, LenProperties, ElementOfSeq DEF IsSum
<1> HIDE DEF a
<1>2. ASSUME T # {} PROVE FALSE
  <2>1. T \subseteq Nat
    OBVIOUS
  <2>2. PICK n \in T : \A y \in T : n <= y
    BY <1>2, <2>1, LeastNatural
  <2>3. n # 0
    BY <1>1, <2>2
  <2>4. n \in 1 .. Len(s) /\ n - 1 \in 0 .. Len(s)
    BY <1>1, <2>2, <2>3
  <2>5. n - 1 \notin T
    BY <2>2, <2>4
  <2>6. a[n - 1] <= (n - 1) * c
    BY <2>4, <2>5
  <2>7. a[n] = a[n - 1] + s[n] /\ a[n - 1] \in Nat /\ s[n] \in Nat /\ s[n] <= c
    BY <1>1, <2>4
  <2>8. PICK m \in Nat : m = n - 1 /\ n = m + 1
    BY <2>4
  <2>9. (m + 1) * c = m * c + c /\ m * c \in Nat
    OBVIOUS
  <2>10. a[n] <= n * c
    BY <2>6, <2>7, <2>8, <2>9
  <2>. QED
    BY <2>2, <2>10
<1>3. Len(s) \in 0 .. Len(s)
  BY <1>1
<1>. QED
  BY <1>2, <1>3 DEF a, Total

(* Two sequences that differ in their last number. *)
LEMMA TotalOfLast ==
  ASSUME NEW s \in Seq(Nat), NEW t \in Seq(Nat), NEW n \in Nat \ {0}, Len(s) = n, Len(t) = n,
         \A i \in 1 .. n - 1 : s[i] = t[i]
  PROVE  Total(s) + t[n] = Total(t) + s[n]
<1> DEFINE u == [i \in 1 .. n - 1 |-> s[i]]
<1>1. \A i \in 1 .. n : s[i] \in Nat /\ t[i] \in Nat
  BY ElementOfSeq
<1>2. PICK m \in Nat : m = n - 1 /\ n = m + 1
  OBVIOUS
<1>3. u \in [1 .. m -> Nat]
  BY <1>1, <1>2
<1>4. u \in Seq(Nat) /\ Len(u) = m
  BY <1>3
<1>5. \A i \in 1 .. m : s[i] = u[i] /\ t[i] = u[i]
  BY <1>2
<1> HIDE DEF u
<1>6. Total(s) = Total(u) + s[n] /\ Total(t) = Total(u) + t[n]
  BY <1>2, <1>4, <1>5, TotalOfLonger
<1>7. Total(u) \in Nat /\ s[n] \in Nat /\ t[n] \in Nat
  BY <1>1, <1>4, TotalIsNatural
<1>. QED
  BY <1>6, <1>7

(* Ranges from a[i] to b[i] in the order of their starts, and then of their ends: when no two
   neighbours overlap, no two do; and a number g lies in none but the last that starts at g or
   before it. *)
LEMMA SortedRangesApart ==
  ASSUME NEW n \in Nat, NEW a \in [1 .. n -> Nat], NEW b \in [1 .. n -> Nat],
         \A i \in 1 .. n : a[i] <= b[i],
         \A i, j \in 1 .. n : i < j => a[i] < a[j] \/ (a[i] = a[j] /\ b[i] <= b[j]),
         \A i \in 1 .. n - 1 : a[i] # a[i + 1] /\ ~(a[i] < b[i + 1] /\ a[i + 1] < b[i])
  PROVE  \A i, j \in 1 .. n : i < j => a[i] < a[j] /\ b[i] <= a[j]
<1>1. ASSUME NEW i \in 1 .. n - 1
      PROVE  /\ i + 1 \in 1 .. n /\ a[i] \in Nat /\ b[i] \in Nat /\ a[i + 1] \in Nat
             /\ a[i] < a[i + 1] /\ b[i] <= a[i + 1]
  <2>1. i \in 1 .. n /\ i + 1 \in 1 .. n /\ i < i + 1
    OBVIOUS
  <2>2. a[i] \in Nat /\ b[i] \in Nat /\ a[i + 1] \in Nat /\ b[i + 1] \in Nat /\ a[i + 1] <= b[i + 1]
    BY <2>1
  <2>3. a[i] < a[i + 1] \/ (a[i] = a[i + 1] /\ b[i] <= b[i + 1])
    BY <2>1, Zenon
  <2>4. a[i] # a[i + 1] /\ ~(a[i] < b[i + 1] /\ a[i + 1] < b[i])
    BY Zenon
  <2>. QED
    BY <2>1, <2>2, <2>3, <2>4
<1> SUFFICES ASSUME NEW i \in 1 .. n, NEW j \in 1 .. n, i < j PROVE a[i] < a[j] /\ b[i] <= a[j]
  OBVIOUS
<1>2. i \in 1 .. n - 1
  OBVIOUS
<1>3. a[i + 1] <= a[j] /\ a[j] \in Nat
  <2>1. CASE i + 1 = j
    BY <1>1, <1>2, <2>1
  <2>2. CASE i + 1 < j
    <3>1. i + 1 \in 1 .. n
      BY <1>1, <1>2
    <3>2. a[i + 1] < a[j] \/ a[i + 1] = a[j]
      BY <2>2, <3>1, Zenon
    <3>3. a[i + 1] \in Nat /\ a[j] \in Nat
      BY <3>1
    <3>. QED
      BY <3>2, <3>3
  <2>. QED
    BY <1>2, <2>1, <2>2
<1>. QED
  BY <1>1, <1>2, <1>3

LEMMA RangesElsewhere ==
  ASSUME NEW n \in Nat, NEW a \in [1 .. n -> Nat], NEW b \in [1 .. n -> Nat],
         \A i, j \in 1 .. n : i < j => a[i] < a[j] /\ b[i] <= a[j],
         NEW g \in Nat, NEW i \in 0 .. n, i = 0 \/ a[i] <= g, i = n \/ g < a[i + 1],
         NEW j \in 1 .. n, j # i
  PROVE  a[j] # g /\ ~(a[j] <= g /\ g < b[j])
<1>1. a[j] \in Nat /\ b[j] \in Nat
  OBVIOUS
<1>2. CASE j < i
  <2>1. i \in 1 .. n /\ a[i] <= g /\ a[i] \in Nat
    BY <1>2
  <2>2. a[j] < a[i] /\ b[j] <= a[i]
    BY <1>2, <2>1
  <2>. QED
    BY <1>1, <2>1, <2>2
<1>3. CASE i < j
  <2>1. i + 1 \in 1 .. n /\ g < a[i + 1] /\ a[i + 1] \in Nat
    BY <1>3
  <2>2. a[i + 1] <= a[j]
    <3>1. CASE i + 1 = j
      BY <2>1, <3>1
    <3>2. CASE i + 1 < j
      BY <1>1, <2>1, <3>2
    <3>. QED
      BY <1>3, <3>1, <3>2
  <2>. QED
    BY <1>1, <2>1, <2>2
<1>. QED
  BY <1>2, <1>3
=============================================================================
