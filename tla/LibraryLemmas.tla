---------------------------- MODULE LibraryLemmas ----------------------------
(***************************************************************************)
(* Facts about operators of the libraries that the proofs of several       *)
(* components need: that sets of numbers have a least and a greatest       *)
(* element; and which elements a sequence has after an operation.          *)
(***************************************************************************)
EXTENDS Integers, SequencesExt, FiniteSetTheorems, SequenceTheorems,
        WellFoundedInduction, TLAPS

\* Every set of natural numbers has a least element: the intervals up to its
\* elements are finite sets, of which one is minimal.  This is what the proofs
\* have for induction.
LEMMA LeastNatural ==
    ASSUME NEW T \in SUBSET Nat, T # {}
    PROVE  \E n \in T : \A m \in T : n <= m
<1> DEFINE F == {0..n : n \in T}
<1>1. F \subseteq FiniteSubsetsOf(Nat) /\ F # {}
  <2>1. \A n \in T : n \in Int /\ 0..n \in SUBSET Nat
    OBVIOUS
  <2>2. \A n \in T : IsFiniteSet(0..n)
    BY <2>1, FS_Interval, 0 \in Int
  <2> QED
    BY <2>1, <2>2 DEF FiniteSubsetsOf
<1>2. PICK a \in F : \A b \in F : <<b, a>> \notin StrictSubsetOrdering(Nat)
  BY <1>1, FS_StrictSubsetOrderingWellFounded, WFMin
<1>3. PICK n \in T : a = 0..n
  OBVIOUS
<1>4. SUFFICES ASSUME NEW m \in T, m < n
               PROVE  FALSE
  OBVIOUS
<1>5. 0..m \subseteq 0..n /\ 0..m # 0..n
  <2>1. n \in 0..n /\ n \notin 0..m
    BY <1>4
  <2> QED
    BY <2>1, <1>4
<1>6. <<0..m, 0..n>> \in StrictSubsetOrdering(Nat)
  BY <1>5 DEF StrictSubsetOrdering
<1> QED
  BY <1>2, <1>3, <1>6

\* The greatest of some numbers is one of them.
LEMMA MaxOfNumbers ==
    ASSUME NEW n \in Nat, NEW S \in SUBSET (0..n), S # {}
    PROVE  Max(S) \in S /\ \A m \in S : Max(S) >= m
<1> DEFINE T == {k \in Nat : \E s \in S : s + k = n}
<1>1. T # {}
  <2>1. PICK s \in S : TRUE
    OBVIOUS
  <2>2. n - s \in Nat /\ s + (n - s) = n
    BY <2>1
  <2> QED
    BY <2>2
<1>2. PICK t \in T : \A m \in T : t <= m
  BY <1>1, LeastNatural
<1>3. PICK s \in S : s + t = n
  OBVIOUS
<1>4. ASSUME NEW m \in S
      PROVE  s >= m
  <2>1. n - m \in T
    OBVIOUS
  <2>2. t <= n - m /\ t \in Nat /\ m \in Nat /\ s \in Nat
    BY <1>2, <2>1
  <2> QED
    BY <1>3, <2>2
<1> QED
  BY <1>4 DEF Max

LEMMA MaxOfIndices ==
    ASSUME NEW n \in Nat, NEW S \in SUBSET (1..n), S # {}
    PROVE  Max(S) \in S /\ \A m \in S : Max(S) >= m
<1>1. S \in SUBSET (0..n)
  OBVIOUS
<1> QED
  BY <1>1, MaxOfNumbers

-----------------------------------------------------------------------------
(* The elements of a sequence.                                             *)

LEMMA ElementsOf ==
    ASSUME NEW S, NEW s \in Seq(S)
    PROVE  /\ \A x : x \in ToSet(s) <=> \E i \in 1..Len(s) : s[i] = x
           /\ ToSet(s) \subseteq S
           /\ ToSet(s) = {} <=> s = <<>>
<1>1. \A x : x \in ToSet(s) <=> \E i \in 1..Len(s) : s[i] = x
  BY LenProperties DEF ToSet
<1>2. Len(s) \in Nat /\ \A i \in 1..Len(s) : s[i] \in S
  BY LenProperties, ElementOfSeq
<1>3. s # <<>> => 1 \in 1..Len(s)
  BY EmptySeq
<1>4. s = <<>> => 1..Len(s) = {}
  BY EmptySeq
<1> QED
  BY <1>1, <1>2, <1>3, <1>4

LEMMA ElementsOfEmpty == ToSet(<<>>) = {}
BY EmptySeq, ElementsOf

LEMMA ElementsOfAppend ==
    ASSUME NEW S, NEW s \in Seq(S), NEW e \in S
    PROVE  /\ Append(s, e) \in Seq(S)
           /\ ToSet(Append(s, e)) = ToSet(s) \cup {e}
<1>1. Append(s, e) \in Seq(S) /\ Len(s) \in Nat
  BY AppendProperties, LenProperties
<1>2. ASSUME NEW i \in 1..(Len(s) + 1)
      PROVE  Append(s, e)[i] = IF i = Len(s) + 1 THEN e ELSE s[i]
  BY AppendProperties, LenProperties
<1>3. \A x : x \in ToSet(Append(s, e)) <=> \E i \in 1..(Len(s) + 1) : Append(s, e)[i] = x
  <2>1. Len(Append(s, e)) = Len(s) + 1
    BY AppendProperties
  <2> QED
    BY <1>1, <2>1, ElementsOf
<1>4. \A x : x \in ToSet(s) <=> \E i \in 1..Len(s) : s[i] = x
  BY ElementsOf
<1>5. ASSUME NEW x
      PROVE  x \in ToSet(Append(s, e)) <=> x \in ToSet(s) \cup {e}
  BY <1>1, <1>2, <1>3, <1>4
<1> QED
  BY <1>1, <1>5

LEMMA ElementsOfConcat ==
    ASSUME NEW S, NEW s \in Seq(S), NEW t \in Seq(S)
    PROVE  /\ s \o t \in Seq(S)
           /\ ToSet(s \o t) = ToSet(s) \cup ToSet(t)
<1>1. s \o t \in Seq(S) /\ Range(s \o t) = Range(s) \cup Range(t)
  BY ConcatProperties, RangeConcatenation
<1>2. ASSUME NEW u \in Seq(S)
      PROVE  Range(u) = ToSet(u)
  BY DEF Range, ToSet
<1> QED
  BY <1>1, <1>2

LEMMA ElementsOfTail ==
    ASSUME NEW S, NEW s \in Seq(S), s # <<>>
    PROVE  /\ Head(s) \in S /\ Tail(s) \in Seq(S)
           /\ ToSet(s) = ToSet(Tail(s)) \cup {Head(s)}
<1>1. /\ Len(s) \in Nat \ {0} /\ Head(s) \in S /\ Tail(s) \in Seq(S)
      /\ Len(Tail(s)) = Len(s) - 1
  BY EmptySeq, HeadTailProperties, LenProperties
<1>2. Head(s) = s[1] /\ \A i \in 1..(Len(s) - 1) : Tail(s)[i] = s[i + 1]
  BY <1>1, HeadTailProperties
<1>3. \A x : x \in ToSet(Tail(s)) <=> \E i \in 1..(Len(s) - 1) : Tail(s)[i] = x
  BY <1>1, ElementsOf
<1>4. \A x : x \in ToSet(s) <=> \E i \in 1..Len(s) : s[i] = x
  BY ElementsOf
<1>5. ASSUME NEW x
      PROVE  x \in ToSet(s) <=> x \in ToSet(Tail(s)) \cup {Head(s)}
  <2>1. CASE x \in ToSet(s)
    <3>1. PICK i \in 1..Len(s) : s[i] = x
      BY <1>4, <2>1
    <3>2. i = 1 \/ (i - 1 \in 1..(Len(s) - 1) /\ Tail(s)[i - 1] = x)
      BY <1>1, <1>2, <3>1
    <3> QED
      BY <1>2, <1>3, <2>1, <3>1, <3>2
  <2>2. CASE x \in ToSet(Tail(s))
    <3>1. PICK i \in 1..(Len(s) - 1) : Tail(s)[i] = x
      BY <1>3, <2>2
    <3>2. i + 1 \in 1..Len(s) /\ s[i + 1] = x
      BY <1>1, <1>2, <3>1
    <3> QED
      BY <1>4, <2>2, <3>2
  <2>3. CASE x = Head(s)
    BY <1>1, <1>2, <1>4, <2>3
  <2> QED
    BY <2>1, <2>2, <2>3
<1> QED
  BY <1>1, <1>5

LEMMA ElementsOfSubSeq ==
    ASSUME NEW S, NEW s \in Seq(S), NEW m \in Nat \ {0}, NEW n \in Nat, n <= Len(s)
    PROVE  /\ SubSeq(s, m, n) \in Seq(S)
           /\ \A x : x \in ToSet(SubSeq(s, m, n)) <=> \E i \in m..n : s[i] = x
<1>1. Len(s) \in Nat /\ \A i \in m..n : s[i] \in S
  BY LenProperties, ElementOfSeq
<1>2. /\ SubSeq(s, m, n) \in Seq(S)
      /\ Len(SubSeq(s, m, n)) = IF m <= n THEN n - m + 1 ELSE 0
      /\ \A i \in 1..(n - m + 1) : SubSeq(s, m, n)[i] = s[m + i - 1]
  BY <1>1, SubSeqProperties
<1>3. \A x : x \in ToSet(SubSeq(s, m, n)) <=>
                \E i \in 1..(n - m + 1) : SubSeq(s, m, n)[i] = x
  <2>1. 1..Len(SubSeq(s, m, n)) = 1..(n - m + 1)
    BY <1>2
  <2>2. \A x : x \in ToSet(SubSeq(s, m, n)) <=>
                  \E i \in 1..Len(SubSeq(s, m, n)) : SubSeq(s, m, n)[i] = x
    BY <1>2, ElementsOf
  <2> QED
    BY <2>1, <2>2
<1>4. \A i \in m..n : i - m + 1 \in 1..(n - m + 1) /\ m + (i - m + 1) - 1 = i
  OBVIOUS
<1>5. \A i \in 1..(n - m + 1) : m + i - 1 \in m..n
  OBVIOUS
<1>6. ASSUME NEW x
      PROVE  x \in ToSet(SubSeq(s, m, n)) <=> \E i \in m..n : s[i] = x
  <2>1. ASSUME NEW i \in m..n, s[i] = x
        PROVE  x \in ToSet(SubSeq(s, m, n))
    <3>1. SubSeq(s, m, n)[i - m + 1] = s[m + (i - m + 1) - 1]
      BY <1>2, <1>4
    <3> QED
      BY <1>3, <1>4, <2>1, <3>1
  <2>2. ASSUME NEW i \in 1..(n - m + 1), SubSeq(s, m, n)[i] = x
        PROVE  \E k \in m..n : s[k] = x
    BY <1>2, <1>5, <2>2
  <2> QED
    BY <1>3, <2>1, <2>2
<1> QED
  BY <1>2, <1>6

LEMMA ElementsOfRemoveAt ==
    ASSUME NEW S, NEW s \in Seq(S), NEW i \in 1..Len(s)
    PROVE  /\ RemoveAt(s, i) \in Seq(S)
           /\ ToSet(s) = ToSet(RemoveAt(s, i)) \cup {s[i]}
<1> DEFINE a == SubSeq(s, 1, i - 1)
           b == SubSeq(s, i + 1, Len(s))
<1>1. Len(s) \in Nat /\ i - 1 \in Nat /\ i - 1 <= Len(s)
  BY LenProperties
<1>2. a \in Seq(S) /\ \A x : x \in ToSet(a) <=> \E k \in 1..(i - 1) : s[k] = x
  BY <1>1, ElementsOfSubSeq
<1>3. b \in Seq(S) /\ \A x : x \in ToSet(b) <=> \E k \in (i + 1)..Len(s) : s[k] = x
  BY <1>1, ElementsOfSubSeq
<1>4. RemoveAt(s, i) = a \o b
  BY DEF RemoveAt
<1> HIDE DEF a, b
<1>5. RemoveAt(s, i) \in Seq(S) /\ ToSet(RemoveAt(s, i)) = ToSet(a) \cup ToSet(b)
  BY <1>2, <1>3, <1>4, ElementsOfConcat
<1>6. \A x : x \in ToSet(s) <=> \E k \in 1..Len(s) : s[k] = x
  BY ElementsOf
<1>7. ASSUME NEW x
      PROVE  x \in ToSet(s) <=> x \in ToSet(RemoveAt(s, i)) \cup {s[i]}
  BY <1>1, <1>2, <1>3, <1>5, <1>6
<1> QED
  BY <1>5, <1>7

LEMMA ElementsOfSetToSeq ==
    ASSUME NEW S, IsFiniteSet(S)
    PROVE  SetToSeq(S) \in Seq(S) /\ ToSet(SetToSeq(S)) = S
<1> DEFINE n == Cardinality(S)
           f == SetToSeq(S)
<1>1. n \in Nat /\ ExistsBijection(1..n, S)
  BY FS_CardinalityType
<1>2. \E g \in [1..n -> S] : IsInjective(g)
  BY <1>1 DEF ExistsBijection, Bijection, Injection
<1>3. f \in [1..n -> S] /\ IsInjective(f)
  BY <1>2 DEF SetToSeq
<1>4. f \in Injection(1..n, S)
  BY <1>3 DEF Injection
<1>5. IsFiniteSet(1..n) /\ Cardinality(1..n) = n
  BY <1>1, FS_Interval, 1 \in Int
<1>6. f \in Surjection(1..n, S)
  BY <1>4, <1>5, FS_Injection
<1>7. f \in Seq(S)
  BY <1>1, <1>3, SeqDef
<1>8. DOMAIN f = 1..n /\ \A i \in 1..n : f[i] \in S
  BY <1>3
<1>9. \A x \in S : \E i \in 1..n : f[i] = x
  BY <1>6 DEF Surjection
<1> HIDE DEF f
<1>10. ToSet(f) = S
  BY <1>8, <1>9 DEF ToSet
<1> QED
  BY <1>7, <1>10 DEF f

-----------------------------------------------------------------------------
(* Recursive functions on an interval.                                     *)

\* A recursion that goes from base by steps stays in a set, and is a function
\* on 0..n.
Iterates(S, n, base, step) ==
    \E f \in [0..n -> S] :
        f[0] = base /\ \A k \in 1..n : f[k] = step[<<f[k - 1], k>>]

LEMMA Iteration ==
    ASSUME NEW S, NEW n \in Nat, NEW base \in S, NEW step \in [S \X (1..n) -> S]
    PROVE  Iterates(S, n, base, step)
<1> DEFINE Runs(m, f) == f[0] = base /\ \A k \in 1..m : f[k] = step[<<f[k - 1], k>>]
           T == {m \in Nat : m <= n /\ ~\E f \in [0..m -> S] : Runs(m, f)}
<1>1. n \notin T => Iterates(S, n, base, step)
  BY DEF Iterates
<1> SUFFICES ASSUME n \in T
             PROVE  FALSE
  BY <1>1
<1> T \subseteq Nat
  OBVIOUS
<1>2. PICK m \in T : \A k \in T : m <= k
  BY LeastNatural
<1>3. m # 0
  <2> DEFINE f == [k \in 0..0 |-> base]
  <2>1. f \in [0..0 -> S] /\ f[0] = base
    OBVIOUS
  <2>2. \A k \in 1..0 : f[k] = step[<<f[k - 1], k>>]
    OBVIOUS
  <2> HIDE DEF f
  <2>3. 0 \notin T
    BY <2>1, <2>2
  <2> QED
    BY <1>2, <2>3
<1>4. m - 1 \in Nat /\ m - 1 < m /\ m \in 1..n
  BY <1>2, <1>3
<1>5. PICK f \in [0..(m - 1) -> S] : Runs(m - 1, f)
  <2>1. m - 1 \notin T
    <3> HIDE DEF T
    <3> QED
      BY <1>2, <1>4
  <2>2. \E f \in [0..(m - 1) -> S] : Runs(m - 1, f)
    BY <1>4, <2>1
  <2> QED
    BY <2>2
<1> DEFINE h == [k \in 0..m |-> IF k = m THEN step[<<f[m - 1], m>>] ELSE f[k]]
<1>6. step[<<f[m - 1], m>>] \in S
  BY <1>4
<1>7. h \in [0..m -> S] /\ h[m] = step[<<f[m - 1], m>>] /\ \A k \in 0..(m - 1) : h[k] = f[k]
  BY <1>4, <1>6
<1> HIDE DEF h
<1>8. ASSUME NEW k \in 1..m
      PROVE  h[k] = step[<<h[k - 1], k>>]
  <2>1. k - 1 \in 0..(m - 1) /\ (k = m \/ (k \in 1..(m - 1) /\ k \in 0..(m - 1)))
    BY <1>4
  <2> QED
    BY <1>5, <1>7, <2>1
<1>9. Runs(m, h)
  BY <1>4, <1>5, <1>7, <1>8
<1> QED
  BY <1>2, <1>7, <1>9

-----------------------------------------------------------------------------
(* Sorting.                                                                *)

SortedBy(S, key, s) ==
    /\ s \in [1..Cardinality(S) -> S]
    /\ \A i, j \in 1..Cardinality(S) : i < j => key[s[i]] < key[s[j]]

\* A finite set can be listed in the order of a key that tells its elements
\* apart: the element with the least key first, then the others.
LEMMA SortedListing ==
    ASSUME NEW S, IsFiniteSet(S), NEW key \in [S -> Nat],
           \A x, y \in S : key[x] = key[y] => x = y
    PROVE  \E s : SortedBy(S, key, s)
<1> DEFINE Sorted(n, s) == \A i, j \in 1..n : i < j => key[s[i]] < key[s[j]]
           Listed(n) == \A U \in SUBSET S : Cardinality(U) = n =>
                            \E s \in [1..n -> U] : Sorted(n, s)
           T == {n \in Nat : ~Listed(n)}
<1>1. T = {} => \E s : SortedBy(S, key, s)
  BY FS_CardinalityType DEF SortedBy
<1> SUFFICES ASSUME T # {}
             PROVE  FALSE
  BY <1>1
<1>2. PICK n \in T : \A k \in T : n <= k
  <2>1. T \in SUBSET Nat
    OBVIOUS
  <2> HIDE DEF T
  <2> QED
    BY <2>1, LeastNatural
<1>3. n \in Nat /\ ~Listed(n)
  OBVIOUS
<1>4. ASSUME NEW k \in Nat, k < n
      PROVE  Listed(k)
  <2>1. k \notin T
    <3> HIDE DEF T
    <3> QED
      BY <1>2, <1>3, <1>4
  <2> HIDE DEF Listed
  <2> QED
    BY <2>1
<1> HIDE DEF T, Listed
<1>5. PICK U \in SUBSET S : Cardinality(U) = n /\ ~\E s \in [1..n -> U] : Sorted(n, s)
  BY <1>3 DEF Listed
<1>6. IsFiniteSet(U)
  BY FS_Subset
<1>7. n # 0
  <2>1. ASSUME n = 0
        PROVE  FALSE
    <3>1. 1..n = {}
      BY <2>1
    <3>2. <<>> \in [1..n -> U]
      BY <3>1
    <3> QED
      BY <1>5, <3>1, <3>2
  <2> QED
    BY <2>1
<1>8. PICK x \in U : \A y \in U : key[x] <= key[y]
  <2> DEFINE K == {key[y] : y \in U}
  <2>1. K \in SUBSET Nat /\ K # {}
    <3>1. U # {}
      BY <1>5, <1>7, FS_EmptySet
    <3> QED
      BY <3>1
  <2>2. PICK c \in K : \A k \in K : c <= k
    <3> HIDE DEF K
    <3> QED
      BY <2>1, LeastNatural
  <2>3. PICK x \in U : c = key[x]
    OBVIOUS
  <2> QED
    BY <2>2, <2>3
<1>9. PICK t \in [1..(n - 1) -> U \ {x}] : Sorted(n - 1, t)
  <2>1. Cardinality(U \ {x}) = n - 1
    BY <1>5, <1>6, FS_RemoveElement
  <2>2. n - 1 \in Nat /\ n - 1 < n
    BY <1>3, <1>7
  <2>3. Listed(n - 1)
    BY <1>4, <2>2
  <2> QED
    BY <2>1, <2>3 DEF Listed
<1> DEFINE s == [i \in 1..n |-> IF i = 1 THEN x ELSE t[i - 1]]
<1>10. \A i \in 1..n : i # 1 => i - 1 \in 1..(n - 1)
  BY <1>3
<1>11. s \in [1..n -> U] /\ \A i \in 1..n : s[i] = IF i = 1 THEN x ELSE t[i - 1]
  BY <1>10
<1> HIDE DEF s
<1>12. ASSUME NEW i \in 1..n, NEW j \in 1..n, i < j
       PROVE  key[s[i]] < key[s[j]]
  <2>1. j # 1 /\ j - 1 \in 1..(n - 1) /\ s[j] = t[j - 1]
    BY <1>3, <1>11, <1>12
  <2>2. CASE i = 1
    <3>1. t[j - 1] \in U \ {x}
      BY <2>1
    <3>2. key[x] <= key[t[j - 1]] /\ key[x] # key[t[j - 1]]
      BY <1>8, <3>1
    <3>3. key[x] \in Nat /\ key[t[j - 1]] \in Nat
      BY <3>1
    <3> QED
      BY <1>11, <2>1, <2>2, <3>2, <3>3
  <2>3. CASE i # 1
    <3>1. i - 1 \in 1..(n - 1) /\ s[i] = t[i - 1] /\ i - 1 < j - 1
      BY <1>3, <1>11, <1>12, <2>3
    <3> QED
      BY <1>9, <2>1, <3>1
  <2> QED
    BY <2>2, <2>3
<1> QED
  BY <1>5, <1>11, <1>12

\* Such a listing has every element, once.
LEMMA SortedListingIsWhole ==
    ASSUME NEW S, IsFiniteSet(S), NEW key \in [S -> Nat],
           NEW s, SortedBy(S, key, s)
    PROVE  /\ s \in Seq(S) /\ Len(s) = Cardinality(S)
           /\ \A i, j \in 1..Len(s) : s[i] = s[j] => i = j
           /\ \A x \in S : \E i \in 1..Len(s) : s[i] = x
<1> DEFINE n == Cardinality(S)
<1>1. /\ n \in Nat /\ s \in [1..n -> S]
      /\ \A i, j \in 1..n : i < j => key[s[i]] < key[s[j]]
  BY FS_CardinalityType DEF SortedBy
<1>2. ASSUME NEW i \in 1..n, NEW j \in 1..n, s[i] = s[j]
      PROVE  i = j
  <2>1. key[s[i]] \in Nat
    BY <1>1
  <2>2. ~(i < j) /\ ~(j < i)
    BY <1>1, <1>2, <2>1
  <2> QED
    BY <1>1, <2>2
<1>3. s \in Injection(1..n, S)
  BY <1>1, <1>2 DEF Injection, IsInjective
<1>4. IsFiniteSet(1..n) /\ Cardinality(1..n) = n
  BY <1>1, FS_Interval, 1 \in Int
<1>5. s \in Surjection(1..n, S)
  BY <1>3, <1>4, FS_Injection
<1>6. s \in Seq(S) /\ Len(s) = n
  BY <1>1, SeqDef, LenProperties
<1> QED
  BY <1>2, <1>5, <1>6 DEF Surjection
=============================================================================
