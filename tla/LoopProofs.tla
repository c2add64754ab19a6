----------------------------- MODULE LoopProofs -----------------------------
(***************************************************************************)
(* What the loops of module Loops and the sums of the community modules    *)
(* compute, for every input: the facts that the proofs about the scheduler *)
(* and the optimizers rest on.  The induction they need is the principle   *)
(* of the least natural number, applied to the set of counterexamples.     *)
(***************************************************************************)
EXTENDS Loops, SequencesExt, Functions, FiniteSetTheorems, SequenceTheorems, TLAPS

-----------------------------------------------------------------------------
(* Induction *)

\* Every nonempty set of natural numbers has a least member.
LEMMA LeastNatural ==
  ASSUME NEW T \in SUBSET Nat, T # {}
  PROVE  \E x \in T : \A y \in T : x <= y
<1> DEFINE U == {0 .. n : n \in T}
<1>1. IsWellFoundedOn(StrictSubsetOrdering(Nat), FiniteSubsetsOf(Nat))
  BY FS_StrictSubsetOrderingWellFounded
<1>2. U \subseteq FiniteSubsetsOf(Nat)
  <2>1. \A n \in T : IsFiniteSet(0 .. n)
    BY FS_Interval
  <2> QED
    BY <2>1 DEF FiniteSubsetsOf
<1>3. \E u \in U : \A v \in U : ~(<<v, u>> \in StrictSubsetOrdering(Nat))
  <2> HIDE DEF U
  <2>1. U # {}
    BY DEF U
  <2> QED
    BY <1>1, <1>2, <2>1, WFMin
<1>4. PICK n \in T : \A v \in U : ~(<<v, 0 .. n>> \in StrictSubsetOrdering(Nat))
  BY <1>3
<1>5. ASSUME NEW y \in T, y < n PROVE FALSE
  <2>1. 0 .. y \subseteq 0 .. n /\ 0 .. y # 0 .. n
    BY <1>5, n \in 0 .. n, n \notin 0 .. y
  <2>2. <<0 .. y, 0 .. n>> \in StrictSubsetOrdering(Nat)
    BY <2>1 DEF StrictSubsetOrdering
  <2> QED
    BY <1>4, <2>2
<1> QED
  BY <1>5

-----------------------------------------------------------------------------
(* Following a function *)

\* The recursive function of Iterated exists, so that it is what its equation says.
LEMMA IteratedDef ==
  ASSUME NEW next, NEW x, NEW n \in Nat
  PROVE  Iterated(next, x, n) =
           [k \in 0 .. n |-> IF k = 0 THEN x ELSE next[Iterated(next, x, n)[k - 1]]]
<1> DEFINE Follows(g, m) == g = [k \in 0 .. m |-> IF k = 0 THEN x ELSE next[g[k - 1]]]
           None == {m \in Nat : ~ \E g : Follows(g, m)}
<1>1. ASSUME None # {} PROVE FALSE
  <2>1. PICK m \in None : \A y \in None : m <= y
    BY <1>1, LeastNatural
  <2>2. m # 0
    <3>1. Follows([k \in 0 .. 0 |-> x], 0)
      OBVIOUS
    <3> QED
      BY <3>1
  <2>3. PICK g : Follows(g, m - 1)
    <3> HIDE DEF Follows
    <3>1. m - 1 \in Nat /\ m - 1 \notin None
      BY <2>1, <2>2
    <3> QED
      BY <3>1
  <2> DEFINE h == [k \in 0 .. m |-> IF k = m THEN next[g[m - 1]] ELSE g[k]]
  <2>4. ASSUME NEW k \in 0 .. m
        PROVE  h[k] = IF k = 0 THEN x ELSE next[h[k - 1]]
    <3>1. CASE k = m
      BY <2>1, <2>2, <3>1
    <3>2. CASE k # m
      <4>1. k \in 0 .. m - 1 /\ h[k] = g[k]
        BY <2>1, <3>2
      <4>2. k # 0 => k - 1 \in 0 .. m /\ h[k - 1] = g[k - 1]
        BY <2>1, <3>2
      <4> QED
        BY <2>3, <4>1, <4>2
    <3> QED
      BY <3>1, <3>2
  <2>5. Follows(h, m)
    <3> HIDE DEF h
    <3>1. h = [k \in 0 .. m |-> h[k]]
      BY DEF h
    <3> QED
      BY <2>4, <3>1
  <2> QED
    BY <2>1, <2>5
<1>2. \E g : Follows(g, n)
  BY <1>1
<1>3. Iterated(next, x, n) = CHOOSE g : Follows(g, n)
  BY DEF Iterated
<1>4. Follows(Iterated(next, x, n), n)
  <2> HIDE DEF Follows
  <2> QED
    BY <1>2, <1>3
<1> QED
  BY <1>4

-----------------------------------------------------------------------------
(* The members of a set in order *)

\* Ascending enumerates a finite set of integers without repetition, in order.
LEMMA AscendingEnumerates ==
  ASSUME NEW S \in SUBSET Int, IsFiniteSet(S)
  PROVE  /\ Ascending(S) \in Seq(S)
         /\ Range(Ascending(S)) = S
         /\ \A a, b \in DOMAIN Ascending(S) : a < b => Ascending(S)[a] < Ascending(S)[b]
<1> DEFINE UpTo(n) == {m \in S : m <= n}
           rank == [n \in S |-> Cardinality(UpTo(n))]
           card == Cardinality(S)
<1>1. \A n \in S : IsFiniteSet(UpTo(n)) /\ Cardinality(UpTo(n)) \in 1 .. card
  <2> SUFFICES ASSUME NEW n \in S
               PROVE  IsFiniteSet(UpTo(n)) /\ Cardinality(UpTo(n)) \in 1 .. card
    OBVIOUS
  <2>1. UpTo(n) \in SUBSET S /\ n \in UpTo(n)
    OBVIOUS
  <2>2. IsFiniteSet(UpTo(n)) /\ Cardinality(UpTo(n)) <= card
    BY <2>1, FS_Subset
  <2>3. Cardinality(UpTo(n)) # 0
    BY <2>1, <2>2, FS_EmptySet
  <2> QED
    BY <2>2, <2>3, FS_CardinalityType
<1>2. \A m, n \in S : m < n => rank[m] < rank[n]
  <2> SUFFICES ASSUME NEW m \in S, NEW n \in S, m < n PROVE rank[m] < rank[n]
    OBVIOUS
  <2>1. m \in Int /\ n \in Int /\ \A k \in S : k \in Int
    OBVIOUS
  <2>2. UpTo(m) \in SUBSET UpTo(n) /\ n \in UpTo(n) /\ n \notin UpTo(m)
    <3>1. ASSUME NEW k \in UpTo(m) PROVE k \in UpTo(n)
      BY <2>1
    <3>2. n \in UpTo(n) /\ n \notin UpTo(m)
      BY <2>1
    <3> QED
      BY <3>1, <3>2
  <2>3. Cardinality(UpTo(m)) <= Cardinality(UpTo(n))
        /\ Cardinality(UpTo(m)) # Cardinality(UpTo(n))
    BY <1>1, <2>2, FS_Subset
  <2> QED
    BY <1>1, <2>3
<1>3. rank \in [S -> 1 .. card]
  BY <1>1
<1>4. \A m, n \in S : rank[m] = rank[n] => m = n
  BY <1>2, <1>3
<1>5. card \in Nat
  BY FS_CardinalityType
<1>6. rank \in Surjection(S, 1 .. card)
  <2>1. rank \in Injection(S, 1 .. card)
    BY <1>3, <1>4 DEF Injection, IsInjective
  <2>2. IsFiniteSet(1 .. card) /\ Cardinality(1 .. card) = card
    BY <1>5, FS_Interval
  <2> HIDE DEF rank
  <2> QED
    BY <2>1, <2>2, FS_Injection
<1>7. \A k \in 1 .. card : \E n \in S : rank[n] = k
  BY <1>6 DEF Surjection
<1>8. \A k \in 1 .. card : Ascending(S)[k] \in S /\ rank[Ascending(S)[k]] = k
  <2> SUFFICES ASSUME NEW k \in 1 .. card
               PROVE  Ascending(S)[k] \in S /\ rank[Ascending(S)[k]] = k
    OBVIOUS
  <2>1. Ascending(S)[k] = CHOOSE n \in S : Cardinality(UpTo(n)) = k
    BY DEF Ascending
  <2> QED
    BY <1>7, <2>1
<1>9. DOMAIN Ascending(S) = 1 .. card
  BY DEF Ascending
<1>10. Ascending(S) \in [1 .. card -> S]
  BY <1>8, <1>9 DEF Ascending
<1>11. \A n \in S : rank[n] \in 1 .. card /\ Ascending(S)[rank[n]] = n
  BY <1>3, <1>4, <1>8
<1>12. Ascending(S) \in Seq(S)
  BY <1>5, <1>10
<1>13. Range(Ascending(S)) = S
  <2> HIDE DEF rank
  <2> QED
    BY <1>8, <1>9, <1>11 DEF Range
<1>14. ASSUME NEW a \in DOMAIN Ascending(S), NEW b \in DOMAIN Ascending(S), a < b
       PROVE  Ascending(S)[a] < Ascending(S)[b]
  <2> HIDE DEF rank, card
  <2>1. PICK x \in S : x = Ascending(S)[a] /\ rank[x] = a
    BY <1>8, <1>9
  <2>2. PICK y \in S : y = Ascending(S)[b] /\ rank[y] = b
    BY <1>8, <1>9
  <2>3. a \in Int /\ b \in Int /\ x \in Int /\ y \in Int
    BY <1>5, <1>9
  <2>4. ~(y < x) /\ x # y
    BY <1>2, <1>14, <2>1, <2>2, <2>3
  <2>5. x < y
    BY <2>3, <2>4
  <2> QED
    BY <2>1, <2>2, <2>5
<1> QED
  BY <1>12, <1>13, <1>14

LEMMA IntegersListed ==
  ASSUME NEW S \in SUBSET Int, NEW A \in Seq(S)
  PROVE  /\ Len(A) \in Nat /\ DOMAIN A = 1 .. Len(A)
         /\ \A h \in DOMAIN A : A[h] \in Int
<1>1. Len(A) \in Nat /\ DOMAIN A = 1 .. Len(A)
  OBVIOUS
<1>2. \A h \in DOMAIN A : A[h] \in S
  BY <1>1
<1> QED
  BY <1>1, <1>2

\* Where two ascending enumerations of a set differ first, neither is behind.
LEMMA NotBehind ==
  ASSUME NEW S \in SUBSET Int, NEW A \in Seq(S), NEW B \in Seq(S), Range(B) = S,
         \A a, b \in DOMAIN A : a < b => A[a] < A[b],
         \A a, b \in DOMAIN B : a < b => B[a] < B[b],
         NEW k \in DOMAIN A, \A h \in 1 .. k - 1 : h \in DOMAIN B /\ A[h] = B[h]
  PROVE  k \in DOMAIN B /\ B[k] <= A[k]
<1>1. /\ Len(A) \in Nat /\ DOMAIN A = 1 .. Len(A)
      /\ Len(B) \in Nat /\ DOMAIN B = 1 .. Len(B)
      /\ \A h \in DOMAIN A : A[h] \in Int
      /\ \A h \in DOMAIN B : B[h] \in Int
  BY IntegersListed
<1>2. PICK j \in DOMAIN B : B[j] = A[k]
  BY DEF Range
<1>3. k <= j
  <2>1. SUFFICES ASSUME j < k PROVE FALSE
    BY <1>1
  <2>2. j \in 1 .. k - 1 /\ j \in DOMAIN A
    BY <1>1, <2>1
  <2>3. A[j] < A[k] /\ A[j] = B[j]
    BY <2>1, <2>2
  <2> QED
    BY <1>1, <1>2, <2>3
<1>4. k \in DOMAIN B
  BY <1>1, <1>3
<1>5. k = j \/ B[k] < B[j]
  BY <1>1, <1>3, <1>4
<1> QED
  BY <1>1, <1>2, <1>4, <1>5

\* There is no other enumeration in ascending order.
LEMMA AscendingUnique ==
  ASSUME NEW S \in SUBSET Int, NEW A \in Seq(S), NEW B \in Seq(S), Range(A) = S, Range(B) = S,
         \A a, b \in DOMAIN A : a < b => A[a] < A[b],
         \A a, b \in DOMAIN B : a < b => B[a] < B[b]
  PROVE  A = B
<1> DEFINE Same(k) == k \in DOMAIN A /\ k \in DOMAIN B /\ A[k] = B[k]
           Bad == {k \in Nat : k \in DOMAIN A \cup DOMAIN B /\ ~Same(k)}
<1>1. /\ Len(A) \in Nat /\ DOMAIN A = 1 .. Len(A)
      /\ Len(B) \in Nat /\ DOMAIN B = 1 .. Len(B)
      /\ \A h \in DOMAIN A : A[h] \in Int
      /\ \A h \in DOMAIN B : B[h] \in Int
  BY IntegersListed
<1>2. ASSUME Bad # {} PROVE FALSE
  <2>1. PICK k \in Bad : \A h \in Bad : k <= h
    <3>1. Bad \in SUBSET Nat
      OBVIOUS
    <3> HIDE DEF Bad
    <3> QED
      BY <1>2, <3>1, LeastNatural
  <2>2. \A h \in 1 .. k - 1 : Same(h)
    <3>1. SUFFICES ASSUME NEW h \in 1 .. k - 1, ~Same(h) PROVE FALSE
      OBVIOUS
    <3>2. h \in Nat /\ k \in Nat /\ h < k /\ h >= 1
      BY <2>1, <3>1
    <3>3. h \in DOMAIN A \cup DOMAIN B
      BY <1>1, <2>1, <3>2
    <3>4. h \in Bad
      BY <3>1, <3>2, <3>3
    <3> QED
      BY <2>1, <3>2, <3>4
  <2>3. CASE k \in DOMAIN A
    <3>1. k \in DOMAIN B /\ B[k] <= A[k]
      BY <2>2, <2>3, NotBehind
    <3>2. A[k] <= B[k]
      BY <2>2, <3>1, NotBehind
    <3> QED
      BY <1>1, <2>1, <2>3, <3>1, <3>2
  <2>4. CASE k \in DOMAIN B
    <3>1. k \in DOMAIN A
      BY <2>2, <2>4, NotBehind
    <3> QED
      BY <2>3, <3>1
  <2> QED
    BY <2>1, <2>3, <2>4
<1>3. \A k \in DOMAIN A \cup DOMAIN B : Same(k)
  BY <1>1, <1>2
<1>4. DOMAIN A = DOMAIN B /\ \A k \in DOMAIN A : A[k] = B[k]
  BY <1>3
<1> QED
  BY <1>1, <1>4

LEMMA AscendingIs ==
  ASSUME NEW S \in SUBSET Int, IsFiniteSet(S), NEW B \in Seq(S), Range(B) = S,
         \A a, b \in DOMAIN B : a < b => B[a] < B[b]
  PROVE  Ascending(S) = B
BY AscendingEnumerates, AscendingUnique

-----------------------------------------------------------------------------
(* Sums *)

\* The recursive function that a sum is computed with exists, and it has the same
\* values whatever set it was started from.
Member(s) == CHOOSE x \in s : TRUE
SumsUp(g, f, S) ==
  g = [s \in SUBSET S |-> IF s = {} THEN 0 ELSE f[Member(s)] + g[s \ {Member(s)}]]

LEMMA SumRecursion ==
  ASSUME NEW f, NEW S, IsFiniteSet(S)
  PROVE  \E g : SumsUp(g, f, S)
<1> DEFINE Small(m) == {s \in SUBSET S : Cardinality(s) <= m}
           Upto(g, m) ==
             g = [s \in Small(m) |-> IF s = {} THEN 0 ELSE f[Member(s)] + g[s \ {Member(s)}]]
           None == {m \in Nat : ~ \E g : Upto(g, m)}
<1>1. \A s \in SUBSET S : /\ IsFiniteSet(s) /\ Cardinality(s) \in Nat
                          /\ Cardinality(s) <= Cardinality(S)
                          /\ Cardinality(s) = 0 <=> s = {}
  BY FS_Subset, FS_CardinalityType, FS_EmptySet
<1>2. \A s \in SUBSET S : s # {} =>
        /\ Member(s) \in s
        /\ s \ {Member(s)} \in SUBSET S
        /\ Cardinality(s \ {Member(s)}) = Cardinality(s) - 1
  <2> SUFFICES ASSUME NEW s \in SUBSET S, s # {}
               PROVE  /\ Member(s) \in s
                      /\ s \ {Member(s)} \in SUBSET S
                      /\ Cardinality(s \ {Member(s)}) = Cardinality(s) - 1
    OBVIOUS
  <2>1. Member(s) \in s
    BY DEF Member
  <2> QED
    BY <1>1, <2>1, FS_RemoveElement
<1>3. ASSUME None # {} PROVE FALSE
  <2>1. PICK m \in None : \A y \in None : m <= y
    <3> HIDE DEF Upto
    <3> QED
      BY <1>3, LeastNatural
  <2>2. m # 0
    <3>1. Upto([s \in Small(0) |-> 0], 0)
      <4>1. \A s \in Small(0) : s = {}
        BY <1>1
      <4> QED
        BY <4>1
    <3> HIDE DEF Upto
    <3> QED
      BY <3>1
  <2>3. PICK g : Upto(g, m - 1)
    <3> HIDE DEF Upto
    <3>1. m - 1 \in Nat /\ m - 1 \notin None
      BY <2>1, <2>2
    <3> QED
      BY <3>1
  <2> DEFINE h == [s \in Small(m) |-> IF Cardinality(s) = m
                                        THEN f[Member(s)] + g[s \ {Member(s)}] ELSE g[s]]
  <2>4. ASSUME NEW s \in Small(m)
        PROVE  h[s] = IF s = {} THEN 0 ELSE f[Member(s)] + h[s \ {Member(s)}]
    <3>1. m \in Nat /\ s \in SUBSET S
      OBVIOUS
    <3>2. CASE s = {}
      <4>1. s \in Small(m - 1) /\ h[s] = g[s]
        BY <1>1, <2>2, <3>1, <3>2
      <4> QED
        BY <2>3, <3>2, <4>1
    <3>3. CASE s # {}
      <4> DEFINE r == s \ {Member(s)}
      <4>1. r \in Small(m - 1) /\ r \in Small(m) /\ h[r] = g[r]
        BY <1>1, <1>2, <3>1, <3>3
      <4>2. h[s] = f[Member(s)] + g[r]
        <5>1. CASE Cardinality(s) = m
          BY <5>1
        <5>2. CASE Cardinality(s) # m
          <6>1. s \in Small(m - 1) /\ h[s] = g[s]
            BY <1>1, <3>1, <5>2
          <6> QED
            BY <2>3, <3>3, <6>1
        <5> QED
          BY <5>1, <5>2
      <4> QED
        BY <3>3, <4>1, <4>2
    <3> QED
      BY <3>2, <3>3
  <2>5. Upto(h, m)
    <3> HIDE DEF h
    <3>1. h = [s \in Small(m) |-> h[s]]
      BY DEF h
    <3> QED
      BY <2>4, <3>1
  <2> QED
    <3> HIDE DEF Upto
    <3> QED
      BY <2>1, <2>5
<1>4. PICK g : Upto(g, Cardinality(S))
  <2> HIDE DEF Upto
  <2>1. Cardinality(S) \in Nat
    BY FS_CardinalityType
  <2> QED
    BY <1>3, <2>1
<1>5. Small(Cardinality(S)) = SUBSET S
  BY <1>1
<1>6. SumsUp(g, f, S)
  BY <1>4, <1>5 DEF SumsUp
<1> QED
  BY <1>6

LEMMA SumsUpUnique ==
  ASSUME NEW f, NEW g, NEW S, IsFiniteSet(S), SumsUp(g, f, S),
         NEW h, NEW T, SumsUp(h, f, T),
         NEW u \in SUBSET (S \cap T)
  PROVE  g[u] = h[u]
<1> DEFINE Differ == {s \in SUBSET (S \cap T) : g[s] # h[s]}
           Sizes == {Cardinality(s) : s \in Differ}
<1>1. \A s \in SUBSET (S \cap T) : IsFiniteSet(s) /\ Cardinality(s) \in Nat
  BY FS_Subset, FS_CardinalityType
<1>2. ASSUME Differ # {} PROVE FALSE
  <2>1. Sizes \in SUBSET Nat /\ Sizes # {}
    BY <1>1, <1>2
  <2>2. PICK k \in Sizes : \A j \in Sizes : k <= j
    <3> HIDE DEF Sizes
    <3> QED
      BY <2>1, LeastNatural
  <2>3. PICK s \in Differ : Cardinality(s) = k
    OBVIOUS
  <2>4. \A r \in Differ : Cardinality(s) <= Cardinality(r)
    BY <2>2, <2>3
  <2>5. s \in SUBSET S /\ s \in SUBSET T /\ g[s] # h[s]
    OBVIOUS
  <2>6. CASE s = {}
    BY <2>5, <2>6 DEF SumsUp
  <2>7. CASE s # {}
    <3> DEFINE r == s \ {Member(s)}
    <3>1. Member(s) \in s
      BY <2>7 DEF Member
    <3>2. Cardinality(r) = Cardinality(s) - 1
      BY <1>1, <3>1, FS_RemoveElement
    <3>3. r \notin Differ
      BY <1>1, <2>4, <3>2
    <3>4. g[r] = h[r]
      BY <3>3
    <3>5. g[s] = f[Member(s)] + g[r] /\ h[s] = f[Member(s)] + h[r]
      BY <2>5, <2>7 DEF SumsUp
    <3> QED
      BY <2>5, <3>4, <3>5
  <2> QED
    BY <2>6, <2>7
<1> QED
  BY <1>2

LEMMA SumIsRecursive ==
  ASSUME NEW f, NEW S, IsFiniteSet(S), NEW g, SumsUp(g, f, S),
         NEW T \in SUBSET S
  PROVE  SumFunctionOnSet(f, T) = g[T]
<1>1. SumFunctionOnSet(f, T) = (CHOOSE h : SumsUp(h, f, T))[T]
  BY DEF SumFunctionOnSet, FoldFunctionOnSet, MapThenFoldSet, SumsUp, Member
<1>2. IsFiniteSet(T)
  BY FS_Subset
<1>3. PICK h : h = (CHOOSE k : SumsUp(k, f, T)) /\ SumsUp(h, f, T)
  BY <1>2, SumRecursion
<1>4. g[T] = h[T]
  BY <1>3, SumsUpUnique
<1> QED
  BY <1>1, <1>3, <1>4

\* A sum of natural numbers is one; any of them can be taken out of it first.
LEMMA SumTakesOut ==
  ASSUME NEW f, NEW S, IsFiniteSet(S), \A x \in S : f[x] \in Nat
  PROVE  /\ SumFunctionOnSet(f, {}) = 0
         /\ SumFunctionOnSet(f, S) \in Nat
         /\ \A a \in S : SumFunctionOnSet(f, S) = f[a] + SumFunctionOnSet(f, S \ {a})
<1> DEFINE Sum(T) == SumFunctionOnSet(f, T)
           Good(T) == Sum(T) \in Nat /\ \A a \in T : Sum(T) = f[a] + Sum(T \ {a})
           Bad == {T \in SUBSET S : ~Good(T)}
           Sizes == {Cardinality(T) : T \in Bad}
<1>1. PICK g : SumsUp(g, f, S)
  BY SumRecursion
<1>2. \A T \in SUBSET S : Sum(T) = g[T]
  BY <1>1, SumIsRecursive
<1>3. Sum({}) = 0
  BY <1>1, <1>2 DEF SumsUp
<1>4. \A T \in SUBSET S : T # {} =>
        /\ Member(T) \in T
        /\ Sum(T) = f[Member(T)] + Sum(T \ {Member(T)})
  <2> SUFFICES ASSUME NEW T \in SUBSET S, T # {}
               PROVE  /\ Member(T) \in T
                      /\ Sum(T) = f[Member(T)] + Sum(T \ {Member(T)})
    OBVIOUS
  <2>1. Member(T) \in T
    BY DEF Member
  <2>2. g[T] = f[Member(T)] + g[T \ {Member(T)}]
    BY <1>1 DEF SumsUp
  <2> QED
    BY <1>2, <2>1, <2>2
<1>5. \A T \in SUBSET S : /\ IsFiniteSet(T) /\ Cardinality(T) \in Nat
                          /\ \A a \in T : Cardinality(T \ {a}) = Cardinality(T) - 1
  BY FS_Subset, FS_CardinalityType, FS_RemoveElement
<1> HIDE DEF Sum
<1>6. ASSUME Bad # {} PROVE FALSE
  <2>1. Sizes \in SUBSET Nat /\ Sizes # {}
    BY <1>5, <1>6
  <2>2. PICK k \in Sizes : \A j \in Sizes : k <= j
    <3> HIDE DEF Sizes
    <3> QED
      BY <2>1, LeastNatural
  <2>3. PICK T \in Bad : Cardinality(T) = k
    OBVIOUS
  <2>4. \A U \in SUBSET S : Cardinality(U) < Cardinality(T) => Good(U)
    <3> SUFFICES ASSUME NEW U \in SUBSET S, Cardinality(U) < Cardinality(T), U \in Bad
                 PROVE  FALSE
      OBVIOUS
    <3>1. Cardinality(U) \in Sizes
      OBVIOUS
    <3>2. Cardinality(U) \in Nat /\ Cardinality(T) \in Nat
      BY <1>5
    <3>3. Cardinality(T) <= Cardinality(U)
      BY <2>2, <2>3, <3>1
    <3> QED
      BY <3>2, <3>3
  <2>5. T \in SUBSET S /\ ~Good(T)
    OBVIOUS
  <2>6. T # {}
    <3>1. Good({})
      BY <1>3
    <3> HIDE DEF Good
    <3> QED
      BY <2>5, <3>1
  <2> DEFINE c == Member(T)
  <2>7. c \in T /\ Sum(T) = f[c] + Sum(T \ {c})
    BY <1>4, <2>5, <2>6
  <2>8. Good(T \ {c})
    <3>1. T \ {c} \in SUBSET S /\ Cardinality(T \ {c}) < Cardinality(T)
      BY <1>5, <2>5, <2>7
    <3> HIDE DEF Good
    <3> QED
      BY <2>4, <3>1
  <2>9. ASSUME NEW a \in T
        PROVE  Sum(T) = f[a] + Sum(T \ {a})
    <3>1. CASE a = c
      BY <2>7, <3>1
    <3>2. CASE a # c
      <4> DEFINE r == (T \ {c}) \ {a}
      <4>1. r = (T \ {a}) \ {c} /\ a \in T \ {c} /\ c \in T \ {a}
        BY <2>7, <3>2
      <4>2. Sum(T \ {c}) = f[a] + Sum(r)
        BY <2>8, <4>1
      <4>3. Good(T \ {a})
        <5>1. T \ {a} \in SUBSET S /\ Cardinality(T \ {a}) < Cardinality(T)
          BY <1>5, <2>5
        <5> HIDE DEF Good
        <5> QED
          BY <2>4, <5>1
      <4>4. Sum(T \ {a}) = f[c] + Sum(r)
        BY <4>1, <4>3
      <4>5. Sum(r) \in Nat
        <5>1. Good(r)
          <6>1. r \in SUBSET S /\ Cardinality(r) < Cardinality(T)
            <7>1. Cardinality(r) = Cardinality(T \ {c}) - 1
              BY <1>5, <2>5, <4>1
            <7>2. Cardinality(T \ {c}) = Cardinality(T) - 1
              BY <1>5, <2>5, <2>7
            <7> QED
              BY <1>5, <2>5, <7>1, <7>2
          <6> HIDE DEF Good
          <6> QED
            BY <2>4, <6>1
        <5> QED
          BY <5>1
      <4>6. f[a] \in Nat /\ f[c] \in Nat
        BY <2>5, <2>7
      <4> HIDE DEF r, c
      <4> QED
        BY <2>7, <4>2, <4>4, <4>5, <4>6
    <3> QED
      BY <3>1, <3>2
  <2>10. Sum(T) \in Nat
    BY <2>5, <2>7, <2>8
  <2> QED
    BY <2>5, <2>9, <2>10
<1>7. Good(S)
  BY <1>6
<1> QED
  BY <1>3, <1>7 DEF Sum

LEMMA SumDependsOnValues ==
  ASSUME NEW f, NEW h, NEW S, IsFiniteSet(S), \A x \in S : f[x] = h[x]
  PROVE  SumFunctionOnSet(f, S) = SumFunctionOnSet(h, S)
<1>1. PICK g : SumsUp(g, f, S)
  BY SumRecursion
<1>2. SumsUp(g, h, S)
  <2>1. \A s \in SUBSET S : s # {} => f[Member(s)] = h[Member(s)]
    BY DEF Member
  <2> QED
    BY <1>1, <2>1 DEF SumsUp
<1> QED
  BY <1>1, <1>2, SumIsRecursive

\* One term of a sum is at most the sum, which changes with the term.
LEMMA SumExcept ==
  ASSUME NEW S, IsFiniteSet(S), NEW f \in [S -> Nat], NEW a \in S, NEW v \in Nat
  PROVE  /\ SumFunction(f) \in Nat
         /\ f[a] <= SumFunction(f)
         /\ SumFunction([f EXCEPT ![a] = v]) = SumFunction(f) - f[a] + v
<1> DEFINE h == [f EXCEPT ![a] = v]
<1>1. h \in [S -> Nat] /\ h[a] = v /\ \A x \in S \ {a} : h[x] = f[x]
  OBVIOUS
<1>2. IsFiniteSet(S \ {a})
  BY FS_RemoveElement
<1>3. SumFunction(f) = SumFunctionOnSet(f, S) /\ SumFunction(h) = SumFunctionOnSet(h, S)
  BY <1>1 DEF SumFunction
<1> HIDE DEF h
<1>4. /\ SumFunctionOnSet(f, S) = f[a] + SumFunctionOnSet(f, S \ {a})
      /\ SumFunctionOnSet(f, S) \in Nat
  BY SumTakesOut
<1>5. SumFunctionOnSet(h, S) = h[a] + SumFunctionOnSet(h, S \ {a})
  BY <1>1, SumTakesOut
<1>6. SumFunctionOnSet(f, S \ {a}) \in Nat
  BY <1>2, SumTakesOut
<1>7. SumFunctionOnSet(h, S \ {a}) = SumFunctionOnSet(f, S \ {a})
  BY <1>1, <1>2, SumDependsOnValues
<1> QED
  BY <1>1, <1>3, <1>4, <1>5, <1>6, <1>7 DEF h

\* A sum of natural numbers is zero if and only if all of them are.
LEMMA SumPositive ==
  ASSUME NEW S, IsFiniteSet(S), NEW f \in [S -> Nat]
  PROVE  /\ SumFunction(f) \in Nat
         /\ SumFunction(f) > 0 <=> \E a \in S : f[a] > 0
<1>1. SumFunction(f) = SumFunctionOnSet(f, S) /\ SumFunction(f) \in Nat
  BY SumTakesOut DEF SumFunction
<1>2. ASSUME NEW a \in S, f[a] > 0 PROVE SumFunction(f) > 0
  BY <1>1, <1>2, SumExcept
<1>3. ASSUME \A a \in S : f[a] = 0 PROVE SumFunction(f) = 0
  <2> DEFINE g == [s \in SUBSET S |-> 0]
  <2>1. SumsUp(g, f, S)
    <3>1. \A s \in SUBSET S : s # {} => f[Member(s)] = 0
      BY <1>3 DEF Member
    <3> QED
      BY <3>1 DEF SumsUp
  <2>2. g[S] = 0
    OBVIOUS
  <2> HIDE DEF g
  <2> QED
    BY <1>1, <2>1, <2>2, SumIsRecursive
<1> QED
  BY <1>1, <1>2, <1>3

\* A sum when one is added in the terms of a set.
LEMMA SumPlusOnes ==
  ASSUME NEW S, IsFiniteSet(S), NEW f \in [S -> Nat], NEW L \in SUBSET S, NEW g,
         g = [x \in S |-> f[x] + IF x \in L THEN 1 ELSE 0]
  PROVE  /\ Cardinality(L) \in Nat
         /\ SumFunction(g) = SumFunction(f) + Cardinality(L)
<1> DEFINE Plus(T) == [x \in S |-> f[x] + IF x \in T THEN 1 ELSE 0]
           Good(T) == SumFunction(Plus(T)) = SumFunction(f) + Cardinality(T)
           Bad == {T \in SUBSET S : ~Good(T)}
           Sizes == {Cardinality(T) : T \in Bad}
<1>1. \A T \in SUBSET S : IsFiniteSet(T) /\ Cardinality(T) \in Nat
  BY FS_Subset, FS_CardinalityType
<1>2. Good({})
  <2>1. Plus({}) = f
    OBVIOUS
  <2>2. Cardinality({}) = 0
    BY FS_EmptySet
  <2>3. SumFunction(f) \in Nat
    BY SumTakesOut DEF SumFunction
  <2> HIDE DEF Plus
  <2> QED
    BY <2>1, <2>2, <2>3
<1>3. ASSUME NEW T \in SUBSET S, NEW a \in T, Good(T \ {a}) PROVE Good(T)
  <2> DEFINE rest == Plus(T \ {a})
  <2>1. rest \in [S -> Nat] /\ rest[a] = f[a] /\ f[a] \in Nat
    OBVIOUS
  <2>2. Plus(T) = [rest EXCEPT ![a] = f[a] + 1]
    OBVIOUS
  <2>3. Cardinality(T \ {a}) = Cardinality(T) - 1
    BY <1>1, FS_RemoveElement
  <2>4. SumFunction(f) \in Nat
    BY SumTakesOut DEF SumFunction
  <2>5. SumFunction(rest) = SumFunction(f) + Cardinality(T \ {a})
    BY <1>3
  <2> DEFINE all == Plus(T)
  <2> HIDE DEF Plus, rest, all
  <2>6. SumFunction([rest EXCEPT ![a] = f[a] + 1]) = SumFunction(rest) - rest[a] + (f[a] + 1)
    <3>1. f[a] + 1 \in Nat /\ a \in S
      BY <2>1
    <3> QED
      BY <2>1, <3>1, SumExcept
  <2>7. SumFunction(Plus(T)) = SumFunction(rest) - rest[a] + (f[a] + 1)
    BY <2>2, <2>6
  <2>8. Cardinality(T) \in Nat /\ Cardinality(T \ {a}) \in Nat
    BY <1>1
  <2> QED
    BY <2>1, <2>3, <2>4, <2>5, <2>7, <2>8
<1>4. Bad = {}
  <2> SUFFICES ASSUME Bad # {} PROVE FALSE
    OBVIOUS
  <2>1. Sizes \in SUBSET Nat /\ Sizes # {}
    BY <1>1
  <2>2. PICK c \in Sizes : \A d \in Sizes : c <= d
    <3> HIDE DEF Sizes
    <3> QED
      BY <2>1, LeastNatural
  <2>3. PICK T \in Bad : Cardinality(T) = c
    OBVIOUS
  <2>4. T # {}
    <3> HIDE DEF Good
    <3> QED
      BY <1>2
  <2>5. PICK a \in T : TRUE
    BY <2>4
  <2>6. Cardinality(T \ {a}) = Cardinality(T) - 1 /\ T \ {a} \in SUBSET S
    BY <1>1, FS_RemoveElement
  <2>7. T \ {a} \notin Bad
    <3> SUFFICES ASSUME T \ {a} \in Bad PROVE FALSE
      OBVIOUS
    <3>1. Cardinality(T \ {a}) \in Sizes
      OBVIOUS
    <3>2. c <= c - 1 /\ c \in Nat
      BY <1>1, <2>2, <2>3, <2>6, <3>1
    <3> QED
      BY <3>2
  <2>8. Good(T \ {a})
    BY <2>6, <2>7
  <2> HIDE DEF Good
  <2> QED
    BY <1>3, <2>8
<1> QED
  BY <1>1, <1>4

\* What holds of the empty set and of every set when it holds without one of its
\* members holds of every finite set.
LEMMA SubsetsInduct ==
  ASSUME NEW S, IsFiniteSet(S), NEW P, {} \in P,
         \A T \in SUBSET S : \A a \in T : T \ {a} \in P => T \in P
  PROVE  S \in P
<1> DEFINE Bad == (SUBSET S) \ P
           Sizes == {Cardinality(T) : T \in Bad}
<1>1. \A T \in SUBSET S : IsFiniteSet(T) /\ Cardinality(T) \in Nat
  BY FS_Subset, FS_CardinalityType
<1>2. SUFFICES ASSUME S \notin P PROVE FALSE
  OBVIOUS
<1>3. Sizes \in SUBSET Nat /\ Sizes # {}
  BY <1>1, <1>2
<1>4. PICK c \in Sizes : \A d \in Sizes : c <= d
  <2> HIDE DEF Sizes
  <2> QED
    BY <1>3, LeastNatural
<1>5. PICK T \in Bad : Cardinality(T) = c
  OBVIOUS
<1>6. PICK a \in T : TRUE
  OBVIOUS
<1>7. T \ {a} \in Bad
  OBVIOUS
<1>8. Cardinality(T \ {a}) = Cardinality(T) - 1
  BY <1>1, FS_RemoveElement
<1>9. c <= c - 1 /\ c \in Nat
  BY <1>1, <1>4, <1>5, <1>7, <1>8
<1> QED
  BY <1>9

\* Sets that share nothing have as many members together as the sum of their numbers.
LEMMA SharesAddUp ==
  ASSUME NEW S, IsFiniteSet(S), NEW f \in [S -> Nat], NEW G,
         \A x \in S : IsFiniteSet(G[x]) /\ Cardinality(G[x]) = f[x],
         \A x, y \in S : x # y => G[x] \cap G[y] = {}
  PROVE  /\ IsFiniteSet(UNION {G[x] : x \in S})
         /\ Cardinality(UNION {G[x] : x \in S}) = SumFunction(f)
<1> DEFINE All(T) == UNION {G[x] : x \in T}
           P == {T \in SUBSET S : IsFiniteSet(All(T))
                                  /\ Cardinality(All(T)) = SumFunctionOnSet(f, T)}
<1>1. {} \in P
  <2>1. All({}) = {}
    OBVIOUS
  <2>2. SumFunctionOnSet(f, {}) = 0
    BY SumTakesOut
  <2> HIDE DEF All
  <2> QED
    BY <2>1, <2>2, FS_EmptySet
<1>2. ASSUME NEW T \in SUBSET S, NEW a \in T, T \ {a} \in P
      PROVE  T \in P
  <2> DEFINE rest == All(T \ {a})
  <2>1. All(T) = rest \cup G[a] /\ rest \cap G[a] = {}
    OBVIOUS
  <2>2. IsFiniteSet(rest) /\ Cardinality(rest) = SumFunctionOnSet(f, T \ {a})
    BY <1>2
  <2>3. IsFiniteSet(G[a]) /\ Cardinality(G[a]) = f[a] /\ f[a] \in Nat
    OBVIOUS
  <2> DEFINE all == All(T)
  <2>4. all = rest \cup G[a] /\ rest \cap G[a] = {}
    BY <2>1
  <2> HIDE DEF All, rest, all
  <2>5. IsFiniteSet(rest \cup G[a])
    BY <2>2, <2>3, FS_Union
  <2>6. Cardinality(rest \cup G[a]) = Cardinality(rest) + Cardinality(G[a])
    <3>1. Cardinality(rest \cup G[a])
            = Cardinality(rest) + Cardinality(G[a]) - Cardinality(rest \cap G[a])
      BY <2>2, <2>3, FS_Union
    <3>2. Cardinality(rest \cap G[a]) = 0
      BY <2>4, FS_EmptySet
    <3>3. Cardinality(rest) \in Nat /\ Cardinality(G[a]) \in Nat
      BY <2>2, <2>3, FS_CardinalityType
    <3> QED
      BY <3>1, <3>2, <3>3
  <2>7. IsFiniteSet(T)
    BY FS_Subset
  <2>8. SumFunctionOnSet(f, T) = f[a] + SumFunctionOnSet(f, T \ {a})
    BY <2>7, SumTakesOut
  <2>9. Cardinality(rest) \in Nat
    BY <2>2, FS_CardinalityType
  <2>10. IsFiniteSet(All(T)) /\ Cardinality(All(T)) = SumFunctionOnSet(f, T)
    BY <2>2, <2>3, <2>4, <2>5, <2>6, <2>8, <2>9 DEF all
  <2> QED
    BY <2>10
<1>3. S \in P
  <2> HIDE DEF P
  <2> QED
    BY <1>1, <1>2, SubsetsInduct
<1> QED
  BY <1>3 DEF SumFunction

-----------------------------------------------------------------------------
(* Sequences *)

LEMMA FunctionIsSequence ==
  ASSUME NEW R, NEW n \in Nat, NEW f \in [1 .. n -> R]
  PROVE  f \in Seq(R) /\ Len(f) = n
OBVIOUS

\* The places of two sequences in the one they make together.
LEMMA Joined ==
  ASSUME NEW R, NEW s \in Seq(R), NEW t \in Seq(R)
  PROVE  /\ s \o t \in Seq(R) /\ Len(s \o t) = Len(s) + Len(t)
         /\ DOMAIN (s \o t) = 1 .. Len(s) + Len(t)
         /\ \A a \in 1 .. Len(s) : (s \o t)[a] = s[a]
         /\ \A a \in DOMAIN t : a + Len(s) \in DOMAIN (s \o t) /\ (s \o t)[a + Len(s)] = t[a]
         /\ \A a \in DOMAIN (s \o t) :
              \/ a \in 1 .. Len(s)
              \/ a > Len(s) /\ a - Len(s) \in DOMAIN t /\ (s \o t)[a] = t[a - Len(s)]
<1>1. /\ s \o t \in Seq(R) /\ Len(s \o t) = Len(s) + Len(t)
      /\ \A a \in 1 .. Len(s) + Len(t) :
           (s \o t)[a] = IF a <= Len(s) THEN s[a] ELSE t[a - Len(s)]
  OBVIOUS
<1>2. Len(s) \in Nat /\ Len(t) \in Nat /\ DOMAIN t = 1 .. Len(t)
  OBVIOUS
<1>3. DOMAIN (s \o t) = 1 .. Len(s) + Len(t)
  BY <1>1
<1> DEFINE m == Len(s)
           n == Len(t)
<1>4. \A a \in DOMAIN t : a + m \in 1 .. m + n /\ (a + m) - m = a /\ ~(a + m <= m)
  BY <1>2
<1>5. \A a \in 1 .. m + n : a \in 1 .. m \/ (a > m /\ a - m \in DOMAIN t /\ ~(a <= m))
  BY <1>2
<1>6. \A a \in 1 .. m : a \in 1 .. m + n /\ a <= m
  BY <1>2
<1> QED
  BY <1>1, <1>3, <1>4, <1>5, <1>6

\* The members of a sequence are its head and those of its tail.
LEMMA HeadAndTail ==
  ASSUME NEW R, NEW s \in Seq(R), s # <<>>
  PROVE  /\ Head(s) \in R /\ Tail(s) \in Seq(R)
         /\ Range(s) = Range(Tail(s)) \cup {Head(s)}
<1> DEFINE h == Head(s)
           t == Tail(s)
<1>1. /\ 1 \in DOMAIN s /\ h = s[1] /\ h \in R /\ t \in Seq(R) /\ Len(s) \in Nat
      /\ DOMAIN t = 1 .. Len(s) - 1 /\ DOMAIN s = 1 .. Len(s)
      /\ \A k \in 1 .. Len(s) - 1 : t[k] = s[k + 1]
  OBVIOUS
<1> HIDE DEF h, t
<1>2. \A k \in DOMAIN s : k = 1 \/ (k - 1 \in DOMAIN t /\ t[k - 1] = s[k])
  BY <1>1
<1>3. \A k \in DOMAIN t : k + 1 \in DOMAIN s
  BY <1>1
<1>4. Range(s) \subseteq Range(t) \cup {h}
  BY <1>1, <1>2 DEF Range
<1>5. Range(t) \cup {h} \subseteq Range(s)
  BY <1>1, <1>3 DEF Range
<1> QED
  BY <1>1, <1>4, <1>5 DEF h, t

LEMMA Appended ==
  ASSUME NEW R, NEW s \in Seq(R), NEW x \in R
  PROVE  Append(s, x) \in Seq(R) /\ Range(Append(s, x)) = Range(s) \cup {x}
<1> DEFINE t == Append(s, x)
<1>1. /\ t \in Seq(R) /\ Len(s) \in Nat /\ DOMAIN s = 1 .. Len(s)
      /\ DOMAIN t = 1 .. Len(s) + 1 /\ t[Len(s) + 1] = x
      /\ \A k \in 1 .. Len(s) : t[k] = s[k]
  OBVIOUS
<1> HIDE DEF t
<1>2. \A k \in DOMAIN t : k = Len(s) + 1 \/ k \in DOMAIN s
  BY <1>1
<1>3. Len(s) + 1 \in DOMAIN t /\ \A k \in DOMAIN s : k \in DOMAIN t
  BY <1>1
<1>4. Range(t) \subseteq Range(s) \cup {x}
  BY <1>1, <1>2 DEF Range
<1>5. Range(s) \cup {x} \subseteq Range(t)
  BY <1>1, <1>3 DEF Range
<1> QED
  BY <1>1, <1>4, <1>5 DEF t

\* Removing one place of a sequence may remove its member, and no other one.
LEMMA RemovedAt ==
  ASSUME NEW R, NEW s \in Seq(R), NEW i \in 1 .. Len(s)
  PROVE  /\ RemoveAt(s, i) \in Seq(R)
         /\ Len(RemoveAt(s, i)) = Len(s) - 1
         /\ Range(RemoveAt(s, i)) \subseteq Range(s)
         /\ Range(s) \subseteq Range(RemoveAt(s, i)) \cup {s[i]}
<1> DEFINE t == RemoveAt(s, i)
<1>1. /\ Len(s) \in Nat /\ DOMAIN s = 1 .. Len(s) /\ i \in Int
  OBVIOUS
<1>2. /\ SubSeq(s, 1, i - 1) \in Seq(R) /\ Len(SubSeq(s, 1, i - 1)) = i - 1
      /\ \A k \in 1 .. i - 1 : SubSeq(s, 1, i - 1)[k] = s[k]
  <2>1. \A k \in 1 .. i - 1 : s[k] \in R
    BY <1>1
  <2> QED
    BY <1>1, <2>1, SubSeqProperties
<1>3. /\ SubSeq(s, i + 1, Len(s)) \in Seq(R) /\ Len(SubSeq(s, i + 1, Len(s))) = Len(s) - i
      /\ \A k \in 1 .. Len(s) - i : SubSeq(s, i + 1, Len(s))[k] = s[i + k]
  <2>1. \A k \in i + 1 .. Len(s) : s[k] \in R
    BY <1>1
  <2> DEFINE u == SubSeq(s, i + 1, Len(s))
  <2>2. /\ u \in Seq(R)
        /\ Len(u) = IF i + 1 <= Len(s) THEN Len(s) - (i + 1) + 1 ELSE 0
        /\ \A k \in 1 .. Len(s) - (i + 1) + 1 : u[k] = s[(i + 1) + k - 1]
    <3>1. i + 1 \in Int /\ Len(s) \in Int
      BY <1>1
    <3> QED
      BY <2>1, <3>1, SubSeqProperties
  <2>3. \A k \in 1 .. Len(s) - i : k \in 1 .. Len(s) - (i + 1) + 1 /\ (i + 1) + k - 1 = i + k
    BY <1>1
  <2>4. Len(u) = Len(s) - i
    BY <1>1, <2>2
  <2> HIDE DEF u
  <2>5. \A k \in 1 .. Len(s) - i : u[k] = s[i + k]
    BY <2>2, <2>3
  <2> QED
    BY <2>2, <2>4, <2>5 DEF u
<1>4. t = SubSeq(s, 1, i - 1) \o SubSeq(s, i + 1, Len(s))
  BY DEF RemoveAt
<1> DEFINE a == SubSeq(s, 1, i - 1)
           b == SubSeq(s, i + 1, Len(s))
<1> HIDE DEF t, a, b
<1>5. /\ a \in Seq(R) /\ Len(a) = i - 1 /\ b \in Seq(R) /\ Len(b) = Len(s) - i
      /\ t = a \o b
      /\ \A k \in 1 .. i - 1 : a[k] = s[k]
      /\ \A k \in 1 .. Len(s) - i : b[k] = s[i + k]
  BY <1>2, <1>3, <1>4 DEF a, b
<1>6. /\ t \in Seq(R) /\ DOMAIN t = 1 .. Len(a) + Len(b) /\ Len(t) = Len(a) + Len(b)
      /\ \A k \in 1 .. Len(a) : t[k] = a[k]
      /\ \A k \in DOMAIN b : t[k + Len(a)] = b[k]
  <2>1. a \in Seq(R) /\ b \in Seq(R)
    BY <1>5
  <2>2. /\ a \o b \in Seq(R) /\ DOMAIN (a \o b) = 1 .. Len(a) + Len(b)
        /\ Len(a \o b) = Len(a) + Len(b)
        /\ \A k \in 1 .. Len(a) : (a \o b)[k] = a[k]
        /\ \A k \in DOMAIN b : (a \o b)[k + Len(a)] = b[k]
    BY <2>1, Joined
  <2> QED
    BY <1>5, <2>2
<1>7. /\ DOMAIN t = 1 .. Len(s) - 1 /\ Len(t) = Len(s) - 1
      /\ \A k \in 1 .. Len(s) - 1 : t[k] = IF k <= i - 1 THEN s[k] ELSE s[k + 1]
  <2>1. Len(a) + Len(b) = Len(s) - 1 /\ DOMAIN b = 1 .. Len(s) - i
    BY <1>1, <1>5
  <2>2. DOMAIN t = 1 .. Len(s) - 1 /\ Len(t) = Len(s) - 1
    BY <1>1, <1>6, <2>1
  <2>3. ASSUME NEW k \in 1 .. Len(s) - 1
        PROVE  t[k] = IF k <= i - 1 THEN s[k] ELSE s[k + 1]
    <3>1. CASE k <= i - 1
      <4>1. k \in 1 .. i - 1
        BY <1>1, <3>1
      <4> QED
        BY <1>5, <1>6, <3>1, <4>1
    <3>2. CASE ~(k <= i - 1)
      <4> DEFINE m == k - (i - 1)
      <4>1. m \in 1 .. Len(s) - i /\ i + m = k + 1 /\ m + (i - 1) = k
        BY <1>1, <3>2
      <4> HIDE DEF m
      <4>2. t[k] = b[m] /\ b[m] = s[k + 1]
        BY <1>5, <1>6, <2>1, <4>1
      <4> QED
        BY <3>2, <4>2
    <3> QED
      BY <3>1, <3>2
  <2> QED
    BY <2>2, <2>3
<1>8. Range(t) \subseteq Range(s)
  <2>1. \A k \in DOMAIN t : k \in DOMAIN s /\ k + 1 \in DOMAIN s
    BY <1>1, <1>7
  <2> QED
    BY <1>7, <2>1 DEF Range
<1>9. ASSUME NEW k \in DOMAIN s PROVE s[k] \in Range(t) \cup {s[i]}
  <2>1. CASE k < i
    <3>1. k \in 1 .. Len(s) - 1 /\ k <= i - 1
      BY <1>1, <2>1
    <3> QED
      BY <1>7, <3>1 DEF Range
  <2>2. CASE k > i
    <3>1. k - 1 \in 1 .. Len(s) - 1 /\ ~(k - 1 <= i - 1) /\ (k - 1) + 1 = k
      BY <1>1, <2>2
    <3> QED
      BY <1>7, <3>1 DEF Range
  <2> QED
    BY <1>1, <2>1, <2>2
<1>10. Range(s) \subseteq Range(t) \cup {s[i]}
  BY <1>9 DEF Range
<1> QED
  BY <1>6, <1>7, <1>8, <1>10 DEF t
=============================================================================
