---------------------------- MODULE SearchProofs ----------------------------
(***************************************************************************)
(* Proofs about module Search and the suffix array of module Suffixes, for *)
(* texts of every size over symbols of every range.                        *)
(***************************************************************************)
EXTENDS Search, FunctionTheorems, FiniteSetTheorems, WellFoundedInduction, TLAPS

-----------------------------------------------------------------------------
(***************************************************************************)
(* The order of the suffixes.                                              *)
(***************************************************************************)
\* A set of natural numbers that is not empty has a first element.
LEMMA FirstOf ==
  ASSUME NEW T \in SUBSET Nat, T # {}
  PROVE  \E x \in T : \A y \in T : x <= y
<1>1. PICK x \in T : \A y \in T : ~ (<<y, x>> \in OpToRel(<, Nat))
  BY NatLessThanWellFounded, WFMin
<1>2. OpToRel(<, Nat) = {p \in Nat \X Nat : p[1] < p[2]}
  BY Zenon DEF OpToRel
<1>3. ASSUME NEW y \in T PROVE x <= y
  <2>1. <<y, x>> \notin {p \in Nat \X Nat : p[1] < p[2]}
    BY <1>1, <1>2
  <2>. QED
    BY <2>1
<1>. QED
  BY <1>3

\* No suffix is smaller than itself.
LEMMA SuffixIrreflexive ==
  ASSUME NEW size \in Nat, NEW text \in [0 .. size - 1 -> Int], NEW a \in 0 .. size - 1
  PROVE  ~ SuffixLess(text, size, a, a)
<1>. SUFFICES ASSUME SuffixLess(text, size, a, a) PROVE FALSE
  OBVIOUS
<1>1. PICK len \in 0 .. size - a :
        \/ a + len = size /\ a + len < size
        \/ a + len < size /\ a + len < size /\ text[a + len] < text[a + len]
  BY DEF SuffixLess
<1>2. a + len < size /\ text[a + len] < text[a + len]
  BY <1>1
<1>3. text[a + len] \in Int
  BY <1>2
<1>. QED
  BY <1>2, <1>3

\* Two suffixes first differ where one of them ends or where their symbols do:
\* one of them is the smaller one.
LEMMA SuffixTotal ==
  ASSUME NEW size \in Nat, NEW text \in [0 .. size - 1 -> Int],
         NEW a \in 0 .. size - 1, NEW b \in 0 .. size - 1, a # b
  PROVE  SuffixLess(text, size, a, b) \/ SuffixLess(text, size, b, a)
<1>. DEFINE T == {len \in Nat : a + len >= size \/ b + len >= size
                                \/ text[a + len] # text[b + len]}
<1>1. PICK len \in T : \A y \in T : len <= y
  <2>1. size \in T
    OBVIOUS
  <2>2. T \in SUBSET Nat /\ T # {}
    BY <2>1
  <2>. HIDE DEF T
  <2>. QED
    BY <2>2, FirstOf
<1>2. /\ len \in Nat
      /\ a + len >= size \/ b + len >= size \/ text[a + len] # text[b + len]
  BY <1>1
<1>3. ASSUME NEW j \in 0 .. len - 1
      PROVE  a + j < size /\ b + j < size /\ text[a + j] = text[b + j]
  <2>1. j \in Nat /\ ~ (len <= j)
    BY <1>2
  <2>2. j \notin T
    <3>. HIDE DEF T
    <3>. QED
      BY <1>1, <2>1
  <2>. QED
    BY <2>1, <2>2
<1>4. len <= size - a /\ len <= size - b
  <2>1. CASE len = 0
    BY <2>1
  <2>2. CASE len > 0
    <3>1. len - 1 \in 0 .. len - 1
      BY <1>2, <2>2
    <3>2. a + (len - 1) < size /\ b + (len - 1) < size
      BY <1>3, <3>1
    <3>. QED
      BY <1>2, <3>2
  <2>. QED
    BY <1>2, <2>1, <2>2
<1>5. len \in 0 .. size - a /\ len \in 0 .. size - b
  BY <1>2, <1>4
<1>6. \A j \in 0 .. len - 1 : text[a + j] = text[b + j] /\ text[b + j] = text[a + j]
  BY <1>3
<1>7. CASE a + len = size
  <2>1. b + len < size
    BY <1>2, <1>4, <1>7
  <2>. QED
    BY <1>4, <1>5, <1>6, <1>7, <2>1 DEF SuffixLess
<1>8. CASE b + len = size
  <2>1. a + len < size
    BY <1>2, <1>4, <1>8
  <2>. QED
    BY <1>4, <1>5, <1>6, <1>8, <2>1 DEF SuffixLess
<1>9. CASE a + len < size /\ b + len < size
  <2>1. text[a + len] # text[b + len]
    BY <1>2, <1>9
  <2>2. text[a + len] \in Int /\ text[b + len] \in Int
    BY <1>2, <1>9
  <2>3. CASE text[a + len] < text[b + len]
    BY <1>4, <1>5, <1>6, <1>9, <2>3 DEF SuffixLess
  <2>4. CASE text[b + len] < text[a + len]
    BY <1>4, <1>5, <1>6, <1>9, <2>4 DEF SuffixLess
  <2>. QED
    BY <2>1, <2>2, <2>3, <2>4
<1>. QED
  BY <1>2, <1>4, <1>7, <1>8, <1>9

\* The order of suffixes is transitive.
LEMMA SuffixTransitive ==
  ASSUME NEW size \in Nat, NEW text \in [0 .. size - 1 -> Int],
         NEW a \in 0 .. size - 1, NEW b \in 0 .. size - 1, NEW c \in 0 .. size - 1,
         SuffixLess(text, size, a, b), SuffixLess(text, size, b, c)
  PROVE  SuffixLess(text, size, a, c)
<1>1. PICK k \in 0 .. size - b :
        /\ k <= size - a
        /\ \A j \in 0 .. k - 1 : text[a + j] = text[b + j]
        /\ \/ a + k = size /\ b + k < size
           \/ a + k < size /\ b + k < size /\ text[a + k] < text[b + k]
  BY DEF SuffixLess
<1>2. PICK l \in 0 .. size - c :
        /\ l <= size - b
        /\ \A j \in 0 .. l - 1 : text[b + j] = text[c + j]
        /\ \/ b + l = size /\ c + l < size
           \/ b + l < size /\ c + l < size /\ text[b + l] < text[c + l]
  BY DEF SuffixLess
<1>. DEFINE Differ(m) == /\ m \in 0 .. size - c /\ m <= size - a
                         /\ \A j \in 0 .. m - 1 : text[a + j] = text[c + j]
                         /\ \/ a + m = size /\ c + m < size
                            \/ a + m < size /\ c + m < size /\ text[a + m] < text[c + m]
<1>3. CASE k < l
  <2>1. text[b + k] = text[c + k] /\ c + k < size
    BY <1>1, <1>2, <1>3
  <2>2. \A j \in 0 .. k - 1 : text[a + j] = text[c + j]
    BY <1>1, <1>2, <1>3
  <2>3. Differ(k)
    BY <1>1, <1>2, <1>3, <2>1, <2>2
  <2>. QED
    BY <2>3 DEF SuffixLess
<1>4. CASE l < k
  <2>1. text[a + l] = text[b + l] /\ a + l < size /\ b + l < size
    BY <1>1, <1>2, <1>4
  <2>2. \A j \in 0 .. l - 1 : text[a + j] = text[c + j]
    BY <1>1, <1>2, <1>4
  <2>3. Differ(l)
    BY <1>1, <1>2, <1>4, <2>1, <2>2
  <2>. QED
    BY <2>3 DEF SuffixLess
<1>5. CASE k = l
  <2>1. b + k < size /\ c + k < size /\ text[b + k] < text[c + k]
    BY <1>1, <1>2, <1>5
  <2>2. \A j \in 0 .. k - 1 : text[a + j] = text[c + j]
    BY <1>1, <1>2, <1>5
  <2>3. text[b + k] \in Int /\ text[c + k] \in Int /\ (a + k < size => text[a + k] \in Int)
    BY <1>1, <1>2, <2>1
  <2>4. Differ(k)
    BY <1>1, <1>2, <1>5, <2>1, <2>2, <2>3
  <2>. QED
    BY <2>4 DEF SuffixLess
<1>. QED
  BY <1>1, <1>2, <1>3, <1>4, <1>5

-----------------------------------------------------------------------------
(***************************************************************************)
(* The suffix array.                                                       *)
(***************************************************************************)
\* The suffixes that are smaller than the one at a, and how many there are.
Below(text, size, a) == {b \in 0 .. size - 1 : SuffixLess(text, size, b, a)}
Rank(text, size, a)  == Cardinality(Below(text, size, a))

\* A suffix has more smaller ones than each suffix that is smaller than it.
LEMMA RankGrows ==
  ASSUME NEW size \in Nat, NEW text \in [0 .. size - 1 -> Int],
         NEW a \in 0 .. size - 1, NEW b \in 0 .. size - 1, SuffixLess(text, size, a, b)
  PROVE  Rank(text, size, a) < Rank(text, size, b)
<1>1. Below(text, size, a) \subseteq Below(text, size, b)
  BY SuffixTransitive DEF Below
<1>2. a \in Below(text, size, b) /\ a \notin Below(text, size, a)
  BY SuffixIrreflexive DEF Below
<1>3. IsFiniteSet(0 .. size - 1)
  BY FS_Interval
<1>4. IsFiniteSet(Below(text, size, b)) /\ IsFiniteSet(Below(text, size, a))
  BY <1>3, FS_Subset DEF Below
<1>5. Cardinality(Below(text, size, a)) <= Cardinality(Below(text, size, b))
      /\ Cardinality(Below(text, size, a)) # Cardinality(Below(text, size, b))
  BY <1>1, <1>2, <1>4, FS_Subset
<1>6. Cardinality(Below(text, size, a)) \in Nat /\ Cardinality(Below(text, size, b)) \in Nat
  BY <1>4, FS_CardinalityType
<1>. QED
  BY <1>5, <1>6 DEF Rank

\* A rank is an index of the suffix array.
LEMMA RankType ==
  ASSUME NEW size \in Nat, NEW text \in [0 .. size - 1 -> Int], NEW a \in 0 .. size - 1
  PROVE  Rank(text, size, a) \in 0 .. size - 1
<1>1. IsFiniteSet(0 .. size - 1) /\ Cardinality(0 .. size - 1) = size
  BY FS_Interval
<1>2. Below(text, size, a) \in SUBSET (0 .. size - 1) /\ a \notin Below(text, size, a)
  BY SuffixIrreflexive DEF Below
<1>3. IsFiniteSet(Below(text, size, a))
      /\ Cardinality(Below(text, size, a)) <= size
      /\ Cardinality(Below(text, size, a)) # size
  BY <1>1, <1>2, FS_Subset
<1>4. Cardinality(Below(text, size, a)) \in Nat
  BY <1>3, FS_CardinalityType
<1>. QED
  BY <1>3, <1>4 DEF Rank

\* Every number below size is the rank of one suffix, and of no other.
LEMMA RankBijective ==
  ASSUME NEW size \in Nat, NEW text \in [0 .. size - 1 -> Int]
  PROVE  /\ \A k \in 0 .. size - 1 : \E a \in 0 .. size - 1 : Rank(text, size, a) = k
         /\ \A a, b \in 0 .. size - 1 : Rank(text, size, a) = Rank(text, size, b) => a = b
<1>. DEFINE D == 0 .. size - 1
            f == [a \in D |-> Rank(text, size, a)]
<1>1. \A a, b \in D : Rank(text, size, a) = Rank(text, size, b) => a = b
  <2>1. ASSUME NEW a \in D, NEW b \in D, a # b
        PROVE  Rank(text, size, a) # Rank(text, size, b)
    <3>1. Rank(text, size, a) \in Int /\ Rank(text, size, b) \in Int
      BY RankType
    <3>2. Rank(text, size, a) < Rank(text, size, b) \/ Rank(text, size, b) < Rank(text, size, a)
      BY <2>1, SuffixTotal, RankGrows
    <3>. QED
      BY <3>1, <3>2
  <2>. QED
    BY <2>1
<1>2. f \in [D -> D]
  BY RankType
<1>3. f \in Injection(D, D)
  BY <1>1, <1>2 DEF Injection, IsInjective
<1>4. IsFiniteSet(D)
  BY FS_Interval
<1>5. f \in Surjection(D, D)
  BY <1>3, <1>4, FS_Injection
<1>6. \A k \in D : \E a \in D : f[a] = k
  BY <1>5 DEF Surjection
<1>. QED
  BY <1>1, <1>6

\* The suffix array holds the offset of every suffix, and in ascending order.
THEOREM SuffixArraySorted ==
  ASSUME NEW size \in Nat, NEW text \in [0 .. size - 1 -> Int]
  PROVE  LET SA == SuffixArray(text, size)
         IN  /\ SA \in [0 .. size - 1 -> 0 .. size - 1]
             /\ \A o \in 0 .. size - 1 : \E k \in 0 .. size - 1 : SA[k] = o
             /\ \A j, k \in 0 .. size - 1 : j < k => SuffixLess(text, size, SA[j], SA[k])
<1>. DEFINE D == 0 .. size - 1
            SA == SuffixArray(text, size)
<1>1. ASSUME NEW k \in D
      PROVE  SA[k] \in D /\ Rank(text, size, SA[k]) = k
  <2>1. \E a \in D : Rank(text, size, a) = k
    BY RankBijective
  <2>2. SA[k] = CHOOSE a \in D : Rank(text, size, a) = k
    BY DEF SuffixArray, Rank, Below
  <2>. QED
    BY <2>1, <2>2
<1>2. SA \in [D -> D]
  <2>. DEFINE Entry(k) == CHOOSE a \in 0 .. size - 1 :
         Cardinality({b \in 0 .. size - 1 : SuffixLess(text, size, b, a)}) = k
  <2>1. SA = [k \in D |-> Entry(k)]
    BY DEF SuffixArray
  <2>. HIDE DEF SA, Entry
  <2>2. SA = [k \in D |-> SA[k]]
    BY <2>1
  <2>. QED
    BY <1>1, <2>2
<1>3. ASSUME NEW o \in D PROVE \E k \in D : SA[k] = o
  <2>1. Rank(text, size, o) \in D
    BY RankType
  <2>2. Rank(text, size, SA[Rank(text, size, o)]) = Rank(text, size, o)
        /\ SA[Rank(text, size, o)] \in D
    BY <1>1, <2>1
  <2>3. SA[Rank(text, size, o)] = o
    <3>. HIDE DEF SA
    <3>. QED
      BY <2>2, RankBijective
  <2>. QED
    BY <2>1, <2>3
<1>4. ASSUME NEW j \in D, NEW k \in D, j < k
      PROVE  SuffixLess(text, size, SA[j], SA[k])
  <2>1. /\ SA[j] \in D /\ SA[k] \in D
        /\ Rank(text, size, SA[j]) = j /\ Rank(text, size, SA[k]) = k
    BY <1>1
  <2>. HIDE DEF SA
  <2>2. SA[j] # SA[k]
    BY <1>4, <2>1
  <2>3. CASE SuffixLess(text, size, SA[k], SA[j])
    <3>1. Rank(text, size, SA[k]) < Rank(text, size, SA[j])
      BY <2>1, <2>3, RankGrows
    <3>. QED
      BY <1>4, <2>1, <3>1
  <2>. QED
    BY <2>1, <2>2, <2>3, SuffixTotal
<1>. QED
  BY <1>2, <1>3, <1>4

-----------------------------------------------------------------------------
(***************************************************************************)
(* The common prefix of a suffix and new.                                  *)
(***************************************************************************)
\* The two files of a search, and the array it is given.
InputsOK ==
  /\ old_size \in Nat \ {0} /\ new_size \in Nat \ {0}
  /\ old \in [0 .. old_size - 1 -> Int]
  /\ new \in [0 .. new_size - 1 -> Int]
  /\ \E tail \in TailValues :
       I = WithTail(SuffixArray(old, old_size), old_size, tail)

\* MatchLen(o) is the length of the longest common prefix: that many bytes agree
\* and the byte behind them differs, unless one of the two is at its end.
LEMMA MatchLenSpec ==
  ASSUME NEW o \in Nat, old_size \in Nat, new_size \in Nat
  PROVE  LET limit == Shorter(old_size - o, new_size)
         IN  /\ MatchLen(o) \in Nat
             /\ MatchLen(o) <= Longer(0, limit)
             /\ \A j \in 0 .. MatchLen(o) - 1 : old[o + j] = new[j]
             /\ MatchLen(o) < limit => old[o + MatchLen(o)] # new[MatchLen(o)]
<1>. DEFINE limit == Shorter(old_size - o, new_size)
            M == {i \in 1 .. limit : \A j \in 0 .. i - 1 : old[o + j] = new[j]}
            T == {j \in Nat : j >= limit \/ old[o + j] # new[j]}
<1>1. limit \in Int
  BY DEF Shorter
<1>. HIDE DEF limit
<1>2. PICK m \in T : \A y \in T : m <= y
  <2>1. Longer(0, limit) \in T
    BY <1>1 DEF Longer
  <2>2. T \in SUBSET Nat /\ T # {}
    BY <2>1
  <2>. HIDE DEF T
  <2>. QED
    BY <2>2, FirstOf
<1>3. m \in Nat /\ (m >= limit \/ old[o + m] # new[m])
  BY <1>2
<1>4. ASSUME NEW j \in 0 .. m - 1 PROVE j < limit /\ old[o + j] = new[j]
  <2>1. j \in Nat /\ ~ (m <= j)
    BY <1>3
  <2>2. j \notin T
    <3>. HIDE DEF T
    <3>. QED
      BY <1>2, <2>1
  <2>. QED
    BY <1>1, <2>1, <2>2
<1>5. m <= Longer(0, limit)
  <2>1. CASE m = 0
    BY <1>1, <2>1 DEF Longer
  <2>2. CASE m > 0
    <3>1. m - 1 \in 0 .. m - 1
      BY <1>3, <2>2
    <3>2. m - 1 < limit
      BY <1>4, <3>1
    <3>. QED
      BY <1>1, <1>3, <3>2 DEF Longer
  <2>. QED
    BY <1>3, <2>1, <2>2
<1>6. M = 1 .. m
  <2>1. ASSUME NEW i \in 1 .. m PROVE i \in M
    <3>1. i - 1 \in 0 .. m - 1
      BY <1>3
    <3>2. i - 1 < limit
      BY <1>4, <3>1
    <3>3. i \in 1 .. limit
      BY <1>1, <1>3, <3>2
    <3>4. \A j \in 0 .. i - 1 : old[o + j] = new[j]
      BY <1>3, <1>4
    <3>. QED
      BY <3>3, <3>4
  <2>2. ASSUME NEW i \in M PROVE i \in 1 .. m
    <3>1. i \in 1 .. limit /\ \A j \in 0 .. i - 1 : old[o + j] = new[j]
      OBVIOUS
    <3>2. CASE m < i
      <4>1. m \in 0 .. i - 1 /\ m < limit
        BY <1>1, <1>3, <3>1, <3>2
      <4>. QED
        BY <1>1, <1>3, <3>1, <4>1
    <3>. QED
      BY <1>1, <1>3, <3>1, <3>2
  <2>. QED
    BY <2>1, <2>2
<1>7. Cardinality(1 .. m) = m
  BY <1>3, FS_Interval
<1>8. MatchLen(o) = m
  BY <1>6, <1>7 DEF MatchLen, limit
<1>. QED
  BY <1>1, <1>3, <1>4, <1>5, <1>8 DEF limit

\* What the proofs use of MatchLen, for an offset in old.
LEMMA MatchLenInside ==
  ASSUME InputsOK, NEW o \in 0 .. old_size - 1
  PROVE  /\ MatchLen(o) \in Nat
         /\ MatchLen(o) <= old_size - o /\ MatchLen(o) <= new_size
         /\ \A j \in 0 .. MatchLen(o) - 1 : old[o + j] = new[j]
         /\ MatchLen(o) < old_size - o /\ MatchLen(o) < new_size
              => old[o + MatchLen(o)] # new[MatchLen(o)]
<1>1. o \in Nat /\ old_size \in Nat /\ new_size \in Nat /\ old_size - o > 0
  BY DEF InputsOK
<1>2. /\ MatchLen(o) \in Nat
      /\ MatchLen(o) <= Longer(0, Shorter(old_size - o, new_size))
      /\ \A j \in 0 .. MatchLen(o) - 1 : old[o + j] = new[j]
      /\ MatchLen(o) < Shorter(old_size - o, new_size) => old[o + MatchLen(o)] # new[MatchLen(o)]
  BY <1>1, MatchLenSpec
<1>. QED
  BY <1>1, <1>2 DEF Longer, Shorter

\* Among the suffixes smaller than new, a smaller suffix does not match new
\* longer than a greater one.
LEMMA MatchGrowsBelow ==
  ASSUME InputsOK, NEW a \in 0 .. old_size - 1, NEW b \in 0 .. old_size - 1,
         SuffixLess(old, old_size, a, b), SuffixBelow(b)
  PROVE  MatchLen(a) <= MatchLen(b)
<1>. SUFFICES ASSUME MatchLen(b) < MatchLen(a) PROVE FALSE
  BY MatchLenInside
<1>1. PICK p \in Nat, m \in Nat : p = MatchLen(b) /\ m = MatchLen(a)
  BY MatchLenInside
<1>2. /\ old_size \in Nat /\ old \in [0 .. old_size - 1 -> Int]
      /\ new_size \in Nat /\ new \in [0 .. new_size - 1 -> Int]
  BY DEF InputsOK
<1>3. /\ m <= old_size - a /\ m <= new_size
      /\ \A j \in 0 .. m - 1 : old[a + j] = new[j]
  BY <1>1, MatchLenInside
<1>4. \A j \in 0 .. p - 1 : old[b + j] = new[j]
  BY <1>1, MatchLenInside
<1>5. p < old_size - b /\ p < new_size /\ old[b + p] < new[p]
  BY <1>1, <1>2 DEF SuffixBelow, Shorter
<1>6. p < m /\ old[a + p] = new[p]
  BY <1>1, <1>3
<1>7. SuffixLess(old, old_size, b, a)
  <2>1. p \in 0 .. old_size - a /\ p <= old_size - b /\ a + p < old_size /\ b + p < old_size
    BY <1>2, <1>3, <1>5, <1>6
  <2>2. \A j \in 0 .. p - 1 : old[b + j] = old[a + j]
    BY <1>3, <1>4, <1>6
  <2>. QED
    BY <1>5, <1>6, <2>1, <2>2 DEF SuffixLess
<1>8. SuffixLess(old, old_size, a, a)
  BY <1>2, <1>7, SuffixTransitive
<1>. QED
  BY <1>2, <1>8, SuffixIrreflexive

\* No suffix ends inside its match with new: memcmp then orders each of them
\* and new as the suffixes are ordered.
NoneCut ==
  \A o \in 0 .. old_size - 1 : MatchLen(o) = old_size - o => MatchLen(o) = new_size

\* Among the suffixes that are not smaller than new, a greater suffix does not
\* match new longer than a smaller one.
LEMMA MatchShrinksAbove ==
  ASSUME InputsOK, NoneCut, NEW a \in 0 .. old_size - 1, NEW b \in 0 .. old_size - 1,
         SuffixLess(old, old_size, a, b), ~ SuffixBelow(a)
  PROVE  MatchLen(b) <= MatchLen(a)
<1>. SUFFICES ASSUME MatchLen(a) < MatchLen(b) PROVE FALSE
  BY MatchLenInside
<1>1. PICK p \in Nat, m \in Nat : p = MatchLen(a) /\ m = MatchLen(b)
  BY MatchLenInside
<1>2. /\ old_size \in Nat /\ old \in [0 .. old_size - 1 -> Int]
      /\ new_size \in Nat /\ new \in [0 .. new_size - 1 -> Int]
  BY DEF InputsOK
<1>3. /\ m <= old_size - b /\ m <= new_size
      /\ \A j \in 0 .. m - 1 : old[b + j] = new[j]
  BY <1>1, MatchLenInside
<1>4. /\ p <= old_size - a
      /\ \A j \in 0 .. p - 1 : old[a + j] = new[j]
      /\ p < old_size - a /\ p < new_size => old[a + p] # new[p]
  BY <1>1, MatchLenInside
<1>5. p < m /\ p < new_size /\ old[b + p] = new[p] /\ b + p < old_size
  <2>1. p < m
    BY <1>1
  <2>2. p \in 0 .. m - 1 /\ p < new_size /\ b + p < old_size
    BY <1>2, <1>3, <2>1
  <2>. QED
    BY <1>3, <2>1, <2>2
<1>6. p < old_size - a
  <2>1. p # old_size - a
    BY <1>1, <1>5 DEF NoneCut
  <2>. QED
    BY <1>2, <1>4, <2>1
<1>7. new[p] < old[a + p]
  <2>1. ~ (old[a + p] < new[p])
    BY <1>1, <1>2, <1>5, <1>6 DEF SuffixBelow, Shorter
  <2>2. old[a + p] \in Int /\ new[p] \in Int
    BY <1>2, <1>5, <1>6
  <2>. QED
    BY <1>4, <1>5, <1>6, <2>1, <2>2
<1>8. SuffixLess(old, old_size, b, a)
  <2>1. p \in 0 .. old_size - a /\ p <= old_size - b /\ a + p < old_size /\ b + p < old_size
    BY <1>2, <1>5, <1>6
  <2>2. \A j \in 0 .. p - 1 : old[b + j] = old[a + j]
    BY <1>3, <1>4, <1>5
  <2>. QED
    BY <1>5, <1>7, <2>1, <2>2 DEF SuffixLess
<1>9. SuffixLess(old, old_size, a, a)
  BY <1>2, <1>8, SuffixTransitive
<1>. QED
  BY <1>2, <1>9, SuffixIrreflexive

-----------------------------------------------------------------------------
(***************************************************************************)
(* The inductive invariant.                                                *)
(***************************************************************************)
\* The interval under search is not empty, and its lower end is a suffix.
IntervalOK == spc = "probe" => st \in 0 .. old_size - 1 /\ en \in 1 .. old_size /\ st < en

\* Each end of the interval has been compared unless it is that of the array,
\* and the match there is not longer than the best one.
EndsCompared ==
  spc = "probe" =>
    /\ st > 0 => SuffixBelow(I[st])
    /\ en < old_size => ~ SuffixBelow(I[en])

\* The best length is at least that of the match at the start of old.
BestOK == spc # "call" => max_len \in Nat /\ max_len >= MatchLen(0)

\* The inductive invariant.
SearchInv ==
  /\ InputsOK
  /\ spc \in {"call", "probe", "returned"}
  /\ IntervalOK
  /\ EndsCompared
  /\ BestOK
  /\ LongestUnlessCut

\* The entries of the array but the last are those of the suffix array.
LEMMA EntriesSorted ==
  ASSUME InputsOK
  PROVE  /\ \A k \in 0 .. old_size - 1 : I[k] \in 0 .. old_size - 1
         /\ \A o \in 0 .. old_size - 1 : \E k \in 0 .. old_size - 1 : I[k] = o
         /\ \A j, k \in 0 .. old_size - 1 : j < k => SuffixLess(old, old_size, I[j], I[k])
         /\ I[old_size] \in TailValues
<1>. DEFINE SA == SuffixArray(old, old_size)
<1>1. old_size \in Nat /\ old \in [0 .. old_size - 1 -> Int]
  BY DEF InputsOK
<1>2. /\ SA \in [0 .. old_size - 1 -> 0 .. old_size - 1]
      /\ \A o \in 0 .. old_size - 1 : \E k \in 0 .. old_size - 1 : SA[k] = o
      /\ \A j, k \in 0 .. old_size - 1 : j < k => SuffixLess(old, old_size, SA[j], SA[k])
  BY <1>1, SuffixArraySorted
<1>. HIDE DEF SA
<1>3. PICK tail \in TailValues : I = [k \in 0 .. old_size |-> IF k < old_size THEN SA[k] ELSE tail]
  BY DEF InputsOK, WithTail, SA
<1>4. \A k \in 0 .. old_size - 1 : I[k] = SA[k]
  BY <1>1, <1>3
<1>5. I[old_size] = tail
  BY <1>1, <1>3
<1>. QED
  BY <1>2, <1>4, <1>5

\* The middle of an interval of two entries or more is inside.
LEMMA MiddleInside ==
  ASSUME old_size \in Nat, st \in 0 .. old_size - 1, en \in 1 .. old_size, en - st >= 2
  PROVE  Middle \in st + 1 .. en - 1 /\ Middle \in 1 .. old_size - 1
BY DEF Middle

\* The first call searches the whole array.
LEMMA BeginPreserves == SearchInv /\ Begin => SearchInv'
<1>. SUFFICES ASSUME SearchInv, Begin PROVE SearchInv'
  OBVIOUS
<1>1. InputsOK' /\ (MatchLen(0))' = MatchLen(0) /\ old_size \in Nat \ {0} /\ old_size' = old_size
  BY DEF SearchInv, InputsOK, Begin, inputs, MatchLen, Shorter
<1>2. spc' = "probe" /\ st' = 0 /\ en' = old_size /\ max_len' = MatchLen(0)
  BY DEF Begin, StartLen
<1>3. MatchLen(0) \in Nat
  BY <1>1, MatchLenInside DEF SearchInv
<1>4. IntervalOK' /\ EndsCompared'
  BY <1>1, <1>2 DEF IntervalOK, EndsCompared
<1>5. BestOK' /\ LongestUnlessCut'
  BY <1>1, <1>2, <1>3 DEF BestOK, LongestUnlessCut
<1>. QED
  BY <1>1, <1>2, <1>4, <1>5 DEF SearchInv

\* Nothing but the inputs is compared.
LEMMA InputsFixed ==
  ASSUME UNCHANGED inputs
  PROVE  /\ InputsOK' <=> InputsOK
         /\ \A o : MatchLen(o)' = MatchLen(o) /\ (SuffixBelow(o)' <=> SuffixBelow(o))
BY DEF inputs, InputsOK, MatchLen, SuffixBelow, Shorter

\* A call for either half keeps the place where the new bytes belong between the
\* ends, and the best match so far.
LEMMA HalvingPreserves == SearchInv /\ (GoUp \/ GoDown) => SearchInv'
<1>. SUFFICES ASSUME SearchInv, GoUp \/ GoDown PROVE SearchInv'
  OBVIOUS
<1>1. UNCHANGED inputs /\ spc = "probe" /\ spc' = "probe" /\ en - st >= 2 /\ RecordMiddle
  BY DEF GoUp, GoDown
<1>2. /\ InputsOK /\ InputsOK'
      /\ \A o : MatchLen(o)' = MatchLen(o) /\ (SuffixBelow(o)' <=> SuffixBelow(o))
  BY <1>1, InputsFixed DEF SearchInv
<1>3. old_size \in Nat \ {0} /\ old_size' = old_size /\ I' = I
  BY <1>1, <1>2 DEF InputsOK, inputs
<1>4. st \in 0 .. old_size - 1 /\ en \in 1 .. old_size
  BY <1>1 DEF SearchInv, IntervalOK
<1>5. PICK m \in 1 .. old_size - 1 : m = Middle /\ m \in st + 1 .. en - 1
  BY <1>1, <1>3, <1>4, MiddleInside
<1>6. PICK e \in 0 .. old_size - 1 : e = I[m]
  BY <1>2, <1>3, EntriesSorted
<1>7. MatchLen(e) \in Nat /\ MatchLen(0) \in Nat
  BY <1>2, <1>3, MatchLenInside
<1>8. BestOK'
  <2>1. max_len' = Longer(max_len, MatchLen(e))
    BY <1>1, <1>5, <1>6 DEF RecordMiddle
  <2>2. max_len \in Nat /\ max_len >= MatchLen(0)
    BY <1>1 DEF SearchInv, BestOK
  <2>3. max_len' \in Nat /\ max_len' >= MatchLen(0)
    BY <1>7, <2>1, <2>2 DEF Longer
  <2>. QED
    BY <1>2, <2>3 DEF BestOK
<1>9. IntervalOK'
  BY <1>1, <1>3, <1>4, <1>5 DEF GoUp, GoDown, IntervalOK
<1>10. EndsCompared'
  <2>1. CASE GoUp
    <3>1. st' = m /\ en' = en /\ SuffixBelow(e)
      BY <1>5, <1>6, <2>1 DEF GoUp
    <3>2. SuffixBelow(I[st])'
      BY <1>3, <1>6, <3>1, <1>1 DEF inputs, MatchLen, SuffixBelow, Shorter
    <3>3. (en < old_size => ~ SuffixBelow(I[en]))'
      BY <1>1, <3>1 DEF SearchInv, EndsCompared, inputs, MatchLen, SuffixBelow, Shorter
    <3>. QED
      BY <3>2, <3>3 DEF EndsCompared
  <2>2. CASE GoDown
    <3>1. st' = st /\ en' = m /\ ~ SuffixBelow(e)
      BY <1>5, <1>6, <2>2 DEF GoDown
    <3>2. ~ SuffixBelow(I[en])'
      BY <1>3, <1>6, <3>1, <1>1 DEF inputs, MatchLen, SuffixBelow, Shorter
    <3>3. (st > 0 => SuffixBelow(I[st]))'
      BY <1>1, <3>1 DEF SearchInv, EndsCompared, inputs, MatchLen, SuffixBelow, Shorter
    <3>. QED
      BY <3>2, <3>3 DEF EndsCompared
  <2>. QED
    BY <2>1, <2>2
<1>11. LongestUnlessCut'
  BY <1>1 DEF LongestUnlessCut
<1>. QED
  BY <1>1, <1>2, <1>8, <1>9, <1>10, <1>11 DEF SearchInv

\* The leaf compares both ends, between which the new bytes belong.
LEMMA LeafPreserves == SearchInv /\ Leaf => SearchInv'
<1>. SUFFICES ASSUME SearchInv, Leaf PROVE SearchInv'
  OBVIOUS
<1>1. UNCHANGED inputs /\ spc = "probe" /\ spc' = "returned" /\ en - st < 2
  BY DEF Leaf
<1>2. /\ InputsOK /\ InputsOK'
      /\ \A o : MatchLen(o)' = MatchLen(o) /\ (SuffixBelow(o)' <=> SuffixBelow(o))
  BY <1>1, InputsFixed DEF SearchInv
<1>3. old_size \in Nat \ {0} /\ old_size' = old_size /\ new_size \in Nat /\ new_size' = new_size
  BY <1>1, <1>2 DEF InputsOK, inputs
<1>4. st \in 0 .. old_size - 1 /\ en \in 1 .. old_size /\ en = st + 1
  BY <1>1, <1>3 DEF SearchInv, IntervalOK
<1>5. PICK x \in LeafLens(I[st]), y \in LeafLens(I[en]) : max_len' = Longer(max_len, Longer(x, y))
  BY DEF Leaf
<1>6. I[st] \in 0 .. old_size - 1 /\ x = MatchLen(I[st])
  BY <1>2, <1>4, <1>5, EntriesSorted DEF LeafLens
<1>7. x \in Nat /\ MatchLen(0) \in Nat
  BY <1>2, <1>3, <1>6, MatchLenInside
<1>8. ASSUME en < old_size PROVE I[en] \in 0 .. old_size - 1 /\ y = MatchLen(I[en])
  <2>1. en \in 0 .. old_size - 1
    BY <1>3, <1>4, <1>8
  <2>2. I[en] \in 0 .. old_size - 1
    BY <1>2, <2>1, EntriesSorted
  <2>. QED
    BY <1>5, <2>2 DEF LeafLens
<1>9. y \in Nat
  <2>1. CASE I[en] \in Nat
    <3>1. y = MatchLen(I[en])
      BY <1>5, <2>1 DEF LeafLens
    <3>. QED
      BY <1>3, <2>1, <3>1, MatchLenSpec
  <2>2. CASE I[en] \notin Nat
    <3>1. I[en] \in Int
      <4>1. CASE en < old_size
        BY <1>8, <4>1
      <4>2. CASE en = old_size
        BY <1>2, <4>2, EntriesSorted, SearchAssumption
      <4>. QED
        BY <1>3, <1>4, <4>1, <4>2
    <3>. QED
      BY <1>3, <1>5, <2>2, <3>1 DEF LeafLens, Shorter
  <2>. QED
    BY <2>1, <2>2
<1>10. max_len \in Nat /\ max_len >= MatchLen(0)
  BY <1>1 DEF SearchInv, BestOK
<1>11. max_len' \in Nat /\ max_len' >= MatchLen(0) /\ max_len' >= x /\ max_len' >= y
  BY <1>5, <1>7, <1>9, <1>10 DEF Longer
<1>12. BestOK'
  BY <1>2, <1>11 DEF BestOK
<1>13. ASSUME NoneCut, NEW o \in 0 .. old_size - 1
       PROVE  MatchLen(o) <= max_len'
  <2>1. PICK k \in 0 .. old_size - 1 : I[k] = o
    BY <1>2, EntriesSorted
  <2>2. CASE k = st
    BY <1>6, <1>11, <2>1, <2>2
  <2>3. CASE k = en
    <3>1. en < old_size
      BY <1>3, <2>3
    <3>. QED
      BY <1>8, <1>11, <2>1, <2>3, <3>1
  <2>4. CASE k < st
    <3>1. SuffixBelow(I[st])
      <4>1. st > 0
        BY <1>3, <1>4, <2>4
      <4>. QED
        BY <1>1, <4>1 DEF SearchInv, EndsCompared
    <3>2. SuffixLess(old, old_size, o, I[st])
      BY <1>2, <1>4, <2>1, <2>4, EntriesSorted
    <3>3. MatchLen(o) <= x
      BY <1>2, <1>6, <3>1, <3>2, MatchGrowsBelow
    <3>4. MatchLen(o) \in Nat
      BY <1>2, MatchLenInside
    <3>. QED
      BY <1>7, <1>11, <3>3, <3>4
  <2>5. CASE k > en
    <3>1. en < old_size /\ en \in 0 .. old_size - 1
      BY <1>3, <1>4, <2>5
    <3>2. ~ SuffixBelow(I[en])
      BY <1>1, <3>1 DEF SearchInv, EndsCompared
    <3>3. SuffixLess(old, old_size, I[en], o)
      BY <1>2, <2>1, <2>5, <3>1, EntriesSorted
    <3>4. MatchLen(o) <= y
      BY <1>2, <1>8, <1>13, <3>1, <3>2, <3>3, MatchShrinksAbove
    <3>5. MatchLen(o) \in Nat
      BY <1>2, MatchLenInside
    <3>. QED
      BY <1>9, <1>11, <3>4, <3>5
  <2>. QED
    BY <1>3, <1>4, <2>2, <2>3, <2>4, <2>5
<1>14. LongestUnlessCut'
  <2>1. NoneCut' <=> NoneCut
    BY <1>2, <1>3 DEF NoneCut
  <2>2. NoneCut' => (\A o \in 0 .. old_size - 1 : MatchLen(o) <= max_len)'
    BY <1>2, <1>3, <1>13, <2>1
  <2>. QED
    BY <2>2 DEF LongestUnlessCut, NoneCut
<1>. QED
  BY <1>1, <1>2, <1>12, <1>14 DEF SearchInv, IntervalOK, EndsCompared

\* A call of the search starts from the inductive invariant.
LEMMA SearchStarts ==
  ASSUME InputsOK, spc = "call"
  PROVE  SearchInv
BY DEF SearchInv, IntervalOK, EndsCompared, BestOK, LongestUnlessCut

\* No step of the search ends its inductive invariant.
LEMMA SearchStepPreserves == SearchInv /\ SearchStep => SearchInv'
BY BeginPreserves, HalvingPreserves, LeafPreserves DEF SearchStep

\* Nor does a step that changes nothing end it.
LEMMA SearchStutters ==
  ASSUME SearchInv, UNCHANGED svars
  PROVE  SearchInv'
<1>1. UNCHANGED <<inputs, spc, st, en, old_pos, max_len>> /\ UNCHANGED inputs
  BY DEF svars
<1>2. InputsOK' /\ IntervalOK'
  BY <1>1, InputsFixed DEF SearchInv, IntervalOK, inputs
<1>3. EndsCompared'
  BY <1>1 DEF SearchInv, EndsCompared, MatchLen, SuffixBelow, Shorter, inputs
<1>4. BestOK'
  BY <1>1, InputsFixed DEF SearchInv, BestOK
<1>5. LongestUnlessCut'
  <2>1. /\ \A o : MatchLen(o)' = MatchLen(o)
        /\ old_size' = old_size /\ new_size' = new_size /\ spc' = spc /\ max_len' = max_len
    BY <1>1, InputsFixed DEF inputs
  <2>. QED
    BY <2>1 DEF SearchInv, LongestUnlessCut
<1>. QED
  BY <1>1, <1>2, <1>3, <1>4, <1>5 DEF SearchInv

-----------------------------------------------------------------------------
(***************************************************************************)
(* The match found.  What matchlen returns for a negative entry behind the *)
(* suffix array is arbitrary, so such an entry may be taken for the best.  *)
(***************************************************************************)
\* The position is inside old, and the match there has the length found if that
\* is more than the length of the match at the start of old.
BestInside ==
  /\ old_pos \in 0 .. old_size - 1
  /\ max_len > MatchLen(0) => MatchLen(old_pos) = max_len
  /\ max_len <= old_size /\ max_len <= new_size

\* Or the search has returned the entry behind the suffix array.
BestBefore ==
  /\ spc = "returned"
  /\ FoundBefore
  /\ max_len > MatchLen(0) /\ max_len <= new_size

BestIsMatch == spc # "call" => BestInside \/ BestBefore

\* Comparing one more suffix keeps it so.
LEMMA LongerIsMatch ==
  ASSUME InputsOK, NEW e \in 0 .. old_size - 1, NEW p \in 0 .. old_size - 1,
         NEW len \in Nat, len >= MatchLen(0), len > MatchLen(0) => MatchLen(p) = len,
         len <= old_size, len <= new_size
  PROVE  LET q == IF MatchLen(e) > len THEN e ELSE p
             l == Longer(len, MatchLen(e))
         IN  /\ q \in 0 .. old_size - 1
             /\ l \in Nat /\ l >= MatchLen(0) /\ (l > MatchLen(0) => MatchLen(q) = l)
             /\ l <= old_size /\ l <= new_size
<1>1. old_size \in Nat /\ new_size \in Nat /\ 0 \in 0 .. old_size - 1
  BY DEF InputsOK
<1>2. MatchLen(e) \in Nat /\ MatchLen(e) <= old_size - e /\ MatchLen(e) <= new_size
  BY MatchLenInside
<1>3. MatchLen(0) \in Nat
  BY <1>1, MatchLenInside
<1>4. CASE MatchLen(e) > len
  BY <1>1, <1>2, <1>3, <1>4 DEF Longer
<1>5. CASE ~ (MatchLen(e) > len)
  BY <1>1, <1>2, <1>3, <1>5 DEF Longer
<1>. QED
  BY <1>4, <1>5

\* Whatever is taken for the best is as long a match as it says, or it is the
\* entry behind the suffix array.
LEMMA MatchStepPreserves ==
  ASSUME SearchInv, BestIsMatch, SearchStep
  PROVE  BestIsMatch'
<1>1. UNCHANGED inputs
  BY DEF SearchStep, Begin, GoUp, GoDown, Leaf
<1>2. /\ InputsOK
      /\ \A o : MatchLen(o)' = MatchLen(o) /\ (SuffixBelow(o)' <=> SuffixBelow(o))
  BY <1>1, InputsFixed DEF SearchInv
<1>3. old_size \in Nat \ {0} /\ old_size' = old_size /\ new_size \in Nat /\ new_size' = new_size
  BY <1>1, <1>2 DEF InputsOK, inputs
<1>. DEFINE Inside == /\ old_pos' \in 0 .. old_size - 1
                      /\ max_len' > MatchLen(0) => MatchLen(old_pos') = max_len'
                      /\ max_len' <= old_size /\ max_len' <= new_size
            Before == /\ Leaf
                      /\ old_pos' < 0 /\ old_pos' = I[old_size]
                      /\ old_size = 1 \/ SuffixBelow(I[old_size - 1])
                      /\ max_len' > MatchLen(0) /\ max_len' <= new_size
<1>. SUFFICES Inside \/ Before
  <2>1. (MatchLen(old_pos))' = MatchLen(old_pos') /\ I' = I
    BY <1>1 DEF MatchLen, inputs, Shorter
  <2>2. CASE Inside
    <3>1. BestInside'
      BY <1>2, <1>3, <2>1, <2>2 DEF BestInside
    <3>. QED
      BY <3>1 DEF BestIsMatch
  <2>3. CASE Before
    <3>1. (SuffixBelow(I[old_size - 1]))' <=> SuffixBelow(I[old_size - 1])
      BY <1>1 DEF MatchLen, SuffixBelow, inputs, Shorter
    <3>2. BestBefore'
      BY <1>2, <1>3, <2>1, <2>3, <3>1 DEF BestBefore, FoundBefore, Leaf
    <3>. QED
      BY <3>2 DEF BestIsMatch
  <2>. QED
    BY <2>2, <2>3
<1>4. CASE Begin
  <2>1. max_len' = MatchLen(0) /\ old_pos' = I[0]
    BY <1>4 DEF Begin, StartLen
  <2>2. I[0] \in 0 .. old_size - 1
    BY <1>2, <1>3, EntriesSorted
  <2>3. MatchLen(0) \in Nat /\ MatchLen(0) <= old_size - 0 /\ MatchLen(0) <= new_size
    BY <1>2, <1>3, MatchLenInside
  <2>. QED
    BY <1>3, <2>1, <2>2, <2>3
<1>5. CASE spc = "probe"
  <2>1. /\ st \in 0 .. old_size - 1 /\ en \in 1 .. old_size /\ st < en
        /\ max_len \in Nat /\ max_len >= MatchLen(0)
        /\ old_pos \in 0 .. old_size - 1
        /\ max_len > MatchLen(0) => MatchLen(old_pos) = max_len
        /\ max_len <= old_size /\ max_len <= new_size
    BY <1>5 DEF SearchInv, IntervalOK, BestOK, BestIsMatch, BestInside, BestBefore
  <2>2. CASE GoUp \/ GoDown
    <3>1. RecordMiddle /\ en - st >= 2
      BY <2>2 DEF GoUp, GoDown
    <3>2. PICK m \in 1 .. old_size - 1 : m = Middle
      BY <1>3, <2>1, <3>1, MiddleInside
    <3>3. PICK e \in 0 .. old_size - 1 : e = I[m]
      BY <1>2, <1>3, EntriesSorted
    <3>4. /\ max_len' = Longer(max_len, MatchLen(e))
          /\ old_pos' = IF MatchLen(e) > max_len THEN e ELSE old_pos
      BY <3>1, <3>2, <3>3 DEF RecordMiddle, MiddlePos
    <3>5. /\ old_pos' \in 0 .. old_size - 1
          /\ max_len' > MatchLen(0) => MatchLen(old_pos') = max_len'
          /\ max_len' <= old_size /\ max_len' <= new_size
      <4>. HIDE DEF Inside, Before
      <4>. QED
        BY <1>2, <2>1, <3>4, LongerIsMatch
    <3>. QED
      BY <3>5
  <2>3. CASE Leaf
    <3>1. PICK x \in LeafLens(I[st]), y \in LeafLens(I[en]) :
            /\ max_len' = Longer(max_len, Longer(x, y))
            /\ old_pos' = LeafPos(x, y)
      BY <2>3 DEF Leaf
    <3>2. PICK a \in 0 .. old_size - 1 : a = I[st]
      BY <1>2, <2>1, EntriesSorted
    <3>3. PICK e \in Int : e = I[en] /\ (en < old_size => e >= 0)
      <4>1. I[en] \in Int /\ (en < old_size => I[en] >= 0)
        <5>1. CASE en = old_size
          <6>1. I[old_size] \in Int
            BY <1>2, EntriesSorted, SearchAssumption
          <6>. QED
            BY <1>3, <5>1, <6>1
        <5>2. CASE en \in 0 .. old_size - 1
          BY <1>2, <5>2, EntriesSorted
        <5>. QED
          BY <1>3, <2>1, <5>1, <5>2
      <4>. QED
        BY <4>1
    <3>4. x = MatchLen(a) /\ (e >= 0 => y = MatchLen(e))
      BY <3>1, <3>2, <3>3 DEF LeafLens
    <3>5. x \in Nat /\ MatchLen(0) \in Nat
      BY <1>3, <3>4, MatchLenSpec
    <3>6. y \in Nat /\ y <= new_size
      <4>1. CASE e < 0
        BY <1>3, <3>1, <3>3, <4>1 DEF LeafLens, Shorter
      <4>2. CASE e >= 0
        <5>1. y \in Nat /\ y <= Longer(0, Shorter(old_size - e, new_size))
          BY <1>3, <3>4, <4>2, MatchLenSpec
        <5>. QED
          BY <1>3, <5>1 DEF Longer, Shorter
      <4>. QED
        BY <4>1, <4>2
    <3>. DEFINE q == IF MatchLen(a) > max_len THEN a ELSE old_pos
                l == Longer(max_len, MatchLen(a))
    <3>7. /\ q \in 0 .. old_size - 1
          /\ l \in Nat /\ l >= MatchLen(0) /\ (l > MatchLen(0) => MatchLen(q) = l)
          /\ l <= old_size /\ l <= new_size
      BY <1>2, <2>1, LongerIsMatch
    <3>8. /\ max_len' = Longer(l, y)
          /\ old_pos' = IF y > l THEN e ELSE q
      <4>1. max_len' = Longer(l, y)
        BY <2>1, <3>1, <3>4, <3>5, <3>6 DEF Longer
      <4>2. old_pos' = IF y > max_len /\ y > x THEN e ELSE IF x > max_len THEN a ELSE old_pos
        BY <3>1, <3>2, <3>3 DEF LeafPos
      <4>3. (y > l) <=> (y > max_len /\ y > x)
        BY <2>1, <3>4, <3>5, <3>6 DEF Longer
      <4>. QED
        BY <3>4, <4>1, <4>2, <4>3
    <3>. HIDE DEF q, l
    <3>9. CASE y <= l
      <4>1. max_len' = l /\ old_pos' = q
        BY <3>6, <3>7, <3>8, <3>9 DEF Longer
      <4>. QED
        BY <3>7, <4>1
    <3>10. CASE y > l /\ e \in 0 .. old_size - 1
      <4>1. y = MatchLen(e)
        BY <3>4, <3>10
      <4>2. e \in 0 .. old_size - 1
        BY <3>10
      <4>3. /\ old_pos' \in 0 .. old_size - 1
            /\ max_len' > MatchLen(0) => MatchLen(old_pos') = max_len'
            /\ max_len' <= old_size /\ max_len' <= new_size
        <5>. HIDE DEF Inside, Before
        <5>. QED
          BY <1>2, <3>7, <3>8, <4>1, <4>2, LongerIsMatch
      <4>. QED
        BY <4>3
    <3>11. e < old_size \/ y <= l
      <4>. SUFFICES ASSUME e >= old_size PROVE y <= l
        BY <1>3, <3>6, <3>7
      <4>1. y <= Longer(0, Shorter(old_size - e, new_size))
        BY <1>3, <3>4, MatchLenSpec
      <4>. QED
        BY <1>3, <3>6, <3>7, <4>1 DEF Longer, Shorter
    <3>12. CASE y > l /\ e < 0
      <4>1. en = old_size /\ st = old_size - 1
        BY <1>3, <2>1, <2>3, <3>3, <3>12 DEF Leaf
      <4>2. old_size = 1 \/ SuffixBelow(I[old_size - 1])
        <5>1. st > 0 => SuffixBelow(I[st])
          BY <1>5 DEF SearchInv, EndsCompared
        <5>. QED
          BY <1>3, <4>1, <5>1
      <4>3. max_len' = y /\ old_pos' = e
        BY <3>6, <3>7, <3>8, <3>12 DEF Longer
      <4>4. max_len' > MatchLen(0)
        BY <3>5, <3>6, <3>7, <3>12, <4>3
      <4>5. Before
        BY <2>3, <3>3, <3>6, <3>12, <4>1, <4>2, <4>3, <4>4
      <4>. QED
        BY <4>5
    <3>. QED
      BY <1>3, <3>6, <3>7, <3>9, <3>10, <3>11, <3>12
  <2>. QED
    BY <1>5, <2>2, <2>3 DEF SearchStep, Begin
<1>. QED
  BY <1>4, <1>5 DEF SearchStep, GoUp, GoDown, Leaf

\* A step that changes nothing keeps the match.
LEMMA MatchStutters ==
  ASSUME BestIsMatch, UNCHANGED svars
  PROVE  BestIsMatch'
BY DEF BestIsMatch, BestInside, BestBefore, FoundBefore, SuffixBelow, MatchLen, Shorter,
       svars, inputs

-----------------------------------------------------------------------------
(***************************************************************************)
(* The theorems.                                                           *)
(***************************************************************************)
LEMMA SearchInitInputs == SearchInit => InputsOK /\ spc = "call"
<1>. SUFFICES ASSUME SearchInit PROVE InputsOK
  BY DEF SearchInit
<1>1. 0 .. ByteRange - 1 \subseteq Int
  OBVIOUS
<1>2. /\ old_size \in Nat \ {0} /\ new_size \in Nat \ {0}
      /\ old \in [0 .. old_size - 1 -> Int] /\ new \in [0 .. new_size - 1 -> Int]
  BY <1>1, SearchAssumption DEF SearchInit
<1>. QED
  BY <1>2 DEF SearchInit, InputsOK

\* The inductive invariant holds in every state of a call of the search.
THEOREM SearchInvariance == SearchSpec => []SearchInv
<1>1. SearchInit => SearchInv
  BY SearchInitInputs, SearchStarts
<1>2. SearchInv /\ [SearchStep \/ Return]_svars => SearchInv'
  <2>. QED
    BY SearchStutters, SearchStepPreserves DEF Return
<1>. QED
  BY <1>1, <1>2, PTL DEF SearchSpec

\* The binary search finds the longest match of new in old, unless a suffix of
\* old ends inside its match with new: memcmp compares their common length only.
THEOREM LongestFound == SearchSpec => []LongestUnlessCut
<1>1. SearchInv => LongestUnlessCut
  BY DEF SearchInv
<1>. QED
  BY <1>1, SearchInvariance, PTL

\* A length beyond that of the match at the start of old is that of a match at
\* the position found, which is inside old; or the position is a negative entry
\* behind the suffix array, with new behind every suffix of old.
THEOREM FoundIsMatch == SearchSpec => []BeyondStartIsMatch
<1>1. SearchInit => BestIsMatch
  BY DEF SearchInit, BestIsMatch
<1>2. SearchInv /\ BestIsMatch /\ [SearchStep \/ Return]_svars => BestIsMatch'
  <2>. QED
    BY MatchStutters, MatchStepPreserves DEF Return
<1>3. ASSUME SearchInv, BestIsMatch PROVE BeyondStartIsMatch
  <2>. SUFFICES ASSUME spc = "returned", BestInside
                PROVE  /\ old_pos \in 0 .. old_size - 1
                       /\ max_len > MatchLen(0) =>
                            /\ old_pos + max_len <= old_size
                            /\ \A j \in 0 .. max_len - 1 : old[old_pos + j] = new[j]
    BY <1>3 DEF BeyondStartIsMatch, BestIsMatch, BestBefore
  <2>1. old_pos \in 0 .. old_size - 1 /\ InputsOK /\ old_size \in Nat
    BY <1>3 DEF BestInside, SearchInv, InputsOK
  <2>2. ASSUME max_len > MatchLen(0)
        PROVE  /\ old_pos + max_len <= old_size
               /\ \A j \in 0 .. max_len - 1 : old[old_pos + j] = new[j]
    <3>1. MatchLen(old_pos) = max_len
      BY <2>2 DEF BestInside
    <3>2. /\ max_len \in Nat /\ max_len <= old_size - old_pos
          /\ \A j \in 0 .. max_len - 1 : old[old_pos + j] = new[j]
      BY <2>1, <3>1, MatchLenInside
    <3>. QED
      BY <2>1, <3>2
  <2>. QED
    BY <2>1, <2>2
<1>. QED
  BY <1>1, <1>2, <1>3, SearchInvariance, PTL DEF SearchSpec

\* Every recursive call is made for about half of the interval, and for less of
\* it than its caller had: the search returns, and the calls of search32 or
\* search64 on the stack are no more than the logarithm of old_size and two.
THEOREM CallsHalve ==
  SearchSpec => [][spc = "probe" /\ spc' = "probe" =>
                     /\ st' < en' /\ en' - st' < en - st
                     /\ 2 * (en' - st') <= en - st + 1]_svars
<1>1. ASSUME SearchInv, SearchStep, spc = "probe", spc' = "probe"
      PROVE  st' < en' /\ en' - st' < en - st /\ 2 * (en' - st') <= en - st + 1
  <2>1. old_size \in Nat /\ st \in 0 .. old_size - 1 /\ en \in 1 .. old_size
    BY <1>1 DEF SearchInv, InputsOK, IntervalOK
  <2>2. /\ en - st >= 2
        /\ (st' = Middle /\ en' = en) \/ (st' = st /\ en' = Middle)
    BY <1>1 DEF SearchStep, Begin, GoUp, GoDown, Leaf
  <2>3. PICK h \in Nat : h = (en - st) \div 2 /\ Middle = st + h
    BY <2>1, <2>2 DEF Middle
  <2>4. 2 * h <= en - st /\ en - st <= 2 * h + 1
    BY <2>1, <2>3
  <2>. QED
    BY <2>1, <2>2, <2>3, <2>4
<1>2. ASSUME SearchInv, [SearchStep \/ Return]_svars
      PROVE  [spc = "probe" /\ spc' = "probe" =>
                /\ st' < en' /\ en' - st' < en - st
                /\ 2 * (en' - st') <= en - st + 1]_svars
  BY <1>1, <1>2 DEF Return
<1>. QED
  BY <1>2, SearchInvariance, PTL DEF SearchSpec

=============================================================================
