-------------------------- MODULE StructureProofs ---------------------------
(***************************************************************************)
(* The data structures the components share.                               *)
(*                                                                         *)
(* Selections: the positions of a finite set can be counted off, and rows  *)
(* that are selected part by part are the rows selected at once.           *)
(*                                                                         *)
(* Inserting rows in the chained hash table, for every number of rows and  *)
(* every hash.  A row that the chain of its hash does not contain may be   *)
(* inserted, also if another chain contains it: the chains still end.  If  *)
(* no chain contains it, every chain keeps what it had.  Walks are sets of *)
(* positions, so that what they visit is found without induction: a walk   *)
(* is the least closed set that contains its start.                        *)
(***************************************************************************)
EXTENDS Selection, ChainedHashTable, SequencesExt, FiniteSetTheorems, SequenceTheorems,
        WellFoundedInduction, TLAPS

(* The provers know powers of numbers only. *)
LEMMA PowersOfTwo == \A k \in 0..31 : 2^k \in Nat \ {0}
<1> TAKE k \in 0..31
<1>1.
     \/ k = 0 \/ k = 1 \/ k = 2 \/ k = 3 \/ k = 4 \/ k = 5 \/ k = 6 \/ k = 7
     \/ k = 8 \/ k = 9 \/ k = 10 \/ k = 11 \/ k = 12 \/ k = 13 \/ k = 14 \/ k = 15
     \/ k = 16 \/ k = 17 \/ k = 18 \/ k = 19 \/ k = 20 \/ k = 21 \/ k = 22 \/ k = 23
     \/ k = 24 \/ k = 25 \/ k = 26 \/ k = 27 \/ k = 28 \/ k = 29 \/ k = 30 \/ k = 31
  OBVIOUS
<1>2.
      /\ 2^0 \in Nat \ {0} /\ 2^1 \in Nat \ {0} /\ 2^2 \in Nat \ {0} /\ 2^3 \in Nat \ {0}
      /\ 2^4 \in Nat \ {0} /\ 2^5 \in Nat \ {0} /\ 2^6 \in Nat \ {0} /\ 2^7 \in Nat \ {0}
      /\ 2^8 \in Nat \ {0} /\ 2^9 \in Nat \ {0} /\ 2^10 \in Nat \ {0} /\ 2^11 \in Nat \ {0}
      /\ 2^12 \in Nat \ {0} /\ 2^13 \in Nat \ {0} /\ 2^14 \in Nat \ {0} /\ 2^15 \in Nat \ {0}
      /\ 2^16 \in Nat \ {0} /\ 2^17 \in Nat \ {0} /\ 2^18 \in Nat \ {0} /\ 2^19 \in Nat \ {0}
      /\ 2^20 \in Nat \ {0} /\ 2^21 \in Nat \ {0} /\ 2^22 \in Nat \ {0} /\ 2^23 \in Nat \ {0}
      /\ 2^24 \in Nat \ {0} /\ 2^25 \in Nat \ {0} /\ 2^26 \in Nat \ {0} /\ 2^27 \in Nat \ {0}
      /\ 2^28 \in Nat \ {0} /\ 2^29 \in Nat \ {0} /\ 2^30 \in Nat \ {0} /\ 2^31 \in Nat \ {0}
  OBVIOUS
<1> QED
  BY <1>1, <1>2, Zenon

(* A set of numbers has a lowest one. *)
LEMMA HasLowest ==
  ASSUME NEW S \in SUBSET Nat, S # {}
  PROVE  \E k \in S : \A other \in S : k <= other
<1> DEFINE R == OpToRel(<, Nat)
<1>1. IsWellFoundedOn(R, Nat)
  BY NatLessThanWellFounded
<1>2. \A m, n \in Nat : m < n => <<m, n>> \in R
  BY DEF OpToRel
<1> HIDE DEF R
<1>3. PICK k \in S : \A other \in S : ~(<<other, k>> \in R)
  BY <1>1, WFMin
<1>4. ASSUME NEW other \in S
      PROVE  k <= other
  <2>1. ~(<<other, k>> \in R)
    BY <1>3
  <2>2. k \in Nat /\ other \in Nat
    OBVIOUS
  <2>3. ~(other < k)
    BY <1>2, <2>1, <2>2
  <2> QED
    BY <2>2, <2>3
<1> QED
  BY <1>4
-----------------------------------------------------------------------------
LEMMA RankBounds ==
  ASSUME NEW S \in SUBSET Int, IsFiniteSet(S), NEW i \in S
  PROVE  Cardinality(S) \in Nat /\ Rank(S, i) \in 1..Cardinality(S)
<1> DEFINE low == {j \in S : j <= i}
<1>1. low \subseteq S /\ i \in low
  OBVIOUS
<1> HIDE DEF low
<1>2. /\ Cardinality(S) \in Nat
      /\ IsFiniteSet(low) /\ Cardinality(low) <= Cardinality(S)
  BY <1>1, FS_Subset, FS_CardinalityType
<1>3. Cardinality(low) \in Nat /\ Cardinality(low) # 0
  BY <1>1, <1>2, FS_CardinalityType, FS_EmptySet
<1> QED
  BY <1>2, <1>3 DEF Rank, low

LEMMA RankGrows ==
  ASSUME NEW S \in SUBSET Int, IsFiniteSet(S), NEW i \in S, NEW j \in S, i < j
  PROVE  Rank(S, i) < Rank(S, j)
<1> DEFINE low == {m \in S : m <= i}
           high == {m \in S : m <= j}
<1>0. i \in Int /\ j \in Int /\ \A m \in S : m \in Int
  OBVIOUS
<1>1. low \subseteq high \ {j} /\ j \in high /\ high \subseteq S
  <2>1. j <= j /\ \A m \in S : m <= i => m <= j /\ m # j
    BY <1>0
  <2> QED BY <2>1, Zenon
<1> HIDE DEF low, high
<1>2. IsFiniteSet(high) /\ Cardinality(high) \in Nat
  BY <1>1, FS_Subset, FS_CardinalityType
<1>3. IsFiniteSet(high \ {j}) /\ Cardinality(high \ {j}) = Cardinality(high) - 1
  BY <1>1, <1>2, FS_RemoveElement
<1>4. Cardinality(low) <= Cardinality(high \ {j}) /\ IsFiniteSet(low)
  BY <1>1, <1>3, FS_Subset
<1>5. Cardinality(low) \in Nat
  BY <1>4, FS_CardinalityType
<1> QED
  BY <1>2, <1>3, <1>4, <1>5 DEF Rank, low, high

LEMMA SameRank ==
  ASSUME NEW S \in SUBSET Int, IsFiniteSet(S), NEW i \in S, NEW j \in S,
         Rank(S, i) = Rank(S, j)
  PROVE  i = j
<1>1. i \in Int /\ j \in Int /\ Rank(S, i) \in Int /\ Rank(S, j) \in Int
  BY RankBounds
<1>2. ~(i < j) /\ ~(j < i)
  BY <1>1, RankGrows
<1> QED
  BY <1>1, <1>2

(* Every number up to the size of the set is the rank of a position. *)
LEMMA NthIsRanked ==
  ASSUME NEW S \in SUBSET Int, IsFiniteSet(S), NEW k \in 1..Cardinality(S)
  PROVE  Nth(S, k) \in S /\ Rank(S, Nth(S, k)) = k
<1> DEFINE n == Cardinality(S)
           f == [i \in S |-> Rank(S, i)]
<1>1. n \in Nat
  BY FS_CardinalityType
<1>2. f \in [S -> 1..n] /\ \A i \in S : f[i] = Rank(S, i)
  BY RankBounds
<1>3. \A i \in S : \A j \in S : f[i] = f[j] => i = j
  BY <1>2, SameRank
<1>4. 1 \in Int /\ n \in Int
  BY <1>1
<1>5. IsFiniteSet(1..n) /\ Cardinality(1..n) = IF 1 > n THEN 0 ELSE n - 1 + 1
  BY <1>4, FS_Interval, Zenon
<1>6. Cardinality(1..n) = n
  BY <1>1, <1>5
<1> HIDE DEF f, n
<1>7. f \in Injection(S, 1..n)
  BY <1>2, <1>3 DEF Injection, IsInjective
<1>8. Cardinality(S) = Cardinality(1..n)
  BY <1>6 DEF n
<1>9. f \in Surjection(S, 1..n)
  BY <1>5, <1>7, <1>8, FS_Injection
<1>10. \E i \in S : f[i] = k
  BY <1>9 DEF Surjection, n
<1>11. \E i \in S : Rank(S, i) = k
  BY <1>2, <1>10
<1> QED
  BY <1>11 DEF Nth

LEMMA NthOfRank ==
  ASSUME NEW S \in SUBSET Int, IsFiniteSet(S), NEW i \in S
  PROVE  Nth(S, Rank(S, i)) = i
<1>1. Rank(S, i) \in 1..Cardinality(S)
  BY RankBounds
<1>2. Nth(S, Rank(S, i)) \in S /\ Rank(S, Nth(S, Rank(S, i))) = Rank(S, i)
  BY <1>1, NthIsRanked
<1> DEFINE j == Nth(S, Rank(S, i))
<1>3. j \in S /\ Rank(S, j) = Rank(S, i)
  BY <1>2
<1> HIDE DEF j
<1>4. j = i
  BY <1>3, SameRank
<1> QED
  BY <1>4 DEF j

(* The first position, and the one after another. *)
LEMMA FirstHasRankOne ==
  ASSUME NEW S \in SUBSET Int, IsFiniteSet(S), NEW i \in S, \A j \in S : i <= j
  PROVE  Rank(S, i) = 1
<1>0. i \in Int /\ \A m \in S : m \in Int
  OBVIOUS
<1>1. {j \in S : j <= i} = {i}
  <2>1. i <= i /\ \A j \in S : j <= i => j = i
    BY <1>0
  <2> QED BY <2>1, Zenon
<1> QED
  BY <1>1, FS_Singleton DEF Rank

LEMMA NextHasNextRank ==
  ASSUME NEW S \in SUBSET Int, IsFiniteSet(S), NEW i \in S, NEW j \in S, i < j,
         \A m \in S : i < m => j <= m
  PROVE  Rank(S, j) = Rank(S, i) + 1
<1> DEFINE low == {m \in S : m <= i}
           high == {m \in S : m <= j}
<1>0. i \in Int /\ j \in Int /\ \A m \in S : m \in Int
  OBVIOUS
<1>1. high = low \cup {j} /\ j \notin low /\ low \subseteq S
  <2>1. j <= j /\ ~(j <= i) /\ \A m \in S : m <= j <=> m <= i \/ m = j
    BY <1>0
  <2> QED BY <2>1, Zenon
<1> HIDE DEF low, high
<1>2. IsFiniteSet(low) /\ Cardinality(low) \in Nat
  BY <1>1, FS_Subset, FS_CardinalityType
<1>3. Cardinality(high) = Cardinality(low) + 1
  BY <1>1, <1>2, FS_AddElement
<1> QED
  BY <1>3 DEF Rank, low, high

LEMMA NthInOrder ==
  ASSUME NEW S \in SUBSET Int, IsFiniteSet(S),
         NEW k \in 1..Cardinality(S), NEW l \in 1..Cardinality(S), k < l
  PROVE  Nth(S, k) < Nth(S, l)
<1> DEFINE i == Nth(S, k)
           j == Nth(S, l)
<1>1. i \in S /\ Rank(S, i) = k /\ j \in S /\ Rank(S, j) = l
  BY NthIsRanked
<1> HIDE DEF i, j
<1>2. i \in Int /\ j \in Int /\ k \in Int /\ l \in Int /\ ~(l < k) /\ l # k
  BY <1>1
<1>3. ~(j < i)
  <2>1. ASSUME j < i PROVE Rank(S, j) < Rank(S, i)
    BY <1>1, <2>1, RankGrows
  <2> QED
    BY <1>1, <1>2, <2>1
<1>4. i < j
  BY <1>1, <1>2, <1>3
<1> QED
  BY <1>4 DEF i, j

(* A finite set of numbers has a highest one. *)
LEMMA HasHighest ==
  ASSUME NEW S \in SUBSET Nat, IsFiniteSet(S), S # {}
  PROVE  \E m \in S : \A i \in S : i <= m
<1> DEFINE c == Cardinality(S)
           m == Nth(S, c)
<1>1. S \in SUBSET Int /\ c \in Nat /\ c # 0
  BY FS_CardinalityType, FS_EmptySet
<1>2. c \in 1..c
  BY <1>1
<1>3. m \in S /\ Rank(S, m) = c
  BY <1>1, <1>2, NthIsRanked
<1> HIDE DEF m, c
<1>4. ASSUME NEW i \in S, m < i
      PROVE  FALSE
  <2>1. Rank(S, m) < Rank(S, i)
    BY <1>1, <1>3, <1>4, RankGrows
  <2>2. Rank(S, i) \in 1..c
    BY <1>1, RankBounds DEF c
  <2> QED BY <1>1, <1>3, <2>1, <2>2
<1>5. \A i \in S : i \in Nat /\ m \in Nat
  BY <1>3
<1> QED
  BY <1>3, <1>4, <1>5

-----------------------------------------------------------------------------
LEMMA RowsInType ==
  ASSUME NEW T, NEW rows \in Seq(T), NEW S \in SUBSET (1..Len(rows))
  PROVE  /\ IsFiniteSet(S) /\ Cardinality(S) \in Nat
         /\ RowsIn(rows, S) \in Seq(T)
         /\ Len(RowsIn(rows, S)) = Cardinality(S)
         /\ \A k \in 1..Cardinality(S) : RowsIn(rows, S)[k] = rows[Nth(S, k)]
<1>1. Len(rows) \in Nat /\ 1 \in Int /\ Len(rows) \in Int
  OBVIOUS
<1>2. IsFiniteSet(1..Len(rows))
  BY <1>1, FS_Interval, Zenon
<1>3. IsFiniteSet(S) /\ Cardinality(S) \in Nat
  BY <1>2, FS_Subset, FS_CardinalityType
<1>4. \A k \in 1..Cardinality(S) : Nth(S, k) \in S
  <2>1. S \in SUBSET Int
    OBVIOUS
  <2> QED BY <1>3, <2>1, NthIsRanked
<1>5. \A k \in 1..Cardinality(S) : rows[Nth(S, k)] \in T
  <2>1. \A i \in S : rows[i] \in T
    OBVIOUS
  <2> QED BY <1>4, <2>1
<1> QED
  BY <1>3, <1>5 DEF RowsIn

(* A sequence that has every member of a set once. *)
Lists(w, S) ==
  /\ w \in Seq(S)
  /\ \A x \in S : \E k \in 1..Len(w) : w[k] = x
  /\ \A k \in 1..Len(w) : \A l \in 1..Len(w) : w[k] = w[l] => k = l

(* The rows are those at the positions of the set. *)
LEMMA RowsInMembers ==
  ASSUME NEW T, NEW rows \in Seq(T), NEW S \in SUBSET (1..Len(rows)), NEW x
  PROVE  Contains(RowsIn(rows, S), x) <=> \E i \in S : rows[i] = x
<1> DEFINE c == Cardinality(S)
           r == RowsIn(rows, S)
<1>1. /\ IsFiniteSet(S) /\ c \in Nat /\ Len(r) = c
      /\ \A k \in 1..c : r[k] = rows[Nth(S, k)]
  BY RowsInType
<1>2. S \in SUBSET Int
  OBVIOUS
<1>3. \A k \in 1..c : Nth(S, k) \in S
  BY <1>1, <1>2, NthIsRanked
<1>4. \A i \in S : Rank(S, i) \in 1..c /\ Nth(S, Rank(S, i)) = i
  BY <1>1, <1>2, RankBounds, NthOfRank
<1> HIDE DEF c, r
<1>5. ASSUME NEW i \in S, rows[i] = x
      PROVE  \E k \in 1..c : r[k] = x
  BY <1>1, <1>4, <1>5
<1>6. ASSUME NEW k \in 1..c, r[k] = x
      PROVE  \E i \in S : rows[i] = x
  BY <1>1, <1>3, <1>6
<1> QED
  BY <1>1, <1>5, <1>6 DEF r, Contains

LEMMA InOrderLists ==
  ASSUME NEW S \in SUBSET Int, IsFiniteSet(S)
  PROVE  /\ Lists(InOrder(S), S) /\ Len(InOrder(S)) = Cardinality(S)
         /\ \A k \in 1..Cardinality(S) : InOrder(S)[k] = Nth(S, k)
<1> DEFINE c == Cardinality(S)
           w == InOrder(S)
<1>1. c \in Nat
  BY FS_CardinalityType
<1>2. \A k \in 1..c : Nth(S, k) \in S /\ Rank(S, Nth(S, k)) = k
  BY NthIsRanked
<1>3. \A i \in S : Rank(S, i) \in 1..c /\ Nth(S, Rank(S, i)) = i
  BY RankBounds, NthOfRank
<1>4. w = [k \in 1..c |-> Nth(S, k)]
  BY DEF InOrder
<1> HIDE DEF c, w
<1>5. w \in Seq(S) /\ Len(w) = c /\ \A k \in 1..c : w[k] = Nth(S, k)
  BY <1>1, <1>2, <1>4
<1>6. \A x \in S : \E k \in 1..c : w[k] = x
  BY <1>3, <1>5
<1>7. \A k \in 1..c : \A l \in 1..c : w[k] = w[l] => k = l
  <2> SUFFICES ASSUME NEW k \in 1..c, NEW l \in 1..c, w[k] = w[l]
               PROVE  k = l
    OBVIOUS
  <2>1. Nth(S, k) = Nth(S, l)
    BY <1>5
  <2>2. Rank(S, Nth(S, k)) = k /\ Rank(S, Nth(S, l)) = l
    BY <1>2
  <2> QED BY <2>1, <2>2
<1> QED
  BY <1>5, <1>6, <1>7 DEF Lists, c, w

LEMMA AllRowsAreIn ==
  ASSUME NEW T, NEW rows \in Seq(T)
  PROVE  RowsIn(rows, 1..Len(rows)) = rows
<1> DEFINE n == Len(rows)
<1>1. n \in Nat /\ 1 \in Int /\ n \in Int
  OBVIOUS
<1>2. /\ IsFiniteSet(1..n) /\ Cardinality(1..n) = IF 1 > n THEN 0 ELSE n - 1 + 1
  BY <1>1, FS_Interval, Zenon
<1>3. Cardinality(1..n) = n
  BY <1>1, <1>2
<1>4. ASSUME NEW i \in 1..n
      PROVE  Nth(1..n, i) = i
  <2>1. {j \in 1..n : j <= i} = 1..i /\ i \in Int /\ 1 \in Int /\ i >= 1
    BY <1>1
  <2>2. Cardinality(1..i) = IF 1 > i THEN 0 ELSE i - 1 + 1
    BY <2>1, FS_Interval, Zenon
  <2>3. Rank(1..n, i) = Cardinality(1..i)
    BY <2>1, Zenon DEF Rank
  <2>6. Rank(1..n, i) = i
    BY <2>1, <2>2, <2>3
  <2>4. 1..n \in SUBSET Int
    BY <1>1
  <2> HIDE DEF n
  <2>5. Nth(1..n, Rank(1..n, i)) = i
    BY <1>2, <2>4, NthOfRank
  <2> QED
    BY <2>6, <2>5
<1>5. /\ RowsIn(rows, 1..n) \in Seq(T) /\ Len(RowsIn(rows, 1..n)) = n
      /\ \A k \in 1..n : RowsIn(rows, 1..n)[k] = rows[k]
  <2>1. 1..n \in SUBSET (1..Len(rows))
    OBVIOUS
  <2>2. /\ RowsIn(rows, 1..n) \in Seq(T)
        /\ Len(RowsIn(rows, 1..n)) = Cardinality(1..n)
        /\ \A k \in 1..Cardinality(1..n) : RowsIn(rows, 1..n)[k] = rows[Nth(1..n, k)]
    BY <2>1, RowsInType
  <2> HIDE DEF n
  <2> QED BY <1>3, <1>4, <2>2
<1> QED
  BY <1>5

-----------------------------------------------------------------------------
LEMMA ShiftedSize ==
  ASSUME NEW S \in SUBSET Nat, IsFiniteSet(S), NEW m \in Nat
  PROVE  LET T == {m + j : j \in S}
         IN  IsFiniteSet(T) /\ Cardinality(T) = Cardinality(S)
<1> DEFINE T == {m + j : j \in S}
           f == [j \in S |-> m + j]
<1>1. \A i \in S, j \in S : m + i = m + j => i = j
  OBVIOUS
<1>2. f \in Bijection(S, T)
  BY <1>1 DEF Bijection, Injection, Surjection, IsInjective
<1>3. ExistsBijection(S, T)
  BY <1>2 DEF ExistsBijection
<1> HIDE DEF T, f
<1>4. IsFiniteSet(T) /\ Cardinality(T) = Cardinality(S)
  BY <1>3, FS_Bijection
<1> QED
  BY <1>4 DEF T

(* A part of the positions that is followed by a shifted one. *)
LEMMA RankBehind ==
  ASSUME NEW A \in SUBSET Int, IsFiniteSet(A), NEW C \in SUBSET Nat, IsFiniteSet(C),
         NEW m \in Nat, \A i \in A : i <= m, \A i \in C : i > 0
  PROVE  LET B == A \cup {m + j : j \in C}
         IN  /\ IsFiniteSet(B) /\ Cardinality(B) = Cardinality(A) + Cardinality(C)
             /\ \A i \in A : Rank(B, i) = Rank(A, i)
             /\ \A j \in C : Rank(B, m + j) = Cardinality(A) + Rank(C, j)
<1> DEFINE shift(S) == {m + j : j \in S}
           B == A \cup shift(C)
<1>1. ASSUME NEW S \in SUBSET C
      PROVE  /\ IsFiniteSet(A \cup shift(S))
             /\ Cardinality(A \cup shift(S)) = Cardinality(A) + Cardinality(S)
  <2>1. S \in SUBSET Nat /\ IsFiniteSet(S) /\ Cardinality(S) \in Nat /\ Cardinality(A) \in Nat
    BY FS_Subset, FS_CardinalityType
  <2>2. IsFiniteSet(shift(S)) /\ Cardinality(shift(S)) = Cardinality(S)
    BY <2>1, ShiftedSize
  <2>3. A \cap shift(S) = {}
    <3>1. \A i \in A : i \in Int /\ i <= m
      OBVIOUS
    <3>2. \A j \in S : j \in Nat /\ j > 0
      BY <2>1
    <3>3. \A j \in S : m + j > m
      BY <3>2
    <3> QED
      BY <3>1, <3>2, <3>3
  <2> HIDE DEF shift
  <2>4. /\ IsFiniteSet(A \cup shift(S))
        /\ Cardinality(A \cup shift(S))
             = Cardinality(A) + Cardinality(shift(S)) - Cardinality(A \cap shift(S))
    BY <2>2, FS_Union
  <2>5. Cardinality(A \cap shift(S)) = 0
    BY <2>3, FS_EmptySet
  <2> DEFINE n == Cardinality(A \cup shift(S))
             k == Cardinality(shift(S))
             l == Cardinality(A \cap shift(S))
  <2> HIDE DEF n, k, l
  <2>6. n = Cardinality(A) + Cardinality(S)
    BY <2>1, <2>2, <2>4, <2>5 DEF n, k, l
  <2> QED
    BY <2>4, <2>6 DEF n
<1>2. ASSUME NEW i \in A
      PROVE  Rank(B, i) = Rank(A, i)
  <2>1. i \in Int /\ i <= m /\ \A j \in C : ~(m + j <= i)
    <3>1. i \in Int /\ i <= m /\ \A j \in C : j \in Nat /\ j > 0
      OBVIOUS
    <3> QED BY <3>1
  <2>2. {j \in B : j <= i} = {j \in A : j <= i}
    BY <2>1, Zenon
  <2> QED
    BY <2>2 DEF Rank
<1>3. ASSUME NEW x \in C
      PROVE  Rank(B, m + x) = Cardinality(A) + Rank(C, x)
  <2> DEFINE S == {j \in C : j <= x}
  <2>1. /\ \A j \in C : m + j <= m + x <=> j <= x
        /\ \A i \in A : i <= m + x
    <3>1. x \in Nat /\ (\A j \in C : j \in Nat) /\ (\A i \in A : i \in Int /\ i <= m)
      OBVIOUS
    <3> QED BY <3>1
  <2>2. {j \in B : j <= m + x} = A \cup shift(S)
    BY <2>1, Zenon
  <2>3. S \in SUBSET C
    OBVIOUS
  <2>4. Cardinality(A \cup shift(S)) = Cardinality(A) + Cardinality(S)
    <3> HIDE DEF S, shift
    <3> QED BY <1>1, <2>3
  <2> QED
    BY <2>2, <2>4 DEF Rank
<1>4. IsFiniteSet(B) /\ Cardinality(B) = Cardinality(A) + Cardinality(C)
  BY <1>1
<1> QED
  BY <1>2, <1>3, <1>4

(* The positions up to m, and those of the next w, counted from m. *)
UpTo(S, m) == {i \in S : i <= m}
NextOf(S, m, w) == {i \in 1..w : m + i \in S}
NextRows(rows, m, w) == SubSeq(rows, m + 1, m + w)

(* Rows selected chunk by chunk: those up to m are followed by those of the next
   w rows.                                                                 *)
LEMMA NextRowsIn ==
  ASSUME NEW T, NEW rows \in Seq(T), NEW S \in SUBSET (1..Len(rows)),
         NEW m \in Nat, NEW w \in Nat, m + w <= Len(rows)
  PROVE  /\ NextRows(rows, m, w) \in Seq(T)
         /\ Len(NextRows(rows, m, w)) = w
         /\ RowsIn(rows, UpTo(S, m + w))
              = RowsIn(rows, UpTo(S, m)) \o RowsIn(NextRows(rows, m, w), NextOf(S, m, w))
<1> DEFINE part == SubSeq(rows, m + 1, m + w)
           A == {i \in S : i <= m}
           B == {i \in S : i <= m + w}
           C == {i \in 1..w : m + i \in S}
           a == Cardinality(A)
           c == Cardinality(C)
<1>1. /\ part \in Seq(T) /\ Len(part) = w
      /\ \A i \in 1..w : part[i] = rows[m + i]
  <2>1. /\ m + 1 \in Int /\ m + w \in Int
        /\ \A i \in m + 1 .. m + w : rows[i] \in T
    OBVIOUS
  <2>2. /\ part \in Seq(T)
        /\ Len(part) = IF m + 1 <= m + w THEN m + w - (m + 1) + 1 ELSE 0
        /\ \A i \in 1 .. m + w - (m + 1) + 1 : part[i] = rows[m + 1 + i - 1]
    BY <2>1, SubSeqProperties
  <2>3. /\ m + w - (m + 1) + 1 = w
        /\ (IF m + 1 <= m + w THEN m + w - (m + 1) + 1 ELSE 0) = w
        /\ \A i \in 1..w : m + 1 + i - 1 = m + i
    OBVIOUS
  <2> HIDE DEF part
  <2> QED BY <2>2, <2>3
<1>2. \A i \in S : i \in Int /\ i \in 1..Len(rows)
  OBVIOUS
<1>3. B = A \cup {m + j : j \in C}
  <2>1. ASSUME NEW i \in B
        PROVE  i \in A \cup {m + j : j \in C}
    <3>1. CASE i <= m
      BY <3>1
    <3>2. CASE ~(i <= m)
      <4>1. i - m \in 1..w /\ m + (i - m) = i
        BY <1>2, <3>2
      <4> QED BY <4>1
    <3> QED BY <3>1, <3>2
  <2>2. \A i \in A : i \in B
    BY <1>2
  <2>3. \A j \in C : m + j \in B
    <3>1. \A j \in 1..w : m + j <= m + w
      OBVIOUS
    <3> QED BY <3>1
  <2> QED
    BY <2>1, <2>2, <2>3
<1>4. A \in SUBSET (1..Len(rows)) /\ B \in SUBSET (1..Len(rows)) /\ C \in SUBSET (1..Len(part))
  BY <1>1
<1>5. /\ A \in SUBSET Int /\ B \in SUBSET Int /\ C \in SUBSET Nat
      /\ (\A i \in A : i <= m) /\ \A i \in C : i > 0
  <2>1. \A i \in 1..w : i \in Nat /\ i > 0
    OBVIOUS
  <2> QED BY <1>2, <2>1
<1> HIDE DEF part, A, B, C
<1>6. /\ IsFiniteSet(A) /\ a \in Nat
      /\ RowsIn(rows, A) \in Seq(T) /\ Len(RowsIn(rows, A)) = a
      /\ \A k \in 1..a : RowsIn(rows, A)[k] = rows[Nth(A, k)]
  BY <1>4, RowsInType
<1>7. /\ IsFiniteSet(C) /\ c \in Nat
      /\ RowsIn(part, C) \in Seq(T) /\ Len(RowsIn(part, C)) = c
      /\ \A k \in 1..c : RowsIn(part, C)[k] = part[Nth(C, k)]
  BY <1>1, <1>4, RowsInType
<1>8. /\ IsFiniteSet(B) /\ Cardinality(B) = a + c
      /\ RowsIn(rows, B) \in Seq(T) /\ Len(RowsIn(rows, B)) = Cardinality(B)
      /\ \A k \in 1..Cardinality(B) : RowsIn(rows, B)[k] = rows[Nth(B, k)]
      /\ \A i \in A : Rank(B, i) = Rank(A, i)
      /\ \A j \in C : Rank(B, m + j) = a + Rank(C, j)
  <2>1. /\ Cardinality(A \cup {m + j : j \in C}) = a + c
        /\ \A i \in A : Rank(A \cup {m + j : j \in C}, i) = Rank(A, i)
        /\ \A j \in C : Rank(A \cup {m + l : l \in C}, m + j) = a + Rank(C, j)
    BY <1>5, <1>6, <1>7, RankBehind
  <2>2. /\ IsFiniteSet(B)
        /\ RowsIn(rows, B) \in Seq(T) /\ Len(RowsIn(rows, B)) = Cardinality(B)
        /\ \A k \in 1..Cardinality(B) : RowsIn(rows, B)[k] = rows[Nth(B, k)]
    BY <1>4, RowsInType
  <2> QED
    BY <1>3, <2>1, <2>2
<1>9. ASSUME NEW k \in 1..a
      PROVE  RowsIn(rows, B)[k] = RowsIn(rows, A)[k]
  <2> DEFINE x == Nth(A, k)
  <2>1. x \in A /\ Rank(A, x) = k
    BY <1>5, <1>6, NthIsRanked
  <2> HIDE DEF x
  <2>2. x \in B /\ Rank(B, x) = k
    BY <1>3, <1>8, <2>1
  <2>3. Nth(B, Rank(B, x)) = x
    BY <1>5, <1>8, <2>2, NthOfRank
  <2>4. k \in 1..Cardinality(B)
    BY <1>6, <1>7, <1>8
  <2> QED
    BY <1>6, <1>8, <2>2, <2>3, <2>4 DEF x
<1>10. ASSUME NEW k \in 1..c
       PROVE  RowsIn(rows, B)[a + k] = RowsIn(part, C)[k]
  <2> DEFINE x == Nth(C, k)
  <2>1. x \in C /\ Rank(C, x) = k
    <3>1. C \in SUBSET Int
      BY <1>5
    <3> QED BY <1>7, <3>1, NthIsRanked
  <2> HIDE DEF x
  <2>2. m + x \in B /\ Rank(B, m + x) = a + k
    BY <1>3, <1>8, <2>1
  <2>3. Nth(B, Rank(B, m + x)) = m + x
    BY <1>5, <1>8, <2>2, NthOfRank
  <2>4. a + k \in 1..Cardinality(B)
    BY <1>6, <1>7, <1>8
  <2>5. RowsIn(rows, B)[a + k] = rows[m + x]
    BY <1>8, <2>2, <2>3, <2>4
  <2>6. x \in 1..w
    BY <2>1 DEF C
  <2> QED
    BY <1>1, <1>7, <2>5, <2>6 DEF x
<1>11. RowsIn(rows, B) = RowsIn(rows, A) \o RowsIn(part, C)
  <2> DEFINE r == RowsIn(rows, A)
             t == RowsIn(part, C)
             u == RowsIn(rows, B)
  <2>1. /\ r \in Seq(T) /\ Len(r) = a /\ t \in Seq(T) /\ Len(t) = c
        /\ u \in Seq(T) /\ Len(u) = a + c /\ a \in Nat /\ c \in Nat
        /\ (\A k \in 1..a : u[k] = r[k]) /\ \A k \in 1..c : u[a + k] = t[k]
    BY <1>6, <1>7, <1>8, <1>9, <1>10
  <2> HIDE DEF r, t, u, a, c
  <2>2. /\ r \o t \in Seq(T) /\ Len(r \o t) = Len(r) + Len(t)
        /\ \A k \in 1 .. Len(r) + Len(t) :
             (r \o t)[k] = IF k <= Len(r) THEN r[k] ELSE t[k - Len(r)]
    <3>1. r \in Seq(T) /\ t \in Seq(T)
      BY <2>1
    <3> QED BY <3>1, ConcatProperties, Zenon
  <2> DEFINE v == r \o t
  <2> HIDE DEF v
  <2>3. /\ v \in Seq(T) /\ Len(v) = a + c
        /\ \A k \in 1..a + c : v[k] = IF k <= a THEN r[k] ELSE t[k - a]
    BY <2>1, <2>2 DEF v
  <2>4. ASSUME NEW k \in 1..a + c
        PROVE  u[k] = v[k]
    <3>1. CASE k <= a
      <4>1. k \in 1..a
        BY <2>1, <3>1
      <4> QED BY <2>1, <2>3, <3>1, <4>1
    <3>2. CASE ~(k <= a)
      <4>1. k - a \in 1..c /\ a + (k - a) = k
        BY <2>1, <3>2
      <4>2. u[a + (k - a)] = t[k - a]
        BY <2>1, <4>1
      <4>3. u[k] = t[k - a]
        BY <4>1, <4>2
      <4> QED BY <2>3, <3>2, <4>3
    <3> QED BY <3>1, <3>2
  <2>5. u = v
    BY <2>1, <2>3, <2>4, SeqEqual
  <2> QED BY <2>5 DEF r, t, u, v
<1> QED
  BY <1>1, <1>11 DEF part, A, B, C, UpTo, NextOf, NextRows

-----------------------------------------------------------------------------
LEMMA ListedIsCounted ==
  ASSUME NEW S, NEW w, Lists(w, S)
  PROVE  IsFiniteSet(S) /\ Cardinality(S) = Len(w)
<1>1. Len(w) \in Nat /\ w \in [1..Len(w) -> S]
  BY DEF Lists
<1>2. IsFiniteSet(1..Len(w)) /\ Cardinality(1..Len(w)) = Len(w)
  <2>1. 1 \in Int /\ Len(w) \in Int
    BY <1>1
  <2>2. IsFiniteSet(1..Len(w)) /\ Cardinality(1..Len(w)) = IF 1 > Len(w) THEN 0 ELSE Len(w) - 1 + 1
    BY <2>1, FS_Interval, Zenon
  <2> QED
    BY <1>1, <2>2
<1>3. DOMAIN w = 1..Len(w)
  BY <1>1
<1>4. w \in Bijection(1..Len(w), S)
  BY <1>1, <1>3, Zenon DEF Lists, Bijection, Injection, Surjection, IsInjective
<1>5. ExistsBijection(1..Len(w), S)
  BY <1>4 DEF ExistsBijection
<1> QED
  BY <1>2, <1>5, FS_Bijection

(* Lists of sets that have nothing in common, one behind the other. *)
LEMMA ListsBehind ==
  ASSUME NEW A, NEW B, NEW v, NEW w, Lists(v, A), Lists(w, B), A \cap B = {}
  PROVE  Lists(v \o w, A \cup B)
<1> DEFINE a == Len(v)
           b == Len(w)
           C == A \cup B
           u == v \o w
<1>1. /\ v \in Seq(C) /\ w \in Seq(C) /\ a \in Nat /\ b \in Nat
      /\ (\A k \in 1..a : v[k] \in A) /\ \A k \in 1..b : w[k] \in B
  <2>1. v \in Seq(A) /\ w \in Seq(B) /\ A \subseteq C /\ B \subseteq C
    BY DEF Lists
  <2> HIDE DEF C
  <2> QED
    BY <2>1, SeqMonotonic, ElementOfSeq
<1>2. /\ u \in Seq(C) /\ Len(u) = a + b
      /\ \A k \in 1..a + b : u[k] = IF k <= a THEN v[k] ELSE w[k - a]
  <2> HIDE DEF C
  <2> QED
    BY <1>1, ConcatProperties, Zenon
<1> HIDE DEF u, a, b
<1>3. ASSUME NEW k \in 1..a + b
      PROVE  \/ k \in 1..a /\ u[k] = v[k] /\ u[k] \in A
             \/ k - a \in 1..b /\ u[k] = w[k - a] /\ u[k] \in B
  <2>1. CASE k <= a
    BY <1>1, <1>2, <2>1
  <2>2. CASE ~(k <= a)
    <3>1. k - a \in 1..b
      BY <1>1, <2>2
    <3> QED BY <1>1, <1>2, <2>2, <3>1
  <2> QED BY <2>1, <2>2
<1>4. ASSUME NEW k \in 1..a + b, NEW l \in 1..a + b, u[k] = u[l]
      PROVE  k = l
  <2>1. CASE k \in 1..a /\ u[k] = v[k] /\ u[k] \in A
    <3>1. l \in 1..a /\ u[l] = v[l]
      BY <1>3, <1>4, <2>1
    <3> QED BY <1>4, <2>1, <3>1 DEF Lists, a
  <2>2. CASE k - a \in 1..b /\ u[k] = w[k - a] /\ u[k] \in B
    <3>1. l - a \in 1..b /\ u[l] = w[l - a]
      BY <1>3, <1>4, <2>2
    <3>2. k - a = l - a
      BY <1>4, <2>2, <3>1, Zenon DEF Lists, b
    <3> QED BY <1>1, <3>2
  <2> QED BY <1>3, <2>1, <2>2
<1>5. ASSUME NEW x \in C
      PROVE  \E k \in 1..a + b : u[k] = x
  <2>1. CASE x \in A
    <3>1. PICK k \in 1..a : v[k] = x
      BY <2>1 DEF Lists, a
    <3>2. k \in 1..a + b /\ k <= a
      BY <1>1
    <3> QED BY <1>2, <3>1, <3>2
  <2>2. CASE x \in B
    <3>1. PICK k \in 1..b : w[k] = x
      BY <2>2 DEF Lists, b
    <3>2. a + k \in 1..a + b /\ ~(a + k <= a) /\ (a + k) - a = k
      BY <1>1
    <3>3. u[a + k] = w[k]
      BY <1>2, <3>2
    <3> QED BY <3>1, <3>2, <3>3
  <2> QED BY <2>1, <2>2
<1> QED
  BY <1>2, <1>4, <1>5 DEF Lists, u

(* The places in the first n of some sequences, and what these are one behind the
   other: a listing of the places.                                         *)
PlacesUpTo(ss, n) == {p \in Nat \X Nat : p[1] \in 1..n /\ p[2] \in 1..Len(ss[p[1]])}

IsFlat(T, t, ss, n) ==
  /\ t \in Seq(T)
  /\ \E w : /\ Lists(w, PlacesUpTo(ss, n)) /\ Len(w) = Len(t)
            /\ \A b \in 1..Len(t) : t[b] = ss[w[b][1]][w[b][2]]

LEMMA FlatNothing ==
  ASSUME NEW T, NEW ss
  PROVE  IsFlat(T, <<>>, ss, 0)
<1>1. PlacesUpTo(ss, 0) = {}
  BY DEF PlacesUpTo
<1>2. <<>> \in Seq({}) /\ <<>> \in Seq(T) /\ Len(<<>>) = 0 /\ \A k \in 1..0 : FALSE
  BY EmptySeq
<1>3. Lists(<<>>, {})
  BY <1>2, Zenon DEF Lists
<1>4. /\ Lists(<<>>, PlacesUpTo(ss, 0)) /\ Len(<<>>) = Len(<<>>)
      /\ \A b \in 1..Len(<<>>) : <<>>[b] = ss[<<>>[b][1]][<<>>[b][2]]
  BY <1>1, <1>2, <1>3, Zenon
<1> QED
  BY <1>2, <1>4, Zenon DEF IsFlat

LEMMA FlatMore ==
  ASSUME NEW T, NEW ss \in Seq(Seq(T)), NEW n \in Nat, n + 1 <= Len(ss),
         NEW t, IsFlat(T, t, ss, n)
  PROVE  IsFlat(T, t \o ss[n + 1], ss, n + 1)
<1> DEFINE s == ss[n + 1]
           m == Len(s)
           v == [j \in 1..m |-> <<n + 1, j>>]
           A == PlacesUpTo(ss, n)
           B == {<<n + 1, j>> : j \in 1..m}
           a == Len(t)
           u == t \o s
<1>1. s \in Seq(T) /\ m \in Nat /\ t \in Seq(T) /\ a \in Nat
  BY DEF IsFlat
<1>2. PICK w : /\ Lists(w, A) /\ Len(w) = a
               /\ \A b \in 1..a : t[b] = ss[w[b][1]][w[b][2]]
  BY DEF IsFlat
<1> HIDE DEF s, a
<1>3. Lists(v, B) /\ Len(v) = m
  <2>1. v \in Seq(B) /\ Len(v) = m /\ \A j \in 1..m : v[j] = <<n + 1, j>>
    BY <1>1
  <2> HIDE DEF v
  <2>2. \A k \in 1..m : \A l \in 1..m : v[k] = v[l] => k = l
    BY <2>1
  <2>3. \A x \in B : \E k \in 1..m : v[k] = x
    BY <2>1
  <2> QED
    BY <2>1, <2>2, <2>3 DEF Lists
<1>4. A \cap B = {} /\ A \cup B = PlacesUpTo(ss, n + 1)
  <2>1. \A p \in A : p \in Nat \X Nat /\ p[1] \in 1..n /\ p[2] \in 1..Len(ss[p[1]])
    BY DEF PlacesUpTo
  <2>2. \A p \in B : p \in Nat \X Nat /\ p[1] = n + 1 /\ p[2] \in 1..m
    BY <1>1
  <2>3. \A p \in Nat \X Nat : p[1] \in 1..n + 1 <=> p[1] \in 1..n \/ p[1] = n + 1
    OBVIOUS
  <2>4. \A p \in Nat \X Nat : p[1] = n + 1 /\ p[2] \in 1..m => p \in B
    OBVIOUS
  <2>5. n + 1 \notin 1..n
    OBVIOUS
  <2> HIDE DEF B, m
  <2>6. A \cap B = {}
    BY <2>1, <2>2, <2>5
  <2>7. \A p : p \in A \cup B <=> p \in PlacesUpTo(ss, n + 1)
    BY <2>1, <2>2, <2>3, <2>4, Zenon DEF PlacesUpTo, s, m
  <2> QED BY <2>6, <2>7
<1> HIDE DEF v, B, A
<1>5. Lists(w \o v, PlacesUpTo(ss, n + 1))
  BY <1>2, <1>3, <1>4, ListsBehind
<1>6. /\ u \in Seq(T) /\ Len(u) = a + m
      /\ \A k \in 1..a + m : u[k] = IF k <= a THEN t[k] ELSE s[k - a]
  BY <1>1, ConcatProperties, Zenon DEF a
<1>7. /\ Len(w \o v) = a + m
      /\ \A k \in 1..a + m : (w \o v)[k] = IF k <= a THEN w[k] ELSE v[k - a]
  <2>1. w \in Seq(A \cup B) /\ v \in Seq(A \cup B)
    BY <1>2, <1>3, SeqMonotonic DEF Lists
  <2>2. /\ Len(w \o v) = Len(w) + Len(v)
        /\ \A k \in 1 .. Len(w) + Len(v) : (w \o v)[k] = IF k <= Len(w) THEN w[k] ELSE v[k - Len(w)]
    BY <2>1, ConcatProperties, Zenon
  <2> HIDE DEF m
  <2> QED
    BY <1>2, <1>3, <2>2
<1> DEFINE x == w \o v
<1> HIDE DEF u, x
<1>8. ASSUME NEW b \in 1..a + m
      PROVE  u[b] = ss[x[b][1]][x[b][2]]
  <2>1. x[b] = IF b <= a THEN w[b] ELSE v[b - a]
    BY <1>7 DEF x
  <2>2. CASE b <= a
    <3>1. b \in 1..a
      BY <1>1, <2>2
    <3> QED BY <1>2, <1>6, <2>1, <2>2, <3>1
  <2>3. CASE ~(b <= a)
    <3>1. b - a \in 1..m
      BY <1>1, <2>3
    <3>2. v[b - a] = <<n + 1, b - a>>
      BY <3>1 DEF v
    <3> QED BY <1>6, <2>1, <2>3, <3>2 DEF s
  <2> QED BY <2>2, <2>3
<1>9. Lists(x, PlacesUpTo(ss, n + 1)) /\ Len(x) = Len(u) /\ Len(u) = a + m
  BY <1>5, <1>6, <1>7 DEF x
<1>10. IsFlat(T, u, ss, n + 1)
  BY <1>6, <1>8, <1>9, Zenon DEF IsFlat
<1> QED
  BY <1>10 DEF u, s

(* The recursion in FlattenSeq has a solution, and each of its parts is flat. *)
LEMMA FlattenSolves ==
  ASSUME NEW T, NEW ss \in Seq(Seq(T)), Len(ss) # 0
  PROVE  \E h : /\ FlattenSeq(ss) = h[Len(ss)]
               /\ \A i \in 1..Len(ss) :
                    /\ IsFlat(T, h[i], ss, i)
                    /\ h[i] = IF i = 1 THEN ss[i] ELSE h[i - 1] \o ss[i]
<1> DEFINE n == Len(ss)
           Following(f, i) == IF i = 1 THEN ss[i] ELSE f[i - 1] \o ss[i]
           IsIter(m, f) == f = [i \in 1..m |-> IF i = 1 THEN ss[i] ELSE f[i - 1] \o ss[i]]
           h == CHOOSE f : IsIter(n, f)
<1>1. n \in Nat
  OBVIOUS
<1>3. n # 0
  OBVIOUS
<1>4. FlattenSeq(ss) = h[n] /\ \A i \in 1..n : IsFlat(T, h[i], ss, i) /\ h[i] = Following(h, i)
  <2>1. ASSUME NEW m \in Nat, NEW f, IsIter(m, f)
        PROVE  DOMAIN f = 1..m /\ \A i \in 1..m : f[i] = Following(f, i)
    <3>1. f = [i \in 1..m |-> IF i = 1 THEN ss[i] ELSE f[i - 1] \o ss[i]]
      BY <2>1
    <3>2. DOMAIN f = 1..m
      BY <3>1, Zenon
    <3>3. \A i \in 1..m : f[i] = IF i = 1 THEN ss[i] ELSE f[i - 1] \o ss[i]
      BY <3>1, Zenon
    <3> QED
      BY <3>2, <3>3
  <2>2. ASSUME NEW m \in Nat
        PROVE  \E f : IsIter(m, f)
    <3> DEFINE wrong == {k \in Nat : ~\E f : IsIter(k, f)}
    <3>1. SUFFICES ASSUME wrong # {} PROVE FALSE
      BY Zenon
    <3>2. wrong \in SUBSET Nat
      OBVIOUS
    <3>3. PICK k \in wrong : \A l \in wrong : k <= l
      <4> HIDE DEF wrong
      <4> QED BY <3>1, <3>2, HasLowest
    <3>4. k \in Nat /\ ~\E f : IsIter(k, f)
      BY <3>3
    <3>5. CASE k = 0
      <4> DEFINE g == [i \in 1..0 |-> ss[i]]
      <4>1. IsIter(0, g)
        OBVIOUS
      <4> QED BY <3>4, <3>5, <4>1, Zenon
    <3>6. CASE k # 0
      <4>1. k - 1 \in Nat /\ ~(k <= k - 1)
        BY <3>4, <3>6
      <4>2. k - 1 \notin wrong
        BY <3>3, <4>1
      <4>3. PICK f : IsIter(k - 1, f)
        BY <4>1, <4>2
      <4>4. \A i \in 1..k - 1 : f[i] = Following(f, i)
        BY <2>1, <4>1, <4>3
      <4> DEFINE g == [i \in 1..k |-> Following(f, i)]
      <4>5. ASSUME NEW i \in 1..k
            PROVE  g[i] = Following(g, i)
        <5>1. CASE i = 1
          BY <5>1
        <5>2. CASE i # 1
          <6>1. i - 1 \in 1..k - 1 /\ i - 1 \in 1..k
            BY <3>4, <5>2
          <6>2. g[i - 1] = f[i - 1]
            BY <4>4, <6>1
          <6> QED BY <5>2, <6>2
        <5> QED BY <5>1, <5>2
      <4>6. DOMAIN g = 1..k
        OBVIOUS
      <4>7. g = [i \in 1..k |-> g[i]]
        OBVIOUS
      <4> HIDE DEF g
      <4>8. IsIter(k, g)
        <5>1. \A i \in 1..k : g[i] = IF i = 1 THEN ss[i] ELSE g[i - 1] \o ss[i]
          BY <4>5
        <5> QED BY <4>7, <5>1, Zenon
      <4> QED BY <3>4, <4>8, Zenon
    <3> QED BY <3>5, <3>6
  <2>3. IsIter(n, h)
    <3>1. \E f : IsIter(n, f)
      BY <1>1, <2>2
    <3> HIDE DEF IsIter
    <3> QED BY <3>1
  <2>4. FlattenSeq(ss) = h[n]
    BY <1>3, Zenon DEF FlattenSeq
  <2> HIDE DEF h
  <2>5. \A i \in 1..n : h[i] = Following(h, i)
    BY <1>1, <2>1, <2>3
  <2>6. ASSUME NEW i \in 1..n
        PROVE  IsFlat(T, h[i], ss, i)
    <3> DEFINE wrong == {k \in 1..n : ~IsFlat(T, h[k], ss, k)}
    <3>1. SUFFICES ASSUME wrong # {} PROVE FALSE
      BY Zenon
    <3>2. wrong \in SUBSET Nat
      OBVIOUS
    <3>3. PICK k \in wrong : \A l \in wrong : k <= l
      <4> HIDE DEF wrong
      <4> QED BY <3>1, <3>2, HasLowest
    <3>4. k \in 1..n /\ ~IsFlat(T, h[k], ss, k)
      BY <3>3
    <3>5. CASE k = 1
      <4>1. IsFlat(T, <<>>, ss, 0)
        BY FlatNothing
      <4>2. 0 \in Nat /\ 0 + 1 <= Len(ss) /\ 0 + 1 = 1
        BY <1>1, <1>3
      <4>3. IsFlat(T, <<>> \o ss[1], ss, 1)
        BY <4>1, <4>2, FlatMore
      <4>4. ss[1] \in Seq(T)
        BY <1>1, <1>3
      <4>5. <<>> \o ss[1] = ss[1]
        BY <4>4, ConcatEmptySeq
      <4>6. h[1] = ss[1]
        BY <2>5, <3>4, <3>5
      <4> QED BY <3>4, <3>5, <4>3, <4>5, <4>6
    <3>6. CASE k # 1
      <4>1. k - 1 \in 1..n /\ ~(k <= k - 1) /\ k - 1 \in Nat /\ (k - 1) + 1 = k /\ k <= Len(ss)
        BY <3>4, <3>6
      <4>2. k - 1 \notin wrong
        BY <3>3, <4>1
      <4>3. IsFlat(T, h[k - 1], ss, k - 1)
        BY <4>1, <4>2
      <4>4. IsFlat(T, h[k - 1] \o ss[(k - 1) + 1], ss, (k - 1) + 1)
        <5> DEFINE j == k - 1
        <5>1. j \in Nat /\ j + 1 <= Len(ss) /\ IsFlat(T, h[j], ss, j)
          BY <4>1, <4>3
        <5> HIDE DEF j
        <5>2. IsFlat(T, h[j] \o ss[j + 1], ss, j + 1)
          BY <5>1, FlatMore
        <5> QED BY <5>2 DEF j
      <4>5. h[k] = h[k - 1] \o ss[k]
        BY <2>5, <3>4, <3>6
      <4> QED BY <3>4, <4>1, <4>4, <4>5
    <3> QED BY <3>5, <3>6
  <2> QED
    BY <2>4, <2>5, <2>6
<1> QED
  BY <1>4

LEMMA FlattenIsFlat ==
  ASSUME NEW T, NEW ss \in Seq(Seq(T))
  PROVE  IsFlat(T, FlattenSeq(ss), ss, Len(ss))
<1>1. CASE Len(ss) = 0
  <2>1. ss = <<>>
    BY <1>1, EmptySeq
  <2>2. FlattenSeq(ss) = <<>> /\ Len(ss) = 0
    BY <1>1, <2>1 DEF FlattenSeq
  <2>3. IsFlat(T, <<>>, ss, 0)
    BY FlatNothing
  <2> QED
    BY <2>2, <2>3, Zenon
<1>2. CASE Len(ss) # 0
  <2>1. Len(ss) \in 1..Len(ss)
    BY <1>2
  <2> QED
    BY <1>2, <2>1, FlattenSolves
<1> QED
  BY <1>1, <1>2

(* The last sequence is at its end. *)
LEMMA FlattenEnds ==
  ASSUME NEW T, NEW ss \in Seq(Seq(T)), Len(ss) # 0
  PROVE  \E t \in Seq(T) : FlattenSeq(ss) = t \o ss[Len(ss)]
<1> DEFINE n == Len(ss)
<1>1. n \in Nat /\ n \in 1..n /\ ss[n] \in Seq(T)
  OBVIOUS
<1>2. PICK h : /\ FlattenSeq(ss) = h[n]
              /\ \A i \in 1..n : /\ IsFlat(T, h[i], ss, i)
                                /\ h[i] = IF i = 1 THEN ss[i] ELSE h[i - 1] \o ss[i]
  BY FlattenSolves
<1> HIDE DEF n
<1>3. CASE n = 1
  <2>1. <<>> \o ss[n] = ss[n] /\ <<>> \in Seq(T)
    BY <1>1, ConcatEmptySeq, EmptySeq
  <2>2. h[n] = ss[n]
    BY <1>1, <1>2, <1>3
  <2>3. FlattenSeq(ss) = <<>> \o ss[n]
    BY <1>2, <2>1, <2>2
  <2> QED
    BY <2>1, <2>3 DEF n
<1>4. CASE n # 1
  <2>1. n - 1 \in 1..n
    BY <1>1, <1>4
  <2>2. h[n - 1] \in Seq(T)
    BY <1>2, <2>1 DEF IsFlat
  <2>3. FlattenSeq(ss) = h[n - 1] \o ss[n]
    BY <1>1, <1>2, <1>4
  <2> QED
    BY <2>2, <2>3 DEF n
<1> QED
  BY <1>3, <1>4

(* The members of several sequences that have none in common. *)
AreListed(ss, S, n) ==
  ss = [i \in 1..n |-> ss[i]] /\ \A i \in 1..n : Lists(ss[i], S[i])
AllOf(S, n) == UNION {S[i] : i \in 1..n}
AreApart(S, n) == \A i \in 1..n : \A j \in 1..n : i # j => S[i] \cap S[j] = {}

LEMMA FlattenLists ==
  ASSUME NEW n \in Nat, NEW ss, NEW S,
         AreListed(ss, S, n), AreApart(S, n)
  PROVE  Lists(FlattenSeq(ss), AllOf(S, n))
<1> DEFINE t == FlattenSeq(ss)
           m == Len(t)
           U == UNION {S[i] : i \in 1..n}
           P == PlacesUpTo(ss, n)
<1>1. ss \in Seq(Seq(U)) /\ Len(ss) = n
  <2>1. \A i \in 1..n : ss[i] \in Seq(S[i]) /\ S[i] \subseteq U
    BY DEF AreListed, Lists
  <2> HIDE DEF U
  <2>2. \A i \in 1..n : ss[i] \in Seq(U)
    BY <2>1, SeqMonotonic
  <2> QED BY <2>2 DEF AreListed
<1>2. IsFlat(U, t, ss, n)
  BY <1>1, FlattenIsFlat
<1> HIDE DEF t, m, P
<1>3. PICK w : Lists(w, P) /\ Len(w) = m /\ \A b \in 1..m : t[b] = ss[w[b][1]][w[b][2]]
  BY <1>2 DEF IsFlat, m, P
<1>4. t \in Seq(U) /\ m \in Nat
  <2> HIDE DEF U
  <2> QED BY <1>2 DEF IsFlat, m
<1>5. \A p \in P : /\ p \in Nat \X Nat /\ p[1] \in 1..n /\ p[2] \in 1..Len(ss[p[1]])
  BY DEF P, PlacesUpTo
<1>6. \A i \in 1..n : \A j \in 1..Len(ss[i]) : ss[i][j] \in S[i]
  BY DEF Lists, AreListed
<1>7. \A b \in 1..m : /\ w[b] \in P /\ t[b] \in S[w[b][1]] /\ w[b][1] \in 1..n
                      /\ w[b][2] \in 1..Len(ss[w[b][1]])
  <2>1. \A b \in 1..m : w[b] \in P
    BY <1>3 DEF Lists
  <2> QED BY <1>3, <1>5, <1>6, <2>1
<1>9. ASSUME NEW x \in U
      PROVE  \E b \in 1..m : t[b] = x
  <2>1. PICK i \in 1..n : x \in S[i]
    OBVIOUS
  <2>2. PICK j \in 1..Len(ss[i]) : ss[i][j] = x
    BY <2>1 DEF Lists, AreListed
  <2>3. <<i, j>> \in P
    <3>1. i \in Nat /\ Len(ss[i]) \in Nat
      OBVIOUS
    <3>2. j \in Nat
      BY <3>1
    <3> QED BY <3>1, <3>2 DEF P, PlacesUpTo
  <2>4. PICK b \in 1..m : w[b] = <<i, j>>
    BY <1>3, <2>3 DEF Lists
  <2>5. w[b][1] = i /\ w[b][2] = j
    BY <2>4
  <2> QED BY <1>3, <2>2, <2>5
<1>10. ASSUME NEW b \in 1..m, NEW d \in 1..m, t[b] = t[d]
       PROVE  b = d
  <2>1. w[b][1] = w[d][1]
    BY <1>7, <1>10 DEF AreApart
  <2>2. w[b][2] = w[d][2]
    <3>1. PICK i \in 1..n : i = w[b][1]
      BY <1>7
    <3>2. ss[i][w[b][2]] = ss[i][w[d][2]]
      BY <1>3, <1>10, <2>1, <3>1
    <3>3. PICK j, l : j = w[b][2] /\ l = w[d][2]
      OBVIOUS
    <3>4. j \in 1..Len(ss[i]) /\ l \in 1..Len(ss[i]) /\ ss[i][j] = ss[i][l]
      BY <1>7, <2>1, <3>1, <3>2, <3>3
    <3>5. j = l
      BY <3>4 DEF Lists, AreListed
    <3> QED BY <3>3, <3>5
  <2>3. w[b] = w[d]
    <3>1. \A p \in Nat \X Nat : p = <<p[1], p[2]>>
      OBVIOUS
    <3>2. w[b] \in Nat \X Nat /\ w[d] \in Nat \X Nat
      BY <1>5, <1>7
    <3> QED BY <2>1, <2>2, <3>1, <3>2, Zenon
  <2> QED BY <1>3, <2>3 DEF Lists
<1> QED
  BY <1>4, <1>9, <1>10 DEF Lists, t, m, AllOf

(* A function takes a set to another one, each member to one of its own. *)
IsOneToOne(g, A, B) ==
  /\ \A x \in A : g[x] \in B
  /\ \A x \in A : \A y \in A : g[x] = g[y] => x = y
  /\ \A z \in B : \E x \in A : g[x] = z

(* What a function makes of a sequence. *)
Mapped(w, g) == [b \in 1..Len(w) |-> g[w[b]]]

LEMMA ListsMapped ==
  ASSUME NEW A, NEW B, NEW w, Lists(w, A), NEW g, IsOneToOne(g, A, B)
  PROVE  Lists(Mapped(w, g), B)
<1> DEFINE n == Len(w)
           v == Mapped(w, g)
<1>1. n \in Nat /\ \A b \in 1..n : w[b] \in A
  BY DEF Lists
<1>2. v \in Seq(B) /\ Len(v) = n /\ \A b \in 1..n : v[b] = g[w[b]]
  <2>1. \A b \in 1..n : g[w[b]] \in B
    BY <1>1 DEF IsOneToOne
  <2>2. v = [b \in 1..n |-> g[w[b]]]
    BY DEF Mapped
  <2> HIDE DEF n, v
  <2> QED BY <1>1, <2>1, <2>2
<1>3. ASSUME NEW k \in 1..n, NEW l \in 1..n, v[k] = v[l]
      PROVE  k = l
  <2>1. g[w[k]] = g[w[l]] /\ w[k] \in A /\ w[l] \in A
    BY <1>1, <1>2, <1>3
  <2>2. w[k] = w[l]
    BY <2>1 DEF IsOneToOne
  <2> QED
    BY <2>2 DEF Lists
<1>4. ASSUME NEW z \in B
      PROVE  \E k \in 1..n : v[k] = z
  <2>1. PICK x \in A : g[x] = z
    BY DEF IsOneToOne
  <2>2. PICK k \in 1..n : w[k] = x
    BY DEF Lists
  <2> QED
    BY <1>2, <2>1, <2>2
<1> HIDE DEF v
<1> QED
  BY <1>2, <1>3, <1>4, Zenon DEF Lists, v, n

-----------------------------------------------------------------------------
(* The hash table. *)

(* The number of buckets is a power of two of at most 31 bits. *)
LEMMA NumBucketsType == \A n : NumBuckets(n) \in Nat \ {0}
<1> TAKE n
<1> DEFINE smaller == {k \in 0..30 : 2 ^ k < n}
<1>1. smaller \subseteq 0..30
  OBVIOUS
<1> HIDE DEF smaller
<1>2. 0 \in Int /\ 30 \in Int
  OBVIOUS
<1>3. IsFiniteSet(0..30) /\ Cardinality(0..30) = IF 0 > 30 THEN 0 ELSE 30 - 0 + 1
  BY <1>2, FS_Interval, Zenon
<1>4. Cardinality(0..30) = 31
  BY <1>3
<1>5. IsFiniteSet(smaller) /\ Cardinality(smaller) <= Cardinality(0..30)
  BY <1>1, <1>3, FS_Subset
<1>6. Cardinality(smaller) \in Nat
  BY <1>5, FS_CardinalityType
<1>7. Cardinality(smaller) \in 0..31
  BY <1>4, <1>5, <1>6
<1>8. NumBuckets(n) = 2 ^ Cardinality(smaller)
  BY DEF NumBuckets, smaller
<1> QED
  BY <1>7, <1>8, PowersOfTwo

-----------------------------------------------------------------------------
(* Tables on n rows. *)
Table(n) ==
  [buckets : [0 .. NumBuckets(n) - 1 -> 0..n], next : [1..n -> {Unwritten} \cup 0..n]]

(* The rows that were inserted. *)
Entered(t) == {p \in Positions(t) : t.next[p] # Unwritten}

(* Chains go through inserted rows only, and through none of them twice. *)
WellChained(t) ==
  /\ IsClosed(t, Entered(t))
  /\ \A i \in DOMAIN t.buckets : t.buckets[i] \in Entered(t) \cup {EndOfChain}
  /\ \A p \in Entered(t) : p \notin Walk(t, t.next[p])

LEMMA BucketOfType ==
  ASSUME NEW n \in Nat, NEW t \in Table(n), NEW h \in Nat
  PROVE  BucketOf(t, h) \in 0 .. NumBuckets(n) - 1
<1>1. Positions(t) = 1..n
  BY DEF Positions, Table
<1>2. 1 \in Int /\ n \in Int
  OBVIOUS
<1>3. Cardinality(1..n) = IF 1 > n THEN 0 ELSE n - 1 + 1
  BY <1>2, FS_Interval, Zenon
<1>4. Cardinality(Positions(t)) = n
  BY <1>1, <1>3
<1>6. NumBuckets(n) \in Nat \ {0}
  BY NumBucketsType
<1>7. BucketOf(t, h) = h % NumBuckets(n)
  BY <1>4 DEF BucketOf
<1> QED
  BY <1>6, <1>7

(* A walk is the least closed set with its start. *)
LEMMA WalkIsLeast ==
  ASSUME NEW t, NEW S \in SUBSET Positions(t), IsClosed(t, S),
         NEW p \in S \cup {EndOfChain}
  PROVE  Walk(t, p) \subseteq S
BY DEF Walk

LEMMA WalkIsClosed ==
  ASSUME NEW t, NEW S \in SUBSET Positions(t), IsClosed(t, S),
         NEW p \in S \cup {EndOfChain}
  PROVE  /\ Walk(t, p) \subseteq Positions(t)
         /\ IsClosed(t, Walk(t, p))
         /\ p \in Walk(t, p) \cup {EndOfChain}
<1>1. Walk(t, p) \subseteq Positions(t)
  BY DEF Walk
<1>2. ASSUME NEW q \in Walk(t, p), t.next[q] # EndOfChain
      PROVE  t.next[q] \in Walk(t, p)
  <2>1. t.next[q] \in Positions(t)
    BY <1>2, WalkIsLeast DEF IsClosed
  <2>2. ASSUME NEW T \in SUBSET Positions(t), IsClosed(t, T), p \in T \cup {EndOfChain}
        PROVE  t.next[q] \in T
    <3>1. q \in T
      BY <2>2, WalkIsLeast
    <3> QED
      BY <1>2, <2>2, <3>1 DEF IsClosed
  <2> QED
    BY <2>1, <2>2 DEF Walk
<1>3. p # EndOfChain => p \in Walk(t, p)
  BY DEF Walk
<1> QED
  BY <1>1, <1>2, <1>3 DEF IsClosed

LEMMA ChainsAreEntered ==
  ASSUME NEW n \in Nat, NEW t \in Table(n), WellChained(t), NEW h \in Nat
  PROVE  /\ Chain(t, h) \subseteq Entered(t)
         /\ Entered(t) \subseteq 1..n
<1>1. BucketOf(t, h) \in DOMAIN t.buckets
  BY BucketOfType DEF Table
<1>2. Entered(t) \subseteq Positions(t) /\ Positions(t) = 1..n
  BY DEF Entered, Positions, Table
<1> QED
  BY <1>1, <1>2, WalkIsLeast DEF WellChained, Chain

-----------------------------------------------------------------------------
(* A new table has no rows. *)
LEMMA NewTableIsEmpty ==
  ASSUME NEW n \in Nat
  PROVE  /\ NewTable(n) \in Table(n)
         /\ WellChained(NewTable(n))
         /\ Entered(NewTable(n)) = {}
<1>1. NumBuckets(n) \in Nat \ {0}
  BY NumBucketsType
<1>2. NewTable(n) \in Table(n)
  BY <1>1 DEF NewTable, Table, EndOfChain, Unwritten
<1>3. Entered(NewTable(n)) = {}
  BY DEF Entered, Positions, NewTable
<1>4. \A i \in DOMAIN NewTable(n).buckets : NewTable(n).buckets[i] = EndOfChain
  BY DEF NewTable
<1> QED
  BY <1>2, <1>3, <1>4 DEF WellChained, IsClosed

(* What Push changes: one next position and one bucket. *)
LEMMA PushChanges ==
  ASSUME NEW n \in Nat, NEW t \in Table(n), NEW p \in 1..n, NEW h \in Nat
  PROVE  LET u == Push(t, p, h)
         IN  /\ u \in Table(n)
             /\ Positions(u) = 1..n /\ DOMAIN u.buckets = DOMAIN t.buckets
             /\ u.next[p] = t.buckets[BucketOf(t, h)]
             /\ \A q \in 1..n : q # p => u.next[q] = t.next[q]
             /\ u.buckets[BucketOf(t, h)] = p
             /\ \A i \in DOMAIN t.buckets : i # BucketOf(t, h) => u.buckets[i] = t.buckets[i]
             /\ \A w : BucketOf(u, w) = BucketOf(t, w)
<1>1. BucketOf(t, h) \in 0 .. NumBuckets(n) - 1
  BY BucketOfType
<1> DEFINE b == BucketOf(t, h)
<1>2. Push(t, p, h) = [t EXCEPT !.next[p] = t.buckets[b], !.buckets[b] = p]
  BY DEF Push
<1>3. t.buckets[b] \in 0..n
  BY <1>1 DEF Table
<1> HIDE DEF b
<1>4. /\ t = [buckets |-> t.buckets, next |-> t.next]
      /\ t.buckets \in [0 .. NumBuckets(n) - 1 -> 0..n]
      /\ t.next \in [1..n -> {Unwritten} \cup 0..n]
  BY DEF Table
<1>5. Push(t, p, h) = [buckets |-> [t.buckets EXCEPT ![b] = p],
                       next |-> [t.next EXCEPT ![p] = t.buckets[b]]]
  BY <1>2, <1>4
<1>6. b \in 0 .. NumBuckets(n) - 1
  BY <1>1 DEF b
<1>7. /\ [t.buckets EXCEPT ![b] = p] \in [0 .. NumBuckets(n) - 1 -> 0..n]
      /\ [t.next EXCEPT ![p] = t.buckets[b]] \in [1..n -> {Unwritten} \cup 0..n]
  BY <1>3, <1>4, <1>6
<1>8. Push(t, p, h) \in Table(n)
  BY <1>5, <1>7 DEF Table
<1>9. /\ Positions(Push(t, p, h)) = 1..n /\ DOMAIN Push(t, p, h).buckets = DOMAIN t.buckets
      /\ Push(t, p, h).next[p] = t.buckets[b]
      /\ \A q \in 1..n : q # p => Push(t, p, h).next[q] = t.next[q]
      /\ Push(t, p, h).buckets[b] = p
      /\ \A i \in DOMAIN t.buckets : i # b => Push(t, p, h).buckets[i] = t.buckets[i]
  <2> DEFINE u == Push(t, p, h)
  <2>1. u.next = [t.next EXCEPT ![p] = t.buckets[b]] /\ u.buckets = [t.buckets EXCEPT ![b] = p]
    BY <1>5
  <2> HIDE DEF u
  <2>2. DOMAIN t.next = 1..n /\ DOMAIN t.buckets = 0 .. NumBuckets(n) - 1
    BY <1>4
  <2> QED
    BY <1>6, <2>1, <2>2 DEF Positions, u
<1>10. Positions(t) = 1..n
  BY DEF Positions, Table
<1> QED
  BY <1>8, <1>9, <1>10 DEF b, BucketOf

(* Inserting a row that its value's chain does not contain.  The chain the row was
   in until then, if any, goes on with the chain of the value: neither can
   come back to the row.                                                   *)
THEOREM PushKeepsChains ==
  ASSUME NEW n \in Nat, NEW t \in Table(n), WellChained(t),
         NEW p \in 1..n, NEW h \in Nat, p \notin Chain(t, h)
  PROVE  /\ Push(t, p, h) \in Table(n)
         /\ WellChained(Push(t, p, h))
         /\ Entered(Push(t, p, h)) = Entered(t) \cup {p}
         /\ p \in Chain(Push(t, p, h), h)
<1> DEFINE u == Push(t, p, h)
           b == BucketOf(t, h)
           first == t.buckets[b]
           R == Entered(t)
<1>1. /\ u \in Table(n)
      /\ Positions(u) = 1..n /\ DOMAIN u.buckets = DOMAIN t.buckets
      /\ u.next[p] = first
      /\ \A q \in 1..n : q # p => u.next[q] = t.next[q]
      /\ u.buckets[b] = p
      /\ \A i \in DOMAIN t.buckets : i # b => u.buckets[i] = t.buckets[i]
      /\ \A w : BucketOf(u, w) = BucketOf(t, w)
  BY PushChanges
<1>2. b \in DOMAIN t.buckets
  BY BucketOfType DEF Table
<1>3. /\ first \in R \cup {EndOfChain} /\ IsClosed(t, R)
      /\ \A q \in R : q \notin Walk(t, t.next[q])
  BY <1>2 DEF WellChained
<1>4. Positions(t) = 1..n /\ R \subseteq 1..n
  BY DEF Positions, Table, Entered
<1>5. p \notin Walk(t, first)
  BY DEF Chain
<1>6. EndOfChain # Unwritten /\ p # EndOfChain /\ EndOfChain \notin 1..n /\ Unwritten \notin 1..n
  BY DEF EndOfChain, Unwritten
<1>7. \A q \in 1..n : q \in Entered(u) <=> u.next[q] # Unwritten
  BY <1>1 DEF Entered
<1>8. \A q \in 1..n : q \in R <=> t.next[q] # Unwritten
  BY <1>4 DEF Entered
<1>9. Entered(u) \subseteq 1..n
  BY <1>1 DEF Entered
<1> HIDE DEF u, first, R
<1>10. Entered(u) = R \cup {p}
  <2>1. first # Unwritten
    BY <1>3, <1>4, <1>6
  <2>2. \A q \in 1..n : q \in Entered(u) <=> q \in R \cup {p}
    BY <1>1, <1>7, <1>8, <2>1
  <2> QED
    BY <1>4, <1>9, <2>2
<1>11. IsClosed(u, R \cup {p})
  BY <1>1, <1>3, <1>4 DEF IsClosed
<1>12. \A i \in DOMAIN u.buckets : u.buckets[i] \in R \cup {p} \cup {EndOfChain}
  BY <1>1 DEF WellChained, R
<1>13. \A S \in SUBSET (1..n) : IsClosed(t, S) /\ p \notin S => IsClosed(u, S)
  BY <1>1 DEF IsClosed
<1>14. /\ Walk(t, first) \in SUBSET (1..n) /\ IsClosed(t, Walk(t, first))
       /\ first \in Walk(t, first) \cup {EndOfChain}
  <2>1. R \in SUBSET Positions(t)
    BY <1>4
  <2> QED
    BY <1>3, <1>4, <2>1, WalkIsClosed
<1>15. p \notin Walk(u, u.next[p])
  <2>1. Walk(u, first) \subseteq Walk(t, first)
    BY <1>1, <1>5, <1>13, <1>14, WalkIsLeast
  <2> QED
    BY <1>1, <1>5, <2>1
<1>16. ASSUME NEW q \in R, q # p
       PROVE  q \notin Walk(u, u.next[q])
  <2> DEFINE x == t.next[q]
             W == Walk(t, x)
  <2>1. x \in R \cup {EndOfChain}
    BY <1>3 DEF IsClosed
  <2>2. u.next[q] = x
    BY <1>1, <1>4, <1>16
  <2>3. W \in SUBSET (1..n) /\ IsClosed(t, W) /\ x \in W \cup {EndOfChain}
    <3>1. R \in SUBSET Positions(t)
      BY <1>4
    <3> HIDE DEF x
    <3> QED
      BY <1>3, <1>4, <2>1, <3>1, WalkIsClosed
  <2>4. q \notin W
    BY <1>3
  <2> HIDE DEF W
  <2>5. CASE p \notin W
    <3>1. Walk(u, x) \subseteq W
      BY <1>1, <1>13, <2>3, <2>5, WalkIsLeast
    <3> QED
      BY <2>2, <2>4, <3>1
  <2>6. CASE p \in W
    <3>1. q \notin Walk(t, first)
      <4>1. SUFFICES ASSUME q \in Walk(t, first) PROVE FALSE
        OBVIOUS
      <4>2. x \in Walk(t, first) \cup {EndOfChain}
        BY <1>14, <4>1 DEF IsClosed
      <4>3. Walk(t, x) \subseteq Walk(t, first)
        <5> HIDE DEF x
        <5> QED BY <1>4, <1>14, <4>2, WalkIsLeast
      <4> QED
        BY <1>5, <2>6, <4>3 DEF W
    <3>2. IsClosed(u, W \cup Walk(t, first))
      <4> SUFFICES ASSUME NEW r \in W \cup Walk(t, first)
                   PROVE  u.next[r] \in W \cup Walk(t, first) \cup {EndOfChain}
        BY DEF IsClosed
      <4>1. CASE r = p
        BY <1>1, <1>14, <4>1
      <4>2. CASE r # p
        BY <1>1, <1>14, <2>3, <4>2 DEF IsClosed
      <4> QED
        BY <4>1, <4>2
    <3>3. Walk(u, x) \subseteq W \cup Walk(t, first)
      <4>1. W \cup Walk(t, first) \in SUBSET Positions(u)
        BY <1>1, <1>14, <2>3
      <4>2. x \in (W \cup Walk(t, first)) \cup {EndOfChain}
        BY <2>3
      <4> HIDE DEF x
      <4> QED
        BY <3>2, <4>1, <4>2, WalkIsLeast
    <3> QED
      BY <2>2, <2>4, <3>1, <3>3
  <2> QED
    BY <2>5, <2>6
<1>17. WellChained(u)
  BY <1>10, <1>11, <1>12, <1>15, <1>16 DEF WellChained
<1>18. p \in Chain(u, h)
  <2>1. R \cup {p} \in SUBSET Positions(u)
    BY <1>1, <1>4
  <2>2. p \in Walk(u, p)
    BY <1>6, <1>11, <2>1, WalkIsClosed
  <2> QED
    BY <1>1, <2>2 DEF Chain
<1> QED
  BY <1>1, <1>10, <1>17, <1>18 DEF u, R

(* No chain loses a row when a new row is inserted, and every chain ends at a
   row that was inserted.                                                  *)
THEOREM PushKeepsRows ==
  ASSUME NEW n \in Nat, NEW t \in Table(n), WellChained(t),
         NEW p \in 1..n, NEW h \in Nat, p \notin Entered(t), NEW w \in Nat
  PROVE  Chain(t, w) \subseteq Chain(Push(t, p, h), w)
<1> DEFINE u == Push(t, p, h)
           b == BucketOf(t, h)
           R == Entered(t)
<1>1. /\ Positions(u) = 1..n
      /\ u.next[p] = t.buckets[b]
      /\ \A q \in 1..n : q # p => u.next[q] = t.next[q]
      /\ u.buckets[b] = p
      /\ \A i \in DOMAIN t.buckets : i # b => u.buckets[i] = t.buckets[i]
      /\ BucketOf(u, w) = BucketOf(t, w)
  BY PushChanges
<1>2. b \in DOMAIN t.buckets /\ BucketOf(t, w) \in DOMAIN t.buckets
  BY BucketOfType DEF Table
<1>3. Positions(t) = 1..n /\ R \subseteq 1..n /\ IsClosed(t, R)
  BY DEF Positions, Table, Entered, WellChained
<1>4. /\ t.buckets[b] \in R \cup {EndOfChain}
      /\ t.buckets[BucketOf(t, w)] \in R \cup {EndOfChain}
  BY <1>2 DEF WellChained
<1>5. Chain(t, w) \subseteq R
  BY ChainsAreEntered
<1>6. p \notin R /\ EndOfChain \notin 1..n
  BY DEF EndOfChain
<1> HIDE DEF u, R
<1> SUFFICES ASSUME NEW q \in Chain(t, w),
                    NEW S \in SUBSET (1..n), IsClosed(u, S),
                    u.buckets[BucketOf(u, w)] \in S \cup {EndOfChain}
             PROVE  q \in S
  BY <1>1, <1>3, <1>5 DEF Chain, Walk, u
<1>7. IsClosed(t, S \cap R)
  BY <1>1, <1>3, <1>6 DEF IsClosed
<1>8. t.buckets[BucketOf(t, w)] \in (S \cap R) \cup {EndOfChain}
  <2>1. CASE BucketOf(t, w) = b
    <3>1. p \in S
      BY <1>1, <1>6, <2>1
    <3>2. t.buckets[b] \in S \cup {EndOfChain}
      BY <1>1, <3>1 DEF IsClosed
    <3> QED
      BY <1>4, <2>1, <3>2
  <2>2. CASE BucketOf(t, w) # b
    BY <1>1, <1>2, <1>4, <2>2
  <2> QED
    BY <2>1, <2>2
<1>9. Walk(t, t.buckets[BucketOf(t, w)]) \subseteq S \cap R
  BY <1>3, <1>7, <1>8, WalkIsLeast
<1> QED
  BY <1>9 DEF Chain

(* Every lookup in such a table ends, and follows written positions only. *)
THEOREM WellChainedEnds ==
  ASSUME NEW n \in Nat, NEW t \in Table(n), WellChained(t)
  PROVE  EveryWalkEnds(t)
<1> SUFFICES ASSUME NEW i \in DOMAIN t.buckets, NEW p \in Walk(t, t.buckets[i])
             PROVE  t.next[p] # Unwritten /\ p \notin Walk(t, t.next[p])
  BY DEF EveryWalkEnds
<1>1. Entered(t) \in SUBSET Positions(t)
  BY DEF Entered
<1>2. p \in Entered(t)
  BY <1>1, WalkIsLeast DEF WellChained
<1> QED
  BY <1>2 DEF WellChained, Entered
=============================================================================
