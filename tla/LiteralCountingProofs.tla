----------------------- MODULE LiteralCountingProofs ------------------------
(***************************************************************************)
(* The counting pipeline for every input, every column, every hash, every  *)
(* number of partitions and every size of a cache line and a chunk.        *)
(*                                                                         *)
(* Radix partitioning: each partition holds exactly its rows, in their     *)
(* order.  A row's slot is known from the start: the offset of its         *)
(* partition and its rank among the partition's rows.  The invariant says  *)
(* where a row is until it is there, and that it stays.                    *)
(*                                                                         *)
(* Merging: as long as a literal of a plan is missing there is a pair of   *)
(* nodes to merge, and a pair that makes no literal is chosen for ever.    *)
(*                                                                         *)
(* The tables of a variable: its candidates fall into groups of one        *)
(* relation and join key; the plan that is made from the tests of a group  *)
(* is kept with that group and finds exactly the literals that hold.  The  *)
(* hash tables hold exactly the rows of their partitions.                  *)
(***************************************************************************)
EXTENDS BindingTables, StructureProofs

-----------------------------------------------------------------------------
(* The plan by itself, for every family of candidate literals: whatever
   pairs of nodes are merged, in which order, and although a merge may read
   its nodes after they were freed, each literal of the plan has one node,
   that node tests the atoms of the literal, its parts come before it in the
   plan, and no conjunction is in the plan for nothing.                    *)


(* An equality test: an argument and a clause variable. *)
Test == Nat \X Nat

Node ==
  [atoms : SUBSET Nat, ids : SUBSET Nat, mergeable : Seq(Nat), literal : Nat,
   left : Nat, right : Nat, references : Nat]

Conjunctions == NumAtoms + 1..Len(nodes)
PartsOf(k) == {nodes[k].left, nodes[k].right}

(* The conjunctions node k is a part of. *)
UsersOf(k) == {m \in Conjunctions : k \in PartsOf(m)}

(* The literals differ in their tests. *)
LiteralsInv ==
  /\ atoms \in Seq(Test)
  /\ literals \in Seq(SUBSET (1..NumAtoms))
  /\ \A i, j \in 1..Len(literals) : literals[i] = literals[j] => i = j
  /\ remaining \in SUBSET Longer(literals)

NodesInv ==
  /\ nodes \in Seq(Node) /\ NumAtoms <= Len(nodes)
  /\ \A k \in 1..Len(nodes) :
       /\ nodes[k].atoms \in SUBSET (1..NumAtoms) /\ nodes[k].ids \in SUBSET remaining
       /\ \A j \in 1..Len(nodes[k].mergeable) : nodes[k].mergeable[j] \in 1..Len(nodes) \ {k}
       /\ nodes[k].references = Cardinality(UsersOf(k))
  /\ \A k \in 1..NumAtoms :
       /\ nodes[k].atoms = {k} /\ nodes[k].literal = 0
       /\ nodes[k].left = 0 /\ nodes[k].right = 0
       /\ NumAtoms > 1 => nodes[k].mergeable # <<>>
  /\ \A k \in Conjunctions :
       /\ nodes[k].left \in 1..k - 1 /\ nodes[k].right \in 1..k - 1
       /\ nodes[k].left # nodes[k].right

(* The literals that were found are those that nodes hold, each by one node. *)
FoundInv ==
  /\ \A k \in 1..Len(nodes) :
       nodes[k].literal # 0 => nodes[k].literal \in Longer(literals) \ remaining
  /\ \A i \in Longer(literals) \ remaining : \E k \in 1..Len(nodes) : nodes[k].literal = i
  /\ \A k, m \in 1..Len(nodes) :
       nodes[k].literal # 0 /\ nodes[k].literal = nodes[m].literal => k = m

(* What the trees below the nodes ns test, when the first a of them are atoms. *)
IsTests(ns, a, f) ==
  f = [k \in 1..Len(ns) |-> IF k <= a THEN {k} ELSE f[ns[k].left] \cup f[ns[k].right]]

(* A node from which a literal may yet be found has the atoms its tree tests, and
   so has the node of a literal.                                           *)
TestsInv(f) ==
  /\ IsTests(nodes, NumAtoms, f)
  /\ \A k \in 1..Len(nodes) :
       /\ nodes[k].ids # {} => f[k] = nodes[k].atoms
       /\ nodes[k].literal # 0 => f[k] = literals[nodes[k].literal]

PlanInv == LiteralsInv /\ NodesInv /\ FoundInv /\ \E f : TestsInv(f)

-----------------------------------------------------------------------------
LEMMA NoPlanningIsPlan == NoPlanning => PlanInv
<1> SUFFICES ASSUME NoPlanning PROVE PlanInv
  OBVIOUS
<1>1. /\ atoms = <<>> /\ literals = <<>> /\ nodes = <<>> /\ remaining = {}
  BY DEF NoPlanning
<1>2. /\ <<>> \in Seq(Test) /\ <<>> \in Seq(Node) /\ <<>> \in Seq(SUBSET (1..NumAtoms))
      /\ Len(<<>>) = 0 /\ DOMAIN <<>> = {}
  BY EmptySeq
<1>3. NumAtoms = 0 /\ Len(nodes) = 0 /\ Len(literals) = 0 /\ Longer(literals) = {}
  BY <1>1, <1>2 DEF NumAtoms, Longer
<1>4. 1..0 = {} /\ 0 + 1..0 = {}
  OBVIOUS
<1>5. LiteralsInv
  BY <1>1, <1>2, <1>3, <1>4 DEF LiteralsInv
<1>6. NodesInv
  BY <1>1, <1>2, <1>3, <1>4 DEF NodesInv, Conjunctions
<1>7. FoundInv
  BY <1>1, <1>3, <1>4 DEF FoundInv
<1>8. TestsInv([k \in {} |-> {}])
  BY <1>1, <1>3, <1>4 DEF TestsInv, IsTests
<1> QED
  BY <1>5, <1>6, <1>7, <1>8 DEF PlanInv

-----------------------------------------------------------------------------
(* Every test that is used has an atom. *)
LEMMA FirstUsesAreAll ==
  ASSUME NEW T, NEW s \in Seq(T)
  PROVE  /\ FirstUses(s) \in Seq(T)
         /\ \A i \in 1..Len(s) : \E k \in 1..Len(FirstUses(s)) : FirstUses(s)[k] = s[i]
<1> DEFINE S == {i \in DOMAIN s : \A j \in 1..i - 1 : s[j] # s[i]}
           r == RowsIn(s, S)
           c == Cardinality(S)
<1>1. DOMAIN s = 1..Len(s) /\ Len(s) \in Nat
  OBVIOUS
<1>2. S \in SUBSET (1..Len(s)) /\ S \in SUBSET Int
  BY <1>1
<1>3. FirstUses(s) = r
  BY DEF FirstUses
<1>4. ASSUME NEW i \in 1..Len(s)
      PROVE  \E j \in S : s[j] = s[i]
  <2> DEFINE same == {j \in 1..Len(s) : s[j] = s[i]}
  <2>1. same \in SUBSET Nat /\ i \in same
    OBVIOUS
  <2>2. PICK k \in same : \A j \in same : k <= j
    <3> HIDE DEF same
    <3> QED BY <2>1, HasLowest
  <2>3. \A j \in 1..k - 1 : j \in 1..Len(s) /\ ~(k <= j)
    BY <1>1
  <2>4. \A j \in 1..k - 1 : s[j] # s[k]
    BY <2>2, <2>3
  <2>5. k \in S
    BY <1>1, <2>4
  <2> QED
    BY <2>5
<1> HIDE DEF S
<1>5. /\ IsFiniteSet(S) /\ c \in Nat
      /\ r \in Seq(T) /\ Len(r) = c
      /\ \A k \in 1..c : r[k] = s[Nth(S, k)]
  BY <1>2, RowsInType
<1>6. ASSUME NEW i \in 1..Len(s)
      PROVE  \E k \in 1..c : r[k] = s[i]
  <2>1. PICK j \in S : s[j] = s[i]
    BY <1>4
  <2>2. Rank(S, j) \in 1..c /\ Nth(S, Rank(S, j)) = j
    BY <1>2, <1>5, RankBounds, NthOfRank
  <2> QED
    BY <1>5, <2>1, <2>2
<1> QED
  BY <1>3, <1>5, <1>6

(* ... also when the literals' tests are given one behind the other. *)
LEMMA FlatHasAll ==
  ASSUME NEW T, NEW ss \in Seq(Seq(T)), NEW i \in 1..Len(ss), NEW j \in 1..Len(ss[i])
  PROVE  /\ FlattenSeq(ss) \in Seq(T)
         /\ \E b \in 1..Len(FlattenSeq(ss)) : FlattenSeq(ss)[b] = ss[i][j]
<1> DEFINE t == FlattenSeq(ss)
           P == PlacesUpTo(ss, Len(ss))
<1>1. IsFlat(T, t, ss, Len(ss))
  BY FlattenIsFlat
<1> HIDE DEF t
<1>2. /\ t \in Seq(T)
      /\ \E w : /\ Lists(w, P) /\ Len(w) = Len(t)
                /\ \A b \in 1..Len(t) : t[b] = ss[w[b][1]][w[b][2]]
  BY <1>1 DEF IsFlat
<1>3. PICK w : /\ Lists(w, P) /\ Len(w) = Len(t)
               /\ \A b \in 1..Len(t) : t[b] = ss[w[b][1]][w[b][2]]
  BY <1>2
<1>4. <<i, j>> \in P
  <2>1. ss[i] \in Seq(T)
    OBVIOUS
  <2>2. i \in Nat /\ j \in Nat
    BY <2>1
  <2> QED
    BY <2>2 DEF PlacesUpTo
<1> HIDE DEF P
<1>5. PICK b \in 1..Len(t) : w[b] = <<i, j>>
  BY <1>3, <1>4 DEF Lists
<1>6. t[b] = ss[i][j]
  BY <1>3, <1>5
<1> QED
  BY <1>2, <1>6 DEF t

(* The literals are the candidates, whose tests are those of their atoms. *)
IsFamily(candidates) ==
  /\ Len(literals) = Len(candidates)
  /\ \A i \in 1..Len(candidates) : \A x :
       Contains(candidates[i], x) <=> \E k \in literals[i] : atoms[k] = x

LEMMA FamilyStarts ==
  ASSUME NEW candidates \in Seq(Seq(Test)), StartPlan(candidates)
  PROVE  /\ atoms' \in Seq(Test)
         /\ literals' \in Seq(SUBSET (1..Len(atoms')))
         /\ remaining' = Longer(literals')
         /\ IsFamily(candidates)'
<1> DEFINE used == FlattenSeq(candidates)
           A == atoms'
<1>1. A = FirstUses(used) /\ used \in Seq(Test)
  <2>1. used \in Seq(Test)
    BY FlattenIsFlat DEF IsFlat
  <2> QED BY <2>1 DEF StartPlan
<1>2. /\ A \in Seq(Test)
      /\ \A b \in 1..Len(used) : \E k \in 1..Len(A) : A[k] = used[b]
  <2> HIDE DEF used
  <2> QED BY <1>1, FirstUsesAreAll
<1>3. /\ literals' = [i \in DOMAIN candidates |->
                        {k \in DOMAIN A : Contains(candidates[i], A[k])}]
      /\ remaining' = Longer(literals')
  BY DEF StartPlan
<1> HIDE DEF A
<1>4. /\ DOMAIN candidates = 1..Len(candidates) /\ DOMAIN A = 1..Len(A)
      /\ Len(candidates) \in Nat /\ Len(A) \in Nat
  BY <1>2
<1>5. /\ literals' \in Seq(SUBSET (1..Len(A))) /\ Len(literals') = Len(candidates)
      /\ \A i \in 1..Len(candidates) :
           literals'[i] = {k \in 1..Len(A) : Contains(candidates[i], A[k])}
  BY <1>3, <1>4
<1>6. ASSUME NEW i \in 1..Len(candidates), NEW x, Contains(candidates[i], x)
      PROVE  \E k \in literals'[i] : A[k] = x
  <2>1. PICK n \in 1..Len(candidates[i]) : candidates[i][n] = x
    BY <1>6 DEF Contains
  <2>2. PICK b \in 1..Len(used) : used[b] = x
    <3> HIDE DEF used
    <3>1. \E b \in 1..Len(FlattenSeq(candidates)) : FlattenSeq(candidates)[b] = candidates[i][n]
      BY FlatHasAll
    <3> QED BY <2>1, <3>1 DEF used
  <2>3. PICK k \in 1..Len(A) : A[k] = x
    BY <1>2, <2>2
  <2>4. k \in literals'[i]
    BY <1>5, <1>6, <2>3
  <2> QED BY <2>3, <2>4
<1>7. \A i \in 1..Len(candidates) : \A x :
        Contains(candidates[i], x) <=> \E k \in literals'[i] : A[k] = x
  BY <1>5, <1>6
<1> QED
  BY <1>2, <1>3, <1>5, <1>7 DEF IsFamily, A

(* No two literals have the same tests. *)
AreDistinct(candidates) ==
  \A i, j \in 1..Len(candidates) :
    (\A x \in Test : Contains(candidates[i], x) <=> Contains(candidates[j], x)) => i = j

LEMMA AtomsTellApart ==
  ASSUME NEW candidates \in Seq(Seq(Test)), AreDistinct(candidates),
         StartPlan(candidates)
  PROVE  LiteralsInv'
<1>1. /\ atoms' \in Seq(Test) /\ literals' \in Seq(SUBSET (1..Len(atoms')))
      /\ remaining' = Longer(literals') /\ IsFamily(candidates)'
  BY FamilyStarts
<1>2. /\ Len(literals') = Len(candidates)
      /\ \A i \in 1..Len(candidates) : \A x :
           Contains(candidates[i], x) <=> \E k \in literals'[i] : atoms'[k] = x
  BY <1>1 DEF IsFamily
<1>3. ASSUME NEW i \in 1..Len(literals'), NEW j \in 1..Len(literals'), literals'[i] = literals'[j]
      PROVE  i = j
  <2>1. i \in 1..Len(candidates) /\ j \in 1..Len(candidates)
    BY <1>2
  <2>2. \A x \in Test : Contains(candidates[i], x) <=> Contains(candidates[j], x)
    BY <1>2, <1>3, <2>1, Zenon
  <2> QED BY <2>1, <2>2 DEF AreDistinct
<1>4. NumAtoms' = Len(atoms')
  BY DEF NumAtoms
<1> QED
  BY <1>1, <1>3, <1>4 DEF LiteralsInv

LEMMA StartKeepsPlan ==
  ASSUME NEW candidates \in Seq(Seq(Test)), AreDistinct(candidates),
         StartPlan(candidates)
  PROVE  PlanInv'
<1> DEFINE n == Len(atoms')
           N == nodes'
<1>1. LiteralsInv'
  BY AtomsTellApart
<1>2. /\ n \in Nat /\ DOMAIN atoms' = 1..n /\ NumAtoms' = n
      /\ literals' \in Seq(SUBSET (1..n))
      /\ remaining' = Longer(literals') /\ remaining' \in SUBSET Nat
  <2>1. atoms' \in Seq(Test) /\ literals' \in Seq(SUBSET (1..NumAtoms'))
    BY <1>1 DEF LiteralsInv
  <2>2. remaining' = Longer(literals')
    BY DEF StartPlan
  <2>3. Longer(literals') \in SUBSET Nat
    BY <2>1 DEF Longer
  <2> QED BY <2>1, <2>2, <2>3 DEF NumAtoms
<1>3. N = [k \in 1..n |->
            [atoms |-> {k},
             ids |-> {i \in remaining' : k \in literals'[i]},
             mergeable |-> OthersNewestFirst(n, k),
             literal |-> 0, left |-> 0, right |-> 0, references |-> 0]]
  <2>1. N = [k \in DOMAIN atoms' |->
              [atoms |-> {k},
               ids |-> {i \in Longer(literals') : k \in literals'[i]},
               mergeable |-> OthersNewestFirst(Len(atoms'), k),
               literal |-> 0, left |-> 0, right |-> 0, references |-> 0]]
    BY Zenon DEF StartPlan
  <2>2. DOMAIN atoms' = 1..n /\ remaining' = Longer(literals') /\ n = Len(atoms')
    BY <1>2
  <2> HIDE DEF n, N
  <2> QED BY <2>1, <2>2, Zenon
<1> HIDE DEF n, N
<1>4. ASSUME NEW k \in 1..n
      PROVE  /\ OthersNewestFirst(n, k) \in Seq(Nat)
             /\ Len(OthersNewestFirst(n, k)) = n - 1
             /\ \A j \in 1..n - 1 : OthersNewestFirst(n, k)[j] \in 1..n \ {k}
  <2>1. \A j \in 1..n - 1 : (IF n + 1 - j > k THEN n + 1 - j ELSE n - j) \in 1..n \ {k}
    BY <1>2
  <2>2. n - 1 \in Nat
    BY <1>2
  <2> QED BY <1>2, <2>1, <2>2 DEF OthersNewestFirst
<1>5. ASSUME NEW k \in 1..n
      PROVE  /\ N[k] \in Node
             /\ N[k].atoms = {k} /\ N[k].ids \in SUBSET remaining'
             /\ N[k].literal = 0 /\ N[k].left = 0 /\ N[k].right = 0 /\ N[k].references = 0
             /\ Len(N[k].mergeable) = n - 1
             /\ \A j \in 1..n - 1 : N[k].mergeable[j] \in 1..n \ {k}
  <2>1. k \in Nat /\ {i \in remaining' : k \in literals'[i]} \in SUBSET remaining'
    OBVIOUS
  <2> QED BY <1>2, <1>3, <1>4, <2>1 DEF Node
<1>6. N \in Seq(Node) /\ Len(N) = n
  <2>1. DOMAIN N = 1..n
    BY <1>3, Zenon
  <2>2. N = [k \in 1..n |-> N[k]]
    BY <1>3, <2>1, Zenon
  <2>3. \A k \in 1..n : N[k] \in Node
    BY <1>5
  <2> QED BY <1>2, <2>2, <2>3
<1>7. Conjunctions' = {}
  <2>1. Conjunctions' = n + 1..n
    BY <1>2, <1>6 DEF Conjunctions, N
  <2> QED BY <1>2, <2>1
<1>8. \A k : UsersOf(k)' = {}
  BY <1>7 DEF UsersOf
<1>9. NodesInv'
  <2>1. \A k \in 1..n : N[k].references = Cardinality(UsersOf(k)')
    BY <1>5, <1>8, FS_EmptySet
  <2>2. \A k \in 1..n : n > 1 => N[k].mergeable # <<>>
    <3>1. \A k \in 1..n : n > 1 => Len(N[k].mergeable) # 0
      BY <1>2, <1>5
    <3> QED BY <3>1, EmptySeq
  <2>3. \A k \in 1..n : N[k].atoms \in SUBSET (1..n)
    BY <1>5
  <2>4. \A k \in 1..n : \A j \in 1..Len(N[k].mergeable) : N[k].mergeable[j] \in 1..n \ {k}
    BY <1>5
  <2>5. NumAtoms' <= Len(N)
    BY <1>2, <1>6
  <2>6. \A k \in Conjunctions' :
          /\ N[k].left \in 1..k - 1 /\ N[k].right \in 1..k - 1
          /\ N[k].left # N[k].right
    BY <1>7
  <2>7. N \in Seq(Node) /\ Len(N) = n /\ NumAtoms' = n
    BY <1>2, <1>6
  <2>8. \A k \in 1..n : /\ N[k].atoms = {k} /\ N[k].ids \in SUBSET remaining'
                         /\ N[k].literal = 0 /\ N[k].left = 0 /\ N[k].right = 0
    BY <1>5
  <2> QED
    BY <2>1, <2>2, <2>3, <2>4, <2>5, <2>6, <2>7, <2>8, Zenon DEF NodesInv, N
<1>10. FoundInv'
  BY <1>2, <1>5, <1>6 DEF FoundInv, N
<1>11. \E f : TestsInv(f)'
  <2>0. PICK f : f = [k \in 1..n |-> {k}]
    BY Zenon
  <2>1. f = [k \in 1..Len(N) |->
               IF k <= n THEN {k} ELSE f[N[k].left] \cup f[N[k].right]]
    BY <1>2, <1>6, <2>0
  <2>2. IsTests(N, n, f)
    BY <2>1 DEF IsTests
  <2>3. \A k \in 1..n : f[k] = N[k].atoms
    BY <1>5, <2>0
  <2>4. \A k \in 1..n : N[k].literal = 0
    BY <1>5
  <2>5. Len(N) = n /\ NumAtoms' = n
    BY <1>2, <1>6
  <2>6. TestsInv(f)'
    BY <2>2, <2>3, <2>4, <2>5, Zenon DEF TestsInv, N
  <2> QED BY <2>6
<1> QED
  BY <1>1, <1>9, <1>10, <1>11 DEF PlanInv

-----------------------------------------------------------------------------
(* The node of left and right was appended and holds the literal id, none if
   that is 0.                                                              *)
NodeIsAppended(left, right, tests, ids, found, id) ==
  /\ nodes' \in Seq(Node) /\ Len(nodes') = Len(nodes) + 1
  /\ \A k \in 1..Len(nodes) :
       /\ nodes'[k].atoms = nodes[k].atoms /\ nodes'[k].ids = nodes[k].ids \ found
       /\ nodes'[k].literal = nodes[k].literal
       /\ nodes'[k].left = nodes[k].left /\ nodes'[k].right = nodes[k].right
       /\ nodes'[k].references = ReferencesWith(k, left, right)
       /\ nodes'[k].mergeable = MergeableWith(k, {left, right}, Len(nodes) + 1, tests)
       /\ nodes[k].mergeable # <<>> => nodes'[k].mergeable # <<>>
       /\ \A j \in 1..Len(nodes'[k].mergeable) :
            nodes'[k].mergeable[j] \in 1..Len(nodes) + 1 \ {k}
  /\ nodes'[Len(nodes) + 1] =
       [atoms |-> tests, ids |-> ids \ found, mergeable |-> <<>>, literal |-> id,
        left |-> left, right |-> right, references |-> 0]
  /\ remaining' = remaining \ found
  /\ \/ found = {} /\ id = 0
     \/ found = {id} /\ id \in ids /\ literals[id] = tests

(* What a merge may take from its two nodes. *)
IsMerged(left, right, tests, ids) ==
  \/ tests = nodes[left].atoms \cup nodes[right].atoms /\ ids = nodes[left].ids \cap nodes[right].ids
  \/ tests = {} /\ ids = {}

LEMMA LiteralTypes ==
  ASSUME PlanInv
  PROVE  /\ NumAtoms \in Nat /\ Len(nodes) \in Nat /\ NumAtoms <= Len(nodes)
         /\ Longer(literals) \in SUBSET (1..Len(literals)) /\ Len(literals) \in Nat
         /\ remaining \in SUBSET Longer(literals)
<1>1. LiteralsInv /\ NodesInv
  BY DEF PlanInv
<1>2. literals \in Seq(SUBSET (1..NumAtoms)) /\ remaining \in SUBSET Longer(literals)
  BY <1>1 DEF LiteralsInv
<1>3. Longer(literals) \in SUBSET (1..Len(literals))
  BY <1>2 DEF Longer
<1>4. NumAtoms \in Nat
  BY <1>1 DEF LiteralsInv, NumAtoms
<1>5. Len(nodes) \in Nat /\ NumAtoms <= Len(nodes)
  BY <1>1 DEF NodesInv
<1> QED
  BY <1>2, <1>3, <1>4, <1>5

(* What mergeable lists grow to. *)
LEMMA MergeableGrows ==
  ASSUME PlanInv, NEW k \in 1..Len(nodes), NEW pair, NEW tests
  PROVE  LET m == MergeableWith(k, pair, Len(nodes) + 1, tests)
         IN  /\ m \in Seq(Nat)
             /\ nodes[k].mergeable # <<>> => m # <<>>
             /\ \A j \in 1..Len(m) : m[j] \in 1..Len(nodes) + 1 \ {k}
<1> DEFINE n == Len(nodes)
           old == nodes[k].mergeable
           new == <<n + 1>> \o old
<1>1. /\ n \in Nat /\ old \in Seq(Nat)
      /\ \A j \in 1..Len(old) : old[j] \in 1..n \ {k}
  <2>1. NodesInv
    BY DEF PlanInv
  <2>2. nodes[k] \in Node /\ Len(nodes) \in Nat
    BY <2>1 DEF NodesInv
  <2> QED BY <2>1, <2>2 DEF NodesInv, Node
<1>2. k \in 1..n
  OBVIOUS
<1> HIDE DEF n, old
<1>3. /\ new \in Seq(Nat) /\ Len(new) = Len(old) + 1
      /\ \A j \in 1..Len(old) + 1 : new[j] = IF j <= 1 THEN n + 1 ELSE old[j - 1]
  <2>1. <<n + 1>> \in Seq(Nat) /\ Len(<<n + 1>>) = 1 /\ <<n + 1>>[1] = n + 1
    BY <1>1
  <2>2. /\ new \in Seq(Nat) /\ Len(new) = 1 + Len(old)
        /\ \A j \in 1..1 + Len(old) : new[j] = IF j <= 1 THEN <<n + 1>>[j] ELSE old[j - 1]
    BY <1>1, <2>1, ConcatProperties
  <2> HIDE DEF new
  <2>3. Len(old) \in Nat
    BY <1>1
  <2>4. \A j \in 1..Len(old) + 1 : j <= 1 => j = 1
    BY <2>3
  <2>5. 1 + Len(old) = Len(old) + 1
    BY <2>3
  <2> QED BY <2>1, <2>2, <2>4, <2>5
<1> HIDE DEF new
<1>4. \A j \in 1..Len(new) : new[j] \in 1..n + 1 \ {k}
  <2> TAKE j \in 1..Len(new)
  <2>1. CASE j <= 1
    BY <1>1, <1>2, <1>3, <2>1
  <2>2. CASE ~(j <= 1)
    <3>1. j - 1 \in 1..Len(old) /\ j \in 1..Len(old) + 1
      BY <1>1, <1>3, <2>2
    <3>2. new[j] = old[j - 1] /\ old[j - 1] \in 1..n \ {k}
      BY <1>1, <1>3, <2>2, <3>1
    <3>3. 1..n \ {k} \subseteq 1..n + 1 \ {k}
      BY <1>1
    <3> QED BY <3>2, <3>3
  <2> QED BY <2>1, <2>2
<1>5. \A j \in 1..Len(old) : old[j] \in 1..n + 1 \ {k}
  BY <1>1
<1>6. new # <<>>
  BY <1>1, <1>3, EmptySeq
<1> DEFINE m == MergeableWith(k, pair, n + 1, tests)
<1>7. m = old \/ m = new
  BY DEF MergeableWith, old, new
<1> HIDE DEF m
<1>8. m \in Seq(Nat) /\ (old # <<>> => m # <<>>) /\ \A j \in 1..Len(m) : m[j] \in 1..n + 1 \ {k}
  BY <1>1, <1>3, <1>4, <1>5, <1>6, <1>7
<1> QED
  BY <1>8 DEF m, n, old

LEMMA AppendIsThat ==
  ASSUME PlanInv, NEW left \in 1..Len(nodes), NEW right \in 1..Len(nodes), left # right,
         NEW tests, NEW ids, IsMerged(left, right, tests, ids),
         AppendNode(left, right, tests, ids)
  PROVE  \E found, id : NodeIsAppended(left, right, tests, ids, found, id)
<1> DEFINE n == Len(nodes)
           found == {i \in ids : IsConjunction(i, tests)}
           id == IF found = {} THEN 0 ELSE CHOOSE i \in found : TRUE
           After(k) == [nodes[k] EXCEPT
                          !.ids = IdsLeft(k, left, right, found),
                          !.references = ReferencesWith(k, left, right),
                          !.mergeable = MergeableWith(k, {left, right}, n + 1, tests)]
           old == [k \in 1..n |-> After(k)]
           last == [atoms |-> tests, ids |-> ids \ found, mergeable |-> <<>>,
                    literal |-> id, left |-> left, right |-> right, references |-> 0]
<1>1. nodes' = Append(old, last) /\ remaining' = remaining \ found
  BY Zenon DEF AppendNode
<1>2. /\ n \in Nat /\ \A k \in 1..n : nodes[k] \in Node
      /\ Longer(literals) \in SUBSET (1..Len(literals)) /\ Len(literals) \in Nat
  BY LiteralTypes DEF PlanInv, NodesInv
<1>3. ids \in SUBSET Longer(literals) /\ tests \in SUBSET Nat
  <2>1. \A k \in 1..n : nodes[k].ids \in SUBSET remaining /\ nodes[k].atoms \in SUBSET Nat
    BY <1>2 DEF PlanInv, NodesInv, Node
  <2>2. remaining \in SUBSET Longer(literals)
    BY LiteralTypes
  <2> QED BY <2>1, <2>2 DEF IsMerged
<1>4. \/ found = {} /\ id = 0
      \/ found = {id} /\ id \in ids /\ literals[id] = tests
  <2>1. \A i, j \in found : i = j
    <3>1. \A i, j \in 1..Len(literals) : literals[i] = literals[j] => i = j
      BY DEF PlanInv, LiteralsInv
    <3> QED BY <1>2, <1>3, <3>1 DEF IsConjunction
  <2>2. \A i \in found : i \in ids /\ literals[i] = tests
    BY DEF IsConjunction
  <2> HIDE DEF found
  <2>3. CASE found = {}
    BY <2>3
  <2>4. CASE found # {}
    <3>1. id \in found
      BY <2>4
    <3> HIDE DEF id
    <3>2. found = {id}
      BY <2>1, <3>1
    <3> QED BY <2>2, <3>1, <3>2
  <2> QED BY <2>3, <2>4
<1>5. id \in Nat
  BY <1>2, <1>3, <1>4
<1> HIDE DEF found, id
<1>6. ASSUME NEW k \in 1..n
      PROVE  /\ After(k) \in Node
             /\ After(k).atoms = nodes[k].atoms /\ After(k).ids = nodes[k].ids \ found
             /\ After(k).literal = nodes[k].literal
             /\ After(k).left = nodes[k].left /\ After(k).right = nodes[k].right
             /\ After(k).references = ReferencesWith(k, left, right)
             /\ After(k).mergeable = MergeableWith(k, {left, right}, n + 1, tests)
             /\ nodes[k].mergeable # <<>> => After(k).mergeable # <<>>
             /\ \A j \in 1..Len(After(k).mergeable) :
                  After(k).mergeable[j] \in 1..n + 1 \ {k}
  <2> DEFINE m == MergeableWith(k, {left, right}, n + 1, tests)
             r == ReferencesWith(k, left, right)
  <2>1. /\ m \in Seq(Nat) /\ (nodes[k].mergeable # <<>> => m # <<>>)
        /\ \A j \in 1..Len(m) : m[j] \in 1..n + 1 \ {k}
    BY MergeableGrows
  <2>2. r \in Nat
    BY <1>2 DEF ReferencesWith, Node
  <2>3. After(k) = [nodes[k] EXCEPT !.ids = nodes[k].ids \ found, !.references = r, !.mergeable = m]
    BY DEF IdsLeft
  <2> HIDE DEF m, r
  <2>4. nodes[k] \in Node
    BY <1>2
  <2>5. /\ After(k) \in Node
        /\ After(k).atoms = nodes[k].atoms /\ After(k).ids = nodes[k].ids \ found
        /\ After(k).literal = nodes[k].literal
        /\ After(k).left = nodes[k].left /\ After(k).right = nodes[k].right
        /\ After(k).references = r /\ After(k).mergeable = m
    <3> HIDE DEF After
    <3> QED BY <2>1, <2>2, <2>3, <2>4 DEF Node
  <2> HIDE DEF After
  <2> QED BY <2>1, <2>5 DEF r, m
<1>7. last \in Node
  BY <1>2, <1>3, <1>5 DEF Node
<1> HIDE DEF After, last
<1>8. old \in Seq(Node) /\ Len(old) = n /\ \A k \in 1..n : old[k] = After(k)
  BY <1>2, <1>6
<1> HIDE DEF old
<1>9. /\ nodes' \in Seq(Node) /\ Len(nodes') = n + 1
      /\ (\A k \in 1..n : nodes'[k] = After(k)) /\ nodes'[n + 1] = last
  BY <1>1, <1>2, <1>7, <1>8
<1>10. NodeIsAppended(left, right, tests, ids, found, id)
  <2>1. \A k \in 1..Len(nodes) :
          /\ nodes'[k].atoms = nodes[k].atoms /\ nodes'[k].ids = nodes[k].ids \ found
          /\ nodes'[k].literal = nodes[k].literal
          /\ nodes'[k].left = nodes[k].left /\ nodes'[k].right = nodes[k].right
          /\ nodes'[k].references = ReferencesWith(k, left, right)
          /\ nodes'[k].mergeable = MergeableWith(k, {left, right}, Len(nodes) + 1, tests)
          /\ nodes[k].mergeable # <<>> => nodes'[k].mergeable # <<>>
          /\ \A j \in 1..Len(nodes'[k].mergeable) :
               nodes'[k].mergeable[j] \in 1..Len(nodes) + 1 \ {k}
    <3> TAKE k \in 1..Len(nodes)
    <3>1. k \in 1..n
      BY DEF n
    <3>2. nodes'[k] = After(k)
      BY <1>9, <3>1
    <3> QED BY <1>6, <3>1, <3>2, Zenon DEF n
  <2>2. /\ nodes' \in Seq(Node) /\ Len(nodes') = Len(nodes) + 1
        /\ nodes'[Len(nodes) + 1] = last /\ remaining' = remaining \ found
    BY <1>1, <1>9, Zenon DEF n
  <2> QED BY <1>4, <2>1, <2>2, Zenon DEF NodeIsAppended, last
<1> QED
  BY <1>10

LEMMA AppendedKeepsPlan ==
  ASSUME PlanInv, NEW left \in 1..Len(nodes), NEW right \in 1..Len(nodes), left # right,
         NEW tests, NEW ids, IsMerged(left, right, tests, ids),
         NEW found, NEW id, NodeIsAppended(left, right, tests, ids, found, id),
         UNCHANGED <<atoms, literals>>
  PROVE  PlanInv'
<1>0. PICK n, a : n = Len(nodes) /\ a = NumAtoms
  BY Zenon
<1> DEFINE M == nodes'
<1>1. /\ n \in Nat /\ a \in Nat /\ a <= n
      /\ Longer(literals) \in SUBSET (1..Len(literals)) /\ Len(literals) \in Nat
      /\ remaining \in SUBSET Longer(literals)
      /\ left \in 1..n /\ right \in 1..n
  BY <1>0, LiteralTypes
<1>2. NumAtoms' = a /\ literals' = literals
  BY <1>0 DEF NumAtoms
<1>3. /\ M \in Seq(Node) /\ Len(M) = n + 1
      /\ \A k \in 1..n :
           /\ M[k].atoms = nodes[k].atoms /\ M[k].ids = nodes[k].ids \ found
           /\ M[k].literal = nodes[k].literal
           /\ M[k].left = nodes[k].left /\ M[k].right = nodes[k].right
           /\ M[k].references = ReferencesWith(k, left, right)
           /\ nodes[k].mergeable # <<>> => M[k].mergeable # <<>>
           /\ \A j \in 1..Len(M[k].mergeable) : M[k].mergeable[j] \in 1..n + 1 \ {k}
  BY <1>0 DEF NodeIsAppended
<1>4. /\ M[n + 1].atoms = tests /\ M[n + 1].ids = ids \ found /\ M[n + 1].mergeable = <<>>
      /\ M[n + 1].literal = id /\ M[n + 1].left = left /\ M[n + 1].right = right
      /\ M[n + 1].references = 0
  <2>1. M[n + 1] = [atoms |-> tests, ids |-> ids \ found, mergeable |-> <<>>, literal |-> id,
                    left |-> left, right |-> right, references |-> 0]
    BY <1>0 DEF NodeIsAppended
  <2> HIDE DEF M
  <2> QED BY <2>1
<1>5. /\ remaining' = remaining \ found
      /\ \/ found = {} /\ id = 0
         \/ found = {id} /\ id \in ids /\ literals[id] = tests
  BY DEF NodeIsAppended
<1>6. /\ \A k \in 1..n :
           /\ nodes[k] \in Node
           /\ nodes[k].atoms \in SUBSET (1..a) /\ nodes[k].ids \in SUBSET remaining
           /\ nodes[k].references = Cardinality(UsersOf(k))
      /\ \A k \in 1..a :
           /\ nodes[k].atoms = {k} /\ nodes[k].literal = 0
           /\ nodes[k].left = 0 /\ nodes[k].right = 0
           /\ a > 1 => nodes[k].mergeable # <<>>
      /\ \A k \in a + 1..n :
           /\ nodes[k].left \in 1..k - 1 /\ nodes[k].right \in 1..k - 1
           /\ nodes[k].left # nodes[k].right
  BY <1>0 DEF PlanInv, NodesInv, Conjunctions
<1> HIDE DEF M
<1>7. tests \in SUBSET (1..a) /\ ids \in SUBSET remaining /\ found \in SUBSET remaining
  <2>1. tests \in SUBSET (1..a) /\ ids \in SUBSET remaining
    BY <1>1, <1>6 DEF IsMerged
  <2> QED BY <1>5, <2>1
<1>8. LiteralsInv'
  <2>1. /\ atoms \in Seq(Test) /\ literals \in Seq(SUBSET (1..NumAtoms))
        /\ \A i, j \in 1..Len(literals) : literals[i] = literals[j] => i = j
    BY DEF PlanInv, LiteralsInv
  <2>2. remaining' \in SUBSET Longer(literals)
    BY <1>1, <1>5
  <2>3. atoms' = atoms /\ literals' = literals /\ NumAtoms' = NumAtoms
    BY <1>0, <1>2
  <2> QED BY <2>1, <2>2, <2>3 DEF LiteralsInv
<1>9. Conjunctions = a + 1..n /\ Conjunctions' = (a + 1..n) \cup {n + 1}
  <2>1. Conjunctions' = a + 1..n + 1
    BY <1>2, <1>3 DEF Conjunctions, M
  <2>2. a + 1..n + 1 = (a + 1..n) \cup {n + 1}
    BY <1>1
  <2>3. Conjunctions = a + 1..n
    BY <1>0, Zenon DEF Conjunctions
  <2> QED BY <2>1, <2>2, <2>3, Zenon
<1>10. \A k \in 1..n : PartsOf(k)' = PartsOf(k)
  BY <1>3, Zenon DEF PartsOf, M
<1>11. PartsOf(n + 1)' = {left, right}
  BY <1>1, <1>4 DEF PartsOf, M
<1>12. ASSUME NEW k \in 1..n
       PROVE  /\ UsersOf(k)' = IF k \in {left, right} THEN UsersOf(k) \cup {n + 1} ELSE UsersOf(k)
              /\ IsFiniteSet(UsersOf(k)) /\ n + 1 \notin UsersOf(k)
  <2>1. UsersOf(k) = {m \in a + 1..n : k \in PartsOf(m)}
    BY <1>9 DEF UsersOf
  <2>2. UsersOf(k)' = {m \in (a + 1..n) \cup {n + 1} : k \in PartsOf(m)'}
    BY <1>9, Zenon DEF UsersOf
  <2>3. \A m \in a + 1..n : m \in 1..n
    BY <1>1
  <2>4. n + 1 \notin a + 1..n
    BY <1>1
  <2>5. IsFiniteSet(a + 1..n)
    <3>1. a + 1 \in Int /\ n \in Int
      BY <1>1
    <3> QED BY <3>1, FS_Interval, Zenon
  <2>6. UsersOf(k) \in SUBSET (a + 1..n)
    BY <2>1
  <2>7. \A m \in a + 1..n : k \in PartsOf(m)' <=> k \in PartsOf(m)
    BY <1>10, <2>3
  <2>8. k \in PartsOf(n + 1)' <=> k \in {left, right}
    BY <1>11
  <2> DEFINE old == UsersOf(k)
             new == UsersOf(k)'
             m0 == n + 1
  <2>9. \A m : m \in new <=> m \in old \/ (m = m0 /\ k \in {left, right})
    BY <2>1, <2>2, <2>7, <2>8, Zenon
  <2> HIDE DEF old, new, m0
  <2>10. new = IF k \in {left, right} THEN old \cup {m0} ELSE old
    BY <2>9
  <2>11. IsFiniteSet(UsersOf(k)) /\ n + 1 \notin UsersOf(k)
    BY <2>4, <2>5, <2>6, FS_Subset
  <2> QED BY <2>10, <2>11, Zenon DEF old, new, m0
<1>13. UsersOf(n + 1)' = {}
  <2>1. UsersOf(n + 1)' = {m \in (a + 1..n) \cup {n + 1} : n + 1 \in PartsOf(m)'}
    BY <1>9, Zenon DEF UsersOf
  <2>2. n + 1 \notin PartsOf(n + 1)'
    BY <1>1, <1>11
  <2>3. ASSUME NEW m \in a + 1..n
        PROVE  n + 1 \notin PartsOf(m)'
    <3>1. m \in 1..n /\ nodes[m].left \in 1..m - 1 /\ nodes[m].right \in 1..m - 1
      BY <1>1, <1>6
    <3>2. PartsOf(m)' = {nodes[m].left, nodes[m].right}
      BY <1>10, <3>1 DEF PartsOf
    <3> QED BY <1>1, <3>1, <3>2
  <2> QED BY <2>1, <2>2, <2>3
<1>14. \A k \in 1..n + 1 : M[k].references = Cardinality(UsersOf(k)')
  <2>1. ASSUME NEW k \in 1..n
        PROVE  M[k].references = Cardinality(UsersOf(k)')
    <3>1. M[k].references = nodes[k].references + (IF k \in {left, right} THEN 1 ELSE 0)
      BY <1>3 DEF ReferencesWith
    <3>2. nodes[k].references = Cardinality(UsersOf(k)) /\ Cardinality(UsersOf(k)) \in Nat
      BY <1>6, <1>12, FS_CardinalityType
    <3>3. Cardinality(UsersOf(k) \cup {n + 1}) = Cardinality(UsersOf(k)) + 1
      BY <1>12, FS_AddElement
    <3> DEFINE u == Cardinality(UsersOf(k)')
    <3>4. u = IF k \in {left, right} THEN Cardinality(UsersOf(k)) + 1 ELSE Cardinality(UsersOf(k))
      BY <1>12, <3>3
    <3> HIDE DEF u
    <3>5. M[k].references = u
      BY <3>1, <3>2, <3>4
    <3> QED BY <3>5 DEF u
  <2>2. M[n + 1].references = Cardinality(UsersOf(n + 1)')
    BY <1>4, <1>13, FS_EmptySet
  <2>3. \A k \in 1..n + 1 : k \in 1..n \/ k = n + 1
    BY <1>1
  <2> QED BY <2>1, <2>2, <2>3
<1>15. NodesInv'
  <2>1. \A k \in 1..n + 1 :
          /\ M[k].atoms \in SUBSET (1..a) /\ M[k].ids \in SUBSET remaining'
          /\ \A j \in 1..Len(M[k].mergeable) : M[k].mergeable[j] \in 1..n + 1 \ {k}
    <3>1. ASSUME NEW k \in 1..n
          PROVE  /\ M[k].atoms \in SUBSET (1..a) /\ M[k].ids \in SUBSET remaining'
                 /\ \A j \in 1..Len(M[k].mergeable) : M[k].mergeable[j] \in 1..n + 1 \ {k}
      BY <1>3, <1>5, <1>6
    <3>2. /\ M[n + 1].atoms \in SUBSET (1..a) /\ M[n + 1].ids \in SUBSET remaining'
      BY <1>4, <1>5, <1>7
    <3>3. \A j \in 1..Len(M[n + 1].mergeable) : FALSE
      <4>1. Len(M[n + 1].mergeable) = 0
        BY <1>4, EmptySeq
      <4> QED BY <4>1
    <3>4. \A k \in 1..n + 1 : k \in 1..n \/ k = n + 1
      BY <1>1
    <3> QED BY <3>1, <3>2, <3>3, <3>4
  <2>2. \A k \in 1..a :
          /\ M[k].atoms = {k} /\ M[k].literal = 0 /\ M[k].left = 0 /\ M[k].right = 0
          /\ a > 1 => M[k].mergeable # <<>>
    <3>1. \A k \in 1..a : k \in 1..n
      BY <1>1
    <3> QED BY <1>3, <1>6, <3>1
  <2>3. \A k \in (a + 1..n) \cup {n + 1} :
          /\ M[k].left \in 1..k - 1 /\ M[k].right \in 1..k - 1 /\ M[k].left # M[k].right
    <3>1. ASSUME NEW k \in a + 1..n
          PROVE  /\ M[k].left \in 1..k - 1 /\ M[k].right \in 1..k - 1 /\ M[k].left # M[k].right
      <4>1. k \in 1..n
        BY <1>1
      <4> QED BY <1>3, <1>6, <4>1
    <3>2. 1..(n + 1) - 1 = 1..n
      BY <1>1
    <3>3. /\ M[n + 1].left \in 1..(n + 1) - 1 /\ M[n + 1].right \in 1..(n + 1) - 1
          /\ M[n + 1].left # M[n + 1].right
      BY <1>1, <1>4, <3>2
    <3> QED BY <3>1, <3>3, Zenon
  <2>4. a <= n + 1
    BY <1>1
  <2>5. Len(nodes)' = n + 1 /\ NumAtoms' = a
    BY <1>2, <1>3 DEF M
  <2>6. M \in Seq(Node)
    BY <1>3
  <2> QED
    BY <1>9, <1>14, <2>1, <2>2, <2>3, <2>4, <2>5, <2>6, Zenon DEF NodesInv, M
<1>16. \A k \in 1..n + 1 : k \in 1..n \/ k = n + 1
  BY <1>1
<1>17. id # 0 => /\ found = {id} /\ id \in ids /\ literals[id] = tests
                      /\ id \in Longer(literals) /\ id \in remaining
                      /\ id \notin remaining'
  BY <1>1, <1>5, <1>7
<1>18. FoundInv'
  <2>1. /\ \A k \in 1..n :
             nodes[k].literal # 0 => nodes[k].literal \in Longer(literals) \ remaining
        /\ \A i \in Longer(literals) \ remaining : \E k \in 1..n : nodes[k].literal = i
        /\ \A k, m \in 1..n :
             nodes[k].literal # 0 /\ nodes[k].literal = nodes[m].literal => k = m
    BY <1>0 DEF PlanInv, FoundInv
  <2>2. \A k \in 1..n + 1 : M[k].literal # 0 => M[k].literal \in Longer(literals) \ remaining'
    BY <1>3, <1>4, <1>5, <1>16, <1>17, <2>1
  <2>3. \A i \in Longer(literals) \ remaining' : \E k \in 1..n + 1 : M[k].literal = i
    <3> TAKE i \in Longer(literals) \ remaining'
    <3>1. CASE i \notin remaining
      <4>1. PICK k \in 1..n : nodes[k].literal = i
        BY <2>1, <3>1
      <4>2. k \in 1..n + 1
        BY <1>1
      <4> QED BY <1>3, <4>1, <4>2
    <3>2. CASE i \in remaining
      <4>1. i \in found
        BY <1>5, <3>2
      <4>2. M[n + 1].literal = i
        BY <1>4, <1>5, <4>1
      <4>3. n + 1 \in 1..n + 1
        BY <1>1
      <4> QED BY <4>2, <4>3
    <3> QED BY <3>1, <3>2
  <2>4. ASSUME NEW k \in 1..n, M[k].literal # 0
        PROVE  M[k].literal # M[n + 1].literal
    BY <1>3, <1>4, <1>17, <2>1, <2>4
  <2>5. \A k, m \in 1..n + 1 : M[k].literal # 0 /\ M[k].literal = M[m].literal => k = m
    <3> SUFFICES ASSUME NEW k \in 1..n + 1, NEW m \in 1..n + 1,
                        M[k].literal # 0, M[k].literal = M[m].literal
                 PROVE  k = m
      OBVIOUS
    <3>1. CASE k \in 1..n /\ m \in 1..n
      BY <1>3, <2>1, <3>1
    <3>2. CASE k \in 1..n /\ m = n + 1
      BY <2>4, <3>2
    <3>3. CASE k = n + 1 /\ m \in 1..n
      BY <2>4, <3>3
    <3> QED BY <1>16, <3>1, <3>2, <3>3
  <2> QED
    BY <1>2, <1>3, <2>2, <2>3, <2>5, Zenon DEF FoundInv, M
<1>19. \E f : TestsInv(f)'
  <2>1. PICK f : TestsInv(f)
    BY DEF PlanInv
  <2>2. /\ f = [k \in 1..n |-> IF k <= a THEN {k} ELSE f[nodes[k].left] \cup f[nodes[k].right]]
        /\ \A k \in 1..n :
             /\ nodes[k].ids # {} => f[k] = nodes[k].atoms
             /\ nodes[k].literal # 0 => f[k] = literals[nodes[k].literal]
    BY <1>0, <2>1 DEF TestsInv, IsTests
  <2>3. PICK g : g = [k \in 1..n + 1 |-> IF k <= n THEN f[k] ELSE f[left] \cup f[right]]
    BY Zenon
  <2>4. (\A k \in 1..n : g[k] = f[k]) /\ g[n + 1] = f[left] \cup f[right]
    <3>1. n + 1 \in 1..n + 1 /\ ~(n + 1 <= n) /\ \A k \in 1..n : k \in 1..n + 1 /\ k <= n
      BY <1>1
    <3> QED BY <2>3, <3>1
  <2>5. ASSUME NEW k \in 1..n + 1
        PROVE  g[k] = IF k <= a THEN {k} ELSE g[M[k].left] \cup g[M[k].right]
    <3>1. CASE k \in 1..n /\ k <= a
      <4>1. f[k] = {k}
        BY <2>2, <3>1
      <4> QED BY <2>4, <3>1, <4>1
    <3>2. CASE k \in 1..n /\ ~(k <= a)
      <4>1. f[k] = f[nodes[k].left] \cup f[nodes[k].right]
        BY <2>2, <3>2
      <4>2. k \in a + 1..n
        BY <1>1, <3>2
      <4>3. nodes[k].left \in 1..n /\ nodes[k].right \in 1..n
        BY <1>1, <1>6, <4>2
      <4>4. M[k].left = nodes[k].left /\ M[k].right = nodes[k].right /\ g[k] = f[k]
        BY <1>3, <2>4, <3>2
      <4>5. g[nodes[k].left] = f[nodes[k].left] /\ g[nodes[k].right] = f[nodes[k].right]
        BY <2>4, <4>3
      <4> QED BY <3>2, <4>1, <4>4, <4>5
    <3>3. CASE k = n + 1
      <4>1. ~(n + 1 <= a)
        BY <1>1
      <4> QED BY <1>1, <1>4, <2>4, <3>3, <4>1
    <3> QED BY <1>16, <3>1, <3>2, <3>3
  <2>6. IsTests(M, a, g)
    <3>1. g = [k \in 1..n + 1 |-> g[k]]
      BY <2>3
    <3>2. g = [k \in 1..n + 1 |-> IF k <= a THEN {k} ELSE g[M[k].left] \cup g[M[k].right]]
      BY <2>5, <3>1, Zenon
    <3> QED BY <1>3, <3>2 DEF IsTests
  <2>7. ids # {} => g[n + 1] = tests
    <3>1. ids # {} => /\ tests = nodes[left].atoms \cup nodes[right].atoms
                      /\ nodes[left].ids # {} /\ nodes[right].ids # {}
      BY DEF IsMerged
    <3> QED BY <1>1, <2>2, <2>4, <3>1
  <2>8. \A k \in 1..n + 1 :
          /\ M[k].ids # {} => g[k] = M[k].atoms
          /\ M[k].literal # 0 => g[k] = literals[M[k].literal]
    <3>1. ASSUME NEW k \in 1..n
          PROVE  /\ M[k].ids # {} => g[k] = M[k].atoms
                 /\ M[k].literal # 0 => g[k] = literals[M[k].literal]
      BY <1>3, <2>2, <2>4
    <3>2. /\ M[n + 1].ids # {} => g[n + 1] = M[n + 1].atoms
          /\ M[n + 1].literal # 0 => g[n + 1] = literals[M[n + 1].literal]
      BY <1>4, <1>17, <2>7
    <3> QED BY <1>16, <3>1, <3>2
  <2>9. TestsInv(g)'
    BY <1>2, <1>3, <2>6, <2>8, Zenon DEF TestsInv, M
  <2> QED BY <2>9
<1> QED
  BY <1>8, <1>15, <1>18, <1>19 DEF PlanInv

-----------------------------------------------------------------------------
(* While a literal is missing there are pairs, and the first of the best is one. *)
LEMMA PairsAre ==
  ASSUME PlanInv, NEW p \in Pairs
  PROVE  /\ p = <<p[1], p[2]>>
         /\ p[1] \in 1..Len(nodes) - 1 /\ p[1] \in 1..Len(nodes) /\ p[2] \in Nat
         /\ nodes[p[1]].mergeable[p[2]] \in 1..Len(nodes) \ {p[1]}
         /\ SharedBy(p) \in 0..Cardinality(remaining) /\ Cardinality(remaining) \in Nat
<1>0. PICK k \in 1..Len(nodes) - 1 : p \in {<<k, j>> : j \in DOMAIN nodes[k].mergeable}
  BY Zenon DEF Pairs
<1>1. PICK j \in DOMAIN nodes[k].mergeable : p = <<k, j>>
  BY <1>0
<1>2. k \in 1..Len(nodes)
  BY LiteralTypes
<1>3. /\ nodes[k] \in Node
      /\ \A i \in 1..Len(nodes[k].mergeable) : nodes[k].mergeable[i] \in 1..Len(nodes) \ {k}
      /\ \A i \in 1..Len(nodes) : nodes[i].ids \in SUBSET remaining
  BY <1>2 DEF PlanInv, NodesInv
<1>4. j \in 1..Len(nodes[k].mergeable) /\ j \in Nat
  <2>1. nodes[k].mergeable \in Seq(Nat)
    BY <1>3 DEF Node
  <2> QED BY <2>1
<1>5. nodes[k].mergeable[j] \in 1..Len(nodes) \ {k}
  BY <1>3, <1>4
<1>6. IsFiniteSet(remaining)
  <2>1. IsFiniteSet(1..Len(literals))
    <3>1. 1 \in Int /\ Len(literals) \in Int
      BY LiteralTypes
    <3> QED BY <3>1, FS_Interval, Zenon
  <2>2. remaining \in SUBSET (1..Len(literals))
    BY LiteralTypes
  <2> QED BY <2>1, <2>2, FS_Subset
<1> DEFINE S == nodes[k].ids \cap nodes[nodes[k].mergeable[j]].ids
<1>7. S \in SUBSET remaining
  BY <1>2, <1>3
<1>8. p[1] = k /\ p[2] = j
  BY <1>1
<1>9. SharedBy(p) = Cardinality(S)
  BY <1>8 DEF SharedBy, Shared
<1> HIDE DEF S
<1>10. Cardinality(S) \in Nat /\ Cardinality(remaining) \in Nat /\ Cardinality(S) <= Cardinality(remaining)
  BY <1>6, <1>7, FS_Subset, FS_CardinalityType
<1> QED
  BY <1>1, <1>2, <1>4, <1>5, <1>8, <1>9, <1>10

LEMMA SomePair ==
  ASSUME PlanInv, remaining # {}
  PROVE  Pairs # {}
<1>1. /\ atoms \in Seq(Test) /\ literals \in Seq(SUBSET (1..NumAtoms))
      /\ remaining \in SUBSET Longer(literals)
      /\ NumAtoms \in Nat /\ Len(nodes) \in Nat /\ NumAtoms <= Len(nodes)
  BY LiteralTypes DEF PlanInv, LiteralsInv
<1>2. NumAtoms > 1
  <2> SUFFICES ASSUME ~(NumAtoms > 1) PROVE FALSE
    OBVIOUS
  <2>1. PICK i \in remaining : TRUE
    OBVIOUS
  <2>2. i \in DOMAIN literals /\ Cardinality(literals[i]) > 1
    BY <1>1 DEF Longer
  <2>3. literals[i] \in SUBSET (1..NumAtoms)
    BY <1>1, <2>2
  <2>4. 1..NumAtoms \in SUBSET {1}
    BY <1>1
  <2>5. literals[i] \in SUBSET {1}
    BY <2>3, <2>4
  <2>6. Cardinality(literals[i]) <= 1 /\ Cardinality(literals[i]) \in Nat
    <3>1. IsFiniteSet({1}) /\ Cardinality({1}) = 1
      BY FS_Singleton
    <3> QED BY <2>5, <3>1, FS_Subset, FS_CardinalityType
  <2> QED BY <2>2, <2>6
<1>3. nodes[1] \in Node /\ nodes[1].mergeable # <<>>
  BY <1>1, <1>2 DEF PlanInv, NodesInv
<1>4. nodes[1].mergeable \in Seq(Nat)
  BY <1>3 DEF Node
<1>5. 1 \in DOMAIN nodes[1].mergeable
  BY <1>3, <1>4
<1>6. 1 \in 1..Len(nodes) - 1
  BY <1>1, <1>2
<1>7. <<1, 1>> \in Pairs
  <2>1. <<1, 1>> \in {<<1, j>> : j \in DOMAIN nodes[1].mergeable}
    BY <1>5
  <2> QED BY <1>6, <2>1, Zenon DEF Pairs
<1> QED
  BY <1>7

(* The pair that is merged is the first of those that share most. *)
IsFirst(p) ==
  \A q \in Pairs :
    /\ SharedBy(q) <= SharedBy(p)
    /\ SharedBy(q) = SharedBy(p) => IsBefore(p, q)

LEMMA BestPairIsPair ==
  ASSUME PlanInv, remaining # {}
  PROVE  BestPair \in Pairs /\ IsFirst(BestPair)
<1> DEFINE c == Cardinality(remaining)
           IsMost(n) == \A p \in Pairs : SharedBy(p) <= n
           most == CHOOSE n \in {SharedBy(p) : p \in Pairs} : IsMost(n)
           best == {p \in Pairs : SharedBy(p) = most}
<1>1. /\ Pairs # {}
      /\ \A p \in Pairs : /\ p = <<p[1], p[2]>> /\ p[1] \in Nat /\ p[2] \in Nat
                          /\ SharedBy(p) \in 0..c /\ c \in Nat
  <2>1. \A p \in Pairs : /\ p = <<p[1], p[2]>>
                         /\ p[1] \in 1..Len(nodes) /\ p[2] \in Nat
                         /\ SharedBy(p) \in 0..c /\ c \in Nat
    BY PairsAre
  <2> QED BY <2>1, SomePair
<1>2. most \in {SharedBy(p) : p \in Pairs} /\ IsMost(most)
  <2> DEFINE below == {c - SharedBy(p) : p \in Pairs}
  <2>1. below \in SUBSET Nat /\ below # {}
    BY <1>1
  <2>2. PICK d \in below : \A e \in below : d <= e
    <3> HIDE DEF below
    <3> QED BY <2>1, HasLowest
  <2>3. PICK p \in Pairs : d = c - SharedBy(p)
    BY <2>2
  <2>4. \A q \in Pairs : SharedBy(q) <= SharedBy(p)
    <3> TAKE q \in Pairs
    <3>1. d <= c - SharedBy(q)
      BY <2>2
    <3> QED BY <1>1, <2>3, <3>1
  <2>5. IsMost(SharedBy(p)) /\ SharedBy(p) \in {SharedBy(q) : q \in Pairs}
    BY <2>4
  <2> HIDE DEF IsMost
  <2> QED BY <2>5, Zenon
<1> HIDE DEF most
<1>3. best # {} /\ best \subseteq Pairs
  BY <1>2
<1> HIDE DEF best
<1>4. \E p \in best : \A q \in best : IsBefore(p, q)
  <2> DEFINE firsts == {p[1] : p \in best}
  <2>1. firsts \in SUBSET Nat /\ firsts # {}
    BY <1>1, <1>3
  <2>2. PICK k \in firsts : \A e \in firsts : k <= e
    <3> HIDE DEF firsts
    <3> QED BY <2>1, HasLowest
  <2> DEFINE seconds == {p[2] : p \in {q \in best : q[1] = k}}
  <2>3. seconds \in SUBSET Nat /\ seconds # {}
    BY <1>1, <1>3, <2>2
  <2>4. PICK j \in seconds : \A e \in seconds : j <= e
    <3> HIDE DEF seconds
    <3> QED BY <2>3, HasLowest
  <2>5. PICK p \in best : p[1] = k /\ p[2] = j
    BY <2>4
  <2>6. ASSUME NEW q \in best
        PROVE  IsBefore(p, q)
    <3>1. k <= q[1] /\ (q[1] = k => j <= q[2])
      BY <2>2, <2>4
    <3>2. k \in Nat /\ q[1] \in Nat
      BY <1>1, <1>3, <2>5
    <3> QED BY <2>5, <3>1, <3>2 DEF IsBefore
  <2> QED BY <2>6
<1>5. BestPair = CHOOSE p \in best : \A q \in best : IsBefore(p, q)
  BY Zenon DEF BestPair, best, most
<1>6. BestPair \in best /\ \A q \in best : IsBefore(BestPair, q)
  BY <1>4, <1>5
<1>7. \A q \in Pairs : SharedBy(q) <= most
  <2>1. PICK m : m = most
    OBVIOUS
  <2> QED BY <1>2, <2>1 DEF IsMost
<1>8. BestPair \in Pairs /\ SharedBy(BestPair) = most
  BY <1>3, <1>6 DEF best
<1>9. \A q \in Pairs : SharedBy(q) = most => q \in best
  BY DEF best
<1> QED
  BY <1>6, <1>7, <1>8, <1>9 DEF IsFirst

LEMMA MergeKeepsPlan ==
  ASSUME PlanInv, Merge
  PROVE  PlanInv'
<1> DEFINE left == BestPair[1]
           right == nodes[BestPair[1]].mergeable[BestPair[2]]
<1>1. remaining # {} /\ UNCHANGED <<atoms, literals>>
  BY DEF Merge
<1>2. BestPair \in Pairs
  BY <1>1, BestPairIsPair
<1>3. left \in 1..Len(nodes) /\ right \in 1..Len(nodes) /\ left # right
  BY <1>2, PairsAre
<1>4. \/ AppendNode(left, right, nodes[left].atoms \cup nodes[right].atoms,
                    nodes[left].ids \cap nodes[right].ids)
      \/ AppendNode(left, right, {}, {})
  BY Zenon DEF Merge
<1> HIDE DEF left, right
<1>5. PICK tests, ids : AppendNode(left, right, tests, ids) /\ IsMerged(left, right, tests, ids)
  BY <1>4, Zenon DEF IsMerged
<1>6. \E found, id : NodeIsAppended(left, right, tests, ids, found, id)
  BY <1>3, <1>5, AppendIsThat
<1>7. PICK found, id : NodeIsAppended(left, right, tests, ids, found, id)
  BY <1>6
<1> QED
  BY <1>1, <1>3, <1>5, <1>7, AppendedKeepsPlan

-----------------------------------------------------------------------------
LEMMA PlanTypes ==
  ASSUME PlanInv
  PROVE  PlanTypeOK
<1>1. NodesInv /\ remaining \in SUBSET Longer(literals)
  BY LiteralTypes DEF PlanInv
<1>2. ASSUME NEW k \in 1..Len(nodes)
      PROVE  /\ nodes[k].atoms \subseteq 1..NumAtoms /\ nodes[k].ids \subseteq remaining
             /\ nodes[k].left \in 0..k - 1 /\ nodes[k].right \in 0..k - 1
             /\ nodes[k].references \in Nat
  <2>1. /\ nodes[k] \in Node
        /\ nodes[k].atoms \in SUBSET (1..NumAtoms) /\ nodes[k].ids \in SUBSET remaining
    BY <1>1 DEF NodesInv
  <2>2. nodes[k].references \in Nat
    BY <2>1 DEF Node
  <2>3. NumAtoms \in Nat /\ Len(nodes) \in Nat
    BY LiteralTypes
  <2>4. CASE k \in 1..NumAtoms
    <3>1. nodes[k].left = 0 /\ nodes[k].right = 0
      BY <1>1, <2>4 DEF NodesInv
    <3> QED BY <2>1, <2>2, <2>3, <3>1
  <2>5. CASE k \in Conjunctions
    <3>1. nodes[k].left \in 1..k - 1 /\ nodes[k].right \in 1..k - 1
      BY <1>1, <2>5 DEF NodesInv
    <3> QED BY <2>1, <2>2, <3>1
  <2>6. k \in 1..NumAtoms \/ k \in Conjunctions
    BY <2>3 DEF Conjunctions
  <2> QED BY <2>4, <2>5, <2>6
<1> QED
  BY <1>1, <1>2 DEF PlanTypeOK

(* The recursion has one solution: parts come before their conjunctions. *)
LEMMA TestsAreUnique ==
  ASSUME PlanInv, NEW f, IsTests(nodes, NumAtoms, f), NEW g, IsTests(nodes, NumAtoms, g)
  PROVE  f = g
<1> DEFINE n == Len(nodes)
           wrong == {k \in 1..n : f[k] # g[k]}
<1>1. /\ f = [k \in 1..n |-> IF k <= NumAtoms THEN {k} ELSE f[nodes[k].left] \cup f[nodes[k].right]]
      /\ g = [k \in 1..n |-> IF k <= NumAtoms THEN {k} ELSE g[nodes[k].left] \cup g[nodes[k].right]]
  BY Zenon DEF IsTests
<1>2. /\ \A k \in 1..n : f[k] = IF k <= NumAtoms THEN {k} ELSE f[nodes[k].left] \cup f[nodes[k].right]
      /\ \A k \in 1..n : g[k] = IF k <= NumAtoms THEN {k} ELSE g[nodes[k].left] \cup g[nodes[k].right]
  BY <1>1, Zenon
<1>3. NumAtoms \in Nat /\ n \in Nat
  BY LiteralTypes
<1>4. wrong = {}
  <2> SUFFICES ASSUME wrong # {} PROVE FALSE
    BY Zenon
  <2>1. wrong \in SUBSET Nat
    OBVIOUS
  <2>2. PICK k \in wrong : \A l \in wrong : k <= l
    <3> HIDE DEF wrong
    <3> QED BY <2>1, HasLowest
  <2>3. k \in 1..n /\ f[k] # g[k]
    BY <2>2
  <2>4. ~(k <= NumAtoms)
    BY <1>2, <2>3
  <2>5. k \in Conjunctions
    BY <1>3, <2>3, <2>4 DEF Conjunctions
  <2>6. nodes[k].left \in 1..k - 1 /\ nodes[k].right \in 1..k - 1
    BY <2>5 DEF PlanInv, NodesInv
  <2>7. \A l \in 1..k - 1 : l \in 1..n /\ ~(k <= l)
    BY <1>3, <2>3
  <2>8. \A l \in 1..k - 1 : f[l] = g[l]
    BY <2>2, <2>7
  <2> QED BY <1>2, <2>3, <2>4, <2>6, <2>8
<1>5. \A k \in 1..n : f[k] = g[k]
  BY <1>4
<1>6. f = [k \in 1..n |-> f[k]] /\ g = [k \in 1..n |-> g[k]]
  <2>1. f = [k \in DOMAIN f |-> f[k]] /\ DOMAIN f = 1..n /\ g = [k \in DOMAIN g |-> g[k]] /\ DOMAIN g = 1..n
    BY <1>1, Zenon
  <2> QED BY <2>1
<1> QED
  BY <1>5, <1>6, Zenon

LEMMA TestedIsThat ==
  ASSUME PlanInv, NEW f, TestsInv(f)
  PROVE  Tested = f
<1>1. IsTests(nodes, NumAtoms, f)
  BY DEF TestsInv
<1> DEFINE Is(g) == g = [k \in 1..Len(nodes) |->
                           IF k <= NumAtoms THEN {k} ELSE g[nodes[k].left] \cup g[nodes[k].right]]
<1>2. Is(f)
  BY <1>1 DEF IsTests
<1>3. Tested = CHOOSE g : Is(g)
  BY Zenon DEF Tested
<1>4. Is(CHOOSE g : Is(g))
  <2> HIDE DEF Is
  <2> QED BY <1>2
<1>5. IsTests(nodes, NumAtoms, Tested)
  BY <1>3, <1>4, Zenon DEF IsTests
<1> QED
  BY <1>1, <1>5, TestsAreUnique

-----------------------------------------------------------------------------
(* The nodes that are needed for a literal: every set with the literals' nodes and
   the parts of its conjunctions has them.                                 *)
HasParts(S) ==
  /\ \A k \in 1..Len(nodes) : nodes[k].literal # 0 => k \in S
  /\ \A k \in Conjunctions : k \in S => PartsOf(k) \subseteq S

Needed == {k \in 1..Len(nodes) : \A S \in SUBSET (1..Len(nodes)) : HasParts(S) => k \in S}

LEMMA ConjunctionParts ==
  ASSUME PlanInv, NEW k \in Conjunctions
  PROVE  /\ NumAtoms \in Nat /\ Len(nodes) \in Nat
         /\ k \in 1..Len(nodes) /\ k > NumAtoms
         /\ PartsOf(k) \subseteq 1..k - 1 /\ PartsOf(k) \subseteq 1..Len(nodes)
         /\ nodes[k].left # nodes[k].right
<1>1. nodes[k].left \in 1..k - 1 /\ nodes[k].right \in 1..k - 1 /\ nodes[k].left # nodes[k].right
  BY DEF PlanInv, NodesInv
<1>2. NumAtoms \in Nat /\ Len(nodes) \in Nat
  BY LiteralTypes
<1>3. k \in 1..Len(nodes) /\ k > NumAtoms
  BY <1>2 DEF Conjunctions
<1>4. PartsOf(k) \subseteq 1..k - 1
  BY <1>1 DEF PartsOf
<1>5. 1..k - 1 \subseteq 1..Len(nodes)
  BY <1>2, <1>3
<1> QED
  BY <1>1, <1>2, <1>3, <1>4, <1>5

LEMMA NeededIsClosed ==
  ASSUME PlanInv
  PROVE  HasParts(Needed)
<1>1. \A k \in 1..Len(nodes) : nodes[k].literal # 0 => k \in Needed
  BY Zenon DEF Needed, HasParts
<1>2. ASSUME NEW k \in Conjunctions, k \in Needed
      PROVE  PartsOf(k) \subseteq Needed
  <2>1. PartsOf(k) \subseteq 1..Len(nodes)
    BY ConjunctionParts
  <2>2. \A S \in SUBSET (1..Len(nodes)) : HasParts(S) => PartsOf(k) \subseteq S
    BY <1>2, Zenon DEF Needed, HasParts
  <2> QED BY <2>1, <2>2 DEF Needed
<1> QED
  BY <1>1, <1>2, Zenon DEF HasParts

(* What no literal needs could be left out. *)
LEMMA NeededIsLean ==
  ASSUME PlanInv, NEW k \in Needed, nodes[k].literal = 0
  PROVE  \E m \in Needed : m \in UsersOf(k)
<1> SUFFICES ASSUME \A m \in Needed : m \notin UsersOf(k) PROVE FALSE
  OBVIOUS
<1> DEFINE S == Needed \ {k}
<1>1. HasParts(Needed)
  BY NeededIsClosed
<1>2. \A i \in 1..Len(nodes) : nodes[i].literal # 0 => i \in S
  BY <1>1 DEF HasParts
<1>3. ASSUME NEW m \in Conjunctions, m \in S
      PROVE  PartsOf(m) \subseteq S
  <2>1. PartsOf(m) \subseteq Needed
    BY <1>1, <1>3 DEF HasParts
  <2>2. k \notin PartsOf(m)
    BY <1>3 DEF UsersOf
  <2> QED BY <2>1, <2>2
<1>4. HasParts(S)
  BY <1>2, <1>3, Zenon DEF HasParts
<1>5. S \in SUBSET (1..Len(nodes)) /\ k \notin S
  BY DEF Needed
<1> HIDE DEF S
<1> QED
  BY <1>4, <1>5 DEF Needed

LEMMA UsersAre ==
  ASSUME PlanInv, NEW k
  PROVE  /\ IsFiniteSet(UsersOf(k))
         /\ \A m \in UsersOf(k) : m \in Conjunctions /\ m \in 1..Len(nodes) /\ m > NumAtoms
         /\ \A m \in UsersOf(k) : k \in 1..m - 1
<1>1. NumAtoms \in Nat /\ Len(nodes) \in Nat
  BY LiteralTypes
<1>2. IsFiniteSet(Conjunctions)
  <2>1. NumAtoms + 1 \in Int /\ Len(nodes) \in Int
    BY <1>1
  <2> QED BY <2>1, FS_Interval, Zenon DEF Conjunctions
<1>3. UsersOf(k) \in SUBSET Conjunctions
  BY DEF UsersOf
<1>4. ASSUME NEW m \in UsersOf(k)
      PROVE  m \in Conjunctions /\ m \in 1..Len(nodes) /\ m > NumAtoms /\ k \in 1..m - 1
  <2>1. m \in Conjunctions /\ k \in PartsOf(m)
    BY DEF UsersOf
  <2> QED BY <2>1, ConjunctionParts
<1> QED
  BY <1>2, <1>3, <1>4, FS_Subset

(* The reference counts when the nodes above i were visited: the users up to i,
   and those above that are needed.                                        *)
StillUsing(k, i) == {m \in UsersOf(k) : m <= i \/ m \in Needed}
CountsAt(i) == [k \in 1..Len(nodes) |-> Cardinality(StillUsing(k, i))]

(* A function of the counts after each visit, as References takes it. *)
IsRelease(g) ==
  g = [k \in NumAtoms..Len(nodes) |->
        IF k = Len(nodes) THEN [m \in 1..Len(nodes) |-> nodes[m].references]
        ELSE LET n == nodes[k + 1]
                 above == g[k + 1]
             IN  IF n.literal = 0 /\ above[k + 1] = 0
                 THEN [above EXCEPT ![n.left] = @ - 1, ![n.right] = @ - 1]
                 ELSE above]

LEMMA CountsAtTop ==
  ASSUME PlanInv
  PROVE  CountsAt(Len(nodes)) = [m \in 1..Len(nodes) |-> nodes[m].references]
<1>1. ASSUME NEW m \in 1..Len(nodes)
      PROVE  Cardinality(StillUsing(m, Len(nodes))) = nodes[m].references
  <2>1. StillUsing(m, Len(nodes)) = UsersOf(m)
    <3>1. \A u \in UsersOf(m) : u <= Len(nodes)
      <4>1. \A u \in UsersOf(m) : u \in 1..Len(nodes)
        BY UsersAre
      <4> QED BY <4>1
    <3> QED BY <3>1 DEF StillUsing
  <2>2. nodes[m].references = Cardinality(UsersOf(m))
    BY DEF PlanInv, NodesInv
  <2> QED BY <2>1, <2>2
<1> QED
  BY <1>1, Zenon DEF CountsAt

LEMMA CountsAreReleased ==
  ASSUME PlanInv, NEW k \in NumAtoms..Len(nodes), k # Len(nodes)
  PROVE  LET n == nodes[k + 1]
             above == CountsAt(k + 1)
         IN  CountsAt(k) = IF n.literal = 0 /\ above[k + 1] = 0
                           THEN [above EXCEPT ![n.left] = @ - 1, ![n.right] = @ - 1]
                           ELSE above
<1> DEFINE j == k + 1
           N == Len(nodes)
           n == nodes[j]
           above == CountsAt(j)
<1>1. NumAtoms \in Nat /\ N \in Nat /\ k \in Nat /\ j \in 1..N /\ j \in Conjunctions
  BY LiteralTypes DEF Conjunctions
<1>2. /\ n.left \in 1..N /\ n.right \in 1..N /\ n.left # n.right
      /\ PartsOf(j) = {n.left, n.right}
  BY <1>1, ConjunctionParts DEF PartsOf
<1>3. above[j] = Cardinality(StillUsing(j, j))
  BY <1>1 DEF CountsAt
<1>4. StillUsing(j, j) = {m \in UsersOf(j) : m \in Needed}
  <2>1. \A m \in UsersOf(j) : ~(m <= j)
    <3>1. \A m \in UsersOf(j) : j \in 1..m - 1 /\ m \in 1..N
      BY UsersAre
    <3> QED BY <1>1, <3>1
  <2> QED BY <2>1 DEF StillUsing
<1>5. ASSUME NEW i, NEW l
      PROVE  IsFiniteSet(StillUsing(i, l)) /\ Cardinality(StillUsing(i, l)) \in Nat
  <2>1. StillUsing(i, l) \in SUBSET UsersOf(i)
    BY DEF StillUsing
  <2> QED BY <2>1, UsersAre, FS_Subset, FS_CardinalityType
<1>6. (n.literal = 0 /\ above[j] = 0) <=> j \notin Needed
  <2>1. above[j] = 0 <=> StillUsing(j, j) = {}
    BY <1>3, <1>5, FS_EmptySet
  <2>2. n.literal # 0 => j \in Needed
    BY <1>1, NeededIsClosed DEF HasParts
  <2>3. ASSUME NEW m \in UsersOf(j), m \in Needed
        PROVE  j \in Needed
    <3>1. m \in Conjunctions /\ j \in PartsOf(m)
      BY DEF UsersOf
    <3> QED BY <2>3, <3>1, NeededIsClosed DEF HasParts
  <2>4. j \in Needed /\ n.literal = 0 => \E m \in UsersOf(j) : m \in Needed
    BY NeededIsLean
  <2> QED BY <1>4, <2>1, <2>2, <2>3, <2>4
<1>7. ASSUME NEW m \in 1..N
      PROVE  /\ j \in Needed => StillUsing(m, k) = StillUsing(m, j)
             /\ j \notin Needed =>
                  Cardinality(StillUsing(m, k))
                    = Cardinality(StillUsing(m, j)) - (IF m \in {n.left, n.right} THEN 1 ELSE 0)
  <2>1. \A u \in UsersOf(m) : u <= j <=> (u <= k \/ u = j)
    <3>1. \A u \in UsersOf(m) : u \in 1..N
      BY UsersAre
    <3> QED BY <1>1, <3>1
  <2>2. j \in UsersOf(m) <=> m \in {n.left, n.right}
    BY <1>1, <1>2 DEF UsersOf
  <2> DEFINE A == StillUsing(m, k)
             B == StillUsing(m, j)
  <2>3. \A u : u \in B <=> u \in A \/ (u = j /\ j \in UsersOf(m))
    BY <2>1, Zenon DEF StillUsing
  <2>4. j \notin Needed => j \notin A
    <3>1. ~(j <= k)
      BY <1>1
    <3> QED BY <3>1, Zenon DEF StillUsing
  <2>5. IsFiniteSet(A) /\ Cardinality(A) \in Nat
    BY <1>5
  <2>6. j \in Needed /\ j \in UsersOf(m) => j \in A
    BY Zenon DEF StillUsing
  <2> HIDE DEF A, B
  <2>7. j \in Needed => A = B
    <3>1. j \in Needed => \A u : u \in A <=> u \in B
      BY <2>3, <2>6, Zenon
    <3> QED BY <3>1
  <2>8. ASSUME j \notin Needed
        PROVE  Cardinality(A) = Cardinality(B) - (IF m \in {n.left, n.right} THEN 1 ELSE 0)
    <3>1. CASE m \in {n.left, n.right}
      <4>1. B = A \cup {j} /\ j \notin A
        BY <2>2, <2>3, <2>4, <2>8, <3>1
      <4>2. Cardinality(B) = Cardinality(A) + 1
        BY <2>5, <4>1, FS_AddElement
      <4> QED BY <2>5, <3>1, <4>2
    <3>2. CASE m \notin {n.left, n.right}
      <4>1. B = A
        BY <2>2, <2>3, <3>2
      <4> QED BY <2>5, <3>2, <4>1
    <3> QED BY <3>1, <3>2
  <2> QED BY <2>7, <2>8 DEF A, B
<1>8. /\ CountsAt(k) = [m \in 1..N |-> Cardinality(StillUsing(m, k))]
      /\ above = [m \in 1..N |-> Cardinality(StillUsing(m, j))]
  BY DEF CountsAt
<1> HIDE DEF j, N, n, above
<1>9. CASE j \in Needed
  <2>1. CountsAt(k) = above
    BY <1>7, <1>8, <1>9, Zenon
  <2> QED BY <1>6, <1>9, <2>1 DEF j, n, above
<1>10. CASE j \notin Needed
  <2>1. \A m \in 1..N : Cardinality(StillUsing(m, k)) =
          IF m \in {n.left, n.right} THEN above[m] - 1 ELSE above[m]
    <3> TAKE m \in 1..N
    <3>1. above[m] = Cardinality(StillUsing(m, j)) /\ above[m] \in Nat
      BY <1>5, <1>8
    <3> QED BY <1>7, <1>10, <3>1
  <2> DEFINE after == [above EXCEPT ![n.left] = @ - 1, ![n.right] = @ - 1]
  <2>2. DOMAIN above = 1..N
    BY <1>8
  <2>3. /\ DOMAIN after = 1..N
        /\ \A m \in 1..N : after[m] = IF m \in {n.left, n.right} THEN above[m] - 1 ELSE above[m]
    BY <1>2, <2>2
  <2>4. after = [m \in 1..N |-> after[m]]
    BY <2>2
  <2> HIDE DEF after
  <2>5. CountsAt(k) = after
    <3>1. \A m \in 1..N : Cardinality(StillUsing(m, k)) = after[m]
      BY <2>1, <2>3
    <3> QED BY <1>8, <2>4, <3>1, Zenon
  <2> QED BY <1>6, <1>10, <2>5 DEF after, j, n, above
<1> QED
  BY <1>9, <1>10

(* Whatever solves the recursion gives these counts. *)
LEMMA ReleaseIsCounts ==
  ASSUME PlanInv, NEW g, IsRelease(g), NEW i \in NumAtoms..Len(nodes)
  PROVE  g[i] = CountsAt(i)
<1> DEFINE N == Len(nodes)
           wrong == {d \in 0..N - NumAtoms : g[N - d] # CountsAt(N - d)}
           Released(k, above) ==
             IF nodes[k + 1].literal = 0 /\ above[k + 1] = 0
             THEN [above EXCEPT ![nodes[k + 1].left] = @ - 1, ![nodes[k + 1].right] = @ - 1]
             ELSE above
<1>1. NumAtoms \in Nat /\ N \in Nat /\ NumAtoms <= N
  BY LiteralTypes
<1>2. \A k \in NumAtoms..N : g[k] = IF k = N THEN [m \in 1..N |-> nodes[m].references]
                                    ELSE Released(k, g[k + 1])
  BY Zenon DEF IsRelease
<1>3. \A k \in NumAtoms..N : k # N => CountsAt(k) = Released(k, CountsAt(k + 1))
  BY CountsAreReleased
<1> HIDE DEF Released
<1>4. wrong = {}
  <2> SUFFICES ASSUME wrong # {} PROVE FALSE
    BY Zenon
  <2>1. wrong \in SUBSET Nat
    BY <1>1
  <2>2. PICK d \in wrong : \A e \in wrong : d <= e
    <3> HIDE DEF wrong
    <3> QED BY <2>1, HasLowest
  <2>3. d \in 0..N - NumAtoms /\ g[N - d] # CountsAt(N - d)
    BY <2>2
  <2>4. N - d \in NumAtoms..N
    BY <1>1, <2>3
  <2>5. CASE d = 0
    <3>1. N - d = N
      BY <1>1, <2>5
    <3>2. g[N] = [m \in 1..N |-> nodes[m].references]
      BY <1>2, <2>4, <3>1
    <3> QED BY <2>3, <3>1, <3>2, CountsAtTop
  <2>6. CASE d # 0
    <3>1. /\ d - 1 \in 0..N - NumAtoms /\ ~(d <= d - 1)
          /\ N - (d - 1) = (N - d) + 1 /\ N - d # N
      BY <1>1, <2>3, <2>6
    <3>2. d - 1 \notin wrong
      BY <2>2, <3>1
    <3>3. g[(N - d) + 1] = CountsAt((N - d) + 1)
      BY <3>1, <3>2
    <3>4. g[N - d] = Released(N - d, g[(N - d) + 1])
      BY <1>2, <2>4, <3>1
    <3>5. CountsAt(N - d) = Released(N - d, CountsAt((N - d) + 1))
      BY <1>3, <2>4, <3>1
    <3> QED BY <2>3, <3>3, <3>4, <3>5
  <2> QED BY <2>5, <2>6
<1>5. N - i \in 0..N - NumAtoms /\ N - (N - i) = i
  BY <1>1
<1> QED
  BY <1>4, <1>5

LEMMA ReferencesAre ==
  ASSUME PlanInv
  PROVE  References = CountsAt(NumAtoms)
<1> DEFINE Is(g) ==
             g = [k \in NumAtoms..Len(nodes) |->
                   IF k = Len(nodes) THEN [m \in 1..Len(nodes) |-> nodes[m].references]
                   ELSE LET n == nodes[k + 1]
                            above == g[k + 1]
                        IN  IF n.literal = 0 /\ above[k + 1] = 0
                            THEN [above EXCEPT ![n.left] = @ - 1, ![n.right] = @ - 1]
                            ELSE above]
           f == [k \in NumAtoms..Len(nodes) |-> CountsAt(k)]
           after == CHOOSE g : Is(g)
<1>1. NumAtoms \in Nat /\ Len(nodes) \in Nat /\ NumAtoms <= Len(nodes)
  BY LiteralTypes
<1>2. Is(f)
  <2> DEFINE Next1(g, k) ==
               IF k = Len(nodes) THEN [m \in 1..Len(nodes) |-> nodes[m].references]
               ELSE LET n == nodes[k + 1]
                        above == g[k + 1]
                    IN  IF n.literal = 0 /\ above[k + 1] = 0
                        THEN [above EXCEPT ![n.left] = @ - 1, ![n.right] = @ - 1]
                        ELSE above
  <2>1. ASSUME NEW k \in NumAtoms..Len(nodes)
        PROVE  CountsAt(k) = Next1(f, k)
    <3>1. CASE k = Len(nodes)
      BY <3>1, CountsAtTop
    <3>2. CASE k # Len(nodes)
      <4>1. k + 1 \in NumAtoms..Len(nodes)
        BY <1>1, <3>2
      <4>2. f[k + 1] = CountsAt(k + 1)
        BY <4>1
      <4> HIDE DEF f
      <4>3. CountsAt(k) =
              IF nodes[k + 1].literal = 0 /\ CountsAt(k + 1)[k + 1] = 0
              THEN [CountsAt(k + 1) EXCEPT ![nodes[k + 1].left] = @ - 1, ![nodes[k + 1].right] = @ - 1]
              ELSE CountsAt(k + 1)
        BY <3>2, CountsAreReleased
      <4> QED BY <3>2, <4>2, <4>3
    <3> QED BY <3>1, <3>2
  <2>2. f = [k \in NumAtoms..Len(nodes) |-> Next1(f, k)]
    <3> HIDE DEF Next1
    <3> QED BY <2>1, Zenon
  <2> QED BY <2>2, Zenon
<1>3. Is(after)
  <2> HIDE DEF Is, f
  <2> QED BY <1>2
<1>4. References = after[NumAtoms]
  BY Zenon DEF References
<1>5. IsRelease(after)
  <2> HIDE DEF after
  <2> QED BY <1>3, Zenon DEF IsRelease
<1> HIDE DEF after
<1>6. NumAtoms \in NumAtoms..Len(nodes)
  BY <1>1
<1> QED
  BY <1>4, <1>5, <1>6, ReleaseIsCounts

(* The plan keeps what is needed. *)
LEMMA UsedIsNeeded ==
  ASSUME PlanInv, NEW k \in 1..Len(nodes)
  PROVE  IsUsed(k) <=> k \in Needed
<1>1. References[k] = Cardinality(StillUsing(k, NumAtoms))
  BY ReferencesAre DEF CountsAt
<1>2. StillUsing(k, NumAtoms) = {m \in UsersOf(k) : m \in Needed}
  <2>1. \A m \in UsersOf(k) : ~(m <= NumAtoms)
    <3>1. \A m \in UsersOf(k) : m > NumAtoms /\ m \in 1..Len(nodes)
      BY UsersAre
    <3>2. NumAtoms \in Nat
      BY LiteralTypes
    <3> QED BY <3>1, <3>2
  <2> QED BY <2>1 DEF StillUsing
<1>3. IsFiniteSet(StillUsing(k, NumAtoms))
  <2>1. StillUsing(k, NumAtoms) \in SUBSET UsersOf(k)
    BY DEF StillUsing
  <2> QED BY <2>1, UsersAre, FS_Subset
<1>4. References[k] = 0 <=> StillUsing(k, NumAtoms) = {}
  BY <1>1, <1>3, FS_EmptySet
<1>5. nodes[k].literal # 0 => k \in Needed
  BY NeededIsClosed DEF HasParts
<1>6. ASSUME NEW m \in UsersOf(k), m \in Needed
      PROVE  k \in Needed
  <2>1. m \in Conjunctions /\ k \in PartsOf(m)
    BY DEF UsersOf
  <2> QED BY <1>6, <2>1, NeededIsClosed DEF HasParts
<1>7. k \in Needed /\ nodes[k].literal = 0 => \E m \in UsersOf(k) : m \in Needed
  BY NeededIsLean
<1> QED
  BY <1>2, <1>4, <1>5, <1>6, <1>7 DEF IsUsed

LEMMA KeptAre ==
  ASSUME PlanInv
  PROVE  /\ Kept \in SUBSET (1..Len(nodes)) /\ IsFiniteSet(Kept)
         /\ \A k \in 1..Len(nodes) : k \in Kept <=> k <= NumAtoms \/ k \in Needed
<1>1. Kept \in SUBSET (1..Len(nodes))
  BY DEF Kept
<1>2. \A k \in 1..Len(nodes) : k \in Kept <=> k <= NumAtoms \/ k \in Needed
  BY UsedIsNeeded DEF Kept
<1>3. IsFiniteSet(1..Len(nodes))
  <2>1. 1 \in Int /\ Len(nodes) \in Int
    BY LiteralTypes
  <2> QED BY <2>1, FS_Interval, Zenon
<1> QED
  BY <1>1, <1>2, <1>3, FS_Subset

LEMMA LiteralIsKept ==
  ASSUME PlanInv, NEW i \in Longer(literals) \ remaining
  PROVE  \E k \in Kept : /\ nodes[k].literal = i /\ k > NumAtoms
                         /\ \A m \in Kept : nodes[m].literal = i => m = k
<1>1. i # 0
  <2>1. Longer(literals) \in SUBSET (1..Len(literals)) /\ Len(literals) \in Nat
    BY LiteralTypes
  <2> QED BY <2>1
<1>2. PICK k \in 1..Len(nodes) : nodes[k].literal = i
  BY DEF PlanInv, FoundInv
<1>3. \A m \in 1..Len(nodes) : nodes[m].literal = i => m = k
  BY <1>1, <1>2 DEF PlanInv, FoundInv
<1>4. k \in Needed
  BY <1>1, <1>2, NeededIsClosed DEF HasParts
<1>5. k \in Kept /\ Kept \in SUBSET (1..Len(nodes))
  BY <1>4, KeptAre
<1>6. k > NumAtoms
  <2>1. \A m \in 1..NumAtoms : nodes[m].literal = 0
    BY DEF PlanInv, NodesInv
  <2>2. NumAtoms \in Nat
    BY LiteralTypes
  <2> QED BY <1>1, <1>2, <2>1, <2>2
<1> QED
  BY <1>2, <1>3, <1>5, <1>6

LEMMA PlanExact ==
  ASSUME PlanInv
  PROVE  PlanIsExact
<1> SUFFICES ASSUME IsPlanned, NEW i \in Longer(literals)
             PROVE  /\ Cardinality({k \in Kept : nodes[k].literal = i}) = 1
                    /\ \A k \in Kept : nodes[k].literal = i => Tested[k] = literals[i]
  BY Zenon DEF PlanIsExact
<1>1. i \in Longer(literals) \ remaining
  BY DEF IsPlanned
<1>2. PICK k \in Kept : nodes[k].literal = i /\ \A m \in Kept : nodes[m].literal = i => m = k
  BY <1>1, LiteralIsKept
<1>3. {m \in Kept : nodes[m].literal = i} = {k}
  BY <1>2
<1>4. Cardinality({m \in Kept : nodes[m].literal = i}) = 1
  BY <1>3, FS_Singleton
<1>5. PICK f : TestsInv(f)
  BY DEF PlanInv
<1>6. Tested = f
  BY <1>5, TestedIsThat
<1>7. i # 0
  <2>1. Longer(literals) \in SUBSET (1..Len(literals)) /\ Len(literals) \in Nat
    BY LiteralTypes
  <2> QED BY <2>1
<1>8. ASSUME NEW m \in Kept, nodes[m].literal = i
      PROVE  Tested[m] = literals[i]
  <2>1. m \in 1..Len(nodes)
    BY KeptAre
  <2> QED BY <1>5, <1>6, <1>7, <1>8, <2>1 DEF TestsInv
<1> QED
  BY <1>4, <1>8

LEMMA PlanClosedAndLean ==
  ASSUME PlanInv
  PROVE  PlanIsClosedAndLean
<1> SUFFICES ASSUME NEW k \in Kept \ 1..NumAtoms
             PROVE  /\ {nodes[k].left, nodes[k].right} \subseteq Kept
                    /\ \/ nodes[k].literal # 0
                       \/ \E m \in Kept : k \in {nodes[m].left, nodes[m].right}
  BY Zenon DEF PlanIsClosedAndLean
<1>1. NumAtoms \in Nat /\ Len(nodes) \in Nat
  BY LiteralTypes
<1>2. k \in 1..Len(nodes) /\ ~(k <= NumAtoms) /\ k \in Needed
  <2>1. k \in 1..Len(nodes)
    BY KeptAre
  <2>2. ~(k <= NumAtoms)
    BY <1>1, <2>1
  <2> QED BY <2>1, <2>2, KeptAre
<1>3. k \in Conjunctions
  BY <1>1, <1>2 DEF Conjunctions
<1>4. PartsOf(k) \subseteq Needed /\ Needed \subseteq 1..Len(nodes)
  BY <1>2, <1>3, NeededIsClosed DEF HasParts, Needed
<1>5. Needed \subseteq Kept
  BY <1>4, KeptAre
<1>6. PartsOf(k) \subseteq Kept
  BY <1>4, <1>5
<1>7. ASSUME nodes[k].literal = 0
      PROVE  \E m \in Kept : k \in PartsOf(m)
  <2>1. PICK m \in Needed : m \in UsersOf(k)
    BY <1>2, <1>7, NeededIsLean
  <2> QED BY <1>5, <2>1 DEF UsersOf
<1> QED
  BY <1>6, <1>7 DEF PartsOf

-----------------------------------------------------------------------------
(* What the plan means.  A literal, or none: *)
LEMMA LiteralOfIs ==
  ASSUME PlanInv, NEW tests
  PROVE  /\ LiteralOf(tests) \in 0..Len(literals) /\ Len(literals) \in Nat
         /\ \A i \in 1..Len(literals) : LiteralOf(tests) = i <=> literals[i] = tests
<1>1. /\ literals \in Seq(SUBSET (1..NumAtoms))
      /\ \A i, j \in 1..Len(literals) : literals[i] = literals[j] => i = j
  BY DEF PlanInv, LiteralsInv
<1>2. DOMAIN literals = 1..Len(literals) /\ Len(literals) \in Nat
  BY <1>1
<1>3. CASE \E i \in DOMAIN literals : literals[i] = tests
  <2>1. LiteralOf(tests) = CHOOSE i \in DOMAIN literals : literals[i] = tests
    BY <1>3 DEF LiteralOf
  <2>2. LiteralOf(tests) \in 1..Len(literals) /\ literals[LiteralOf(tests)] = tests
    BY <1>2, <1>3, <2>1
  <2> QED BY <1>1, <1>2, <2>2
<1>4. CASE ~\E i \in DOMAIN literals : literals[i] = tests
  <2>1. LiteralOf(tests) = 0
    BY <1>4 DEF LiteralOf
  <2> QED BY <1>2, <1>4, <2>1
<1> QED
  BY <1>3, <1>4

PlanNode == [test : Test \cup {<<>>}, parts : SUBSET Nat, literal : Nat]
EvaluationPlanType == [root : Nat, nodes : Seq(PlanNode)]

LEMMA PlanNodesAre ==
  ASSUME PlanInv
  PROVE  /\ Cardinality(Kept) \in Nat
         /\ Plan \in EvaluationPlanType
         /\ Len(Plan.nodes) = Cardinality(Kept) /\ DOMAIN Plan.nodes = 1..Cardinality(Kept)
         /\ Plan.root = LiteralOf({})
         /\ \A n \in 1..Cardinality(Kept) : Nth(Kept, n) \in Kept /\ Rank(Kept, Nth(Kept, n)) = n
         /\ \A k \in Kept :
              /\ Rank(Kept, k) \in 1..Cardinality(Kept) /\ Nth(Kept, Rank(Kept, k)) = k
              /\ k <= NumAtoms =>
                   Plan.nodes[Rank(Kept, k)] =
                     [test |-> atoms[k], parts |-> {}, literal |-> LiteralOf({k})]
              /\ k > NumAtoms =>
                   Plan.nodes[Rank(Kept, k)] =
                     [test |-> <<>>,
                      parts |-> {Rank(Kept, nodes[k].left), Rank(Kept, nodes[k].right)},
                      literal |-> nodes[k].literal]
<1> DEFINE K == Kept
           c == Cardinality(K)
           NodeOf(k) == IF k <= NumAtoms
                        THEN [test |-> atoms[k], parts |-> {}, literal |-> LiteralOf({k})]
                        ELSE [test |-> <<>>,
                              parts |-> {Rank(K, nodes[k].left), Rank(K, nodes[k].right)},
                              literal |-> nodes[k].literal]
<1>1. /\ K \in SUBSET (1..Len(nodes)) /\ K \in SUBSET Int /\ IsFiniteSet(K) /\ c \in Nat
      /\ NumAtoms \in Nat /\ atoms \in Seq(Test) /\ nodes \in Seq(Node)
  <2>1. K \in SUBSET (1..Len(nodes)) /\ IsFiniteSet(K)
    BY KeptAre
  <2>2. NumAtoms \in Nat /\ atoms \in Seq(Test) /\ nodes \in Seq(Node)
    BY LiteralTypes DEF PlanInv, LiteralsInv, NodesInv
  <2> QED BY <2>1, <2>2, FS_CardinalityType
<1>2. Plan = [root |-> LiteralOf({}), nodes |-> [n \in 1..c |-> NodeOf(Nth(K, n))]]
  BY Zenon DEF Plan
<1> HIDE DEF K, c
<1>3. \A n \in 1..c : Nth(K, n) \in K /\ Rank(K, Nth(K, n)) = n
  BY <1>1, NthIsRanked DEF c
<1>4. \A k \in K : Rank(K, k) \in 1..c /\ Nth(K, Rank(K, k)) = k
  BY <1>1, RankBounds, NthOfRank DEF c
<1>5. \A k \in K : NodeOf(k) \in PlanNode
  <2> TAKE k \in K
  <2>1. k \in 1..Len(nodes)
    BY <1>1
  <2>2. CASE k <= NumAtoms
    <3>1. k \in 1..Len(atoms)
      BY <1>1, <2>1, <2>2 DEF NumAtoms
    <3>2. atoms[k] \in Test
      BY <1>1, <3>1
    <3>3. LiteralOf({k}) \in Nat
      BY LiteralOfIs
    <3> QED BY <2>2, <3>2, <3>3 DEF PlanNode
  <2>3. CASE ~(k <= NumAtoms)
    <3>1. \A m : Rank(K, m) \in Nat
      <4> TAKE m
      <4>1. {j \in K : j <= m} \in SUBSET K
        OBVIOUS
      <4> QED BY <1>1, <4>1, FS_Subset, FS_CardinalityType DEF Rank
    <3>2. nodes[k].literal \in Nat
      <4>1. nodes[k] \in Node
        BY <1>1, <2>1
      <4> QED BY <4>1 DEF Node
    <3> QED BY <2>3, <3>1, <3>2 DEF PlanNode
  <2> QED BY <2>2, <2>3
<1> HIDE DEF NodeOf
<1>6. LiteralOf({}) \in Nat
  BY LiteralOfIs
<1>7. \A n \in 1..c : NodeOf(Nth(K, n)) \in PlanNode
  BY <1>3, <1>5
<1>8. /\ Plan.root = LiteralOf({}) /\ Plan.nodes = [n \in 1..c |-> NodeOf(Nth(K, n))]
      /\ Plan.nodes \in Seq(PlanNode)
  BY <1>1, <1>2, <1>7
<1>9. Plan \in EvaluationPlanType
  <2>1. [n \in 1..c |-> NodeOf(Nth(K, n))] \in Seq(PlanNode)
    BY <1>8
  <2> QED BY <1>2, <1>6, <2>1 DEF EvaluationPlanType
<1>10. \A n \in 1..c : Plan.nodes[n] = NodeOf(Nth(K, n))
  BY <1>8
<1>11. \A k \in K : Plan.nodes[Rank(K, k)] = NodeOf(k)
  BY <1>4, <1>10
<1>12. Len(Plan.nodes) = c /\ DOMAIN Plan.nodes = 1..c
  BY <1>1, <1>8
<1>13. ASSUME NEW k \in K
       PROVE  /\ k <= NumAtoms =>
                   Plan.nodes[Rank(K, k)] =
                     [test |-> atoms[k], parts |-> {}, literal |-> LiteralOf({k})]
              /\ k > NumAtoms =>
                   Plan.nodes[Rank(K, k)] =
                     [test |-> <<>>,
                      parts |-> {Rank(K, nodes[k].left), Rank(K, nodes[k].right)},
                      literal |-> nodes[k].literal]
  <2>1. k > NumAtoms => ~(k <= NumAtoms)
    BY <1>1
  <2> QED BY <1>11, <2>1, Zenon DEF NodeOf
<1> QED
  BY <1>1, <1>3, <1>4, <1>8, <1>9, <1>12, <1>13, Zenon DEF K, c

(* The nodes of a plan, evaluated for a fact and a binding. *)
IsEvaluated(h, tree, fact, binding) ==
  h = [n \in DOMAIN tree |->
        IF tree[n].parts = {} THEN fact[tree[n].test[1]] = binding[tree[n].test[2]]
        ELSE \A m \in tree[n].parts : h[m]]

Passes(k, fact, binding) == fact[atoms[k][1]] = binding[atoms[k][2]]
AllPass(S, fact, binding) == \A k \in S : Passes(k, fact, binding)

(* The conjunctions of the plan, with what they are made of. *)
LEMMA KeptNodesAre ==
  ASSUME PlanInv, NEW f, TestsInv(f), NEW k \in Kept
  PROVE  /\ NumAtoms \in Nat /\ k \in 1..Len(nodes) /\ k \in Nat
         /\ k <= NumAtoms => f[k] = {k}
         /\ k > NumAtoms => /\ nodes[k].left \in Kept /\ nodes[k].right \in Kept
                            /\ nodes[k].left < k /\ nodes[k].right < k
                            /\ f[k] = f[nodes[k].left] \cup f[nodes[k].right]
<1>1. NumAtoms \in Nat /\ Len(nodes) \in Nat /\ k \in 1..Len(nodes)
  BY LiteralTypes, KeptAre
<1>2. f[k] = IF k <= NumAtoms THEN {k} ELSE f[nodes[k].left] \cup f[nodes[k].right]
  <2>1. IsTests(nodes, NumAtoms, f)
    BY DEF TestsInv
  <2> QED BY <1>1, <2>1 DEF IsTests
<1>3. ASSUME k > NumAtoms
      PROVE  /\ nodes[k].left \in Kept /\ nodes[k].right \in Kept
             /\ nodes[k].left < k /\ nodes[k].right < k
  <2>1. k \in Conjunctions
    BY <1>1, <1>3 DEF Conjunctions
  <2>2. k \in Needed
    BY <1>1, <1>3, KeptAre
  <2>3. PartsOf(k) \subseteq Needed
    BY <2>1, <2>2, NeededIsClosed DEF HasParts
  <2>4. PartsOf(k) \subseteq 1..k - 1 /\ PartsOf(k) \subseteq 1..Len(nodes)
    BY <2>1, ConjunctionParts
  <2>5. PartsOf(k) \subseteq Kept
    BY <2>3, <2>4, KeptAre
  <2> QED BY <1>1, <2>4, <2>5 DEF PartsOf
<1> QED
  BY <1>1, <1>2, <1>3

LEMMA EvaluatedIs ==
  ASSUME PlanInv, NEW f, TestsInv(f), NEW fact, NEW binding, NEW h,
         IsEvaluated(h, Plan.nodes, fact, binding), NEW k \in Kept
  PROVE  h[Rank(Kept, k)] = AllPass(f[k], fact, binding)
<1> DEFINE bad == {j \in Kept : h[Rank(Kept, j)] # AllPass(f[j], fact, binding)}
<1>1. Kept \in SUBSET Nat
  BY KeptNodesAre
<1> SUFFICES ASSUME bad # {} PROVE FALSE
  OBVIOUS
<1>2. PICK j \in bad : \A other \in bad : j <= other
  BY <1>1, HasLowest
<1> DEFINE n == Rank(Kept, j)
           tree == Plan.nodes
<1>3. j \in Kept
  OBVIOUS
<1>4. /\ n \in DOMAIN tree
      /\ j <= NumAtoms => tree[n] = [test |-> atoms[j], parts |-> {}, literal |-> LiteralOf({j})]
      /\ j > NumAtoms => tree[n] = [test |-> <<>>,
           parts |-> {Rank(Kept, nodes[j].left), Rank(Kept, nodes[j].right)},
           literal |-> nodes[j].literal]
  BY <1>3, PlanNodesAre
<1>5. h[n] = IF tree[n].parts = {} THEN fact[tree[n].test[1]] = binding[tree[n].test[2]]
             ELSE \A m \in tree[n].parts : h[m]
  <2> HIDE DEF tree, n
  <2> QED BY <1>4, Zenon DEF IsEvaluated, tree
<1>6. NumAtoms \in Nat /\ j \in Nat
  BY <1>3, KeptNodesAre
<1>7. CASE j <= NumAtoms
  <2>1. f[j] = {j}
    BY <1>3, <1>7, KeptNodesAre
  <2>2. tree[n].parts = {} /\ tree[n].test = atoms[j]
    BY <1>4, <1>7
  <2>3. h[n] = (fact[atoms[j][1]] = binding[atoms[j][2]])
    BY <1>5, <2>2
  <2>4. AllPass(f[j], fact, binding) = (fact[atoms[j][1]] = binding[atoms[j][2]])
    BY <2>1 DEF AllPass, Passes
  <2> QED BY <2>3, <2>4
<1>8. CASE j > NumAtoms
  <2> DEFINE l == nodes[j].left
             r == nodes[j].right
  <2>1. l \in Kept /\ r \in Kept /\ l < j /\ r < j /\ f[j] = f[l] \cup f[r]
    BY <1>3, <1>8, KeptNodesAre
  <2>2. l \notin bad /\ r \notin bad
    <3> HIDE DEF bad, l, r
    <3>1. l \in Nat /\ r \in Nat
      BY <1>1, <2>1
    <3> QED BY <1>2, <1>6, <2>1, <3>1
  <2>3. h[Rank(Kept, l)] = AllPass(f[l], fact, binding) /\ h[Rank(Kept, r)] = AllPass(f[r], fact, binding)
    BY <2>1, <2>2
  <2>4. tree[n].parts = {Rank(Kept, l), Rank(Kept, r)}
    BY <1>4, <1>8
  <2>5. h[n] = \A m \in {Rank(Kept, l), Rank(Kept, r)} : h[m]
    <3> DEFINE parts == tree[n].parts
    <3>1. parts # {}
      BY <2>4
    <3> QED BY <1>5, <2>4, <3>1
  <2>6. AllPass(f[j], fact, binding) = (AllPass(f[l], fact, binding) /\ AllPass(f[r], fact, binding))
    BY <2>1 DEF AllPass
  <2> HIDE DEF l, r, n, bad
  <2>7. h[n] = (AllPass(f[l], fact, binding) /\ AllPass(f[r], fact, binding))
    BY <2>3, <2>5
  <2>8. j \notin bad
    BY <2>6, <2>7 DEF bad, n
  <2> QED BY <2>8
<1> QED
  BY <1>6, <1>7, <1>8

(* There is such an evaluation: the recursion is along the parts. *)
LEMMA EvaluationExists ==
  ASSUME PlanInv, NEW fact, NEW binding
  PROVE  \E h : IsEvaluated(h, Plan.nodes, fact, binding)
<1>1. PICK f : TestsInv(f)
  BY DEF PlanInv
<1> DEFINE tree == Plan.nodes
           h == [n \in DOMAIN tree |-> AllPass(f[Nth(Kept, n)], fact, binding)]
<1>2. ASSUME NEW n \in DOMAIN tree
      PROVE  h[n] = IF tree[n].parts = {} THEN fact[tree[n].test[1]] = binding[tree[n].test[2]]
                    ELSE \A m \in tree[n].parts : h[m]
  <2> DEFINE j == Nth(Kept, n)
  <2>1. j \in Kept /\ Rank(Kept, j) = n
    BY PlanNodesAre
  <2>2. /\ j <= NumAtoms => tree[n] = [test |-> atoms[j], parts |-> {}, literal |-> LiteralOf({j})]
        /\ j > NumAtoms => tree[n] = [test |-> <<>>,
             parts |-> {Rank(Kept, nodes[j].left), Rank(Kept, nodes[j].right)},
             literal |-> nodes[j].literal]
    BY <2>1, PlanNodesAre
  <2>3. /\ h[n] = AllPass(f[j], fact, binding)
        /\ \A m \in DOMAIN tree : h[m] = AllPass(f[Nth(Kept, m)], fact, binding)
    OBVIOUS
  <2>4. NumAtoms \in Nat /\ j \in Nat
    BY <2>1, KeptNodesAre, <1>1
  <2> HIDE DEF j, h, tree
  <2>5. CASE j <= NumAtoms
    <3>1. f[j] = {j}
      BY <1>1, <2>1, <2>5, KeptNodesAre
    <3>2. tree[n].parts = {} /\ tree[n].test = atoms[j]
      BY <2>2, <2>5
    <3>3. AllPass(f[j], fact, binding) = (fact[atoms[j][1]] = binding[atoms[j][2]])
      BY <3>1 DEF AllPass, Passes
    <3> QED BY <2>3, <3>2, <3>3
  <2>6. CASE j > NumAtoms
    <3> DEFINE l == nodes[j].left
               r == nodes[j].right
    <3>1. l \in Kept /\ r \in Kept /\ f[j] = f[l] \cup f[r]
      BY <1>1, <2>1, <2>6, KeptNodesAre
    <3>2. /\ Rank(Kept, l) \in DOMAIN tree /\ Nth(Kept, Rank(Kept, l)) = l
          /\ Rank(Kept, r) \in DOMAIN tree /\ Nth(Kept, Rank(Kept, r)) = r
      BY <3>1, PlanNodesAre DEF tree
    <3>3. /\ h[Rank(Kept, l)] = AllPass(f[l], fact, binding)
          /\ h[Rank(Kept, r)] = AllPass(f[r], fact, binding)
      BY <2>3, <3>2
    <3>4. tree[n].parts = {Rank(Kept, l), Rank(Kept, r)}
      BY <2>2, <2>6
    <3>5. AllPass(f[j], fact, binding) = (AllPass(f[l], fact, binding) /\ AllPass(f[r], fact, binding))
      BY <3>1 DEF AllPass
    <3> HIDE DEF l, r
    <3>6. (\A m \in tree[n].parts : h[m]) = (AllPass(f[l], fact, binding) /\ AllPass(f[r], fact, binding))
      BY <3>3, <3>4
    <3>7. tree[n].parts # {}
      BY <3>4
    <3> QED BY <2>3, <3>5, <3>6, <3>7
  <2>7. j <= NumAtoms \/ j > NumAtoms
    BY <2>4
  <2> QED BY <2>5, <2>6, <2>7, Zenon
<1>3. h = [n \in DOMAIN tree |->
             IF tree[n].parts = {} THEN fact[tree[n].test[1]] = binding[tree[n].test[2]]
             ELSE \A m \in tree[n].parts : h[m]]
  <2> DEFINE e(n) == IF tree[n].parts = {} THEN fact[tree[n].test[1]] = binding[tree[n].test[2]]
                     ELSE \A m \in tree[n].parts : h[m]
  <2>1. h = [n \in DOMAIN tree |-> h[n]]
    OBVIOUS
  <2> HIDE DEF h
  <2>2. \A n \in DOMAIN tree : h[n] = e(n)
    BY <1>2
  <2> HIDE DEF e, tree
  <2>3. h = [n \in DOMAIN tree |-> e(n)]
    BY <2>1, <2>2
  <2> QED BY <2>3 DEF e, tree
<1> HIDE DEF h
<1> QED
  BY <1>3, Zenon DEF IsEvaluated, tree

(* What the plan says of each of its nodes. *)
LEMMA PlanNodeOf ==
  ASSUME PlanInv, NEW k \in Kept
  PROVE  LET n == Plan.nodes[Rank(Kept, k)]
         IN  /\ Rank(Kept, k) \in DOMAIN Plan.nodes
             /\ k <= NumAtoms => n.literal = LiteralOf({k})
             /\ k > NumAtoms => n.literal = nodes[k].literal
<1> DEFINE n == Plan.nodes[Rank(Kept, k)]
<1>1. /\ Rank(Kept, k) \in DOMAIN Plan.nodes
      /\ k <= NumAtoms => n = [test |-> atoms[k], parts |-> {}, literal |-> LiteralOf({k})]
      /\ k > NumAtoms => n = [test |-> <<>>,
           parts |-> {Rank(Kept, nodes[k].left), Rank(Kept, nodes[k].right)},
           literal |-> nodes[k].literal]
  BY PlanNodesAre, Zenon
<1> HIDE DEF n
<1>2. k <= NumAtoms => n.literal = LiteralOf({k})
  BY <1>1
<1>3. k > NumAtoms => n.literal = nodes[k].literal
  BY <1>1
<1> QED BY <1>1, <1>2, <1>3, Zenon DEF n

(* The literals the plan names: its root, and those of the nodes that hold. *)
Named(h) ==
  ({Plan.root} \cup {Plan.nodes[n].literal : n \in {m \in DOMAIN Plan.nodes : h[m]}}) \ {0}

LEMMA NamedHold ==
  ASSUME PlanInv, NEW fact, NEW binding, NEW h, IsEvaluated(h, Plan.nodes, fact, binding),
         NEW i \in Named(h)
  PROVE  i \in 1..Len(literals) /\ AllPass(literals[i], fact, binding)
<1>1. PICK f : TestsInv(f)
  BY DEF PlanInv
<1>2. i # 0 /\ (i = Plan.root \/ \E n \in DOMAIN Plan.nodes : h[n] /\ i = Plan.nodes[n].literal)
  BY Zenon DEF Named
<1>3. CASE i = Plan.root
  <2>1. i = LiteralOf({})
    BY <1>3, PlanNodesAre
  <2>2. i \in 1..Len(literals) /\ literals[i] = {}
    BY <1>2, <2>1, LiteralOfIs
  <2> QED BY <2>2 DEF AllPass
<1>4. ASSUME NEW n \in DOMAIN Plan.nodes, h[n], i = Plan.nodes[n].literal
      PROVE  i \in 1..Len(literals) /\ AllPass(literals[i], fact, binding)
  <2>1. PICK k \in Kept : k = Nth(Kept, n) /\ Rank(Kept, k) = n
    BY PlanNodesAre
  <2>2. AllPass(f[k], fact, binding)
    <3>1. h[Rank(Kept, k)] = AllPass(f[k], fact, binding)
      BY <1>1, EvaluatedIs
    <3> QED BY <1>4, <2>1, <3>1, Zenon
  <2>3. NumAtoms \in Nat /\ k \in 1..Len(nodes) /\ k \in Nat
    BY <1>1, KeptNodesAre
  <2>4. CASE k <= NumAtoms
    <3>1. i = LiteralOf({k})
      BY <1>4, <2>1, <2>4, PlanNodeOf
    <3>2. i \in 1..Len(literals) /\ literals[i] = {k}
      <4> DEFINE S == {k}
      <4> HIDE DEF S
      <4>1. i = LiteralOf(S)
        BY <3>1 DEF S
      <4>2. i \in 1..Len(literals) /\ literals[i] = S
        BY <1>2, <4>1, LiteralOfIs
      <4> QED BY <4>2 DEF S
    <3>3. f[k] = {k}
      BY <1>1, <2>4, KeptNodesAre
    <3> QED BY <2>2, <3>2, <3>3
  <2>5. CASE k > NumAtoms
    <3>1. i = nodes[k].literal
      BY <1>4, <2>1, <2>5, PlanNodeOf
    <3>2. i \in Longer(literals)
      BY <1>2, <2>3, <3>1 DEF PlanInv, FoundInv
    <3>3. i \in 1..Len(literals)
      BY <3>2, LiteralTypes
    <3>4. f[k] = literals[i]
      BY <1>1, <1>2, <2>3, <3>1 DEF TestsInv
    <3> QED BY <2>2, <3>3, <3>4
  <2> QED BY <2>3, <2>4, <2>5
<1> QED
  BY <1>2, <1>3, <1>4, Zenon

LEMMA HoldingAreNamed ==
  ASSUME PlanInv, IsPlanned, NEW fact, NEW binding,
         NEW h, IsEvaluated(h, Plan.nodes, fact, binding),
         NEW i \in 1..Len(literals), AllPass(literals[i], fact, binding)
  PROVE  i \in Named(h)
<1>1. PICK f : TestsInv(f)
  BY DEF PlanInv
<1>2. /\ Len(literals) \in Nat /\ NumAtoms \in Nat /\ Len(nodes) \in Nat
      /\ NumAtoms <= Len(nodes) /\ literals \in Seq(SUBSET (1..NumAtoms))
  BY LiteralTypes DEF PlanInv, LiteralsInv
<1>3. i # 0 /\ i \in DOMAIN literals /\ literals[i] \in SUBSET (1..NumAtoms)
  BY <1>2
<1>4. IsFiniteSet(literals[i])
  <2>1. IsFiniteSet(1..NumAtoms)
    <3>1. 1 \in Int /\ NumAtoms \in Int
      BY <1>2
    <3> QED BY <3>1, FS_Interval, Zenon
  <2> QED BY <1>3, <2>1, FS_Subset
<1>5. CASE literals[i] = {}
  <2>1. Plan.root = i
    <3>1. LiteralOf({}) = i
      BY <1>5, LiteralOfIs
    <3>2. Plan.root = LiteralOf({})
      BY PlanNodesAre, Zenon
    <3> QED BY <3>1, <3>2
  <2> QED BY <1>3, <2>1 DEF Named
<1>6. ASSUME NEW k \in Kept, AllPass(f[k], fact, binding), Plan.nodes[Rank(Kept, k)].literal = i
      PROVE  i \in Named(h)
  <2>1. h[Rank(Kept, k)]
    <3>1. h[Rank(Kept, k)] = AllPass(f[k], fact, binding)
      BY <1>1, EvaluatedIs
    <3> QED BY <1>6, <3>1, Zenon
  <2>2. Rank(Kept, k) \in DOMAIN Plan.nodes
    BY PlanNodeOf
  <2> QED BY <1>3, <1>6, <2>1, <2>2, Zenon DEF Named
<1>7. ASSUME NEW k, literals[i] = {k}
      PROVE  i \in Named(h)
  <2>1. k \in 1..NumAtoms /\ k <= NumAtoms /\ k \in 1..Len(nodes)
    BY <1>2, <1>3, <1>7
  <2>2. k \in Kept
    BY <2>1, KeptAre
  <2>3. f[k] = {k}
    BY <1>1, <2>1, <2>2, KeptNodesAre
  <2>4. LiteralOf({k}) = i
    BY <1>7, LiteralOfIs
  <2>5. Plan.nodes[Rank(Kept, k)].literal = i
    BY <2>1, <2>2, <2>4, PlanNodeOf
  <2> QED BY <1>6, <1>7, <2>2, <2>3, <2>5
<1>8. CASE i \in Longer(literals)
  <2>1. i \in Longer(literals) \ remaining
    BY <1>8 DEF IsPlanned
  <2>2. PICK k \in Kept : nodes[k].literal = i /\ k > NumAtoms
    BY <2>1, LiteralIsKept
  <2>3. k \in 1..Len(nodes)
    BY KeptAre
  <2>4. f[k] = literals[i]
    BY <1>1, <1>3, <2>2, <2>3 DEF TestsInv
  <2>5. Plan.nodes[Rank(Kept, k)].literal = i
    BY <2>2, PlanNodeOf
  <2> QED BY <1>6, <2>4, <2>5
<1>9. literals[i] = {} \/ (\E k : literals[i] = {k}) \/ i \in Longer(literals)
  <2>1. SUFFICES ASSUME literals[i] # {}, i \notin Longer(literals)
                 PROVE  \E k : literals[i] = {k}
    OBVIOUS
  <2>2. PICK k \in literals[i] : TRUE
    BY <2>1
  <2>3. Cardinality(literals[i]) \in Nat /\ ~(Cardinality(literals[i]) > 1)
    BY <1>3, <1>4, <2>1, FS_CardinalityType DEF Longer
  <2>4. /\ IsFiniteSet({k}) /\ Cardinality({k}) = 1
    BY FS_Singleton
  <2>5. {k} \subseteq literals[i]
    OBVIOUS
  <2>6. {k} = literals[i]
    <3>1. /\ Cardinality({k}) <= Cardinality(literals[i])
          /\ Cardinality(literals[i]) = Cardinality({k}) => literals[i] = {k}
      BY <1>4, <2>5, FS_Subset, Zenon
    <3> QED BY <2>3, <2>4, <3>1
  <2> QED BY <2>6
<1> QED
  BY <1>5, <1>7, <1>8, <1>9


(* The rows of a partition, the slot of a row, and the first slot of partition p
   that is not taken when the first r rows have been routed.               *)
RowsAmong(c, p) == {i \in DOMAIN c : PartitionOf(c[i]) = p}
SlotOf(c, i) ==
  Offset(c, PartitionOf(c[i])) + Rank(RowsAmong(c, PartitionOf(c[i])), i) - 1
NextSlot(c, p, r) == Offset(c, p) + Rank(RowsAmong(c, p), r)

FirstOfLine(w, p) == w[p].tupleSlot * BlockCapacity

WriteBuffer ==
  [tupleSlot : Nat, bufferSlot : 0..BlockCapacity - 1, tuples : [0..BlockCapacity - 1 -> Nat]]

(* A row that was routed is in its slot if that is in a line that was copied, or
   the rest of the partition was; in its line it stays in the buffer as well. *)
IsPlaced(c, i, w, e, o) ==
  LET p == PartitionOf(c[i])
      s == SlotOf(c, i)
  IN  /\ s < FirstOfLine(w, p) \/ p < e => o[s] = i
      /\ s >= FirstOfLine(w, p) => w[p].tuples[s - FirstOfLine(w, p)] = i

PartitionInv ==
  /\ column \in Seq(Value)
  /\ routed \in 0..Len(column) /\ emptied \in 0..NumPartitions
  /\ emptied > 0 => routed = Len(column)
  /\ writeBuffer \in [Partition -> WriteBuffer]
  /\ DOMAIN output = 0..NumCacheLines(column) * BlockCapacity - 1
  /\ \A p \in Partition :
       FirstOfLine(writeBuffer, p) + writeBuffer[p].bufferSlot = NextSlot(column, p, routed)
  /\ \A i \in 1..routed : IsPlaced(column, i, writeBuffer, emptied, output)

-----------------------------------------------------------------------------
(* 1 << n, for the n an int has room for. *)
LEMMA NumPartitionsType == NumPartitions \in Nat \ {0}
<1>1. NumRadixBits \in 0..31
  BY RadixAssumption
<1> QED
  BY <1>1, PowersOfTwo, Zenon DEF NumPartitions

LEMMA PartitionType ==
  ASSUME NEW v \in Value
  PROVE  PartitionOf(v) \in Partition /\ PartitionOf(v) \in Nat
<1>1. Hash[v] \in Nat /\ NumPartitions \in Nat \ {0}
  BY RadixAssumption, NumPartitionsType
<1> QED
  BY <1>1 DEF PartitionOf, Partition

(* How many of a set of positions there are up to any number. *)
LEMMA RankUpTo ==
  \A n \in Nat : \A S \in SUBSET (1..n) : \A r \in Nat :
    /\ IsFiniteSet(S) /\ Cardinality(S) \in Nat /\ S \in SUBSET Int
    /\ Rank(S, r) \in 0..Cardinality(S)
    /\ Rank(S, 0) = 0
    /\ r = n => Rank(S, r) = Cardinality(S)
    /\ r + 1 \in S => Rank(S, r + 1) = Rank(S, r) + 1
    /\ r + 1 \notin S => Rank(S, r + 1) = Rank(S, r)
    /\ \A i \in S : i <= r => Rank(S, i) \in 1..Rank(S, r)
<1> TAKE n \in Nat
<1> TAKE S \in SUBSET (1..n)
<1> TAKE r \in Nat
<1> DEFINE low == {j \in S : j <= r}
<1>0. 1 \in Int /\ n \in Int /\ \A j \in S : j \in Int /\ 1 <= j /\ j <= n
  OBVIOUS
<1>1. IsFiniteSet(1..n)
  BY <1>0, FS_Interval, Zenon
<1>2. IsFiniteSet(S) /\ Cardinality(S) \in Nat /\ S \in SUBSET Int
  BY <1>0, <1>1, FS_Subset, FS_CardinalityType
<1>3. low \subseteq S
  OBVIOUS
<1>4. IsFiniteSet(low) /\ Cardinality(low) <= Cardinality(S) /\ Cardinality(low) \in Nat
  <2> HIDE DEF low
  <2> QED BY <1>2, <1>3, FS_Subset, FS_CardinalityType
<1>5. Rank(S, r) = Cardinality(low)
  BY DEF Rank
<1>6. {j \in S : j <= 0} = {}
  <2>1. \A j \in S : ~(j <= 0)
    BY <1>0
  <2> QED BY <2>1, Zenon
<1>7. r = n => low = S
  BY <1>0
<1>8. Rank(S, 0) = 0
  BY <1>6, FS_EmptySet DEF Rank
<1>9. /\ r + 1 \in S => Rank(S, r + 1) = Rank(S, r) + 1
      /\ r + 1 \notin S => Rank(S, r + 1) = Rank(S, r)
  <2>1. CASE r + 1 \in S
    <3>1. {j \in S : j <= r + 1} = low \cup {r + 1} /\ r + 1 \notin low
      <4>1. \A j \in S : j <= r + 1 <=> j <= r \/ j = r + 1
        BY <1>0
      <4>2. ~(r + 1 <= r)
        OBVIOUS
      <4> QED BY <2>1, <4>1, <4>2, Zenon
    <3>2. Cardinality(low \cup {r + 1}) = Cardinality(low) + 1
      <4> HIDE DEF low
      <4> QED BY <1>4, <3>1, FS_AddElement
    <3> HIDE DEF low
    <3> QED BY <1>5, <2>1, <3>1, <3>2 DEF Rank
  <2>2. CASE r + 1 \notin S
    <3>1. {j \in S : j <= r + 1} = low
      <4>1. \A j \in S : j <= r + 1 <=> j <= r \/ j = r + 1
        BY <1>0
      <4> QED BY <2>2, <4>1, Zenon
    <3>2. Rank(S, r + 1) = Cardinality(low)
      BY <3>1 DEF Rank
    <3> HIDE DEF low
    <3> QED BY <1>4, <1>5, <2>2, <3>2
  <2> QED BY <2>1, <2>2
<1>10. ASSUME NEW i \in S, i <= r
       PROVE  Rank(S, i) \in 1..Rank(S, r)
  <2>1. Rank(S, i) \in 1..Cardinality(S)
    BY <1>2, RankBounds
  <2> DEFINE below == {j \in S : j <= i}
  <2>2. below \subseteq low
    <3>1. \A j \in S : j <= i => j <= r
      BY <1>0, <1>10
    <3> QED BY <3>1, Zenon
  <2>3. Rank(S, i) = Cardinality(below)
    BY DEF Rank
  <2> HIDE DEF below, low
  <2>4. Cardinality(below) <= Cardinality(low)
    BY <1>4, <2>2, FS_Subset
  <2> QED BY <1>4, <1>5, <2>1, <2>3, <2>4
<1> HIDE DEF low
<1>11. Rank(S, r) \in 0..Cardinality(S)
  BY <1>2, <1>4, <1>5
<1>12. r = n => Rank(S, r) = Cardinality(S)
  BY <1>5, <1>7, Zenon
<1> QED
  BY <1>2, <1>8, <1>9, <1>10, <1>11, <1>12, Zenon

-----------------------------------------------------------------------------
(* The slots of a partition: as many as it has rows, behind those of the
   partitions before it, and within the output.                            *)
LEMMA OffsetsAreSums ==
  ASSUME NEW c \in Seq(Value), NEW p \in Nat
  PROVE  /\ RowsAmong(c, p) \in SUBSET (1..Len(c))
         /\ Cardinality(RowsAmong(c, p)) \in Nat
         /\ Offset(c, p) \in Nat /\ Offset(c, p + 1) \in Nat
         /\ Offset(c, p + 1) = Offset(c, p) + Cardinality(RowsAmong(c, p))
         /\ Offset(c, p) <= Len(c)
<1> DEFINE n == Len(c)
<1>0. n \in Nat /\ 1 \in Int /\ n \in Int /\ DOMAIN c = 1..n
  OBVIOUS
<1>1. \A i \in 1..n : PartitionOf(c[i]) \in Nat
  BY <1>0, PartitionType
<1>2. IsFiniteSet(1..n) /\ Cardinality(1..n) = n
  <2>1. IsFiniteSet(1..n) /\ Cardinality(1..n) = IF 1 > n THEN 0 ELSE n - 1 + 1
    BY <1>0, FS_Interval, Zenon
  <2> HIDE DEF n
  <2> QED BY <1>0, <2>1
<1> DEFINE low == RowsBelow(c, p)
           high == RowsBelow(c, p + 1)
           mine == RowsAmong(c, p)
<1>3. low \subseteq 1..n /\ high \subseteq 1..n /\ mine \subseteq 1..n
  BY <1>0 DEF RowsBelow, RowsAmong
<1>4. high = low \cup mine /\ low \cap mine = {}
  <2>1. \A i \in 1..n : /\ PartitionOf(c[i]) < p + 1 <=> PartitionOf(c[i]) < p \/ PartitionOf(c[i]) = p
                        /\ ~(PartitionOf(c[i]) < p /\ PartitionOf(c[i]) = p)
    BY <1>1
  <2> HIDE DEF n
  <2> QED BY <1>0, <2>1, Zenon DEF RowsBelow, RowsAmong
<1> HIDE DEF low, high, mine, n
<1>5. /\ IsFiniteSet(low) /\ IsFiniteSet(high) /\ IsFiniteSet(mine)
      /\ Cardinality(low) <= n
      /\ Cardinality(low) \in Nat /\ Cardinality(high) \in Nat /\ Cardinality(mine) \in Nat
  BY <1>2, <1>3, FS_Subset, FS_CardinalityType
<1>6. Cardinality(high) = Cardinality(low) + Cardinality(mine) - Cardinality(low \cap mine)
  BY <1>4, <1>5, FS_Union
<1>7. Cardinality({}) = 0
  BY FS_EmptySet
<1>8. Cardinality(high) = Cardinality(low) + Cardinality(mine)
  <2>1. Cardinality(low \cap mine) = 0
    BY <1>4, <1>7, Zenon
  <2> QED BY <1>5, <1>6, <2>1
<1> QED
  BY <1>3, <1>5, <1>8 DEF Offset, low, high, mine, n

LEMMA OffsetsGrow ==
  ASSUME NEW c \in Seq(Value), NEW p \in Nat, NEW q \in Nat, p < q
  PROVE  Offset(c, p) + Cardinality(RowsAmong(c, p)) <= Offset(c, q)
<1>1. \A i \in DOMAIN c : PartitionOf(c[i]) \in Nat
  BY PartitionType
<1>2. RowsBelow(c, p + 1) \subseteq RowsBelow(c, q)
  <2>1. \A i \in DOMAIN c : PartitionOf(c[i]) < p + 1 => PartitionOf(c[i]) < q
    BY <1>1
  <2> QED BY <2>1 DEF RowsBelow
<1>3. IsFiniteSet(RowsBelow(c, q))
  <2>1. Len(c) \in Int /\ 1 \in Int /\ DOMAIN c = 1..Len(c)
    OBVIOUS
  <2>2. IsFiniteSet(1..Len(c))
    BY <2>1, FS_Interval, Zenon
  <2>3. RowsBelow(c, q) \subseteq 1..Len(c)
    BY <2>1 DEF RowsBelow
  <2> QED BY <2>2, <2>3, FS_Subset
<1>4. Offset(c, p + 1) <= Offset(c, q)
  BY <1>2, <1>3, FS_Subset DEF Offset
<1> QED
  BY <1>4, OffsetsAreSums

LEMMA SlotOfRow ==
  ASSUME NEW c \in Seq(Value), NEW i \in 1..Len(c)
  PROVE  LET p == PartitionOf(c[i])
         IN  /\ p \in Partition /\ p \in Nat /\ i \in RowsAmong(c, p)
             /\ SlotOf(c, i) \in Offset(c, p)..Offset(c, p) + Cardinality(RowsAmong(c, p)) - 1
             /\ SlotOf(c, i) \in 0..Len(c) - 1
             /\ \A r \in Nat : i <= r => SlotOf(c, i) < NextSlot(c, p, r)
<1> DEFINE p == PartitionOf(c[i])
           rows == RowsAmong(c, p)
<1>1. p \in Partition /\ p \in Nat /\ i \in rows
  BY PartitionType DEF RowsAmong
<1>2. /\ rows \in SUBSET (1..Len(c)) /\ Cardinality(rows) \in Nat
      /\ Offset(c, p) \in Nat /\ Offset(c, p + 1) = Offset(c, p) + Cardinality(rows)
      /\ Offset(c, p + 1) <= Len(c) /\ p + 1 \in Nat /\ Len(c) \in Nat
  <2> HIDE DEF p
  <2>1. p \in Nat /\ p + 1 \in Nat /\ Len(c) \in Nat
    BY <1>1
  <2> QED BY <2>1, OffsetsAreSums, Zenon
<1>3. SlotOf(c, i) = Offset(c, p) + Rank(rows, i) - 1
  BY DEF SlotOf
<1> HIDE DEF rows, p
<1>4. IsFiniteSet(rows) /\ rows \in SUBSET Int
  BY <1>2, RankUpTo
<1>5. Rank(rows, i) \in 1..Cardinality(rows)
  BY <1>1, <1>4, RankBounds
<1>6. ASSUME NEW r \in Nat, i <= r
      PROVE  SlotOf(c, i) < NextSlot(c, p, r)
  <2>1. Rank(rows, i) \in 1..Rank(rows, r) /\ Rank(rows, r) \in 0..Cardinality(rows)
    BY <1>1, <1>2, <1>6, RankUpTo
  <2>2. NextSlot(c, p, r) = Offset(c, p) + Rank(rows, r)
    BY DEF NextSlot, rows
  <2> QED BY <1>2, <1>3, <2>1, <2>2
<1>7. /\ SlotOf(c, i) \in Offset(c, p)..Offset(c, p) + Cardinality(rows) - 1
      /\ SlotOf(c, i) \in 0..Len(c) - 1
  BY <1>2, <1>3, <1>5
<1> QED
  BY <1>1, <1>6, <1>7 DEF p, rows

(* No slot is that of two rows, or in the room of two partitions. *)
LEMMA SlotsAreDistinct ==
  ASSUME NEW c \in Seq(Value), NEW i \in 1..Len(c), NEW j \in 1..Len(c),
         PartitionOf(c[i]) = PartitionOf(c[j]), SlotOf(c, i) = SlotOf(c, j)
  PROVE  i = j
<1> DEFINE p == PartitionOf(c[i])
           rows == RowsAmong(c, p)
<1>1. p \in Nat /\ i \in rows /\ j \in rows
  BY SlotOfRow
<1>2. rows \in SUBSET (1..Len(c)) /\ Offset(c, p) \in Nat /\ Len(c) \in Nat
  <2> HIDE DEF p
  <2>1. p \in Nat /\ Len(c) \in Nat
    BY <1>1
  <2> QED BY <2>1, OffsetsAreSums, Zenon
<1>3. /\ SlotOf(c, i) = Offset(c, p) + Rank(rows, i) - 1
      /\ SlotOf(c, j) = Offset(c, p) + Rank(rows, j) - 1
  BY DEF SlotOf
<1> HIDE DEF rows, p
<1>4. IsFiniteSet(rows) /\ rows \in SUBSET Int
  BY <1>2, RankUpTo
<1>5. Rank(rows, i) \in 1..Cardinality(rows) /\ Rank(rows, j) \in 1..Cardinality(rows)
      /\ Cardinality(rows) \in Nat
  BY <1>1, <1>2, <1>4, RankBounds, RankUpTo
<1>6. Rank(rows, i) = Rank(rows, j)
  <2>1. Rank(rows, i) \in Int /\ Rank(rows, j) \in Int /\ Offset(c, p) \in Int
    BY <1>2, <1>5
  <2>2. Offset(c, p) + Rank(rows, i) - 1 = Offset(c, p) + Rank(rows, j) - 1
    BY <1>3, Zenon
  <2> QED BY <2>1, <2>2
<1> QED
  BY <1>1, <1>4, <1>6, SameRank

LEMMA RoomIsDistinct ==
  ASSUME NEW c \in Seq(Value), NEW p \in Nat, NEW q \in Nat, p # q, NEW s \in Int,
         s \in Offset(c, p)..Offset(c, p) + Cardinality(RowsAmong(c, p)) - 1
  PROVE  s \notin Offset(c, q)..Offset(c, q) + Cardinality(RowsAmong(c, q)) - 1
<1>1. /\ Offset(c, p) \in Nat /\ Cardinality(RowsAmong(c, p)) \in Nat
      /\ Offset(c, q) \in Nat /\ Cardinality(RowsAmong(c, q)) \in Nat
  BY OffsetsAreSums
<1>2. p < q => Offset(c, p) + Cardinality(RowsAmong(c, p)) <= Offset(c, q)
  BY OffsetsGrow
<1>3. q < p => Offset(c, q) + Cardinality(RowsAmong(c, q)) <= Offset(c, p)
  BY OffsetsGrow
<1>4. p < q \/ q < p
  OBVIOUS
<1> QED
  BY <1>1, <1>2, <1>3, <1>4

-----------------------------------------------------------------------------
(* Lines and the slots in them. *)
LEMMA SlotInLine ==
  ASSUME NEW s \in Nat, NEW line \in Nat
  PROVE  /\ line * BlockCapacity \in Nat
         /\ s \div BlockCapacity = line <=>
              line * BlockCapacity <= s /\ s < line * BlockCapacity + BlockCapacity
         /\ s \div BlockCapacity = line => s % BlockCapacity = s - line * BlockCapacity
<1> DEFINE d == s \div BlockCapacity
           m == s % BlockCapacity
<1>1. /\ d \in Nat /\ m \in 0..BlockCapacity - 1 /\ BlockCapacity \in Nat \ {0}
      /\ s = d * BlockCapacity + m
  BY RadixAssumption
<1> HIDE DEF d, m
<1>2. line * BlockCapacity \in Nat /\ d * BlockCapacity \in Nat
  BY <1>1
<1>3. line < d => line * BlockCapacity + BlockCapacity <= d * BlockCapacity
  BY <1>1
<1>4. d < line => d * BlockCapacity + BlockCapacity <= line * BlockCapacity
  BY <1>1
<1>5. line = d \/ line < d \/ d < line
  BY <1>1
<1> QED
  BY <1>1, <1>2, <1>3, <1>4, <1>5 DEF d, m

LEMMA LinesSuffice ==
  ASSUME NEW c \in Seq(Value)
  PROVE  /\ NumCacheLines(c) * BlockCapacity \in Nat
         /\ Len(c) <= NumCacheLines(c) * BlockCapacity
<1> DEFINE n == Len(c) + BlockCapacity - 1
<1>1. n \in Nat /\ BlockCapacity \in Nat \ {0} /\ Len(c) \in Nat
  BY RadixAssumption
<1> HIDE DEF n
<1>2. /\ n \div BlockCapacity \in Nat
      /\ n = (n \div BlockCapacity) * BlockCapacity + (n % BlockCapacity)
      /\ n % BlockCapacity \in 0 .. BlockCapacity - 1
  BY <1>1
<1>3. NumCacheLines(c) = n \div BlockCapacity
  BY DEF NumCacheLines, n
<1>4. NumCacheLines(c) * BlockCapacity \in Nat
  BY <1>1, <1>2, <1>3
<1> QED
  BY <1>1, <1>2, <1>3, <1>4 DEF n

-----------------------------------------------------------------------------
(* The steps.  What a partition's line and its buffer say of its next slot.  *)
LEMMA LineOfPartition ==
  ASSUME PartitionInv, NEW p \in Partition
  PROVE  /\ p \in Nat /\ BlockCapacity \in Nat \ {0}
         /\ writeBuffer[p].tupleSlot \in Nat
         /\ writeBuffer[p].bufferSlot \in 0..BlockCapacity - 1
         /\ writeBuffer[p].tuples \in [0..BlockCapacity - 1 -> Nat]
         /\ FirstOfLine(writeBuffer, p) \in Nat
         /\ FirstOfLine(writeBuffer, p) + writeBuffer[p].bufferSlot = NextSlot(column, p, routed)
         /\ Offset(column, p) \in Nat /\ Cardinality(RowsAmong(column, p)) \in Nat
         /\ NextSlot(column, p, routed) \in
              Offset(column, p)..Offset(column, p) + Cardinality(RowsAmong(column, p))
         /\ routed = Len(column) =>
              NextSlot(column, p, routed) = Offset(column, p) + Cardinality(RowsAmong(column, p))
<1>1. p \in Nat /\ BlockCapacity \in Nat \ {0}
  BY RadixAssumption, NumPartitionsType DEF Partition
<1>2. writeBuffer[p] \in WriteBuffer
  BY DEF PartitionInv
<1>3. /\ writeBuffer[p].tupleSlot \in Nat
      /\ writeBuffer[p].bufferSlot \in 0..BlockCapacity - 1
      /\ writeBuffer[p].tuples \in [0..BlockCapacity - 1 -> Nat]
  BY <1>2 DEF WriteBuffer
<1>4. FirstOfLine(writeBuffer, p) \in Nat
  BY <1>1, <1>3 DEF FirstOfLine
<1>5. /\ column \in Seq(Value) /\ routed \in Nat /\ Len(column) \in Nat
      /\ FirstOfLine(writeBuffer, p) + writeBuffer[p].bufferSlot = NextSlot(column, p, routed)
  BY DEF PartitionInv
<1> DEFINE rows == RowsAmong(column, p)
<1>6. rows \in SUBSET (1..Len(column)) /\ Offset(column, p) \in Nat /\ Cardinality(rows) \in Nat
  BY <1>1, <1>5, OffsetsAreSums
<1> HIDE DEF rows
<1>7. /\ Rank(rows, routed) \in 0..Cardinality(rows)
      /\ routed = Len(column) => Rank(rows, routed) = Cardinality(rows)
  BY <1>5, <1>6, RankUpTo, Zenon
<1>8. NextSlot(column, p, routed) = Offset(column, p) + Rank(rows, routed)
  BY DEF NextSlot, rows
<1>9. /\ NextSlot(column, p, routed) \in Offset(column, p)..Offset(column, p) + Cardinality(rows)
      /\ routed = Len(column) => NextSlot(column, p, routed) = Offset(column, p) + Cardinality(rows)
  BY <1>6, <1>7, <1>8
<1> QED
  BY <1>1, <1>3, <1>4, <1>5, <1>6, <1>9 DEF rows

(* A row that is routed has the next slot of its partition; the next slots of the
   others stay.                                                            *)
LEMMA NextRow ==
  ASSUME NEW c \in Seq(Value), NEW r \in Nat, r + 1 \in 1..Len(c), NEW q \in Nat
  PROVE  /\ NextSlot(c, q, r) \in Nat
         /\ PartitionOf(c[r + 1]) = q =>
              SlotOf(c, r + 1) = NextSlot(c, q, r) /\ NextSlot(c, q, r + 1) = NextSlot(c, q, r) + 1
         /\ PartitionOf(c[r + 1]) # q => NextSlot(c, q, r + 1) = NextSlot(c, q, r)
<1> DEFINE rows == RowsAmong(c, q)
<1>0. Len(c) \in Nat
  OBVIOUS
<1>1. rows \in SUBSET (1..Len(c)) /\ Offset(c, q) \in Nat /\ Cardinality(rows) \in Nat
  BY OffsetsAreSums, Zenon
<1>2. r + 1 \in rows <=> PartitionOf(c[r + 1]) = q
  BY DEF RowsAmong
<1>3. PartitionOf(c[r + 1]) = q => SlotOf(c, r + 1) = Offset(c, q) + Rank(rows, r + 1) - 1
  BY DEF SlotOf
<1>4. /\ NextSlot(c, q, r) = Offset(c, q) + Rank(rows, r)
      /\ NextSlot(c, q, r + 1) = Offset(c, q) + Rank(rows, r + 1)
  BY DEF NextSlot
<1> HIDE DEF rows
<1>5. /\ Rank(rows, r) \in 0..Cardinality(rows)
      /\ r + 1 \in rows => Rank(rows, r + 1) = Rank(rows, r) + 1
      /\ r + 1 \notin rows => Rank(rows, r + 1) = Rank(rows, r)
  BY <1>0, <1>1, RankUpTo, Zenon
<1> QED
  BY <1>0, <1>1, <1>2, <1>3, <1>4, <1>5

LEMMA StartKeepsInv ==
  ASSUME NEW c \in Seq(Value), StartPartition(c)
  PROVE  PartitionInv'
<1>1. /\ column' = c /\ routed' = 0 /\ emptied' = 0
      /\ DOMAIN output' = 0..NumCacheLines(c) * BlockCapacity - 1
  BY DEF StartPartition
<1>2. BlockCapacity \in Nat \ {0} /\ NumPartitions \in Nat
  BY RadixAssumption, NumPartitionsType
<1>3. ASSUME NEW p \in Partition
      PROVE  /\ p \in Nat /\ Offset(c, p) \in Nat
             /\ writeBuffer'[p].tupleSlot = Offset(c, p) \div BlockCapacity
             /\ writeBuffer'[p].bufferSlot = Offset(c, p) % BlockCapacity
             /\ writeBuffer'[p] \in WriteBuffer
             /\ FirstOfLine(writeBuffer', p) + writeBuffer'[p].bufferSlot = Offset(c, p)
  <2>1. p \in Nat
    BY <1>2 DEF Partition
  <2>2. Offset(c, p) \in Nat
    BY <2>1, OffsetsAreSums
  <2> DEFINE o == Offset(c, p)
  <2>3. writeBuffer'[p] = [tupleSlot |-> o \div BlockCapacity, bufferSlot |-> o % BlockCapacity,
                           tuples |-> [s \in 0..BlockCapacity - 1 |-> EmptySlot]]
    BY DEF StartPartition
  <2>0. o \in Nat
    BY <2>2
  <2> HIDE DEF o
  <2>4. /\ o \div BlockCapacity \in Nat /\ o % BlockCapacity \in 0..BlockCapacity - 1
        /\ (o \div BlockCapacity) * BlockCapacity + (o % BlockCapacity) = o
    BY <1>2, <2>0
  <2>5. EmptySlot \in Nat
    BY DEF EmptySlot
  <2> QED
    BY <2>1, <2>2, <2>3, <2>4, <2>5 DEF o, WriteBuffer, FirstOfLine
<1>4. writeBuffer' \in [Partition -> WriteBuffer]
  BY <1>3 DEF StartPartition
<1>5. ASSUME NEW p \in Partition
      PROVE  NextSlot(c, p, 0) = Offset(c, p)
  <2>1. p \in Nat /\ 0 \in Nat /\ Len(c) \in Nat /\ Offset(c, p) \in Nat
    BY <1>3
  <2>2. RowsAmong(c, p) \in SUBSET (1..Len(c))
    BY <2>1, OffsetsAreSums
  <2> DEFINE rows == RowsAmong(c, p)
  <2> HIDE DEF rows
  <2>3. Rank(rows, 0) = 0
    <3>1. rows \in SUBSET (1..Len(c))
      BY <2>2 DEF rows
    <3> QED BY <2>1, <3>1, RankUpTo, Zenon
  <2> QED
    BY <2>1, <2>3 DEF NextSlot, rows
<1>6. /\ \A p \in Partition :
           FirstOfLine(writeBuffer', p) + writeBuffer'[p].bufferSlot = NextSlot(c, p, 0)
      /\ \A i \in 1..0 : IsPlaced(c, i, writeBuffer', 0, output')
  BY <1>3, <1>5
<1>7. 0 \in 0..Len(c) /\ 0 \in 0..NumPartitions /\ ~(0 > 0)
  BY <1>2
<1> QED
  BY <1>1, <1>4, <1>6, <1>7, Zenon DEF PartitionInv

(* What a copy does to a slot: it is in the line and in the part of it that is
   copied, or stays.                                                       *)
LEMMA CopiedSlot ==
  ASSUME NEW s \in DOMAIN output, s \in Nat, NEW line \in Nat, NEW first, NEW last, NEW t,
         NEW start \in Nat, start = line * BlockCapacity
  PROVE  /\ DOMAIN Copied(line, first, last, t) = DOMAIN output
         /\ s < start \/ s >= start + BlockCapacity \/ s - start \notin first..last =>
              Copied(line, first, last, t)[s] = output[s]
         /\ start <= s /\ s < start + BlockCapacity /\ s - start \in first..last =>
              Copied(line, first, last, t)[s] = t[s - start]
<1>1. /\ s \div BlockCapacity = line <=> start <= s /\ s < start + BlockCapacity
      /\ s \div BlockCapacity = line => s % BlockCapacity = s - start
  BY SlotInLine
<1>2. BlockCapacity \in Nat
  BY RadixAssumption
<1>3. /\ s < start \/ s >= start + BlockCapacity => s \div BlockCapacity # line
      /\ start <= s /\ s < start + BlockCapacity => s \div BlockCapacity = line
  BY <1>1, <1>2
<1>4. /\ DOMAIN Copied(line, first, last, t) = DOMAIN output
      /\ Copied(line, first, last, t)[s] =
           IF s \div BlockCapacity = line /\ s % BlockCapacity \in first..last
           THEN t[s % BlockCapacity] ELSE output[s]
  BY Zenon DEF Copied
<1> QED
  BY <1>1, <1>3, <1>4, Zenon

(* The row that is routed: it goes to the buffer's slot, which is its own. *)
LEMMA RoutedRow ==
  ASSUME PartitionInv, routed < Len(column)
  PROVE  LET n == routed + 1
             p == PartitionOf(column[n])
             first == FirstOfLine(writeBuffer, p)
         IN  /\ n \in 1..Len(column) /\ p \in Partition /\ emptied = 0 /\ n - 1 = routed
             /\ SlotOf(column, n) = first + writeBuffer[p].bufferSlot
             /\ \A i \in 1..routed : PartitionOf(column[i]) = p =>
                  SlotOf(column, i) < SlotOf(column, n)
<1> DEFINE n == routed + 1
           p == PartitionOf(column[n])
<1>1. /\ n \in 1..Len(column) /\ column \in Seq(Value) /\ routed \in Nat /\ Len(column) \in Nat
      /\ emptied = 0 /\ n \in Nat /\ n - 1 = routed
  BY NumPartitionsType DEF PartitionInv
<1>2. p \in Partition /\ p \in Nat
  BY <1>1, SlotOfRow
<1> HIDE DEF p
<1>3. SlotOf(column, n) = NextSlot(column, p, routed)
  BY <1>1, <1>2, NextRow DEF p
<1>4. SlotOf(column, n) = FirstOfLine(writeBuffer, p) + writeBuffer[p].bufferSlot
  BY <1>2, <1>3, LineOfPartition
<1>5. ASSUME NEW i \in 1..routed, PartitionOf(column[i]) = p
      PROVE  SlotOf(column, i) < SlotOf(column, n)
  <2>1. i \in 1..Len(column) /\ i <= routed
    BY <1>1
  <2>2. SlotOf(column, i) < NextSlot(column, p, routed)
    BY <1>1, <1>5, <2>1, SlotOfRow, Zenon
  <2> QED BY <1>3, <2>2
<1> QED
  BY <1>1, <1>2, <1>4, <1>5 DEF p

(* What a row that is routed has, as separate facts. *)
LEMMA PlacedRow ==
  ASSUME PartitionInv, NEW i \in 1..routed
  PROVE  LET p == PartitionOf(column[i])
             s == SlotOf(column, i)
             first == FirstOfLine(writeBuffer, p)
         IN  /\ i \in 1..Len(column) /\ p \in Partition /\ p \in Nat
             /\ s \in Nat /\ s \in DOMAIN output /\ first \in Nat
             /\ s \in Offset(column, p)..Offset(column, p) + Cardinality(RowsAmong(column, p)) - 1
             /\ s < first + writeBuffer[p].bufferSlot
             /\ s < first \/ p < emptied => output[s] = i
             /\ s >= first => writeBuffer[p].tuples[s - first] = i
<1> DEFINE p == PartitionOf(column[i])
           s == SlotOf(column, i)
<1>1. /\ i \in 1..Len(column) /\ column \in Seq(Value) /\ routed \in Nat /\ i <= routed
      /\ Len(column) \in Nat
  BY DEF PartitionInv
<1>2. /\ p \in Partition /\ p \in Nat
      /\ s \in Offset(column, p)..Offset(column, p) + Cardinality(RowsAmong(column, p)) - 1
      /\ s \in 0..Len(column) - 1
      /\ s < NextSlot(column, p, routed)
  BY <1>1, SlotOfRow
<1>3. s \in Nat /\ s \in DOMAIN output
  <2>1. /\ NumCacheLines(column) * BlockCapacity \in Nat
        /\ Len(column) <= NumCacheLines(column) * BlockCapacity
    BY <1>1, LinesSuffice
  <2>2. DOMAIN output = 0..NumCacheLines(column) * BlockCapacity - 1
    BY DEF PartitionInv
  <2> HIDE DEF s
  <2> QED BY <1>1, <1>2, <2>1, <2>2
<1>4. /\ FirstOfLine(writeBuffer, p) \in Nat
      /\ FirstOfLine(writeBuffer, p) + writeBuffer[p].bufferSlot = NextSlot(column, p, routed)
  BY <1>2, LineOfPartition
<1>5. IsPlaced(column, i, writeBuffer, emptied, output)
  BY DEF PartitionInv
<1>6. /\ s < FirstOfLine(writeBuffer, p) \/ p < emptied => output[s] = i
      /\ s >= FirstOfLine(writeBuffer, p) => writeBuffer[p].tuples[s - FirstOfLine(writeBuffer, p)] = i
  BY <1>5 DEF IsPlaced
<1> QED
  BY <1>1, <1>2, <1>3, <1>4, <1>6

(* A copy of the line of partition p that ends in a slot of p takes no row of
   another partition's copied lines: their last slot is theirs as well.    *)
LEMMA OtherLinesStay ==
  ASSUME PartitionInv, NEW i \in 1..routed, NEW p \in Partition, PartitionOf(column[i]) # p,
         FirstOfLine(writeBuffer, p) + BlockCapacity - 1
           \in Offset(column, p)..Offset(column, p) + Cardinality(RowsAmong(column, p)) - 1,
         SlotOf(column, i) < FirstOfLine(writeBuffer, PartitionOf(column[i]))
  PROVE  LET first == FirstOfLine(writeBuffer, p)
         IN  SlotOf(column, i) < first \/ SlotOf(column, i) >= first + BlockCapacity
<1> DEFINE q == PartitionOf(column[i])
           s == SlotOf(column, i)
           first == FirstOfLine(writeBuffer, p)
           other == FirstOfLine(writeBuffer, q)
           last == first + BlockCapacity - 1
<1>1. /\ q \in Partition /\ q \in Nat /\ s \in Nat /\ q # p /\ s < other
      /\ s \in Offset(column, q)..Offset(column, q) + Cardinality(RowsAmong(column, q)) - 1
  BY PlacedRow
<1>2. /\ p \in Nat /\ BlockCapacity \in Nat \ {0} /\ first \in Nat /\ other \in Nat
      /\ writeBuffer[p].tupleSlot \in Nat /\ writeBuffer[q].tupleSlot \in Nat
      /\ Offset(column, q) \in Nat /\ Cardinality(RowsAmong(column, q)) \in Nat
      /\ other <= Offset(column, q) + Cardinality(RowsAmong(column, q))
      /\ column \in Seq(Value)
  <2>1. /\ writeBuffer[q].bufferSlot \in 0..BlockCapacity - 1 /\ other \in Nat
        /\ other + writeBuffer[q].bufferSlot = NextSlot(column, q, routed)
        /\ NextSlot(column, q, routed) \in
              Offset(column, q)..Offset(column, q) + Cardinality(RowsAmong(column, q))
        /\ Offset(column, q) \in Nat /\ Cardinality(RowsAmong(column, q)) \in Nat
        /\ BlockCapacity \in Nat \ {0} /\ writeBuffer[q].tupleSlot \in Nat
    BY <1>1, LineOfPartition
  <2>2. p \in Nat /\ first \in Nat /\ writeBuffer[p].tupleSlot \in Nat
    BY LineOfPartition
  <2> HIDE DEF other, first, q
  <2> QED BY <2>1, <2>2 DEF PartitionInv
<1>3. other > first => other >= first + BlockCapacity
  <2> DEFINE a == writeBuffer[p].tupleSlot
             b == writeBuffer[q].tupleSlot
  <2>1. first = a * BlockCapacity /\ other = b * BlockCapacity /\ a \in Nat /\ b \in Nat
    BY <1>2 DEF FirstOfLine
  <2> HIDE DEF a, b, first, other
  <2>2. b <= a \/ b >= a + 1
    BY <2>1
  <2>3. b <= a => other <= first
    BY <1>2, <2>1
  <2>4. b >= a + 1 => other >= first + BlockCapacity
    BY <1>2, <2>1
  <2> QED BY <1>2, <2>2, <2>3, <2>4
<1>4. last \in Int /\ last \in Offset(column, p)..Offset(column, p) + Cardinality(RowsAmong(column, p)) - 1
  BY <1>2
<1>5. last \notin Offset(column, q)..Offset(column, q) + Cardinality(RowsAmong(column, q)) - 1
  <2> HIDE DEF last, q
  <2> QED BY <1>1, <1>2, <1>4, RoomIsDistinct
<1> HIDE DEF s, q, first, other
<1> SUFFICES s < first \/ s >= first + BlockCapacity
  BY DEF s, first
<1> QED
  BY <1>1, <1>2, <1>3, <1>5

LEMMA RouteKeepsInv ==
  ASSUME PartitionInv, RouteRow
  PROVE  PartitionInv'
<1> DEFINE n == routed + 1
           p == PartitionOf(column[n])
           slot == writeBuffer[p].bufferSlot
           line == writeBuffer[p].tupleSlot
           first == FirstOfLine(writeBuffer, p)
           tuples == [writeBuffer[p].tuples EXCEPT ![slot] = n]
           isFull == slot = BlockCapacity - 1
           entry == [tupleSlot |-> IF isFull THEN line + 1 ELSE line,
                     bufferSlot |-> IF isFull THEN 0 ELSE slot + 1, tuples |-> tuples]
<1>1. /\ n \in 1..Len(column) /\ n \in Nat /\ p \in Partition /\ emptied = 0 /\ n - 1 = routed
      /\ SlotOf(column, n) = first + slot
      /\ \A i \in 1..routed : PartitionOf(column[i]) = p => SlotOf(column, i) < SlotOf(column, n)
  BY RoutedRow DEF RouteRow
<1>2. /\ column \in Seq(Value) /\ routed \in Nat /\ Len(column) \in Nat
      /\ column' = column /\ routed' = n /\ emptied' = 0
      /\ writeBuffer \in [Partition -> WriteBuffer]
  BY <1>1 DEF PartitionInv, RouteRow
<1>3. /\ p \in Nat /\ BlockCapacity \in Nat \ {0} /\ line \in Nat /\ slot \in 0..BlockCapacity - 1
      /\ writeBuffer[p].tuples \in [0..BlockCapacity - 1 -> Nat]
      /\ first \in Nat /\ first + slot = NextSlot(column, p, routed)
  BY <1>1, LineOfPartition
<1>4. /\ tuples \in [0..BlockCapacity - 1 -> Nat]
      /\ tuples[slot] = n
      /\ \A k \in 0..BlockCapacity - 1 : k # slot => tuples[k] = writeBuffer[p].tuples[k]
  <2> HIDE DEF slot, p, n
  <2> QED BY <1>1, <1>3 DEF tuples
<1>5. /\ writeBuffer' = [writeBuffer EXCEPT ![p] = entry]
      /\ output' = IF isFull THEN Copied(line, 0, BlockCapacity - 1, tuples) ELSE output
  <2>1. writeBuffer[p] \in WriteBuffer
    BY <1>1, <1>2
  <2> DEFINE w == writeBuffer[p]
  <2>2. [w EXCEPT !.bufferSlot = slot + 1, !.tuples = tuples] =
          [tupleSlot |-> line, bufferSlot |-> slot + 1, tuples |-> tuples]
    <3> HIDE DEF tuples, w
    <3>1. w = [tupleSlot |-> w.tupleSlot, bufferSlot |-> w.bufferSlot, tuples |-> w.tuples]
      BY <2>1 DEF w, WriteBuffer
    <3> DEFINE next == slot + 1
               d == [w EXCEPT !.bufferSlot = next, !.tuples = tuples]
    <3> HIDE DEF next
    <3>2. d = [w EXCEPT !.bufferSlot = next, !.tuples = tuples]
      OBVIOUS
    <3>3. d = [tupleSlot |-> w.tupleSlot, bufferSlot |-> next, tuples |-> tuples]
      <4> HIDE DEF d
      <4> QED BY <3>1, <3>2
    <3> QED BY <3>3 DEF w, next
  <2>3. \/ /\ slot = BlockCapacity - 1
           /\ output' = Copied(line, 0, BlockCapacity - 1, tuples)
           /\ writeBuffer' = [writeBuffer EXCEPT ![p] =
                [tupleSlot |-> line + 1, bufferSlot |-> 0, tuples |-> tuples]]
        \/ /\ slot < BlockCapacity - 1
           /\ writeBuffer' = [writeBuffer EXCEPT ![p] =
                [w EXCEPT !.bufferSlot = slot + 1, !.tuples = tuples]]
           /\ output' = output
    BY DEF RouteRow
  <2>4. ~(slot < BlockCapacity - 1 /\ slot = BlockCapacity - 1)
    BY <1>3
  <2> HIDE DEF tuples, slot, line, p, n, w
  <2> QED BY <2>2, <2>3, <2>4
<1> HIDE DEF tuples, p, n
<1>6. /\ entry \in WriteBuffer
      /\ isFull => entry.tupleSlot * BlockCapacity = first + BlockCapacity
      /\ ~isFull => entry.tupleSlot * BlockCapacity = first
      /\ entry.tupleSlot * BlockCapacity + entry.bufferSlot = first + slot + 1
  <2>1. first = line * BlockCapacity
    BY DEF FirstOfLine
  <2>2. (line + 1) * BlockCapacity = line * BlockCapacity + BlockCapacity
    BY <1>3
  <2> HIDE DEF first, line, slot
  <2>3. isFull => slot + 1 = BlockCapacity
    BY <1>3
  <2>4. ~isFull => slot + 1 \in 0..BlockCapacity - 1
    BY <1>3
  <2>5. CASE isFull
    BY <1>3, <1>4, <2>1, <2>2, <2>3, <2>5 DEF WriteBuffer
  <2>6. CASE ~isFull
    BY <1>3, <1>4, <2>1, <2>4, <2>6 DEF WriteBuffer
  <2> QED BY <2>5, <2>6
<1>7. /\ writeBuffer'[p] = entry
      /\ \A q \in Partition : q # p => writeBuffer'[q] = writeBuffer[q]
      /\ writeBuffer' \in [Partition -> WriteBuffer]
  <2> HIDE DEF entry
  <2> QED BY <1>1, <1>2, <1>5, <1>6
<1> HIDE DEF entry
<1>8. /\ isFull => FirstOfLine(writeBuffer', p) = first + BlockCapacity
      /\ ~isFull => FirstOfLine(writeBuffer', p) = first
      /\ FirstOfLine(writeBuffer', p) + writeBuffer'[p].bufferSlot = first + slot + 1
      /\ \A q \in Partition : q # p => FirstOfLine(writeBuffer', q) = FirstOfLine(writeBuffer, q)
  <2>1. FirstOfLine(writeBuffer', p) = entry.tupleSlot * BlockCapacity
    BY <1>7 DEF FirstOfLine
  <2>2. \A q \in Partition : q # p => FirstOfLine(writeBuffer', q) = FirstOfLine(writeBuffer, q)
    BY <1>7 DEF FirstOfLine
  <2> HIDE DEF first, slot
  <2> QED BY <1>6, <1>7, <2>1, <2>2
<1>9. ASSUME NEW q \in Partition
      PROVE  FirstOfLine(writeBuffer', q) + writeBuffer'[q].bufferSlot = NextSlot(column, q, n)
  <2>1. /\ q \in Nat
        /\ FirstOfLine(writeBuffer, q) + writeBuffer[q].bufferSlot = NextSlot(column, q, routed)
    BY LineOfPartition
  <2>2. /\ p = q => NextSlot(column, q, n) = NextSlot(column, q, routed) + 1
        /\ p # q => NextSlot(column, q, n) = NextSlot(column, q, routed)
    BY <1>1, <1>2, <2>1, NextRow DEF p, n
  <2>3. CASE q = p
    BY <1>3, <1>8, <2>2, <2>3
  <2>4. CASE q # p
    BY <1>7, <1>8, <2>1, <2>2, <2>4
  <2> QED BY <2>3, <2>4
<1>10. ASSUME NEW s \in DOMAIN output, s \in Nat
       PROVE  /\ ~isFull \/ s < first \/ s >= first + BlockCapacity => output'[s] = output[s]
              /\ isFull /\ first <= s /\ s < first + BlockCapacity => output'[s] = tuples[s - first]
  <2>1. CASE ~isFull
    BY <1>5, <2>1
  <2>2. CASE isFull
    <3>1. output' = Copied(line, 0, BlockCapacity - 1, tuples)
      BY <1>5, <2>2
    <3>2. first = line * BlockCapacity
      BY DEF FirstOfLine
    <3> HIDE DEF first, line, slot
    <3>3. first <= s /\ s < first + BlockCapacity => s - first \in 0..BlockCapacity - 1
      BY <1>3, <1>10
    <3>4. /\ s < first \/ s >= first + BlockCapacity \/ s - first \notin 0..BlockCapacity - 1 =>
               Copied(line, 0, BlockCapacity - 1, tuples)[s] = output[s]
          /\ first <= s /\ s < first + BlockCapacity /\ s - first \in 0..BlockCapacity - 1 =>
               Copied(line, 0, BlockCapacity - 1, tuples)[s] = tuples[s - first]
      BY <1>3, <1>10, <3>2, CopiedSlot
    <3> QED BY <2>2, <3>1, <3>3, <3>4
  <2> QED BY <2>1, <2>2
<1>11. DOMAIN output' = 0..NumCacheLines(column) * BlockCapacity - 1
  <2>1. DOMAIN Copied(line, 0, BlockCapacity - 1, tuples) = DOMAIN output
    BY DEF Copied
  <2> QED BY <1>5, <2>1 DEF PartitionInv
<1>12. ASSUME NEW i \in 1..n
       PROVE  IsPlaced(column, i, writeBuffer', 0, output')
  <2> DEFINE q == PartitionOf(column[i])
             s == SlotOf(column, i)
  <2>1. CASE i = n
    <3>1. s = first + slot /\ q = p
      BY <1>1, <2>1 DEF p
    <3>2. s \in Nat /\ s \in DOMAIN output
      <4>1. n \in 1..Len(column)
        BY <1>1
      <4>2. SlotOf(column, n) \in 0..Len(column) - 1
        BY <1>2, <4>1, SlotOfRow
      <4>3. /\ NumCacheLines(column) * BlockCapacity \in Nat
            /\ Len(column) <= NumCacheLines(column) * BlockCapacity
        BY <1>2, LinesSuffice
      <4>4. DOMAIN output = 0..NumCacheLines(column) * BlockCapacity - 1
        BY DEF PartitionInv
      <4> QED BY <1>2, <2>1, <4>2, <4>3, <4>4
    <3> HIDE DEF s, q, first, slot
    <3>3. ~(q < 0)
      BY <1>3, <3>1
    <3>4. CASE isFull
      <4>1. s - first = slot /\ first <= s /\ s < first + BlockCapacity
        BY <1>3, <3>1
      <4>2. output'[s] = n
        BY <1>4, <1>10, <3>2, <3>4, <4>1
      <4>3. ~(s >= FirstOfLine(writeBuffer', q))
        BY <1>3, <1>8, <3>1, <3>4, <4>1
      <4> QED BY <2>1, <4>2, <4>3 DEF IsPlaced, s, q
    <3>5. CASE ~isFull
      <4>1. s - first = slot /\ ~(s < first) /\ FirstOfLine(writeBuffer', q) = first
        BY <1>3, <1>8, <3>1, <3>5
      <4>2. writeBuffer'[q].tuples[slot] = n
        <5>1. entry.tuples = tuples
          BY DEF entry
        <5>2. writeBuffer'[q] = entry
          BY <1>7, <3>1
        <5> QED BY <1>4, <5>1, <5>2
      <4> QED BY <2>1, <3>3, <4>1, <4>2 DEF IsPlaced, s, q
    <3> QED BY <3>4, <3>5
  <2>2. CASE i # n
    <3>0. i \in 1..routed
      BY <1>1, <1>2, <2>2
    <3>1. /\ q \in Partition /\ q \in Nat /\ s \in Nat /\ s \in DOMAIN output
          /\ s < FirstOfLine(writeBuffer, q) => output[s] = i
          /\ s >= FirstOfLine(writeBuffer, q) =>
               writeBuffer[q].tuples[s - FirstOfLine(writeBuffer, q)] = i
          /\ FirstOfLine(writeBuffer, q) \in Nat
      BY <3>0, PlacedRow
    <3>2. ~(q < 0)
      BY <3>1
    <3>3. CASE q = p
      <4>1. s < first + slot
        BY <1>1, <3>0, <3>3
      <4>2. /\ s < first => output[s] = i
            /\ s >= first => writeBuffer[p].tuples[s - first] = i
        BY <3>1, <3>3
      <4> HIDE DEF s, q, first, slot
      <4>3. s >= first => /\ s - first \in 0..BlockCapacity - 1 /\ s - first # slot
                          /\ s < first + BlockCapacity
        BY <1>3, <3>1, <4>1
      <4>4. s >= first => tuples[s - first] = i
        BY <1>4, <4>2, <4>3
      <4>5. s < first \/ s >= first
        BY <1>3, <3>1
      <4>6. CASE isFull
        <5>1. output'[s] = i
          BY <1>10, <3>1, <4>2, <4>3, <4>4, <4>5, <4>6
        <5>2. ~(s >= FirstOfLine(writeBuffer', q))
          BY <1>3, <1>8, <3>1, <3>3, <4>1, <4>6
        <5> QED BY <5>1, <5>2 DEF IsPlaced, s, q
      <4>7. CASE ~isFull
        <5>1. FirstOfLine(writeBuffer', q) = first
          BY <1>8, <3>3, <4>7
        <5>2. s < first => output'[s] = i
          BY <1>10, <3>1, <4>2, <4>7
        <5>3. writeBuffer'[q].tuples = tuples
          BY <1>7, <3>3 DEF entry
        <5> QED BY <3>2, <4>4, <5>1, <5>2, <5>3 DEF IsPlaced, s, q
      <4> QED BY <4>6, <4>7
    <3>4. CASE q # p
      <4>1. FirstOfLine(writeBuffer', q) = FirstOfLine(writeBuffer, q) /\ writeBuffer'[q] = writeBuffer[q]
        BY <1>7, <1>8, <3>1, <3>4
      <4>2. ASSUME isFull, s < FirstOfLine(writeBuffer, q)
            PROVE  s < first \/ s >= first + BlockCapacity
        <5>1. SlotOf(column, n) \in Offset(column, p)..Offset(column, p) + Cardinality(RowsAmong(column, p)) - 1
          BY <1>1, <1>2, SlotOfRow DEF p
        <5>2. first + BlockCapacity - 1 = SlotOf(column, n)
          <6> HIDE DEF first, slot
          <6> QED BY <1>1, <1>3, <4>2
        <5> QED BY <1>1, <3>0, <3>4, <4>2, <5>1, <5>2, OtherLinesStay
      <4>3. s < FirstOfLine(writeBuffer, q) => output'[s] = i
        <5> HIDE DEF s, first, q, slot
        <5> QED BY <1>10, <3>1, <4>2
      <4> QED BY <3>1, <3>2, <4>1, <4>3 DEF IsPlaced
    <3> QED BY <3>3, <3>4
  <2> QED BY <2>1, <2>2
<1>13. n \in 0..Len(column) /\ 0 \in 0..NumPartitions /\ ~(0 > 0)
  BY <1>1, <1>2, NumPartitionsType
<1> QED
  BY <1>2, <1>7, <1>9, <1>11, <1>12, <1>13, Zenon DEF PartitionInv

(* The rest of a partition: its line from where the partition begins in it, or
   from the start, up to its last row.                                     *)
LEMMA RestKeepsInv ==
  ASSUME PartitionInv, CopyRest
  PROVE  PartitionInv'
<1> DEFINE p == emptied
           w == writeBuffer[p]
           first == FirstOfLine(writeBuffer, p)
           left == FirstSlotLeft(p)
           end == Offset(column, p) + Cardinality(RowsAmong(column, p))
<1>1. /\ column \in Seq(Value) /\ routed = Len(column) /\ Len(column) \in Nat /\ emptied \in Nat
      /\ p \in Partition /\ NumPartitions \in Nat /\ emptied + 1 \in 0..NumPartitions
      /\ column' = column /\ routed' = routed /\ emptied' = emptied + 1 /\ writeBuffer' = writeBuffer
      /\ output' = Copied(w.tupleSlot, left, w.bufferSlot - 1, w.tuples)
  BY NumPartitionsType DEF PartitionInv, CopyRest, Partition
<1>2. /\ p \in Nat /\ BlockCapacity \in Nat \ {0}
      /\ w.tupleSlot \in Nat /\ w.bufferSlot \in 0..BlockCapacity - 1
      /\ first \in Nat /\ Offset(column, p) \in Nat /\ Cardinality(RowsAmong(column, p)) \in Nat
      /\ first + w.bufferSlot = end /\ end \in Nat
  <2>1. /\ NextSlot(column, p, routed) = end
        /\ first + w.bufferSlot = NextSlot(column, p, routed)
    BY <1>1, LineOfPartition
  <2> QED BY <1>1, <2>1, LineOfPartition
<1>3. /\ left \in Nat
      /\ first + left >= Offset(column, p)
      /\ first < Offset(column, p) => left = Offset(column, p) - first
      /\ first >= Offset(column, p) => left = 0
  <2> DEFINE o == Offset(column, p)
             line == o \div BlockCapacity
  <2>1. o \in Nat
    BY <1>2
  <2>2. first = w.tupleSlot * BlockCapacity
    BY DEF FirstOfLine
  <2>3. left = IF w.tupleSlot = line THEN o % BlockCapacity ELSE 0
    BY DEF FirstSlotLeft
  <2> HIDE DEF o, first, left, w, end
  <2>4. /\ line \in Nat /\ o % BlockCapacity \in 0..BlockCapacity - 1
        /\ o = line * BlockCapacity + (o % BlockCapacity)
    BY <1>2, <2>1
  <2>5. o <= first + w.bufferSlot
    BY <1>2 DEF o, end
  <2> HIDE DEF line
  <2>6. line * BlockCapacity \in Nat
    BY <1>2, <2>4
  <2>7. w.tupleSlot < line => first + BlockCapacity <= line * BlockCapacity
    BY <1>2, <2>2, <2>4
  <2>8. w.tupleSlot > line => first >= line * BlockCapacity + BlockCapacity
    BY <1>2, <2>2, <2>4
  <2>9. ~(w.tupleSlot < line)
    BY <1>2, <2>4, <2>5, <2>6, <2>7
  <2>10. CASE w.tupleSlot = line
    BY <1>2, <2>1, <2>2, <2>3, <2>4, <2>6, <2>10 DEF o
  <2>11. CASE w.tupleSlot > line
    <3>1. left = 0
      BY <1>2, <2>3, <2>4, <2>11
    <3>2. first >= o
      BY <1>2, <2>1, <2>4, <2>6, <2>8, <2>11
    <3> QED BY <1>2, <2>1, <3>1, <3>2 DEF o
  <2>12. w.tupleSlot = line \/ w.tupleSlot > line
    BY <1>2, <2>4, <2>9
  <2> QED BY <2>10, <2>11, <2>12, Zenon
<1>4. ASSUME NEW s \in DOMAIN output, s \in Nat
      PROVE  /\ s < Offset(column, p) \/ s < first \/ s >= end => output'[s] = output[s]
             /\ Offset(column, p) <= s /\ first <= s /\ s < end => output'[s] = w.tuples[s - first]
  <2>1. first = w.tupleSlot * BlockCapacity
    BY DEF FirstOfLine
  <2> HIDE DEF first, left, w, end
  <2>2. s < Offset(column, p) \/ s < first \/ s >= end =>
          s < first \/ s >= first + BlockCapacity \/ s - first \notin left..w.bufferSlot - 1
    BY <1>2, <1>3, <1>4
  <2>3. Offset(column, p) <= s /\ first <= s /\ s < end =>
          s < first + BlockCapacity /\ s - first \in left..w.bufferSlot - 1
    BY <1>2, <1>3, <1>4
  <2>4. /\ s < first \/ s >= first + BlockCapacity \/ s - first \notin left..w.bufferSlot - 1 =>
             Copied(w.tupleSlot, left, w.bufferSlot - 1, w.tuples)[s] = output[s]
        /\ first <= s /\ s < first + BlockCapacity /\ s - first \in left..w.bufferSlot - 1 =>
             Copied(w.tupleSlot, left, w.bufferSlot - 1, w.tuples)[s] = w.tuples[s - first]
    BY <1>2, <1>4, <2>1, CopiedSlot
  <2> QED BY <1>1, <2>2, <2>3, <2>4
<1>5. DOMAIN output' = 0..NumCacheLines(column) * BlockCapacity - 1
  <2>1. DOMAIN output' = DOMAIN output
    BY <1>1 DEF Copied
  <2> QED BY <2>1 DEF PartitionInv
<1>6. ASSUME NEW i \in 1..routed
      PROVE  IsPlaced(column, i, writeBuffer, emptied + 1, output')
  <2> DEFINE q == PartitionOf(column[i])
             s == SlotOf(column, i)
  <2>1. /\ q \in Partition /\ q \in Nat /\ s \in Nat /\ s \in DOMAIN output
        /\ s \in Offset(column, q)..Offset(column, q) + Cardinality(RowsAmong(column, q)) - 1
        /\ s < FirstOfLine(writeBuffer, q) \/ q < emptied => output[s] = i
        /\ s >= FirstOfLine(writeBuffer, q) =>
             writeBuffer[q].tuples[s - FirstOfLine(writeBuffer, q)] = i
        /\ FirstOfLine(writeBuffer, q) \in Nat
    BY PlacedRow
  <2>2. CASE q = p
    <3>1. Offset(column, p) <= s /\ s < end
      <4> HIDE DEF q, s
      <4> QED BY <1>2, <2>1, <2>2
    <3>2. s < first => output[s] = i
      BY <2>1, <2>2
    <3>3. s >= first => w.tuples[s - first] = i
      BY <2>1, <2>2
    <3> HIDE DEF s, q, first, w, end
    <3>4. output'[s] = i
      <4>1. s < first \/ (first <= s /\ s >= first)
        BY <1>2, <2>1
      <4> QED BY <1>4, <2>1, <3>1, <3>2, <3>3, <4>1
    <3>5. s >= FirstOfLine(writeBuffer, q) =>
             writeBuffer[q].tuples[s - FirstOfLine(writeBuffer, q)] = i
      BY <2>1
    <3> QED BY <3>4, <3>5 DEF IsPlaced, s, q
  <2>3. CASE q # p
    <3>1. s < Offset(column, p) \/ s >= end
      <4>1. s \notin Offset(column, p)..Offset(column, p) + Cardinality(RowsAmong(column, p)) - 1
        <5> HIDE DEF s, q, p
        <5> QED BY <1>1, <1>2, <2>1, <2>3, RoomIsDistinct
      <4> HIDE DEF s, q
      <4> QED BY <1>2, <2>1, <4>1
    <3> HIDE DEF s, q, first, w, end
    <3>2. output'[s] = output[s]
      BY <1>4, <2>1, <3>1
    <3>3. q < emptied + 1 => q < emptied
      BY <1>1, <2>1, <2>3
    <3>4. s < FirstOfLine(writeBuffer, q) \/ q < emptied + 1 => output'[s] = i
      BY <2>1, <3>2, <3>3
    <3> QED BY <2>1, <3>4 DEF IsPlaced, s, q
  <2> QED BY <2>2, <2>3
<1> QED
  BY <1>1, <1>5, <1>6, Zenon DEF PartitionInv

-----------------------------------------------------------------------------
(* When the rest of every partition is copied, each row is in its slot. *)
LEMMA PartitionedIsExact ==
  ASSUME PartitionInv, IsPartitioned, NEW p \in Partition
  PROVE  LET rows == RowsOf(p)
         IN  /\ {rows[k] : k \in DOMAIN rows} = RowsAmong(column, p)
             /\ \A k, l \in DOMAIN rows : k < l => rows[k] < rows[l]
<1> DEFINE mine == RowsAmong(column, p)
           size == Cardinality(mine)
           rows == RowsOf(p)
<1>1. /\ column \in Seq(Value) /\ routed = Len(column) /\ p \in Nat /\ p < emptied
      /\ Len(column) \in Nat
  BY NumPartitionsType DEF PartitionInv, IsPartitioned, Partition
<1>2. /\ mine \in SUBSET (1..Len(column)) /\ size \in Nat /\ Offset(column, p) \in Nat
      /\ Offset(column, p + 1) = Offset(column, p) + size
  BY <1>1, OffsetsAreSums
<1>3. IsFiniteSet(mine) /\ mine \in SUBSET Int
  <2> HIDE DEF mine
  <2>1. mine \in SUBSET (1..Len(column)) /\ Len(column) \in Nat /\ 0 \in Nat
    BY <1>1, <1>2
  <2> QED BY <2>1, RankUpTo, Zenon
<1>4. Histogram(column, p) = size
  BY <1>2 DEF Histogram
<1>5. /\ DOMAIN rows = 1..size
      /\ \A k \in 1..size : rows[k] = output[Offset(column, p) + k - 1]
  BY <1>4 DEF RowsOf
<1> HIDE DEF rows
<1>6. ASSUME NEW k \in 1..size
      PROVE  rows[k] = Nth(mine, k) /\ rows[k] \in mine
  <2> DEFINE i == Nth(mine, k)
  <2>1. i \in mine /\ Rank(mine, i) = k
    <3> HIDE DEF mine
    <3> QED BY <1>3, NthIsRanked
  <2> HIDE DEF i
  <2>2. i \in 1..routed /\ PartitionOf(column[i]) = p
    BY <1>1, <2>1 DEF RowsAmong
  <2>3. SlotOf(column, i) = Offset(column, p) + k - 1
    BY <2>1, <2>2 DEF SlotOf
  <2>4. output[SlotOf(column, i)] = i
    BY <1>1, <2>2, PlacedRow
  <2> QED BY <1>5, <2>1, <2>3, <2>4 DEF i
<1>7. ASSUME NEW i \in mine
      PROVE  \E k \in 1..size : rows[k] = i
  <2> HIDE DEF mine
  <2>1. Rank(mine, i) \in 1..size /\ Nth(mine, Rank(mine, i)) = i
    BY <1>3, RankBounds, NthOfRank
  <2>2. rows[Rank(mine, i)] = i
    BY <1>6, <2>1
  <2> QED BY <2>1, <2>2
<1>8. ASSUME NEW k \in 1..size, NEW l \in 1..size, k < l
      PROVE  rows[k] < rows[l]
  <2> HIDE DEF mine
  <2>1. Nth(mine, k) < Nth(mine, l)
    BY <1>3, <1>8, NthInOrder
  <2> QED BY <1>6, <2>1
<1>9. {rows[k] : k \in DOMAIN rows} = mine
  <2> HIDE DEF mine
  <2> QED BY <1>5, <1>6, <1>7, Zenon
<1> QED
  BY <1>5, <1>8, <1>9 DEF rows

-----------------------------------------------------------------------------
(* The whole evaluation.  The columns that are partitioned are those of tables:
   all rows have the variable that is joined on.                           *)
Width == Len(given.bindings["positive"][1])

CallInv ==
  /\ given \in Input
  /\ variable \in 0..Width
  /\ pass \in Side \cup {"both"}
  /\ pc \notin {"next", "done"} => variable # 0

CountingInv ==
  /\ CallInv
  /\ pc = "partition" \/ emptied > 0 => PartitionInv

LEMMA ColumnType ==
  ASSUME CallInv, variable # 0
  PROVE  JoinColumn(BindingRows) \in Seq(Value)
<1> DEFINE positive == given.bindings["positive"]
           negative == given.bindings["negative"]
           rows == BindingRows
<1>1. /\ positive \in Seq(Seq(Value)) /\ positive # <<>>
      /\ negative \in Seq(Seq(Value))
      /\ \A i \in DOMAIN positive : Len(positive[i]) = Width
      /\ \A i \in DOMAIN negative : Len(negative[i]) = Width
  <2>1. given \in Input /\ "positive" \in Side /\ "negative" \in Side
    BY DEF CallInv, Side
  <2>2. /\ positive \in Seq(Seq(Value)) \ {<<>>} /\ negative \in Seq(Seq(Value)) \ {<<>>}
        /\ \A i \in DOMAIN positive, j \in DOMAIN positive : Len(positive[i]) = Len(positive[j])
        /\ \A i \in DOMAIN negative, j \in DOMAIN positive : Len(negative[i]) = Len(positive[j])
    <3>1. /\ \A s \in Side : given.bindings[s] \in Seq(Seq(Value)) \ {<<>>}
          /\ \A s, t \in Side : \A i \in DOMAIN given.bindings[s], j \in DOMAIN given.bindings[t] :
               Len(given.bindings[s][i]) = Len(given.bindings[t][j])
      BY <2>1, InputAssumption, Zenon
    <3> QED BY <2>1, <3>1, Zenon
  <2> HIDE DEF positive, negative
  <2>3. 1 \in DOMAIN positive
    BY <2>2
  <2>4. Width = Len(positive[1])
    BY DEF Width, positive
  <2> QED BY <2>2, <2>3, <2>4
<1>2. variable \in 1..Width
  BY DEF CallInv
<1>3. \/ rows = positive \o negative
      \/ rows = positive
      \/ rows = negative
  BY DEF BindingRows, RowsOfPass, CallInv, Side
<1> HIDE DEF positive, negative, rows
<1>4. /\ rows \in Seq(Seq(Value))
      /\ \A i \in DOMAIN rows : Len(rows[i]) = Width
  <2>1. CASE rows = positive \o negative
    BY <1>1, <2>1
  <2>2. CASE rows = positive
    BY <1>1, <2>2
  <2>3. CASE rows = negative
    BY <1>1, <2>3
  <2> QED BY <1>3, <2>1, <2>2, <2>3
<1>5. /\ DOMAIN rows = 1..Len(rows) /\ Len(rows) \in Nat
      /\ \A i \in 1..Len(rows) : rows[i][variable] \in Value
  <2>1. DOMAIN rows = 1..Len(rows) /\ Len(rows) \in Nat
    BY <1>4
  <2>2. ASSUME NEW i \in 1..Len(rows)
        PROVE  rows[i][variable] \in Value
    <3>1. rows[i] \in Seq(Value) /\ Len(rows[i]) = Width
      BY <1>4, <2>1
    <3> QED BY <1>2, <3>1
  <2> QED BY <2>1, <2>2
<1>6. JoinColumn(rows) = [i \in 1..Len(rows) |-> rows[i][variable]]
  BY <1>5 DEF JoinColumn
<1>7. [i \in 1..Len(rows) |-> rows[i][variable]] \in Seq(Value)
  BY <1>5
<1> QED
  BY <1>6, <1>7 DEF rows

LEMMA CountingInit == BindingInit => CountingInv
<1> SUFFICES ASSUME BindingInit PROVE CountingInv
  OBVIOUS
<1>1. /\ given \in Input /\ variable = 0 /\ pc = "next" /\ pass = FirstPass /\ emptied = 0
  BY DEF BindingInit, Init
<1>2. pass \in Side \cup {"both"}
  BY <1>1 DEF FirstPass, Side
<1>3. Width \in Nat
  <2>1. "positive" \in Side
    BY DEF Side
  <2>2. given.bindings["positive"] \in Seq(Seq(Value)) \ {<<>>}
    BY <1>1, <2>1, InputAssumption
  <2> DEFINE rows == given.bindings["positive"]
  <2> HIDE DEF rows
  <2>3. rows \in Seq(Seq(Value)) /\ rows # <<>>
    BY <2>2 DEF rows
  <2>4. rows[1] \in Seq(Value)
    BY <2>3
  <2>5. Len(rows[1]) \in Nat
    BY <2>4
  <2> QED BY <2>5 DEF Width, rows
<1> QED
  BY <1>1, <1>2, <1>3 DEF CountingInv, CallInv

(* Steps that partition nothing. *)
LEMMA OthersKeepPartitions ==
  ASSUME CountingInv, UNCHANGED partitionVars, CallInv', pc' = "partition" => pc = "partition"
  PROVE  CountingInv'
<1>1. PartitionInv => PartitionInv'
  BY DEF PartitionInv, partitionVars
<1>2. emptied' = emptied
  BY DEF partitionVars
<1> QED
  BY <1>1, <1>2 DEF CountingInv

LEMMA CallStays ==
  ASSUME CallInv, UNCHANGED <<given, variable, pass>>, pc' \notin {"next", "done"} => pc \notin {"next", "done"}
  PROVE  CallInv'
BY DEF CallInv, Width

(* The steps of the binding tables leave the counting as it is. *)
LEMMA CountingOrTables == [BindingNext]_<<vars, tableVars>> => UNCHANGED vars \/ Next
<1>1. CreateLabelAwareBindingTables \/ CreateBindingTable => UNCHANGED vars
  BY Zenon DEF CreateLabelAwareBindingTables, CreateBindingTable, Begin
<1>2. HashRow \/ EndHashTable \/ JoinBlock \/ EndJoin => UNCHANGED vars
  BY Zenon DEF HashRow, EndHashTable, JoinBlock, EndJoin
<1> QED
  BY <1>1, <1>2, Zenon DEF BindingNext

LEMMA CountingNext == CountingInv /\ [BindingNext]_<<vars, tableVars>> => CountingInv'
<1> SUFFICES ASSUME CountingInv, [BindingNext]_<<vars, tableVars>>
             PROVE  CountingInv'
  OBVIOUS
<1>0. CallInv
  BY DEF CountingInv
<1>1. CASE UNCHANGED vars
  <2>1. UNCHANGED partitionVars /\ UNCHANGED <<given, variable, pass>> /\ pc' = pc
    BY <1>1 DEF vars, countVars, callVars
  <2> QED BY <1>0, <2>1, CallStays, OthersKeepPartitions
<1>2. CASE NextVariable
  <2>1. /\ UNCHANGED partitionVars /\ given' = given /\ pass' = FirstPass
        /\ variable < Width /\ variable' = variable + 1
        /\ pc' \in {"next", "plan"}
    BY <1>2 DEF NextVariable, Width
  <2>2. CallInv'
    BY <1>0, <2>1 DEF CallInv, Width, FirstPass, Side
  <2> QED BY <2>1, <2>2, OthersKeepPartitions
<1>3. CASE AllCounted
  <2>1. UNCHANGED partitionVars /\ UNCHANGED <<given, variable, pass>> /\ pc' = "done"
    BY <1>3 DEF AllCounted, callVars
  <2> QED BY <1>0, <2>1, CallStays, OthersKeepPartitions
<1>4. CASE GeneratePlan
  <2>1. UNCHANGED partitionVars /\ UNCHANGED <<given, variable, pass>> /\ pc' = pc
    BY <1>4, Zenon DEF GeneratePlan, countVars, callVars
  <2> QED BY <1>0, <2>1, CallStays, OthersKeepPartitions
<1>5. CASE MergeNodes
  <2>1. /\ UNCHANGED partitionVars /\ UNCHANGED <<given, variable, pass>>
        /\ pc = "plan" /\ pc' \in {pc, "use_after_free"}
    BY <1>5, Zenon DEF MergeNodes, callVars
  <2> QED BY <1>0, <2>1, CallStays, OthersKeepPartitions
<1>6. CASE KeepPlan
  <2>1. /\ UNCHANGED partitionVars /\ UNCHANGED <<given, variable, pass>>
        /\ pc = "plan" /\ pc' \in {"plan", "start"}
    BY <1>6, Zenon DEF KeepPlan
  <2> QED BY <1>0, <2>1, CallStays, OthersKeepPartitions
<1>7. CASE StartPass
  <2>1. /\ UNCHANGED <<given, variable, pass>> /\ pc = "start" /\ pc' = "partition"
        /\ StartPartition(JoinColumn(BindingRows))
    BY <1>7 DEF StartPass, callVars
  <2>2. CallInv'
    BY <1>0, <2>1, CallStays
  <2>3. JoinColumn(BindingRows) \in Seq(Value)
    BY <1>0, <2>1, ColumnType DEF CallInv
  <2>4. PartitionInv'
    BY <2>1, <2>3, StartKeepsInv
  <2> QED BY <2>2, <2>4 DEF CountingInv
<1>8. CASE PartitionBindings
  <2>1. /\ UNCHANGED <<given, variable, pass>> /\ pc = "partition" /\ pc' = pc
        /\ RouteRow \/ CopyRest
    BY <1>8 DEF PartitionBindings, PartitionStep, countVars, callVars
  <2>2. CallInv'
    BY <1>0, <2>1, CallStays
  <2>3. PartitionInv'
    BY <2>1, RouteKeepsInv, RestKeepsInv DEF CountingInv
  <2> QED BY <2>2, <2>3 DEF CountingInv
<1>9. CASE MakeHashTables
  <2>1. /\ UNCHANGED partitionVars /\ UNCHANGED <<given, variable, pass>>
        /\ pc = "partition" /\ pc' = "build"
    BY <1>9, Zenon DEF MakeHashTables, callVars
  <2> QED BY <1>0, <2>1, CallStays, OthersKeepPartitions
<1>10. CASE InsertRow
  <2>1. UNCHANGED partitionVars /\ UNCHANGED <<given, variable, pass>> /\ pc' = pc
    BY <1>10, Zenon DEF InsertRow, callVars
  <2> QED BY <1>0, <2>1, CallStays, OthersKeepPartitions
<1>11. CASE StartCounting
  <2>1. /\ UNCHANGED partitionVars /\ UNCHANGED <<given, variable, pass>>
        /\ pc = "build" /\ pc' = "count"
    BY <1>11, Zenon DEF StartCounting, callVars
  <2> QED BY <1>0, <2>1, CallStays, OthersKeepPartitions
<1>12. CASE MoveToNextJoinGroup
  <2>1. UNCHANGED partitionVars /\ UNCHANGED <<given, variable, pass>> /\ pc' = pc
    BY <1>12, Zenon DEF MoveToNextJoinGroup, callVars
  <2> QED BY <1>0, <2>1, CallStays, OthersKeepPartitions
<1>13. CASE TakeChunk
  <2>1. UNCHANGED partitionVars /\ UNCHANGED <<given, variable, pass>> /\ pc' = pc
    BY <1>13, Zenon DEF TakeChunk, callVars
  <2> QED BY <1>0, <2>1, CallStays, OthersKeepPartitions
<1>14. CASE EndPass
  <2>1. /\ UNCHANGED partitionVars /\ UNCHANGED <<given, variable>>
        /\ pc = "count" /\ pc' \in {"null_dereference", "start", "next"}
        /\ pass' \in {pass, "negative"}
    BY <1>14, Zenon DEF EndPass
  <2>2. CallInv'
    BY <1>0, <2>1 DEF CallInv, Width, Side
  <2> QED BY <2>1, <2>2, OthersKeepPartitions
<1>15. \/ UNCHANGED vars \/ Next
  BY CountingOrTables
<1> QED
  BY <1>1, <1>2, <1>3, <1>4, <1>5, <1>6, <1>7, <1>8, <1>9, <1>10, <1>11, <1>12, <1>13, <1>14, <1>15,
     Zenon DEF Next

(* Each partition of the bindings holds exactly its rows in their order, for every
   data set, every number of partitions, every hash and every size of a cache
   line (RadixPartitioner::Partition, as EvaluateAllCandidateLiterals uses it). *)
THEOREM PartitionsCorrect == BindingSpec => []PartitionsAreExact
<1>1. CountingInv => PartitionsAreExact
  <2> SUFFICES ASSUME CountingInv, IsPartitioned, NEW p \in Partition
               PROVE  LET rows == RowsOf(p)
                      IN  /\ {rows[k] : k \in DOMAIN rows} = {i \in DOMAIN column : PartitionOf(column[i]) = p}
                          /\ \A k, l \in DOMAIN rows : k < l => rows[k] < rows[l]
    BY Zenon DEF PartitionsAreExact
  <2>1. PartitionInv
    BY NumPartitionsType DEF CountingInv, IsPartitioned
  <2> QED BY <2>1, PartitionedIsExact, Zenon DEF RowsAmong
<1>2. BindingInit => CountingInv
  BY CountingInit
<1>3. CountingInv /\ [BindingNext]_<<vars, tableVars>> => CountingInv'
  BY CountingNext
<1> QED
  BY <1>1, <1>2, <1>3, PTL DEF BindingSpec
-----------------------------------------------------------------------------
(* The tables of a clause variable and the tests of its candidates.  What the
   evaluation is called with.                                              *)
VariablesOf(c) == given.candidates[c].variables
RelationOf(c) == given.candidates[c].relation
TypesOf(c) == given.relations[RelationOf(c)].types
BoundOf(c) == {a \in DOMAIN VariablesOf(c) : VariablesOf(c)[a] # 0}

LEMMA InputIs ==
  ASSUME CallInv
  PROVE  /\ given.candidates \in Seq([relation : DOMAIN given.relations, variables : Seq(Nat)])
         /\ given.candidates # <<>>
         /\ given.relations \in Seq([rows : Seq(Seq(Value)), types : Seq(Nat)])
         /\ \A c, d \in DOMAIN given.candidates :
              /\ DOMAIN VariablesOf(c) = DOMAIN TypesOf(c)
              /\ BoundOf(c) # {}
              /\ c # d => given.candidates[c] # given.candidates[d]
<1>1. given \in Input
  BY DEF CallInv
<1>2. /\ given.relations \in Seq([rows : Seq(Seq(Value)), types : Seq(Nat)])
      /\ given.candidates \in Seq([relation : DOMAIN given.relations, variables : Seq(Nat)]) \ {<<>>}
  BY <1>1, InputAssumption, Zenon
<1>3. \A c, d \in DOMAIN given.candidates :
        /\ DOMAIN given.candidates[c].variables = DOMAIN given.relations[given.candidates[c].relation].types
        /\ \E a \in DOMAIN given.candidates[c].variables : given.candidates[c].variables[a] # 0
        /\ c # d => given.candidates[c] # given.candidates[d]
  BY <1>1, InputAssumption, Zenon
<1>4. \A c \in DOMAIN given.candidates :
        /\ DOMAIN VariablesOf(c) = DOMAIN TypesOf(c)
        /\ BoundOf(c) # {}
  BY <1>3, Zenon DEF VariablesOf, TypesOf, RelationOf, BoundOf
<1> QED
  BY <1>2, <1>3, <1>4, Zenon

LEMMA ElementOfSequence ==
  ASSUME NEW T, NEW s \in Seq(T), NEW i \in DOMAIN s
  PROVE  s[i] \in T
OBVIOUS

LEMMA IsSequence ==
  ASSUME NEW T, NEW n \in Nat, NEW s, s = [k \in 1..n |-> s[k]], \A k \in 1..n : s[k] \in T
  PROVE  s \in Seq(T) /\ Len(s) = n
OBVIOUS

LEMMA CandidateIs ==
  ASSUME CallInv, NEW c \in DOMAIN given.candidates
  PROVE  /\ DOMAIN given.candidates = 1..Len(given.candidates) /\ Len(given.candidates) \in Nat
         /\ RelationOf(c) \in DOMAIN given.relations
         /\ VariablesOf(c) \in Seq(Nat) /\ TypesOf(c) \in Seq(Nat)
         /\ Len(VariablesOf(c)) \in Nat
         /\ DOMAIN VariablesOf(c) = 1..Len(VariablesOf(c))
         /\ DOMAIN TypesOf(c) = 1..Len(VariablesOf(c))
         /\ given.candidates[c] = [relation |-> RelationOf(c), variables |-> VariablesOf(c)]
<1>1. /\ given.candidates \in Seq([relation : DOMAIN given.relations, variables : Seq(Nat)])
      /\ given.relations \in Seq([rows : Seq(Seq(Value)), types : Seq(Nat)])
      /\ DOMAIN VariablesOf(c) = DOMAIN TypesOf(c)
  BY InputIs
<1> DEFINE Candidates == [relation : DOMAIN given.relations, variables : Seq(Nat)]
           Relations == [rows : Seq(Seq(Value)), types : Seq(Nat)]
<1>2. given.candidates[c] \in Candidates
  <2>1. given.candidates \in Seq(Candidates)
    BY <1>1, Zenon
  <2> HIDE DEF Candidates
  <2> QED BY <2>1, ElementOfSequence, Zenon
<1>3. /\ RelationOf(c) \in DOMAIN given.relations
      /\ VariablesOf(c) \in Seq(Nat)
      /\ given.candidates[c] = [relation |-> RelationOf(c), variables |-> VariablesOf(c)]
  BY <1>2 DEF RelationOf, VariablesOf
<1>4. given.relations[RelationOf(c)] \in Relations
  <2>1. given.relations \in Seq(Relations)
    BY <1>1, Zenon
  <2> HIDE DEF Relations
  <2> QED BY <1>3, <2>1, ElementOfSequence, Zenon
<1>5. TypesOf(c) \in Seq(Nat)
  BY <1>4 DEF TypesOf
<1>6. /\ Len(VariablesOf(c)) \in Nat
      /\ DOMAIN VariablesOf(c) = 1..Len(VariablesOf(c))
  BY <1>3
<1>7. DOMAIN given.candidates = 1..Len(given.candidates) /\ Len(given.candidates) \in Nat
  BY <1>1
<1> QED
  BY <1>1, <1>3, <1>5, <1>6, <1>7

(* The first of the bound arguments with the highest type. *)
LEMMA JoinKeyIsBound ==
  ASSUME CallInv, NEW c \in DOMAIN given.candidates
  PROVE  JoinKey(c) \in BoundOf(c)
<1> DEFINE n == Len(VariablesOf(c))
           B == BoundOf(c)
           types == TypesOf(c)
           T == {types[b] : b \in B}
           IsKey(a) == a \in B /\ \A b \in B : types[b] < types[a] \/ (types[b] = types[a] /\ a <= b)
<1>1. /\ n \in Nat /\ B \in SUBSET (1..n) /\ B # {}
      /\ types \in Seq(Nat) /\ DOMAIN types = 1..n
  BY CandidateIs, InputIs DEF BoundOf
<1>2. JoinKey(c) = CHOOSE a : IsKey(a)
  BY Zenon DEF JoinKey, BoundOf, VariablesOf, TypesOf, RelationOf
<1>3. IsFiniteSet(B)
  <2>1. 1 \in Int /\ n \in Int
    BY <1>1
  <2>2. IsFiniteSet(1..n)
    BY <2>1, FS_Interval, Zenon
  <2> QED BY <1>1, <2>2, FS_Subset
<1>4. \A b \in B : types[b] \in Nat /\ b \in Nat
  BY <1>1
<1>5. T \in SUBSET Nat /\ T # {}
  BY <1>1, <1>4
<1>6. IsFiniteSet(T)
  <2> DEFINE f == [b \in B |-> types[b]]
  <2>1. f \in Surjection(B, T)
    BY DEF Surjection
  <2> HIDE DEF f, T, B
  <2> QED BY <1>3, <2>1, FS_Surjection
<1>7. PICK m \in T : \A t \in T : t <= m
  <2> HIDE DEF T
  <2> QED BY <1>5, <1>6, HasHighest
<1> DEFINE H == {b \in B : types[b] = m}
<1>8. H \in SUBSET Nat /\ H # {} /\ m \in Nat
  BY <1>4, <1>5, <1>7
<1>9. PICK a \in H : \A b \in H : a <= b
  <2> HIDE DEF H
  <2> QED BY <1>8, HasLowest
<1>10. IsKey(a)
  <2>1. a \in B /\ types[a] = m
    BY <1>9
  <2>2. ASSUME NEW b \in B
        PROVE  types[b] < m \/ (types[b] = m /\ a <= b)
    <3>1. types[b] \in T /\ types[b] \in Nat
      BY <1>4
    <3>2. types[b] <= m
      BY <1>7, <3>1
    <3>3. types[b] = m => a <= b
      BY <1>9
    <3> QED BY <1>8, <3>1, <3>2, <3>3
  <2> HIDE DEF B
  <2> QED BY <2>1, <2>2
<1> HIDE DEF IsKey
<1>11. IsKey(JoinKey(c))
  BY <1>2, <1>10
<1> QED
  BY <1>11 DEF IsKey

(* The tests of a literal are its other bound arguments. *)
LEMMA TestsAre ==
  ASSUME CallInv, NEW c \in DOMAIN given.candidates
  PROVE  /\ Tests(c) \in Seq(Test)
         /\ \A x : Contains(Tests(c), x)
              <=> \E a \in BoundOf(c) \ {JoinKey(c)} : x = <<a, VariablesOf(c)[a]>>
<1> DEFINE n == Len(VariablesOf(c))
           S == BoundOf(c) \ {JoinKey(c)}
           rows == [a \in DOMAIN VariablesOf(c) |-> <<a, VariablesOf(c)[a]>>]
<1>1. /\ n \in Nat /\ S \in SUBSET (1..n)
      /\ VariablesOf(c) \in Seq(Nat) /\ DOMAIN VariablesOf(c) = 1..n
  BY CandidateIs DEF BoundOf
<1>2. S = {a \in DOMAIN VariablesOf(c) : VariablesOf(c)[a] # 0 /\ a # JoinKey(c)}
  BY DEF BoundOf
<1>3. Tests(c) = RowsIn(rows, S)
  BY <1>2, Zenon DEF Tests, VariablesOf
<1>4. rows \in Seq(Test) /\ Len(rows) = n
  BY <1>1 DEF Test
<1>5. \A a \in S : rows[a] = <<a, VariablesOf(c)[a]>>
  BY <1>1
<1> HIDE DEF rows, S, n
<1>6. Tests(c) \in Seq(Test)
  BY <1>1, <1>3, <1>4, RowsInType
<1>7. ASSUME NEW x
      PROVE  Contains(Tests(c), x) <=> \E a \in S : x = <<a, VariablesOf(c)[a]>>
  <2>1. Contains(RowsIn(rows, S), x) <=> \E i \in S : rows[i] = x
    <3>1. S \in SUBSET (1..Len(rows))
      BY <1>1, <1>4, Zenon
    <3> QED BY <1>4, <3>1, RowsInMembers, Zenon
  <2> QED BY <1>3, <1>5, <2>1, Zenon
<1> QED
  BY <1>6, <1>7 DEF S

LEMMA SameSize ==
  ASSUME NEW m \in Nat, NEW n \in Nat, 1..m = 1..n
  PROVE  m = n
<1>1. m >= 1 => m \in 1..n
  OBVIOUS
<1>2. n >= 1 => n \in 1..m
  OBVIOUS
<1> QED
  BY <1>1, <1>2

(* Candidates of one variable, relation and key differ in their tests. *)
LEMMA TestsDiffer ==
  ASSUME CallInv, NEW c \in DOMAIN given.candidates, NEW d \in DOMAIN given.candidates,
         RelationOf(c) = RelationOf(d), JoinKey(c) = JoinKey(d),
         ClauseVariable(c) = ClauseVariable(d),
         \A x \in Test : Contains(Tests(c), x) <=> Contains(Tests(d), x)
  PROVE  c = d
<1> DEFINE v == VariablesOf(c)
           w == VariablesOf(d)
           n == Len(v)
<1>1. /\ n \in Nat /\ v \in Seq(Nat) /\ DOMAIN v = 1..n
      /\ DOMAIN TypesOf(c) = 1..n
      /\ given.candidates[c] = [relation |-> RelationOf(c), variables |-> v]
  BY CandidateIs
<1>2. /\ w \in Seq(Nat) /\ DOMAIN w = 1..Len(w) /\ DOMAIN TypesOf(d) = 1..Len(w)
      /\ given.candidates[d] = [relation |-> RelationOf(d), variables |-> w]
      /\ Len(w) \in Nat
  BY CandidateIs
<1>3. TypesOf(c) = TypesOf(d)
  BY DEF TypesOf
<1>4. Len(w) = n
  <2>1. 1..n = 1..Len(w)
    BY <1>1, <1>2, <1>3, Zenon
  <2> HIDE DEF n
  <2> QED BY <1>1, <1>2, <2>1, SameSize
<1>5. v[JoinKey(c)] = w[JoinKey(c)]
  BY DEF ClauseVariable, VariablesOf
<1>6. /\ \A x : Contains(Tests(c), x) <=> \E a \in BoundOf(c) \ {JoinKey(c)} : x = <<a, v[a]>>
      /\ \A x : Contains(Tests(d), x) <=> \E a \in BoundOf(d) \ {JoinKey(d)} : x = <<a, w[a]>>
  BY TestsAre
<1>7. /\ BoundOf(c) = {a \in 1..n : v[a] # 0}
      /\ BoundOf(d) = {a \in 1..n : w[a] # 0}
  BY <1>1, <1>2, <1>4 DEF BoundOf
<1> HIDE DEF v, w, n
<1>8. ASSUME NEW a \in 1..n, v[a] # w[a]
      PROVE  FALSE
  <2>1. a # JoinKey(c) /\ v[a] \in Nat /\ w[a] \in Nat /\ a \in Nat
    BY <1>1, <1>2, <1>4, <1>5, <1>8
  <2>2. CASE v[a] # 0
    <3>1. <<a, v[a]>> \in Test
      BY <2>1 DEF Test
    <3>2. Contains(Tests(c), <<a, v[a]>>)
      <4>1. a \in BoundOf(c) \ {JoinKey(c)}
        BY <1>7, <2>1, <2>2
      <4> QED BY <1>6, <4>1
    <3>3. Contains(Tests(d), <<a, v[a]>>)
      BY <3>1, <3>2
    <3>4. PICK b \in BoundOf(d) \ {JoinKey(d)} : <<a, v[a]>> = <<b, w[b]>>
      BY <1>6, <3>3
    <3> QED BY <1>8, <3>4
  <2>3. CASE w[a] # 0
    <3>1. <<a, w[a]>> \in Test
      BY <2>1 DEF Test
    <3>2. Contains(Tests(d), <<a, w[a]>>)
      <4>1. a \in BoundOf(d) \ {JoinKey(d)}
        BY <1>7, <2>1, <2>3
      <4> QED BY <1>6, <4>1
    <3>3. Contains(Tests(c), <<a, w[a]>>)
      BY <3>1, <3>2
    <3>4. PICK b \in BoundOf(c) \ {JoinKey(c)} : <<a, w[a]>> = <<b, v[b]>>
      BY <1>6, <3>3
    <3> QED BY <1>8, <3>4
  <2> QED BY <1>8, <2>1, <2>2, <2>3
<1>9. v = w
  BY <1>1, <1>2, <1>4, <1>8
<1> QED
  BY <1>1, <1>2, <1>9, InputIs

(* The join groups of a table: one for each key of the candidates, with those
   that have it.                                                           *)
JoinGroup ==
  [key : Nat, literals : Seq(DOMAIN given.candidates), plan : EvaluationPlanType]
BackgroundTable == [rows : Seq(Seq(Value)), groups : Seq(JoinGroup)]

IsGroupOf(g, v, r) ==
  \E c \in CandidatesOf(v, r) :
    /\ g.key = JoinKey(c)
    /\ Lists(g.literals, {d \in CandidatesOf(v, r) : JoinKey(d) = JoinKey(c)})

HasGroups(gs, v, r) ==
  /\ gs \in Seq(JoinGroup) /\ gs # <<>>
  /\ \A g \in 1..Len(gs) : IsGroupOf(gs[g], v, r)
  /\ \A g, h \in 1..Len(gs) : gs[g].key = gs[h].key => g = h
  /\ \A c \in CandidatesOf(v, r) : \E g \in 1..Len(gs) : gs[g].key = JoinKey(c)

IsTableOf(t, v, r) ==
  /\ t \in BackgroundTable
  /\ t.rows = given.relations[r].rows
  /\ HasGroups(t.groups, v, r)

RelationsOf(v) == {r \in DOMAIN given.relations : CandidatesOf(v, r) # {}}
RelationAt(t) == Nth(RelationsOf(variable), t)

TablesInv ==
  IF variable = 0 THEN tables = <<>>
  ELSE /\ tables \in Seq(BackgroundTable)
       /\ Len(tables) = Cardinality(RelationsOf(variable))
       /\ \A t \in 1..Len(tables) : IsTableOf(tables[t], variable, RelationAt(t))

(* Rows of what is no sequence, at a finite set of positions. *)
AreRowsAt(s, f, S, T) ==
  /\ Cardinality(S) \in Nat
  /\ s \in Seq(T) /\ Len(s) = Cardinality(S)
  /\ \A k \in 1..Cardinality(S) : Nth(S, k) \in S /\ s[k] = f[Nth(S, k)]
  /\ \A k, l \in 1..Cardinality(S) : Nth(S, k) = Nth(S, l) => k = l
  /\ \A i \in S : Rank(S, i) \in 1..Cardinality(S) /\ s[Rank(S, i)] = f[i]

LEMMA RowsAtSet ==
  ASSUME NEW T, NEW S \in SUBSET Int, IsFiniteSet(S), NEW f, \A i \in S : f[i] \in T
  PROVE  AreRowsAt(RowsIn(f, S), f, S, T)
<1> DEFINE c == Cardinality(S)
           r == RowsIn(f, S)
<1>1. c \in Nat
  BY FS_CardinalityType
<1>2. \A k \in 1..c : Nth(S, k) \in S /\ Rank(S, Nth(S, k)) = k
  BY NthIsRanked
<1>3. \A i \in S : Rank(S, i) \in 1..c /\ Nth(S, Rank(S, i)) = i
  BY RankBounds, NthOfRank
<1>4. r = [k \in 1..c |-> f[Nth(S, k)]]
  BY DEF RowsIn
<1> HIDE DEF c, r
<1>5. \A k \in 1..c : f[Nth(S, k)] \in T
  BY <1>2
<1>7. r \in Seq(T) /\ Len(r) = c /\ \A k \in 1..c : r[k] = f[Nth(S, k)]
  BY <1>1, <1>4, <1>5
<1>6. \A k, l \in 1..c : Nth(S, k) = Nth(S, l) => k = l
  BY <1>2
<1> QED
  BY <1>1, <1>2, <1>3, <1>6, <1>7 DEF c, r, AreRowsAt

LEMMA ReversedIs ==
  ASSUME NEW T, NEW s \in Seq(T)
  PROVE  /\ Reverse(s) \in Seq(T) /\ Len(Reverse(s)) = Len(s)
         /\ \A k \in 1..Len(s) : Len(s) - k + 1 \in 1..Len(s)
                                 /\ Reverse(s)[k] = s[Len(s) - k + 1]
<1> DEFINE n == Len(s)
<1>1. n \in Nat /\ \A k \in 1..n : s[k] \in T
  OBVIOUS
<1>2. Reverse(s) = [k \in 1..n |-> s[n - k + 1]]
  BY DEF Reverse
<1> HIDE DEF n
<1>3. \A k \in 1..n : n - k + 1 \in 1..n
  BY <1>1
<1>4. \A k \in 1..n : s[n - k + 1] \in T
  BY <1>1, <1>3
<1>5. [k \in 1..n |-> s[n - k + 1]] \in Seq(T) /\ Len([k \in 1..n |-> s[n - k + 1]]) = n
  BY <1>1, <1>4
<1> QED
  BY <1>2, <1>3, <1>5 DEF n

LEMMA CandidatesAre ==
  ASSUME CallInv, NEW v, NEW r
  PROVE  /\ CandidatesOf(v, r) \in SUBSET (DOMAIN given.candidates)
         /\ CandidatesOf(v, r) \in SUBSET Nat /\ IsFiniteSet(CandidatesOf(v, r))
<1> DEFINE n == Len(given.candidates)
<1>1. n \in Nat /\ DOMAIN given.candidates = 1..n /\ 1 \in Int /\ n \in Int
  BY InputIs
<1>2. IsFiniteSet(1..n)
  BY <1>1, FS_Interval, Zenon
<1>3. CandidatesOf(v, r) \in SUBSET (1..n)
  BY <1>1 DEF CandidatesOf
<1> HIDE DEF n
<1>4. CandidatesOf(v, r) \in SUBSET Nat
  BY <1>1, <1>3
<1> QED
  BY <1>1, <1>2, <1>3, <1>4, FS_Subset

LEMMA NoPlanType == NoPlan \in EvaluationPlanType
<1>1. <<>> \in Seq(PlanNode)
  OBVIOUS
<1> QED
  BY <1>1 DEF NoPlan, EvaluationPlanType

(* The first candidates of each key, and the groups that are made of them. *)
LeadersOf(v, r) ==
  {c \in CandidatesOf(v, r) :
     \A d \in CandidatesOf(v, r) : d < c => JoinKey(d) # JoinKey(c)}
NewGroup(v, r, c) ==
  [key |-> JoinKey(c),
   literals |-> InOrder({d \in CandidatesOf(v, r) : JoinKey(d) = JoinKey(c)}),
   plan |-> NoPlan]
NewGroups(v, r) == [c \in CandidatesOf(v, r) |-> NewGroup(v, r, c)]

HasNoPlans(gs) == \A g \in 1..Len(gs) : gs[g].plan = NoPlan

LEMMA GroupsAreMade ==
  ASSUME CallInv, NEW v, NEW r, CandidatesOf(v, r) # {}
  PROVE  LET gs == Reverse(RowsIn(NewGroups(v, r), LeadersOf(v, r)))
         IN  HasGroups(gs, v, r) /\ HasNoPlans(gs)
<1> DEFINE C == CandidatesOf(v, r)
           L == LeadersOf(v, r)
           f == NewGroups(v, r)
           s == RowsIn(f, L)
           n == Cardinality(L)
<1>1. /\ C \in SUBSET (DOMAIN given.candidates) /\ C \in SUBSET Nat /\ IsFiniteSet(C)
  BY CandidatesAre
<1>2. L \in SUBSET C
  BY DEF LeadersOf
<1>3. L \in SUBSET Int /\ IsFiniteSet(L)
  <2> HIDE DEF C, L
  <2> QED BY <1>1, <1>2, FS_Subset
<1>4. ASSUME NEW c \in C
      PROVE  \E l \in L : JoinKey(l) = JoinKey(c)
  <2> DEFINE S == {d \in C : JoinKey(d) = JoinKey(c)}
  <2>1. S \in SUBSET Nat /\ c \in S
    BY <1>1
  <2>2. PICK l \in S : \A d \in S : l <= d
    <3> HIDE DEF S
    <3> QED BY <2>1, HasLowest
  <2>3. \A d \in C : d < l => JoinKey(d) # JoinKey(l)
    <3> SUFFICES ASSUME NEW d \in C, d < l, JoinKey(d) = JoinKey(l)
                 PROVE  FALSE
      OBVIOUS
    <3>1. d \in S /\ l \in Nat /\ d \in Nat
      BY <2>1, <2>2
    <3> QED BY <2>2, <3>1
  <2>4. l \in L
    BY <2>3 DEF LeadersOf
  <2> QED BY <2>4
<1>5. ASSUME NEW c \in C
      PROVE  /\ f[c] \in JoinGroup /\ f[c].key = JoinKey(c) /\ IsGroupOf(f[c], v, r)
             /\ f[c].plan = NoPlan
  <2> DEFINE S == {d \in C : JoinKey(d) = JoinKey(c)}
  <2>1. S \in SUBSET C
    OBVIOUS
  <2>2. S \in SUBSET Int /\ IsFiniteSet(S)
    <3> HIDE DEF C, S
    <3> QED BY <1>1, <2>1, FS_Subset
  <2>3. f[c] = [key |-> JoinKey(c), literals |-> InOrder(S), plan |-> NoPlan]
    BY DEF NewGroups, NewGroup
  <2>4. Lists(InOrder(S), S)
    <3> HIDE DEF S
    <3> QED BY <2>2, InOrderLists
  <2>5. InOrder(S) \in Seq(DOMAIN given.candidates)
    <3> HIDE DEF S, C
    <3>1. InOrder(S) \in Seq(S)
      BY <2>4 DEF Lists
    <3>2. S \in SUBSET (DOMAIN given.candidates)
      BY <1>1, <2>1
    <3> QED BY <3>1, <3>2
  <2>6. JoinKey(c) \in Nat
    <3>1. c \in DOMAIN given.candidates
      BY <1>1
    <3>2. JoinKey(c) \in DOMAIN VariablesOf(c)
      BY <3>1, JoinKeyIsBound DEF BoundOf
    <3> QED BY <3>1, <3>2, CandidateIs
  <2>7. f[c] \in JoinGroup
    <3> HIDE DEF f, S
    <3> QED BY <2>3, <2>5, <2>6, NoPlanType DEF JoinGroup
  <2>8. IsGroupOf(f[c], v, r)
    <3>1. f[c].key = JoinKey(c) /\ f[c].literals = InOrder(S)
      BY <2>3
    <3> QED BY <2>4, <3>1, Zenon DEF IsGroupOf
  <2> QED BY <2>3, <2>7, <2>8
<1>6. \A l \in L : f[l] \in JoinGroup
  BY <1>2, <1>5
<1> HIDE DEF C, L, f
<1>7. /\ n \in Nat /\ s \in Seq(JoinGroup) /\ Len(s) = n
      /\ \A k \in 1..n : Nth(L, k) \in L /\ s[k] = f[Nth(L, k)]
      /\ \A k, l \in 1..n : Nth(L, k) = Nth(L, l) => k = l
      /\ \A i \in L : Rank(L, i) \in 1..n /\ s[Rank(L, i)] = f[i]
  <2>1. AreRowsAt(s, f, L, JoinGroup)
    BY <1>3, <1>6, RowsAtSet
  <2> HIDE DEF s, n
  <2> QED BY <2>1 DEF AreRowsAt, n
<1> DEFINE gs == Reverse(s)
<1> HIDE DEF s, n
<1>8. /\ gs \in Seq(JoinGroup) /\ Len(gs) = n
      /\ \A k \in 1..n : n - k + 1 \in 1..n /\ gs[k] = s[n - k + 1]
  BY <1>7, ReversedIs
<1> HIDE DEF gs
<1>9. \A k \in 1..n : \E c \in L : gs[k] = f[c] /\ c = Nth(L, n - k + 1)
  BY <1>7, <1>8
<1>10. \A k \in 1..n : IsGroupOf(gs[k], v, r)
  BY <1>2, <1>5, <1>9
<1>11. ASSUME NEW c \in C
       PROVE  \E g \in 1..n : gs[g].key = JoinKey(c)
  <2>1. PICK l \in L : JoinKey(l) = JoinKey(c)
    BY <1>4
  <2>2. PICK k \in 1..n : s[k] = f[l]
    BY <1>7
  <2>3. n - k + 1 \in 1..n /\ gs[n - k + 1] = s[k]
    <3>1. n - k + 1 \in 1..n /\ n - (n - k + 1) + 1 = k
      BY <1>7
    <3> QED BY <1>8, <3>1
  <2>4. gs[n - k + 1].key = JoinKey(c)
    BY <1>2, <1>5, <2>1, <2>2, <2>3
  <2> QED BY <2>3, <2>4
<1>12. ASSUME NEW g \in 1..n, NEW h \in 1..n, gs[g].key = gs[h].key
       PROVE  g = h
  <2>1. PICK c \in L : gs[g] = f[c] /\ c = Nth(L, n - g + 1)
    BY <1>9
  <2>2. PICK d \in L : gs[h] = f[d] /\ d = Nth(L, n - h + 1)
    BY <1>9
  <2>3. JoinKey(c) = JoinKey(d)
    BY <1>2, <1>5, <1>12, <2>1, <2>2
  <2>4. c \in Nat /\ d \in Nat
    BY <1>1, <1>2
  <2>5. ~(c < d) /\ ~(d < c)
    BY <2>3 DEF L, LeadersOf, C
  <2>6. c = d
    BY <2>4, <2>5
  <2>7. n - g + 1 \in 1..n /\ n - h + 1 \in 1..n
    BY <1>8
  <2>8. n - g + 1 = n - h + 1
    BY <1>7, <2>1, <2>2, <2>6, <2>7
  <2> QED BY <1>7, <2>8
<1>13. gs # <<>>
  <2>1. PICK c \in C : TRUE
    BY DEF C
  <2>2. PICK g \in 1..n : TRUE
    BY <1>11, <2>1
  <2>3. n # 0
    BY <1>7, <2>2
  <2>4. Len(<<>>) = 0
    OBVIOUS
  <2> QED BY <1>8, <2>3, <2>4
<1>14. /\ \A g \in 1..Len(gs) : IsGroupOf(gs[g], v, r)
       /\ \A g, h \in 1..Len(gs) : gs[g].key = gs[h].key => g = h
       /\ \A c \in C : \E g \in 1..Len(gs) : gs[g].key = JoinKey(c)
  BY <1>8, <1>10, <1>11, <1>12, Zenon
<1>15. HasGroups(gs, v, r)
  BY <1>8, <1>13, <1>14, Zenon DEF HasGroups, C
<1>16. ASSUME NEW g \in 1..Len(gs)
       PROVE  gs[g].plan = NoPlan
  <2>1. PICK c \in L : gs[g] = f[c]
    BY <1>8, <1>9
  <2>2. f[c].plan = NoPlan
    BY <1>2, <1>5
  <2> QED BY <2>1, <2>2
<1> QED
  BY <1>15, <1>16, Zenon DEF HasNoPlans, gs, s, f, L

(* The table of each relation that has candidates for the variable. *)
LEMMA TablesAreMade ==
  ASSUME CallInv, NEW v
  PROVE  /\ TablesFor(v) \in Seq(BackgroundTable)
         /\ Len(TablesFor(v)) = Cardinality(RelationsOf(v))
         /\ \A t \in 1..Len(TablesFor(v)) :
              /\ IsTableOf(TablesFor(v)[t], v, Nth(RelationsOf(v), t))
              /\ HasNoPlans(TablesFor(v)[t].groups)
<1> DEFINE R == RelationsOf(v)
           f == [r \in DOMAIN given.relations |->
                   [rows |-> given.relations[r].rows,
                    groups |-> Reverse(RowsIn(NewGroups(v, r), LeadersOf(v, r)))]]
           n == Len(given.relations)
           Relations == [rows : Seq(Seq(Value)), types : Seq(Nat)]
<1>1. TablesFor(v) = RowsIn(f, R)
  BY Zenon DEF TablesFor, NewGroups, NewGroup, LeadersOf, RelationsOf
<1>2. given.relations \in Seq(Relations)
  BY InputIs, Zenon
<1>3. n \in Nat /\ DOMAIN given.relations = 1..n /\ 1 \in Int /\ n \in Int
  <2> HIDE DEF Relations
  <2> QED BY <1>2
<1>4. R \in SUBSET (DOMAIN given.relations)
  BY DEF RelationsOf
<1>5. R \in SUBSET Int /\ IsFiniteSet(R)
  <2> HIDE DEF n, R
  <2>1. IsFiniteSet(1..n)
    BY <1>3, FS_Interval, Zenon
  <2> QED BY <1>3, <1>4, <2>1, FS_Subset
<1>6. ASSUME NEW r \in R
      PROVE  IsTableOf(f[r], v, r) /\ HasNoPlans(f[r].groups)
  <2> DEFINE gs == Reverse(RowsIn(NewGroups(v, r), LeadersOf(v, r)))
  <2>1. r \in DOMAIN given.relations /\ CandidatesOf(v, r) # {}
    BY DEF RelationsOf
  <2>2. HasGroups(gs, v, r) /\ HasNoPlans(gs)
    BY <2>1, GroupsAreMade
  <2>3. f[r] = [rows |-> given.relations[r].rows, groups |-> gs]
    BY <2>1
  <2>4. gs \in Seq(JoinGroup)
    BY <2>2, Zenon DEF HasGroups
  <2>5. given.relations[r].rows \in Seq(Seq(Value))
    <3>1. given.relations[r] \in Relations
      <4> HIDE DEF Relations
      <4> QED BY <1>2, <2>1, ElementOfSequence, Zenon
    <3> QED BY <3>1
  <2> HIDE DEF f, gs, R
  <2> QED BY <2>2, <2>3, <2>4, <2>5 DEF IsTableOf, BackgroundTable
<1> HIDE DEF f, R
<1>7. \A r \in R : f[r] \in BackgroundTable
  BY <1>6, Zenon DEF IsTableOf
<1>8. /\ Cardinality(R) \in Nat
      /\ RowsIn(f, R) \in Seq(BackgroundTable) /\ Len(RowsIn(f, R)) = Cardinality(R)
      /\ \A k \in 1..Cardinality(R) : Nth(R, k) \in R /\ RowsIn(f, R)[k] = f[Nth(R, k)]
  <2>1. AreRowsAt(RowsIn(f, R), f, R, BackgroundTable)
    BY <1>5, <1>7, RowsAtSet
  <2> QED BY <2>1, Zenon DEF AreRowsAt
<1>9. \A t \in 1..Cardinality(R) : /\ IsTableOf(RowsIn(f, R)[t], v, Nth(R, t))
                                  /\ HasNoPlans(RowsIn(f, R)[t].groups)
  BY <1>6, <1>8, Zenon
<1> QED
  BY <1>1, <1>8, <1>9, Zenon DEF R

LEMMA GroupIs ==
  ASSUME TablesInv, NEW tg \in Groups
  PROVE  /\ variable # 0
         /\ tg[1] \in 1..Len(tables) /\ tables[tg[1]] \in BackgroundTable
         /\ IsTableOf(tables[tg[1]], variable, RelationAt(tg[1]))
         /\ tg[2] \in 1..Len(tables[tg[1]].groups)
         /\ tg = <<tg[1], tg[2]>>
         /\ Group(tg) \in JoinGroup
         /\ IsGroupOf(Group(tg), variable, RelationAt(tg[1]))
<1>1. PICK t \in DOMAIN tables : tg \in {<<t, g>> : g \in DOMAIN tables[t].groups}
  BY DEF Groups
<1>2. PICK g \in DOMAIN tables[t].groups : tg = <<t, g>>
  BY <1>1
<1>3. tables # <<>>
  <2>1. DOMAIN <<>> = {}
    OBVIOUS
  <2> QED BY <1>1, <2>1
<1>4. /\ variable # 0
      /\ tables \in Seq(BackgroundTable)
      /\ \A u \in 1..Len(tables) : IsTableOf(tables[u], variable, RelationAt(u))
  BY <1>3 DEF TablesInv
<1>5. DOMAIN tables = 1..Len(tables)
  BY <1>4
<1>6. IsTableOf(tables[t], variable, RelationAt(t)) /\ tables[t] \in BackgroundTable
  BY <1>4, <1>5 DEF IsTableOf
<1>7. /\ tables[t].groups \in Seq(JoinGroup)
      /\ \A h \in 1..Len(tables[t].groups) :
           IsGroupOf(tables[t].groups[h], variable, RelationAt(t))
  BY <1>6, Zenon DEF IsTableOf, HasGroups
<1>8. DOMAIN tables[t].groups = 1..Len(tables[t].groups) /\ tables[t].groups[g] \in JoinGroup
  <2> DEFINE gs == tables[t].groups
  <2>1. gs \in Seq(JoinGroup) /\ g \in DOMAIN gs
    BY <1>7
  <2> HIDE DEF gs
  <2>2. DOMAIN gs = 1..Len(gs) /\ gs[g] \in JoinGroup
    BY <2>1
  <2> QED BY <2>2 DEF gs
<1>9. Group(tg) = tables[t].groups[g] /\ tg[1] = t /\ tg[2] = g
  BY <1>2 DEF Group
<1> QED
  BY <1>2, <1>4, <1>5, <1>6, <1>7, <1>8, <1>9, Zenon

(* The candidates of a group have its key, and differ in their tests. *)
LEMMA LiteralsOfGroup ==
  ASSUME CallInv, TablesInv, NEW tg \in Groups
  PROVE  LET s == Group(tg).literals
         IN  /\ s \in Seq(DOMAIN given.candidates)
             /\ DOMAIN s = 1..Len(s) /\ Len(s) \in Nat
             /\ \A i \in 1..Len(s) :
                  /\ s[i] \in DOMAIN given.candidates
                  /\ JoinKey(s[i]) = Group(tg).key
                  /\ RelationOf(s[i]) = RelationAt(tg[1])
                  /\ ClauseVariable(s[i]) = variable
             /\ \A i, j \in 1..Len(s) : s[i] = s[j] => i = j
             /\ LiteralsOf(tg) =
                  {c \in CandidatesOf(variable, RelationAt(tg[1])) : JoinKey(c) = Group(tg).key}
             /\ LiteralsOf(tg) # {}
<1> DEFINE s == Group(tg).literals
           C == CandidatesOf(variable, RelationAt(tg[1]))
           S == {d \in C : JoinKey(d) = Group(tg).key}
<1>1. IsGroupOf(Group(tg), variable, RelationAt(tg[1])) /\ Group(tg) \in JoinGroup
  BY GroupIs
<1>2. PICK c \in C : /\ Group(tg).key = JoinKey(c)
                     /\ Lists(s, {d \in C : JoinKey(d) = JoinKey(c)})
  BY <1>1 DEF IsGroupOf
<1>3. Lists(s, S) /\ c \in S
  BY <1>2
<1>4. s \in Seq(DOMAIN given.candidates)
  BY <1>1 DEF JoinGroup
<1>5. \A d \in S : /\ JoinKey(d) = Group(tg).key
                   /\ RelationOf(d) = RelationAt(tg[1])
                   /\ ClauseVariable(d) = variable
  BY DEF CandidatesOf, RelationOf
<1>6. LiteralsOf(tg) = {s[i] : i \in DOMAIN s}
  BY DEF LiteralsOf, ToSet
<1> HIDE DEF s, S
<1>7. /\ DOMAIN s = 1..Len(s) /\ Len(s) \in Nat
      /\ s \in Seq(S) /\ \A x \in S : \E k \in 1..Len(s) : s[k] = x
      /\ \A k \in 1..Len(s) : \A l \in 1..Len(s) : s[k] = s[l] => k = l
  BY <1>3, <1>4 DEF Lists
<1>8. \A i \in 1..Len(s) : s[i] \in S /\ s[i] \in DOMAIN given.candidates
  BY <1>4, <1>7
<1>9. LiteralsOf(tg) = S /\ S # {}
  BY <1>3, <1>6, <1>7, <1>8
<1> QED
  BY <1>4, <1>5, <1>7, <1>8, <1>9 DEF s, S

LEMMA TestsOfGroup ==
  ASSUME CallInv, TablesInv, NEW tg \in Groups
  PROVE  LET tests == [i \in DOMAIN Group(tg).literals |-> Tests(Group(tg).literals[i])]
         IN  tests \in Seq(Seq(Test)) /\ AreDistinct(tests)
<1> DEFINE s == Group(tg).literals
           tests == [i \in DOMAIN s |-> Tests(s[i])]
<1>1. /\ DOMAIN s = 1..Len(s) /\ Len(s) \in Nat
      /\ \A i \in 1..Len(s) :
           /\ s[i] \in DOMAIN given.candidates
           /\ JoinKey(s[i]) = Group(tg).key
           /\ RelationOf(s[i]) = RelationAt(tg[1])
           /\ ClauseVariable(s[i]) = variable
      /\ \A i, j \in 1..Len(s) : s[i] = s[j] => i = j
  BY LiteralsOfGroup
<1> HIDE DEF s
<1>2. \A i \in 1..Len(s) : Tests(s[i]) \in Seq(Test)
  BY <1>1, TestsAre
<1>3. tests \in Seq(Seq(Test)) /\ Len(tests) = Len(s)
  BY <1>1, <1>2
<1>4. ASSUME NEW i \in 1..Len(s), NEW j \in 1..Len(s),
             \A x \in Test : Contains(tests[i], x) <=> Contains(tests[j], x)
      PROVE  i = j
  <2>1. \A x \in Test : Contains(Tests(s[i]), x) <=> Contains(Tests(s[j]), x)
    BY <1>1, <1>4
  <2>2. s[i] = s[j]
    BY <1>1, <2>1, TestsDiffer
  <2> QED BY <1>1, <2>2
<1>5. AreDistinct(tests)
  BY <1>3, <1>4 DEF AreDistinct
<1> QED
  BY <1>3, <1>5 DEF s

-----------------------------------------------------------------------------
(* The plans: while one is made, its nodes satisfy the invariant of the plan;
   then it is kept with its group.                                         *)
PlanningInv ==
  /\ CountingInv
  /\ TablesInv
  /\ PlanInv

LEMMA TablesAreAsGiven ==
  ASSUME UNCHANGED given
  PROVE  /\ \A v, r : CandidatesOf(v, r)' = CandidatesOf(v, r)
         /\ BackgroundTable' = BackgroundTable
         /\ JoinGroup' = JoinGroup
         /\ \A v : RelationsOf(v)' = RelationsOf(v)
         /\ \A g, v, r : IsGroupOf(g, v, r)' <=> IsGroupOf(g, v, r)
         /\ \A t, v, r : IsTableOf(t, v, r)' <=> IsTableOf(t, v, r)
<1>1. \A c : JoinKey(c)' = JoinKey(c)
  BY DEF JoinKey
<1>2. \A c : ClauseVariable(c)' = ClauseVariable(c)
  BY <1>1 DEF ClauseVariable
<1>3. \A v, r : CandidatesOf(v, r)' = CandidatesOf(v, r)
  BY <1>2 DEF CandidatesOf
<1>4. JoinGroup' = JoinGroup
  BY DEF JoinGroup
<1>5. BackgroundTable' = BackgroundTable
  BY <1>4 DEF BackgroundTable
<1>6. \A v : RelationsOf(v)' = RelationsOf(v)
  BY <1>3 DEF RelationsOf
<1>7. \A g, v, r : IsGroupOf(g, v, r)' <=> IsGroupOf(g, v, r)
  BY <1>1, <1>3 DEF IsGroupOf
<1>8. \A gs, v, r : HasGroups(gs, v, r)' <=> HasGroups(gs, v, r)
  BY <1>1, <1>3, <1>4, <1>7 DEF HasGroups
<1>9. \A t, v, r : IsTableOf(t, v, r)' <=> IsTableOf(t, v, r)
  BY <1>5, <1>8 DEF IsTableOf
<1> QED
  BY <1>3, <1>4, <1>5, <1>6, <1>7, <1>9

LEMMA TablesStay ==
  ASSUME TablesInv, UNCHANGED <<given, variable, tables>>
  PROVE  TablesInv'
<1>1. RelationsOf(variable)' = RelationsOf(variable)
  BY TablesAreAsGiven
<1>2. \A t : RelationAt(t)' = RelationAt(t)
  BY <1>1 DEF RelationAt
<1>3. /\ BackgroundTable' = BackgroundTable
      /\ \A t, v, r : IsTableOf(t, v, r)' <=> IsTableOf(t, v, r)
  BY TablesAreAsGiven
<1> QED
  BY <1>1, <1>2, <1>3 DEF TablesInv

LEMMA PlanStays ==
  ASSUME PlanInv, UNCHANGED planVars
  PROVE  PlanInv'
<1>1. atoms' = atoms /\ literals' = literals /\ nodes' = nodes /\ remaining' = remaining
  BY DEF planVars
<1>2. NumAtoms' = NumAtoms
  BY <1>1 DEF NumAtoms
<1>3. Conjunctions' = Conjunctions /\ \A k : PartsOf(k)' = PartsOf(k)
  BY <1>1, <1>2 DEF Conjunctions, PartsOf
<1>4. \A k : UsersOf(k)' = UsersOf(k)
  BY <1>3 DEF UsersOf
<1>5. LiteralsInv'
  BY <1>1, <1>2 DEF PlanInv, LiteralsInv, Longer
<1>6. NodesInv'
  BY <1>1, <1>2, <1>3, <1>4 DEF PlanInv, NodesInv
<1>7. FoundInv'
  BY <1>1 DEF PlanInv, FoundInv, Longer
<1>8. \A f : TestsInv(f)' <=> TestsInv(f)
  BY <1>1, <1>2 DEF TestsInv
<1> QED
  BY <1>5, <1>6, <1>7, <1>8 DEF PlanInv

(* A plan is put in the place of the one its group had. *)
LEMMA NewPlanKeepsTables ==
  ASSUME TablesInv, NEW tg \in Groups, NEW p \in EvaluationPlanType,
         tables' = [tables EXCEPT ![tg[1]].groups[tg[2]].plan = p],
         UNCHANGED <<given, variable>>
  PROVE  /\ TablesInv'
         /\ DOMAIN tables' = DOMAIN tables
         /\ \A t \in DOMAIN tables :
              /\ tables'[t].rows = tables[t].rows
              /\ DOMAIN tables'[t].groups = DOMAIN tables[t].groups
              /\ \A g \in DOMAIN tables[t].groups :
                   /\ tables'[t].groups[g].key = tables[t].groups[g].key
                   /\ tables'[t].groups[g].literals = tables[t].groups[g].literals
                   /\ tables'[t].groups[g].plan =
                        IF tg = <<t, g>> THEN p ELSE tables[t].groups[g].plan
<1> DEFINE new(t, g) ==
             [key |-> tables[t].groups[g].key, literals |-> tables[t].groups[g].literals,
              plan |-> IF tg = <<t, g>> THEN p ELSE tables[t].groups[g].plan]
<1>1. /\ variable # 0 /\ tg = <<tg[1], tg[2]>>
      /\ tg[1] \in 1..Len(tables) /\ tg[2] \in 1..Len(tables[tg[1]].groups)
  BY GroupIs
<1>2. /\ tables \in Seq(BackgroundTable)
      /\ Len(tables) = Cardinality(RelationsOf(variable))
      /\ \A t \in 1..Len(tables) : IsTableOf(tables[t], variable, RelationAt(t))
  BY <1>1 DEF TablesInv
<1>3. DOMAIN tables = 1..Len(tables) /\ Len(tables) \in Nat
  BY <1>2
<1>4. ASSUME NEW t \in 1..Len(tables)
      PROVE  /\ tables[t] = [rows |-> tables[t].rows, groups |-> tables[t].groups]
             /\ tables[t].rows \in Seq(Seq(Value))
             /\ tables[t].rows = given.relations[RelationAt(t)].rows
             /\ HasGroups(tables[t].groups, variable, RelationAt(t))
             /\ tables[t].groups \in Seq(JoinGroup)
             /\ DOMAIN tables[t].groups = 1..Len(tables[t].groups)
             /\ Len(tables[t].groups) \in Nat
  <2>1. /\ tables[t] \in BackgroundTable /\ tables[t].rows = given.relations[RelationAt(t)].rows
        /\ HasGroups(tables[t].groups, variable, RelationAt(t))
    BY <1>2, Zenon DEF IsTableOf
  <2>2. /\ tables[t] = [rows |-> tables[t].rows, groups |-> tables[t].groups]
        /\ tables[t].rows \in Seq(Seq(Value))
        /\ tables[t].groups \in Seq(JoinGroup)
    BY <2>1 DEF BackgroundTable
  <2> DEFINE gs == tables[t].groups
  <2>3. DOMAIN gs = 1..Len(gs) /\ Len(gs) \in Nat
    <3> HIDE DEF gs
    <3>1. gs \in Seq(JoinGroup)
      BY <2>2 DEF gs
    <3> QED BY <3>1
  <2> QED BY <2>1, <2>2, <2>3
<1>5. ASSUME NEW t \in 1..Len(tables), NEW g \in 1..Len(tables[t].groups)
      PROVE  /\ tables[t].groups[g] \in JoinGroup
             /\ new(t, g) \in JoinGroup
             /\ tables[t].groups[g] =
                  [key |-> tables[t].groups[g].key, literals |-> tables[t].groups[g].literals,
                   plan |-> tables[t].groups[g].plan]
  <2>1. tables[t].groups \in Seq(JoinGroup) /\ g \in DOMAIN tables[t].groups
    BY <1>4, Zenon
  <2>2. tables[t].groups[g] \in JoinGroup
    BY <2>1, ElementOfSequence, Zenon
  <2> DEFINE h == tables[t].groups[g]
  <2> HIDE DEF h
  <2>3. h \in JoinGroup
    BY <2>2 DEF h
  <2>4. h = [key |-> h.key, literals |-> h.literals, plan |-> h.plan]
    BY <2>3 DEF JoinGroup
  <2>5. h.key \in Nat /\ h.literals \in Seq(DOMAIN given.candidates) /\ h.plan \in EvaluationPlanType
    BY <2>3 DEF JoinGroup
  <2>6. [key |-> h.key, literals |-> h.literals, plan |-> IF tg = <<t, g>> THEN p ELSE h.plan]
          \in JoinGroup
    BY <2>5 DEF JoinGroup
  <2> QED BY <2>2, <2>4, <2>6 DEF h
<1>6. /\ DOMAIN tables' = 1..Len(tables)
      /\ \A t \in 1..Len(tables) :
           tables'[t] = IF t = tg[1]
                        THEN [tables[t] EXCEPT !.groups =
                                [tables[t].groups EXCEPT ![tg[2]] =
                                   [tables[t].groups[tg[2]] EXCEPT !.plan = p]]]
                        ELSE tables[t]
  BY <1>1, <1>3
<1>7. ASSUME NEW t \in 1..Len(tables)
      PROVE  tables'[t] = [rows |-> tables[t].rows,
                           groups |-> [g \in 1..Len(tables[t].groups) |-> new(t, g)]]
  <2> DEFINE gs == tables[t].groups
             hs == [g \in 1..Len(gs) |-> new(t, g)]
  <2>1. tables[t] = [rows |-> tables[t].rows, groups |-> gs] /\ gs \in Seq(JoinGroup)
        /\ DOMAIN gs = 1..Len(gs)
    BY <1>4, Zenon
  <2>2. gs = [g \in 1..Len(gs) |-> gs[g]]
    <3> HIDE DEF gs
    <3> QED BY <2>1
  <2>3. CASE t # tg[1]
    <3>1. \A g \in 1..Len(gs) : tg # <<t, g>>
      BY <1>1, <2>3
    <3>2. \A g \in 1..Len(gs) : new(t, g) = gs[g]
      BY <1>5, <3>1
    <3>3. hs = gs
      BY <2>2, <3>2
    <3>4. tables'[t] = tables[t]
      BY <1>6, <2>3
    <3> QED BY <2>1, <3>3, <3>4
  <2>4. CASE t = tg[1]
    <3>1. tables'[t] = [rows |-> tables[t].rows,
                        groups |-> [gs EXCEPT ![tg[2]] = [gs[tg[2]] EXCEPT !.plan = p]]]
      <4> DEFINE new_ == [gs EXCEPT ![tg[2]] = [gs[tg[2]] EXCEPT !.plan = p]]
      <4>1. tables'[t] = [tables[t] EXCEPT !.groups = new_]
        BY <1>6, <2>4
      <4> HIDE DEF new_
      <4>2. [tables[t] EXCEPT !.groups = new_] = [rows |-> tables[t].rows, groups |-> new_]
        BY <2>1
      <4> QED BY <4>1, <4>2 DEF new_
    <3>2. \A g \in 1..Len(gs) : tg = <<t, g>> <=> g = tg[2]
      BY <1>1, <2>4
    <3>3. ASSUME NEW g \in 1..Len(gs)
          PROVE  new(t, g) = IF g = tg[2] THEN [gs[g] EXCEPT !.plan = p] ELSE gs[g]
      <4> DEFINE h == gs[g]
      <4>1. h = [key |-> h.key, literals |-> h.literals, plan |-> h.plan]
        BY <1>5
      <4>2. new(t, g) = [key |-> h.key, literals |-> h.literals,
                         plan |-> IF g = tg[2] THEN p ELSE h.plan]
        BY <3>2
      <4> HIDE DEF h, new
      <4> QED BY <4>1, <4>2 DEF h
    <3>4. [gs EXCEPT ![tg[2]] = [gs[tg[2]] EXCEPT !.plan = p]]
            = [g \in 1..Len(gs) |-> IF g = tg[2] THEN [gs[g] EXCEPT !.plan = p] ELSE gs[g]]
      <4> HIDE DEF gs
      <4> QED BY <2>1
    <3>5. [gs EXCEPT ![tg[2]] = [gs[tg[2]] EXCEPT !.plan = p]] = hs
      BY <3>3, <3>4
    <3> QED BY <3>1, <3>5
  <2> QED BY <2>3, <2>4
<1> HIDE DEF new
<1>8. ASSUME NEW t \in 1..Len(tables)
      PROVE  /\ tables'[t].rows = tables[t].rows
             /\ tables'[t].groups = [g \in 1..Len(tables[t].groups) |-> new(t, g)]
             /\ DOMAIN tables'[t].groups = 1..Len(tables[t].groups)
             /\ \A g \in 1..Len(tables[t].groups) : tables'[t].groups[g] = new(t, g)
  <2> DEFINE hs == [g \in 1..Len(tables[t].groups) |-> new(t, g)]
  <2>1. tables'[t] = [rows |-> tables[t].rows, groups |-> hs]
    BY <1>7
  <2>2. /\ DOMAIN hs = 1..Len(tables[t].groups)
        /\ \A g \in 1..Len(tables[t].groups) : hs[g] = new(t, g)
    OBVIOUS
  <2> HIDE DEF hs
  <2>3. tables'[t].rows = tables[t].rows /\ tables'[t].groups = hs
    BY <2>1
  <2> QED BY <2>2, <2>3 DEF hs
<1>9. ASSUME NEW t \in 1..Len(tables)
      PROVE  IsTableOf(tables'[t], variable, RelationAt(t)) /\ tables'[t] \in BackgroundTable
  <2> DEFINE gs == tables[t].groups
             n == Len(gs)
             hs == [g \in 1..n |-> new(t, g)]
             r == RelationAt(t)
  <2>1. /\ HasGroups(gs, variable, r) /\ gs \in Seq(JoinGroup) /\ n \in Nat
        /\ tables[t].rows \in Seq(Seq(Value))
        /\ tables[t].rows = given.relations[r].rows
    BY <1>4
  <2>2. /\ gs # <<>>
        /\ \A g \in 1..n : IsGroupOf(gs[g], variable, r)
        /\ \A g, h \in 1..n : gs[g].key = gs[h].key => g = h
        /\ \A c \in CandidatesOf(variable, r) : \E g \in 1..n : gs[g].key = JoinKey(c)
    BY <2>1, Zenon DEF HasGroups
  <2>3. \A g \in 1..n : new(t, g) \in JoinGroup
    BY <1>5
  <2>4. \A g \in 1..n : new(t, g).key = gs[g].key /\ new(t, g).literals = gs[g].literals
    BY DEF new
  <2>5. n # 0
    <3> HIDE DEF gs
    <3> QED BY <2>1, <2>2
  <2>6. /\ hs \in Seq(JoinGroup) /\ Len(hs) = n /\ hs # <<>>
        /\ \A g \in 1..n : hs[g].key = gs[g].key /\ hs[g].literals = gs[g].literals
    <3> HIDE DEF gs, n
    <3>1. hs \in Seq(JoinGroup) /\ Len(hs) = n
      <4>1. hs = [g \in 1..n |-> hs[g]] /\ \A g \in 1..n : hs[g] \in JoinGroup
        BY <2>3
      <4> HIDE DEF hs
      <4> QED BY <2>1, <4>1, IsSequence, Zenon
    <3>2. hs # <<>>
      <4>1. Len(<<>>) = 0
        OBVIOUS
      <4> QED BY <2>5, <3>1, <4>1
    <3> QED BY <2>4, <3>1, <3>2
  <2> HIDE DEF hs, gs, n, r
  <2>7. \A g \in 1..n : IsGroupOf(hs[g], variable, r)
    <3> TAKE g \in 1..n
    <3>1. IsGroupOf(gs[g], variable, r)
      BY <2>2
    <3>2. hs[g].key = gs[g].key /\ hs[g].literals = gs[g].literals
      BY <2>6
    <3> QED BY <3>1, <3>2 DEF IsGroupOf
  <2>8. HasGroups(hs, variable, r)
    <3>1. \A g, h \in 1..Len(hs) : hs[g].key = hs[h].key => g = h
      BY <2>2, <2>6
    <3>2. \A c \in CandidatesOf(variable, r) : \E g \in 1..Len(hs) : hs[g].key = JoinKey(c)
      BY <2>2, <2>6
    <3>3. \A g \in 1..Len(hs) : IsGroupOf(hs[g], variable, r)
      BY <2>6, <2>7
    <3> QED BY <2>6, <3>1, <3>2, <3>3 DEF HasGroups
  <2>9. tables'[t] = [rows |-> tables[t].rows, groups |-> hs]
    BY <1>7 DEF hs, n, gs
  <2>10. tables'[t].rows = tables[t].rows /\ tables'[t].groups = hs
    BY <2>9
  <2>11. tables'[t] \in BackgroundTable
    BY <2>1, <2>6, <2>9 DEF BackgroundTable
  <2> QED BY <2>1, <2>8, <2>10, <2>11, Zenon DEF IsTableOf, r
<1>10. TablesInv'
  <2>1. RelationsOf(variable)' = RelationsOf(variable)
    BY TablesAreAsGiven
  <2>2. \A t : RelationAt(t)' = RelationAt(t)
    BY <2>1 DEF RelationAt
  <2>3. /\ BackgroundTable' = BackgroundTable
        /\ \A t, v, r : IsTableOf(t, v, r)' <=> IsTableOf(t, v, r)
    BY TablesAreAsGiven
  <2>4. tables' \in Seq(BackgroundTable) /\ Len(tables') = Len(tables)
    <3>1. tables' = [t \in 1..Len(tables) |-> tables'[t]]
      BY <1>1, <1>3
    <3>2. \A t \in 1..Len(tables) : tables'[t] \in BackgroundTable
      BY <1>9
    <3> DEFINE n == Len(tables)
               s == tables'
    <3> HIDE DEF n, s
    <3>3. n \in Nat /\ s = [t \in 1..n |-> s[t]] /\ \A t \in 1..n : s[t] \in BackgroundTable
      BY <1>3, <3>1, <3>2 DEF n, s
    <3>4. s \in Seq(BackgroundTable) /\ Len(s) = n
      BY <3>3, IsSequence, Zenon
    <3> QED BY <3>4 DEF n, s
  <2>5. \A t \in 1..Len(tables) : IsTableOf(tables'[t], variable, RelationAt(t))
    BY <1>9
  <2>6. variable' = variable
    OBVIOUS
  <2> QED BY <1>1, <1>2, <2>1, <2>2, <2>3, <2>4, <2>5, <2>6, Zenon DEF TablesInv
<1>11. ASSUME NEW t \in 1..Len(tables)
       PROVE  /\ DOMAIN tables'[t].groups = DOMAIN tables[t].groups
              /\ \A g \in DOMAIN tables[t].groups :
                   /\ tables'[t].groups[g].key = tables[t].groups[g].key
                   /\ tables'[t].groups[g].literals = tables[t].groups[g].literals
                   /\ tables'[t].groups[g].plan =
                        IF tg = <<t, g>> THEN p ELSE tables[t].groups[g].plan
  <2>1. DOMAIN tables[t].groups = 1..Len(tables[t].groups)
    BY <1>4
  <2>2. \A g \in 1..Len(tables[t].groups) :
          /\ new(t, g).key = tables[t].groups[g].key
          /\ new(t, g).literals = tables[t].groups[g].literals
          /\ new(t, g).plan = IF tg = <<t, g>> THEN p ELSE tables[t].groups[g].plan
    BY DEF new
  <2>3. /\ DOMAIN tables'[t].groups = 1..Len(tables[t].groups)
        /\ \A g \in 1..Len(tables[t].groups) : tables'[t].groups[g] = new(t, g)
    BY <1>8
  <2> HIDE DEF new
  <2> QED BY <2>1, <2>2, <2>3, Zenon
<1>12. /\ DOMAIN tables' = DOMAIN tables
       /\ \A t \in 1..Len(tables) : tables'[t].rows = tables[t].rows
  BY <1>3, <1>6, <1>8, Zenon
<1> QED
  BY <1>3, <1>10, <1>11, <1>12, Zenon

LEMMA PlanningInit == BindingInit => PlanningInv
<1> SUFFICES ASSUME BindingInit PROVE PlanningInv
  OBVIOUS
<1>1. CountingInv
  BY CountingInit
<1>2. variable = 0 /\ tables = <<>> /\ NoPlanning
  BY DEF BindingInit, Init
<1>3. PlanInv
  BY <1>2, NoPlanningIsPlan
<1> QED
  BY <1>1, <1>2, <1>3 DEF PlanningInv, TablesInv

(* Steps outside of planning. *)
LEMMA OthersKeepPlanning ==
  ASSUME PlanningInv, CountingInv', UNCHANGED <<given, variable, tables>>, UNCHANGED planVars
  PROVE  PlanningInv'
BY TablesStay, PlanStays DEF PlanningInv

LEMMA NextVariableKeepsPlanning ==
  ASSUME PlanningInv, CountingInv', NextVariable
  PROVE  PlanningInv'
<1>1. /\ given' = given /\ variable' = variable + 1 /\ UNCHANGED planVars
      /\ tables' = TablesFor(variable + 1)
  BY Zenon DEF NextVariable
<1>2. CallInv /\ variable \in Nat
  BY DEF PlanningInv, CountingInv, CallInv
<1>3. PICK v : v = variable + 1
  OBVIOUS
<1>4. /\ TablesFor(v) \in Seq(BackgroundTable)
      /\ Len(TablesFor(v)) = Cardinality(RelationsOf(v))
      /\ \A t \in 1..Len(TablesFor(v)) : IsTableOf(TablesFor(v)[t], v, Nth(RelationsOf(v), t))
  BY <1>2, TablesAreMade
<1>5. variable' = v /\ tables' = TablesFor(v) /\ v # 0
  BY <1>1, <1>2, <1>3
<1>6. /\ RelationsOf(v)' = RelationsOf(v) /\ BackgroundTable' = BackgroundTable
      /\ \A t, u, r : IsTableOf(t, u, r)' <=> IsTableOf(t, u, r)
  BY <1>1, TablesAreAsGiven
<1>7. RelationsOf(variable)' = RelationsOf(v)
  <2>1. \A c : ClauseVariable(c)' = ClauseVariable(c)
    BY <1>1 DEF ClauseVariable, JoinKey
  <2>2. \A r : CandidatesOf(variable, r)' = CandidatesOf(v, r)
    BY <1>1, <1>5, <2>1 DEF CandidatesOf
  <2> QED BY <1>1, <2>2 DEF RelationsOf
<1>8. \A t : RelationAt(t)' = Nth(RelationsOf(v), t)
  BY <1>7 DEF RelationAt
<1>9. TablesInv'
  BY <1>4, <1>5, <1>6, <1>7, <1>8 DEF TablesInv
<1>10. PlanInv'
  BY <1>1, PlanStays DEF PlanningInv
<1> QED
  BY <1>9, <1>10 DEF PlanningInv

LEMMA GenerateKeepsPlanning ==
  ASSUME PlanningInv, CountingInv', GeneratePlan
  PROVE  PlanningInv'
<1>1. PICK tg \in Groups :
        \E tests \in {[i \in DOMAIN Group(tg).literals |-> Tests(Group(tg).literals[i])]} :
          StartPlan(tests)
  BY Zenon DEF GeneratePlan
<1> DEFINE made == [i \in DOMAIN Group(tg).literals |-> Tests(Group(tg).literals[i])]
<1>2. StartPlan(made)
  BY <1>1
<1>3. made \in Seq(Seq(Test)) /\ AreDistinct(made)
  BY TestsOfGroup DEF PlanningInv, CountingInv
<1>4. PlanInv'
  <2> HIDE DEF made
  <2> QED BY <1>2, <1>3, StartKeepsPlan
<1>5. UNCHANGED <<given, variable, tables>>
  BY Zenon DEF GeneratePlan, countVars, callVars
<1> QED
  BY <1>4, <1>5, TablesStay DEF PlanningInv

LEMMA MergeKeepsPlanning ==
  ASSUME PlanningInv, CountingInv', MergeNodes
  PROVE  PlanningInv'
<1>1. UNCHANGED <<given, variable, tables>>
  BY Zenon DEF MergeNodes, callVars
<1>2. Merge \/ UNCHANGED planVars
  BY Zenon DEF MergeNodes
<1>3. PlanInv'
  BY <1>2, MergeKeepsPlan, PlanStays DEF PlanningInv
<1> QED
  BY <1>1, <1>3, TablesStay DEF PlanningInv

LEMMA KeepKeepsPlanning ==
  ASSUME PlanningInv, CountingInv', KeepPlan
  PROVE  PlanningInv'
<1>1. /\ UNCHANGED <<given, variable>>
      /\ atoms' = <<>> /\ literals' = <<>> /\ nodes' = <<>> /\ remaining' = {}
  BY Zenon DEF KeepPlan
<1>2. PICK tg \in Groups : tables' = [tables EXCEPT ![tg[1]].groups[tg[2]].plan = Plan]
  BY Zenon DEF KeepPlan
<1>3. PICK p \in EvaluationPlanType : p = Plan
  BY PlanNodesAre DEF PlanningInv
<1>4. tables' = [tables EXCEPT ![tg[1]].groups[tg[2]].plan = p]
  BY <1>2, <1>3
<1>5. TablesInv'
  BY <1>1, <1>4, NewPlanKeepsTables DEF PlanningInv
<1>6. PlanInv'
  <2>1. NoPlanning'
    BY <1>1 DEF NoPlanning
  <2>2. (NoPlanning => PlanInv)'
    BY NoPlanningIsPlan, PTL
  <2> QED BY <2>1, <2>2
<1> QED
  BY <1>5, <1>6 DEF PlanningInv

LEMMA PlanningNext == PlanningInv /\ [BindingNext]_<<vars, tableVars>> => PlanningInv'
<1> SUFFICES ASSUME PlanningInv, [BindingNext]_<<vars, tableVars>>
             PROVE  PlanningInv'
  OBVIOUS
<1>0. CountingInv'
  BY CountingNext DEF PlanningInv
<1>1. CASE NextVariable
  BY <1>0, <1>1, NextVariableKeepsPlanning
<1>2. CASE GeneratePlan
  BY <1>0, <1>2, GenerateKeepsPlanning
<1>3. CASE MergeNodes
  BY <1>0, <1>3, MergeKeepsPlanning
<1>4. CASE KeepPlan
  BY <1>0, <1>4, KeepKeepsPlanning
<1>5. CASE UNCHANGED vars
  <2>1. UNCHANGED <<given, variable, tables>> /\ UNCHANGED planVars
    BY <1>5 DEF vars, countVars, callVars
  <2> QED BY <1>0, <2>1, OthersKeepPlanning
<1>6. CASE \/ AllCounted \/ StartPass \/ PartitionBindings \/ MakeHashTables \/ InsertRow
           \/ StartCounting \/ MoveToNextJoinGroup \/ TakeChunk \/ EndPass
  <2>1. UNCHANGED <<given, variable, tables>> /\ UNCHANGED planVars
    BY <1>6, Zenon DEF AllCounted, StartPass, PartitionBindings, MakeHashTables, InsertRow,
       StartCounting, MoveToNextJoinGroup, TakeChunk, EndPass, countVars, callVars
  <2> QED BY <1>0, <2>1, OthersKeepPlanning
<1>7. \/ UNCHANGED vars \/ Next
  BY CountingOrTables
<1> QED
  BY <1>1, <1>2, <1>3, <1>4, <1>5, <1>6, <1>7, Zenon DEF Next

(* A literal that was found is erased from every node of the plan, and the parts
   of a conjunction come before it, in every plan of every group of candidates
   (CandidateLiteralEvaluator::GeneratePredicateEvaluationPlan).           *)
THEOREM PlanTypeCorrect == BindingSpec => []PlanTypeOK
<1>1. PlanningInv => PlanTypeOK
  BY PlanTypes DEF PlanningInv
<1> QED
  BY <1>1, PlanningInit, PlanningNext, PTL DEF BindingSpec

(* Each literal with more than one test has one node in the plan, and the tree
   below that node has the tests of the literal: for every set of candidates,
   whichever sets the merging read after the nodes had moved.              *)
THEOREM PlanExactCorrect == BindingSpec => []PlanIsExact
<1>1. PlanningInv => PlanIsExact
  BY PlanExact DEF PlanningInv
<1> QED
  BY <1>1, PlanningInit, PlanningNext, PTL DEF BindingSpec

(* The parts of each conjunction are in the plan, and no conjunction is there for
   nothing: the reference counts drop exactly what no literal needs.       *)
THEOREM PlanLeanCorrect == BindingSpec => []PlanIsClosedAndLean
<1>1. PlanningInv => PlanIsClosedAndLean
  BY PlanClosedAndLean DEF PlanningInv
<1> QED
  BY <1>1, PlanningInit, PlanningNext, PTL DEF BindingSpec
-----------------------------------------------------------------------------
(* Which nodes are merged.  An atom may be merged with every other atom and has
   the literals that are missing and need it; what a node may be merged with has
   other atoms, and is appended after it unless both are atoms; of two nodes
   with different atoms that share a literal the earlier may be merged with the
   later.                                                                  *)
CanMerge(k, j) == \E p \in 1..Len(nodes[k].mergeable) : nodes[k].mergeable[p] = j

ShareNoAtom(k, j) == nodes[k].atoms \cap nodes[j].atoms = {}

AtomsInv ==
  /\ \A k \in 1..NumAtoms : nodes[k].ids = {i \in remaining : k \in literals[i]}
  /\ \A k, j \in 1..NumAtoms : k # j => CanMerge(k, j)

NeededInv ==
  \A k \in 1..Len(nodes) :
    /\ nodes[k].ids # {} => nodes[k].atoms # {}
    /\ \A i \in nodes[k].ids : nodes[k].atoms \subseteq literals[i]

CanMergeInv ==
  \A k, j \in 1..Len(nodes) :
    /\ CanMerge(k, j) =>
         ShareNoAtom(k, j) /\ (k < j \/ (k <= NumAtoms /\ j <= NumAtoms))
    /\ k < j /\ ShareNoAtom(k, j) /\ nodes[k].ids \cap nodes[j].ids # {} => CanMerge(k, j)

MergingInv == AtomsInv /\ NeededInv /\ CanMergeInv

LEMMA NoPlanningIsMerging == NoPlanning => MergingInv
<1> SUFFICES ASSUME NoPlanning PROVE MergingInv
  OBVIOUS
<1>1. atoms = <<>> /\ nodes = <<>> /\ Len(<<>>) = 0
  BY DEF NoPlanning
<1>2. NumAtoms = 0 /\ Len(nodes) = 0 /\ 1..0 = {}
  BY <1>1 DEF NumAtoms
<1> QED
  BY <1>2 DEF MergingInv, AtomsInv, NeededInv, CanMergeInv

LEMMA OthersAreAll ==
  ASSUME NEW n \in Nat, NEW k \in 1..n, NEW j \in 1..n, k # j
  PROVE  \E p \in 1..Len(OthersNewestFirst(n, k)) : OthersNewestFirst(n, k)[p] = j
<1> DEFINE s == OthersNewestFirst(n, k)
<1>1. /\ Len(s) = n - 1
      /\ \A p \in 1..n - 1 : s[p] = IF n + 1 - p > k THEN n + 1 - p ELSE n - p
  BY DEF OthersNewestFirst
<1> HIDE DEF s
<1>2. CASE j > k
  <2>1. n + 1 - j \in 1..n - 1 /\ n + 1 - (n + 1 - j) = j
    BY <1>2
  <2> QED BY <1>1, <1>2, <2>1 DEF s
<1>3. CASE j < k
  <2>1. n - j \in 1..n - 1 /\ ~(n + 1 - (n - j) > k) /\ n - (n - j) = j
    BY <1>3
  <2> QED BY <1>1, <2>1 DEF s
<1> QED
  BY <1>2, <1>3

LEMMA StartKeepsMerging ==
  ASSUME NEW candidates \in Seq(Seq(Test)), StartPlan(candidates)
  PROVE  MergingInv'
<1>1. /\ atoms' \in Seq(Test) /\ remaining' = Longer(literals')
  BY FamilyStarts
<1>2. PICK n \in Nat : n = Len(atoms') /\ DOMAIN atoms' = 1..n
  BY <1>1
<1> DEFINE N == nodes'
<1>3. N = [k \in 1..n |->
            [atoms |-> {k},
             ids |-> {i \in remaining' : k \in literals'[i]},
             mergeable |-> OthersNewestFirst(n, k),
             literal |-> 0, left |-> 0, right |-> 0, references |-> 0]]
  <2>1. N = [k \in DOMAIN atoms' |->
              [atoms |-> {k},
               ids |-> {i \in Longer(literals') : k \in literals'[i]},
               mergeable |-> OthersNewestFirst(Len(atoms'), k),
               literal |-> 0, left |-> 0, right |-> 0, references |-> 0]]
    BY Zenon DEF StartPlan
  <2> HIDE DEF N
  <2> QED BY <1>1, <1>2, <2>1, Zenon
<1> HIDE DEF N
<1>4. \A k \in 1..n : /\ N[k].atoms = {k} /\ N[k].mergeable = OthersNewestFirst(n, k)
                      /\ N[k].ids = {i \in remaining' : k \in literals'[i]}
  BY <1>3
<1>5. Len(N) = n /\ NumAtoms' = n
  <2>1. DOMAIN N = 1..n
    BY <1>3, Zenon
  <2>2. Len(N) = n
    BY <1>3
  <2> QED BY <1>2, <2>2 DEF NumAtoms
<1>6. \A k, j \in 1..n : k # j => CanMerge(k, j)'
  <2> SUFFICES ASSUME NEW k \in 1..n, NEW j \in 1..n, k # j PROVE CanMerge(k, j)'
    OBVIOUS
  <2>1. \E p \in 1..Len(N[k].mergeable) : N[k].mergeable[p] = j
    <3>1. N[k].mergeable = OthersNewestFirst(n, k)
      BY <1>4
    <3>2. \E p \in 1..Len(OthersNewestFirst(n, k)) : OthersNewestFirst(n, k)[p] = j
      BY OthersAreAll
    <3> QED BY <3>1, <3>2, Zenon
  <2> QED BY <2>1 DEF CanMerge, N
<1>7. AtomsInv'
  BY <1>4, <1>5, <1>6 DEF AtomsInv, N
<1>8. NeededInv'
  <2>1. \A k \in 1..n : N[k].atoms # {} /\ \A i \in N[k].ids : N[k].atoms \subseteq literals'[i]
    <3> TAKE k \in 1..n
    <3>1. N[k].atoms = {k}
      BY <1>4
    <3>2. N[k].ids = {i \in remaining' : k \in literals'[i]}
      BY <1>4
    <3>3. \A i \in N[k].ids : k \in literals'[i]
      BY <3>2, Zenon
    <3> QED BY <3>1, <3>3
  <2> QED BY <1>5, <2>1 DEF NeededInv, N
<1>9. CanMergeInv'
  <2> SUFFICES ASSUME NEW k \in 1..n, NEW j \in 1..n
               PROVE  /\ CanMerge(k, j)' =>
                           ShareNoAtom(k, j)' /\ (k < j \/ (k <= n /\ j <= n))
                      /\ k < j /\ ShareNoAtom(k, j)' /\ N[k].ids \cap N[j].ids # {} => CanMerge(k, j)'
    BY <1>5 DEF CanMergeInv, N
  <2>1. CanMerge(k, j)' => k # j
    <3>1. \A p \in 1..Len(OthersNewestFirst(n, k)) : OthersNewestFirst(n, k)[p] # k
      BY DEF OthersNewestFirst
    <3> QED BY <1>4, <3>1 DEF CanMerge, N
  <2>2. ShareNoAtom(k, j)' <=> k # j
    BY <1>4 DEF ShareNoAtom, N
  <2> QED BY <1>6, <2>1, <2>2
<1> QED
  BY <1>7, <1>8, <1>9 DEF MergingInv

(* The list has the members of the old one, no earlier than they were, and the
   new one if it was added.                                                *)
IsGrown(list, old, new, added) ==
  /\ added => \E q \in 1..Len(list) : list[q] = new
  /\ ~added => list = old
  /\ \A p \in 1..Len(old) : \E q \in 1..Len(list) : list[q] = old[p]
  /\ \A q \in 1..Len(list) :
       \/ list[q] = new /\ added
       \/ \E p \in 1..Len(old) : p <= q /\ list[q] = old[p]

(* What a node may be merged with after another was appended. *)
LEMMA MergeableIs ==
  ASSUME PlanInv, NEW k \in 1..Len(nodes), NEW pair, NEW tests
  PROVE  IsGrown(MergeableWith(k, pair, Len(nodes) + 1, tests), nodes[k].mergeable,
                 Len(nodes) + 1, k \notin pair /\ nodes[k].atoms \cap tests = {})
<1>0. PICK n \in Nat : n = Len(nodes)
  BY LiteralTypes
<1>1. PICK old \in Seq(Nat) : old = nodes[k].mergeable
  <2>1. nodes[k] \in Node
    BY DEF PlanInv, NodesInv
  <2> QED BY <2>1 DEF Node
<1>2. PICK new : new = <<n + 1>> \o old
  OBVIOUS
<1>3. /\ new \in Seq(Nat) /\ Len(new) = Len(old) + 1 /\ Len(old) \in Nat
      /\ new[1] = n + 1 /\ \A j \in 1..Len(old) : new[j + 1] = old[j]
  <2>1. <<n + 1>> \in Seq(Nat) /\ Len(<<n + 1>>) = 1 /\ <<n + 1>>[1] = n + 1
    OBVIOUS
  <2>2. /\ new \in Seq(Nat) /\ Len(new) = 1 + Len(old)
        /\ \A j \in 1..1 + Len(old) : new[j] = IF j <= 1 THEN <<n + 1>>[j] ELSE old[j - 1]
    BY <1>2, <2>1, ConcatProperties
  <2>3. Len(old) \in Nat
    OBVIOUS
  <2>4. \A j \in 1..Len(old) : j + 1 \in 1..1 + Len(old) /\ ~(j + 1 <= 1) /\ j + 1 - 1 = j
    BY <2>3
  <2>5. 1 \in 1..1 + Len(old) /\ 1 + Len(old) = Len(old) + 1
    BY <2>3
  <2> QED BY <2>1, <2>2, <2>3, <2>4, <2>5
<1>4. PICK m : m = MergeableWith(k, pair, Len(nodes) + 1, tests)
  OBVIOUS
<1> DEFINE added == k \notin pair /\ nodes[k].atoms \cap tests = {}
<1>5. added => m = new
  BY <1>0, <1>1, <1>2, <1>4 DEF MergeableWith
<1>6. ~added => m = old
  BY <1>0, <1>1, <1>2, <1>4 DEF MergeableWith
<1> HIDE DEF added
<1>7. \A p \in 1..Len(old) : \E q \in 1..Len(new) : new[q] = old[p]
  <2> TAKE p \in 1..Len(old)
  <2>1. p + 1 \in 1..Len(new)
    BY <1>3
  <2> QED BY <1>3, <2>1
<1>8. \A q \in 1..Len(new) :
        \/ new[q] = n + 1
        \/ \E p \in 1..Len(old) : p <= q /\ new[q] = old[p]
  <2> TAKE q \in 1..Len(new)
  <2>1. CASE q = 1
    BY <1>3, <2>1
  <2>2. CASE q # 1
    <3>1. q - 1 \in 1..Len(old) /\ q - 1 <= q /\ q - 1 + 1 = q
      BY <1>3, <2>2
    <3> QED BY <1>3, <3>1
  <2> QED BY <2>1, <2>2
<1>9. ASSUME added
      PROVE  IsGrown(m, old, n + 1, added)
  <2>1. 1 \in 1..Len(new) /\ new[1] = n + 1
    BY <1>3
  <2>2. m = new
    BY <1>5, <1>9
  <2>3. \A q \in 1..Len(new) :
          \/ new[q] = n + 1 /\ added
          \/ \E p \in 1..Len(old) : p <= q /\ new[q] = old[p]
    BY <1>8, <1>9
  <2>4. IsGrown(new, old, n + 1, added)
    BY <1>7, <1>9, <2>1, <2>3, Zenon DEF IsGrown
  <2> QED BY <2>2, <2>4
<1>10. ASSUME ~added
       PROVE  IsGrown(m, old, n + 1, added)
  <2>1. m = old
    BY <1>6, <1>10
  <2>2. \A p \in 1..Len(old) : p <= p
    BY <1>3
  <2>3. IsGrown(old, old, n + 1, added)
    BY <1>10, <2>2, Zenon DEF IsGrown
  <2> QED BY <2>1, <2>3
<1>11. IsGrown(m, old, n + 1, added)
  BY <1>9, <1>10
<1> QED
  BY <1>0, <1>1, <1>4, <1>11, Zenon DEF added

LEMMA AppendedKeepsMerging ==
  ASSUME PlanInv, MergingInv, NEW left \in 1..Len(nodes), NEW right \in 1..Len(nodes),
         NEW tests, NEW ids, IsMerged(left, right, tests, ids),
         NEW found, NEW id, NodeIsAppended(left, right, tests, ids, found, id),
         UNCHANGED <<atoms, literals>>
  PROVE  MergingInv'
<1>0. PICK n, a : n = Len(nodes) /\ a = NumAtoms
  BY Zenon
<1> DEFINE M == nodes'
<1>1. /\ n \in Nat /\ a \in Nat /\ a <= n /\ NumAtoms' = a /\ literals' = literals
      /\ left \in 1..n /\ right \in 1..n
  BY <1>0, LiteralTypes DEF NumAtoms
<1>2. /\ Len(M) = n + 1
      /\ \A k \in 1..n :
           /\ M[k].atoms = nodes[k].atoms /\ M[k].ids = nodes[k].ids \ found
           /\ M[k].mergeable = MergeableWith(k, {left, right}, n + 1, tests)
  BY <1>0 DEF NodeIsAppended
<1>3. M[n + 1].atoms = tests /\ M[n + 1].ids = ids \ found /\ M[n + 1].mergeable = <<>>
  <2>1. M[n + 1] = [atoms |-> tests, ids |-> ids \ found, mergeable |-> <<>>, literal |-> id,
                    left |-> left, right |-> right, references |-> 0]
    BY <1>0 DEF NodeIsAppended
  <2> HIDE DEF M
  <2> QED BY <2>1
<1>4. remaining' = remaining \ found
  BY DEF NodeIsAppended
<1>5. \/ tests = nodes[left].atoms \cup nodes[right].atoms
         /\ ids = nodes[left].ids \cap nodes[right].ids
      \/ tests = {} /\ ids = {}
  BY DEF IsMerged
<1>6. /\ \A k \in 1..a : nodes[k].ids = {i \in remaining : k \in literals[i]}
      /\ \A k, j \in 1..a : k # j => CanMerge(k, j)
  BY <1>0 DEF MergingInv, AtomsInv
<1>7. \A k \in 1..n :
        /\ nodes[k].ids # {} => nodes[k].atoms # {}
        /\ \A i \in nodes[k].ids : nodes[k].atoms \subseteq literals[i]
  BY <1>0 DEF MergingInv, NeededInv
<1>8. \A k, j \in 1..n :
        /\ CanMerge(k, j) => ShareNoAtom(k, j) /\ (k < j \/ (k <= a /\ j <= a))
        /\ k < j /\ ShareNoAtom(k, j) /\ nodes[k].ids \cap nodes[j].ids # {} => CanMerge(k, j)
  BY <1>0 DEF MergingInv, CanMergeInv
<1> HIDE DEF M
<1>9. ASSUME NEW k \in 1..n
      PROVE  /\ \A j : CanMerge(k, j) => CanMerge(k, j)'
             /\ \A j : CanMerge(k, j)' =>
                  CanMerge(k, j) \/ (j = n + 1 /\ nodes[k].atoms \cap tests = {})
             /\ k \notin {left, right} /\ nodes[k].atoms \cap tests = {} => CanMerge(k, n + 1)'
  <2> DEFINE m == M[k].mergeable
             old == nodes[k].mergeable
  <2>1. k \in 1..Len(nodes) /\ m = MergeableWith(k, {left, right}, Len(nodes) + 1, tests)
    BY <1>0, <1>2
  <2> HIDE DEF m
  <2>2. IsGrown(m, old, n + 1, k \notin {left, right} /\ nodes[k].atoms \cap tests = {})
    BY <1>0, <2>1, MergeableIs, Zenon
  <2>3. \A j : CanMerge(k, j)' <=> \E q \in 1..Len(m) : m[q] = j
    BY DEF CanMerge, m, M
  <2>4. \A j : CanMerge(k, j) <=> \E p \in 1..Len(old) : old[p] = j
    BY DEF CanMerge
  <2> HIDE DEF old
  <2>5. \A j : CanMerge(k, j) => CanMerge(k, j)'
    BY <2>2, <2>3, <2>4, Zenon DEF IsGrown
  <2>6. \A j : CanMerge(k, j)' =>
          CanMerge(k, j) \/ (j = n + 1 /\ nodes[k].atoms \cap tests = {})
    BY <2>2, <2>3, <2>4, Zenon DEF IsGrown
  <2>7. k \notin {left, right} /\ nodes[k].atoms \cap tests = {} => CanMerge(k, n + 1)'
    BY <2>2, <2>3, Zenon DEF IsGrown
  <2> QED BY <2>5, <2>6, <2>7
<1>10. \A j : ~CanMerge(n + 1, j)'
  BY <1>3 DEF CanMerge, M
<1>11. AtomsInv'
  <2>1. \A k \in 1..a : k \in 1..n
    BY <1>1
  <2>2. \A k \in 1..a : M[k].ids = {i \in remaining' : k \in literals'[i]}
    <3> TAKE k \in 1..a
    <3>1. M[k].ids = nodes[k].ids \ found /\ nodes[k].ids = {i \in remaining : k \in literals[i]}
      BY <1>2, <1>6, <2>1
    <3>2. M[k].ids = {i \in remaining \ found : k \in literals[i]}
      BY <3>1, Zenon
    <3> QED BY <1>1, <1>4, <3>2
  <2>3. \A k, j \in 1..a : k # j => CanMerge(k, j)'
    BY <1>6, <1>9, <2>1
  <2> QED BY <1>1, <2>2, <2>3 DEF AtomsInv, M
<1>12. NeededInv'
  <2> SUFFICES ASSUME NEW k \in 1..n + 1
               PROVE  /\ M[k].ids # {} => M[k].atoms # {}
                      /\ \A i \in M[k].ids : M[k].atoms \subseteq literals[i]
    BY <1>1, <1>2, Zenon DEF NeededInv, M
  <2>1. CASE k \in 1..n
    <3>1. M[k].atoms = nodes[k].atoms /\ M[k].ids \subseteq nodes[k].ids
      BY <1>2, <2>1
    <3> QED BY <1>7, <2>1, <3>1
  <2>2. CASE k = n + 1
    <3>1. ids # {} => tests # {}
      BY <1>1, <1>5, <1>7
    <3>2. \A i \in ids : tests \subseteq literals[i]
      BY <1>1, <1>5, <1>7
    <3> QED BY <1>3, <2>2, <3>1, <3>2
  <2> QED BY <1>1, <2>1, <2>2
<1>13. CanMergeInv'
  <2> SUFFICES ASSUME NEW k \in 1..n + 1, NEW j \in 1..n + 1
               PROVE  /\ CanMerge(k, j)' =>
                           ShareNoAtom(k, j)' /\ (k < j \/ (k <= a /\ j <= a))
                      /\ k < j /\ ShareNoAtom(k, j)' /\ M[k].ids \cap M[j].ids # {} => CanMerge(k, j)'
    BY <1>1, <1>2, Zenon DEF CanMergeInv, M
  <2>1. CASE k \in 1..n /\ j \in 1..n
    <3>1. ShareNoAtom(k, j)' <=> ShareNoAtom(k, j)
      BY <1>2, <2>1 DEF ShareNoAtom, M
    <3>2. M[k].ids \cap M[j].ids # {} => nodes[k].ids \cap nodes[j].ids # {}
      BY <1>2, <2>1
    <3>3. CanMerge(k, j)' <=> CanMerge(k, j)
      <4>1. j # n + 1
        BY <1>1, <2>1
      <4> QED BY <1>9, <2>1, <4>1
    <3> QED BY <1>8, <2>1, <3>1, <3>2, <3>3
  <2>2. CASE k \in 1..n /\ j = n + 1
    <3>1. ShareNoAtom(k, j)' <=> nodes[k].atoms \cap tests = {}
      BY <1>2, <1>3, <2>2 DEF ShareNoAtom, M
    <3>2. ~CanMerge(k, j)
      <4>1. CanMerge(k, j) => j \in 1..n
        BY <1>0, <2>2 DEF CanMerge, PlanInv, NodesInv
      <4> QED BY <1>1, <2>2, <4>1
    <3>3. CanMerge(k, j)' => ShareNoAtom(k, j)' /\ k < j
      BY <1>1, <1>9, <2>2, <3>1, <3>2
    <3>4. ASSUME ShareNoAtom(k, j)', M[k].ids \cap M[j].ids # {}
          PROVE  CanMerge(k, j)'
      <4>1. nodes[k].ids \cap ids # {}
        BY <1>2, <1>3, <2>2, <3>4
      <4>2. k \notin {left, right}
        <5>1. /\ tests = nodes[left].atoms \cup nodes[right].atoms
              /\ nodes[left].ids # {} /\ nodes[right].ids # {}
          BY <1>5, <4>1
        <5>2. nodes[left].atoms # {} /\ nodes[right].atoms # {}
          BY <1>1, <1>7, <5>1
        <5> QED BY <3>1, <3>4, <5>1, <5>2
      <4> QED BY <1>9, <2>2, <3>1, <3>4, <4>2
    <3> QED BY <3>3, <3>4
  <2>3. CASE k = n + 1
    <3>1. ~(k < j)
      BY <1>1, <2>3
    <3> QED BY <1>10, <2>3, <3>1
  <2> QED BY <1>1, <2>1, <2>2, <2>3
<1> QED
  BY <1>11, <1>12, <1>13 DEF MergingInv

(* What two nodes share is finite, and of two such sets the larger has more. *)
LEMMA SharedType ==
  ASSUME PlanInv, NEW S \in SUBSET remaining
  PROVE  IsFiniteSet(S) /\ Cardinality(S) \in Nat /\ (Cardinality(S) > 0 <=> S # {})
<1>1. remaining \in SUBSET (1..Len(literals)) /\ 1 \in Int /\ Len(literals) \in Int
  BY LiteralTypes
<1>2. IsFiniteSet(1..Len(literals))
  BY <1>1, FS_Interval, Zenon
<1>3. IsFiniteSet(S)
  BY <1>1, <1>2, FS_Subset
<1>4. Cardinality(S) \in Nat /\ (Cardinality(S) = 0 <=> S = {})
  BY <1>3, FS_CardinalityType, FS_EmptySet
<1> QED
  BY <1>3, <1>4

LEMMA NodeIds ==
  ASSUME PlanInv, NEW k \in 1..Len(nodes)
  PROVE  nodes[k].ids \in SUBSET remaining
BY DEF PlanInv, NodesInv

(* Nodes that can be merged make a pair. *)
LEMMA PairOf ==
  ASSUME PlanInv, NEW k \in 1..Len(nodes) - 1, NEW j, CanMerge(k, j)
  PROVE  \E q \in Pairs : q[1] = k /\ SharedBy(q) = Shared(k, j)
<1>1. PICK p \in 1..Len(nodes[k].mergeable) : nodes[k].mergeable[p] = j
  BY DEF CanMerge
<1>2. p \in DOMAIN nodes[k].mergeable
  <2>1. k \in 1..Len(nodes)
    BY LiteralTypes
  <2>2. nodes[k] \in Node
    BY <2>1 DEF PlanInv, NodesInv
  <2>3. nodes[k].mergeable \in Seq(Nat)
    BY <2>2 DEF Node
  <2> QED BY <1>1, <2>3
<1>3. <<k, p>> \in Pairs
  <2>1. <<k, p>> \in {<<k, i>> : i \in DOMAIN nodes[k].mergeable}
    BY <1>2
  <2> QED BY <2>1, Zenon DEF Pairs
<1>4. SharedBy(<<k, p>>) = Shared(k, j)
  BY <1>1 DEF SharedBy
<1> QED
  BY <1>3, <1>4

(* Two atoms of a missing literal share it. *)
LEMMA SomePairShares ==
  ASSUME PlanInv, MergingInv, remaining # {}
  PROVE  \E q \in Pairs : SharedBy(q) > 0
<1>1. PICK i \in remaining : TRUE
  OBVIOUS
<1>2. /\ NumAtoms \in Nat /\ Len(nodes) \in Nat /\ NumAtoms <= Len(nodes)
      /\ i \in 1..Len(literals) /\ Cardinality(literals[i]) > 1
      /\ literals[i] \in SUBSET (1..NumAtoms)
  <2>1. i \in Longer(literals) /\ literals \in Seq(SUBSET (1..NumAtoms))
    BY DEF PlanInv, LiteralsInv
  <2>2. i \in 1..Len(literals) /\ Cardinality(literals[i]) > 1
    BY <2>1 DEF Longer
  <2> QED BY <2>1, <2>2, LiteralTypes
<1>3. PICK k \in literals[i], j \in literals[i] : k # j
  <2>1. CASE literals[i] = {}
    BY <1>2, <2>1, FS_EmptySet
  <2>2. CASE \E k \in literals[i] : literals[i] = {k}
    <3>1. PICK k \in literals[i] : literals[i] = {k}
      BY <2>2
    <3>2. Cardinality(literals[i]) = 1
      BY <3>1, FS_Singleton
    <3> QED BY <1>2, <3>2
  <2> QED BY <2>1, <2>2
<1>4. PICK l, m \in 1..NumAtoms : l < m /\ l \in literals[i] /\ m \in literals[i]
  <2>1. k \in 1..NumAtoms /\ j \in 1..NumAtoms
    BY <1>2
  <2>2. CASE k < j
    BY <2>1, <2>2
  <2>3. CASE j < k
    BY <2>1, <2>3
  <2> QED BY <1>2, <1>3, <2>1, <2>2, <2>3
<1>5. l \in 1..Len(nodes) - 1 /\ l \in 1..Len(nodes) /\ m \in 1..Len(nodes) /\ l # m
  BY <1>2, <1>4
<1>6. CanMerge(l, m)
  BY <1>4, <1>5 DEF MergingInv, AtomsInv
<1>7. i \in nodes[l].ids \cap nodes[m].ids
  <2>1. /\ nodes[l].ids = {d \in remaining : l \in literals[d]}
        /\ nodes[m].ids = {d \in remaining : m \in literals[d]}
    BY DEF MergingInv, AtomsInv
  <2> QED BY <1>1, <1>4, <2>1
<1>8. Shared(l, m) > 0
  <2>1. nodes[l].ids \cap nodes[m].ids \in SUBSET remaining
    BY <1>5, NodeIds
  <2> QED BY <1>7, <2>1, SharedType DEF Shared
<1>9. PICK q \in Pairs : SharedBy(q) = Shared(l, m)
  BY <1>5, <1>6, PairOf
<1> QED
  BY <1>8, <1>9

(* What is merged next. *)
LEMMA BestIs ==
  ASSUME PlanInv, MergingInv, remaining # {}
  PROVE  \E left, right \in 1..Len(nodes), p \in Nat :
           /\ BestPair = <<left, p>> /\ BestPair \in Pairs /\ IsFirst(BestPair)
           /\ right = nodes[left].mergeable[p] /\ left < Len(nodes)
           /\ left # right /\ CanMerge(left, right)
           /\ SharedBy(BestPair) = Shared(left, right)
           /\ SharedBy(BestPair) > 0
<1>1. PICK b : b = BestPair
  OBVIOUS
<1>2. b \in Pairs /\ IsFirst(b)
  BY <1>1, BestPairIsPair
<1>3. PICK k \in 1..Len(nodes) - 1 : b \in {<<k, j>> : j \in DOMAIN nodes[k].mergeable}
  BY <1>2, Zenon DEF Pairs
<1>4. PICK p \in DOMAIN nodes[k].mergeable : b = <<k, p>>
  BY <1>3
<1>5. k \in 1..Len(nodes) /\ k < Len(nodes)
  BY LiteralTypes
<1>6. p \in 1..Len(nodes[k].mergeable) /\ p \in Nat
  <2>1. nodes[k] \in Node
    BY <1>5 DEF PlanInv, NodesInv
  <2>2. nodes[k].mergeable \in Seq(Nat)
    BY <2>1 DEF Node
  <2> QED BY <2>2
<1>7. PICK m : m = nodes[k].mergeable[p]
  OBVIOUS
<1>8. m \in 1..Len(nodes) /\ k # m
  BY <1>5, <1>6, <1>7 DEF PlanInv, NodesInv
<1>9. CanMerge(k, m) /\ SharedBy(b) = Shared(k, m)
  BY <1>4, <1>6, <1>7 DEF CanMerge, SharedBy
<1>10. SharedBy(b) > 0
  <2>1. PICK q \in Pairs : SharedBy(q) > 0
    BY SomePairShares
  <2>2. SharedBy(q) \in Nat /\ SharedBy(b) \in Nat
    BY <1>2, <2>1, PairsAre
  <2>3. SharedBy(q) <= SharedBy(b)
    BY <1>2, <2>1, Zenon DEF IsFirst
  <2> QED BY <2>1, <2>2, <2>3
<1> QED
  BY <1>1, <1>2, <1>4, <1>5, <1>6, <1>7, <1>8, <1>9, <1>10, Zenon

LEMMA PairIsLeft ==
  ASSUME PlanInv, MergingInv
  PROVE  SomePairIsLeft
<1> SUFFICES ASSUME remaining # {}
             PROVE  /\ Pairs # {} /\ SharedBy(BestPair) > 0
                    /\ IsStuck => \E i \in remaining : Cardinality(literals[i]) > 2
  BY DEF SomePairIsLeft
<1>1. PICK left, right \in 1..Len(nodes), p \in Nat :
           /\ BestPair = <<left, p>> /\ BestPair \in Pairs
           /\ right = nodes[left].mergeable[p]
           /\ left # right /\ CanMerge(left, right)
           /\ SharedBy(BestPair) = Shared(left, right)
           /\ SharedBy(BestPair) > 0
  BY BestIs
<1>2. ASSUME IsStuck
      PROVE  \E i \in remaining : Cardinality(literals[i]) > 2
  <2> DEFINE L == nodes[left].atoms
             R == nodes[right].atoms
             S == nodes[left].ids \cap nodes[right].ids
  <2>1. S \in SUBSET remaining /\ S # {}
    <3>1. S \in SUBSET remaining
      BY NodeIds
    <3> QED BY <1>1, <3>1, SharedType DEF Shared
  <2>2. PICK i \in S : TRUE
    BY <2>1
  <2>3. literals[i] # L \cup R
    BY <1>1, <1>2, <2>2 DEF IsStuck
  <2>4. L \subseteq literals[i] /\ R \subseteq literals[i]
    BY <2>2 DEF MergingInv, NeededInv
  <2>5. L # {} /\ R # {}
    BY <2>2 DEF MergingInv, NeededInv
  <2>6. L \cap R = {}
    BY <1>1 DEF MergingInv, CanMergeInv, ShareNoAtom
  <2> HIDE DEF L, R
  <2>7. PICK x \in literals[i], y \in literals[i], z \in literals[i] :
          x # y /\ x # z /\ y # z
    <3>1. PICK x \in L, y \in R : TRUE
      BY <2>5
    <3>2. PICK z \in literals[i] : z \notin L \cup R
      BY <2>3, <2>4
    <3> QED BY <2>4, <2>6, <3>1, <3>2
  <2>8. i \in remaining /\ IsFiniteSet(literals[i])
    <3>1. /\ literals \in Seq(SUBSET (1..NumAtoms)) /\ i \in 1..Len(literals)
          /\ NumAtoms \in Int /\ 1 \in Int
      BY <2>1, <2>2, LiteralTypes DEF PlanInv, LiteralsInv
    <3>2. literals[i] \in SUBSET (1..NumAtoms) /\ IsFiniteSet(1..NumAtoms)
      BY <3>1, FS_Interval
    <3> QED BY <2>1, <2>2, <3>2, FS_Subset
  <2>9. Cardinality({x, y, z}) = 3
    <3>1. IsFiniteSet({x}) /\ Cardinality({x}) = 1
      BY FS_Singleton
    <3>2. y \notin {x} /\ z \notin {x} \cup {y}
      BY <2>7
    <3>3. IsFiniteSet({x} \cup {y}) /\ Cardinality({x} \cup {y}) = 1 + 1
      BY <3>1, <3>2, FS_AddElement, Zenon
    <3>4. Cardinality(({x} \cup {y}) \cup {z}) = 1 + 1 + 1
      BY <3>2, <3>3, FS_AddElement, Zenon
    <3>5. ({x} \cup {y}) \cup {z} = {x, y, z} /\ 1 + 1 + 1 = 3
      OBVIOUS
    <3> QED BY <3>4, <3>5
  <2>10. Cardinality({x, y, z}) <= Cardinality(literals[i]) /\ Cardinality(literals[i]) \in Nat
    <3>1. {x, y, z} \in SUBSET literals[i]
      OBVIOUS
    <3> QED BY <2>8, <3>1, FS_Subset, FS_CardinalityType
  <2> QED BY <2>8, <2>9, <2>10
<1> QED
  BY <1>1, <1>2

(* There is one first pair. *)
NoOtherIsFirst == \A c : c \in Pairs /\ IsFirst(c) => BestPair = c

LEMMA FirstIsBest == PlanInv /\ remaining # {} => NoOtherIsFirst
<1> SUFFICES ASSUME PlanInv, remaining # {}, NEW c, c \in Pairs, IsFirst(c)
             PROVE  BestPair = c
  BY DEF NoOtherIsFirst
<1>1. PICK b : b = BestPair
  OBVIOUS
<1>2. b \in Pairs /\ IsFirst(b)
  BY <1>1, BestPairIsPair
<1>3. /\ SharedBy(b) \in Nat /\ b = <<b[1], b[2]>> /\ b[1] \in Nat /\ b[2] \in Nat
      /\ SharedBy(c) \in Nat /\ c = <<c[1], c[2]>> /\ c[1] \in Nat /\ c[2] \in Nat
  BY <1>2, PairsAre
<1>4. SharedBy(b) <= SharedBy(c) /\ SharedBy(c) <= SharedBy(b)
  BY <1>2, Zenon DEF IsFirst
<1>5. SharedBy(b) = SharedBy(c)
  BY <1>3, <1>4
<1>6. IsBefore(b, c) /\ IsBefore(c, b)
  BY <1>2, <1>5, Zenon DEF IsFirst
<1>7. b[1] = c[1] /\ b[2] = c[2]
  BY <1>3, <1>6 DEF IsBefore
<1> QED
  BY <1>1, <1>3, <1>7

(* A node that is appended for two nodes shares no more with another than they
   share, and as much only with nodes that come later than the first of them. *)
LEMMA AppendedSharesLess ==
  ASSUME PlanInv, MergingInv, NEW left \in 1..Len(nodes), NEW right \in 1..Len(nodes),
         NEW p \in Nat, BestPair = <<left, p>>, BestPair \in Pairs, IsFirst(BestPair),
         SharedBy(BestPair) = Shared(left, right), SharedBy(BestPair) > 0,
         left < Len(nodes),
         NEW tests, NEW ids, IsMerged(left, right, tests, ids),
         NEW k \in 1..Len(nodes), k \notin {left, right}, nodes[k].atoms \cap tests = {}
  PROVE  /\ Cardinality(nodes[k].ids \cap ids) \in Nat
         /\ Cardinality(nodes[k].ids \cap ids) <= Shared(left, right)
         /\ Cardinality(nodes[k].ids \cap ids) = Shared(left, right) => left < k
<1> DEFINE S == nodes[left].ids \cap nodes[right].ids
           T == nodes[k].ids \cap ids
<1>1. S \in SUBSET remaining /\ T \in SUBSET S /\ T \in SUBSET remaining
  BY NodeIds DEF IsMerged
<1>2. IsFiniteSet(S) /\ Cardinality(T) \in Nat /\ Cardinality(S) \in Nat
  BY <1>1, SharedType
<1>3. Cardinality(T) <= Cardinality(S) /\ (Cardinality(T) = Cardinality(S) => T = S)
  BY <1>1, <1>2, FS_Subset
<1>4. Shared(left, right) = Cardinality(S)
  BY DEF Shared
<1>5. ASSUME T = S
      PROVE  left < k
  <2>1. S # {}
    BY <1>1, <1>4, SharedType
  <2>2. tests = nodes[left].atoms \cup nodes[right].atoms
    BY <1>5, <2>1 DEF IsMerged
  <2>3. ShareNoAtom(k, left)
    BY <2>2 DEF ShareNoAtom
  <2>4. S \in SUBSET (nodes[k].ids \cap nodes[left].ids)
    BY <1>5
  <2> SUFFICES ASSUME ~(left < k) PROVE FALSE
    OBVIOUS
  <2>5. k < left /\ k \in 1..Len(nodes) - 1
    <3>1. Len(nodes) \in Nat
      BY LiteralTypes
    <3> QED BY <3>1
  <2>6. nodes[k].ids \cap nodes[left].ids # {}
    BY <2>1, <2>4
  <2>7. CanMerge(k, left)
    BY <2>3, <2>5, <2>6 DEF MergingInv, CanMergeInv
  <2>8. PICK q \in Pairs : q[1] = k /\ SharedBy(q) = Shared(k, left)
    BY <2>5, <2>7, PairOf
  <2> DEFINE U == nodes[k].ids \cap nodes[left].ids
  <2>9. U \in SUBSET remaining
    BY NodeIds
  <2>10. IsFiniteSet(U) /\ Cardinality(U) \in Nat
    BY <2>9, SharedType
  <2>11. Cardinality(S) <= Cardinality(U)
    BY <2>4, <2>10, FS_Subset
  <2>12. SharedBy(q) = Cardinality(U) /\ SharedBy(BestPair) = Cardinality(S)
    BY <1>4, <2>8 DEF Shared
  <2>13. SharedBy(q) <= SharedBy(BestPair)
    BY <2>8, Zenon DEF IsFirst
  <2>14. SharedBy(q) = SharedBy(BestPair)
    BY <1>2, <2>10, <2>11, <2>12, <2>13
  <2>15. IsBefore(BestPair, q)
    BY <2>8, <2>14, Zenon DEF IsFirst
  <2>16. BestPair[1] = left
    OBVIOUS
  <2> QED BY <2>5, <2>8, <2>15, <2>16 DEF IsBefore
<1> QED
  BY <1>2, <1>3, <1>4, <1>5

(* The pair that was merged without making a literal is the first again. *)
LEMMA StuckStays ==
  ASSUME PlanInv, MergingInv, IsStuck, Merge
  PROVE  IsStuck'
<1>1. remaining # {} /\ UNCHANGED <<atoms, literals>>
  BY DEF IsStuck, Merge
<1>2. PICK left, right \in 1..Len(nodes), p \in Nat :
           /\ BestPair = <<left, p>> /\ BestPair \in Pairs /\ IsFirst(BestPair)
           /\ right = nodes[left].mergeable[p] /\ left < Len(nodes)
           /\ left # right /\ CanMerge(left, right)
           /\ SharedBy(BestPair) = Shared(left, right)
           /\ SharedBy(BestPair) > 0
  BY <1>1, BestIs
<1>3. PICK tests, ids : AppendNode(left, right, tests, ids) /\ IsMerged(left, right, tests, ids)
  <2>1. BestPair[1] = left /\ BestPair[2] = p
    BY <1>2
  <2>2. nodes[BestPair[1]].mergeable[BestPair[2]] = right
    BY <1>2, <2>1
  <2>3. \/ AppendNode(left, right, nodes[left].atoms \cup nodes[right].atoms,
                      nodes[left].ids \cap nodes[right].ids)
        \/ AppendNode(left, right, {}, {})
    BY <2>1, <2>2, Zenon DEF Merge
  <2> QED BY <2>3, Zenon DEF IsMerged
<1>4. \E found, id : NodeIsAppended(left, right, tests, ids, found, id)
  BY <1>2, <1>3, AppendIsThat
<1>5. PICK found, id : NodeIsAppended(left, right, tests, ids, found, id)
  BY <1>4
<1>6. found = {}
  <2>1. \A i \in nodes[left].ids \cap nodes[right].ids :
          literals[i] # nodes[left].atoms \cup nodes[right].atoms
    <3>1. BestPair[1] = left /\ nodes[BestPair[1]].mergeable[BestPair[2]] = right
      BY <1>2
    <3> QED BY <3>1, Zenon DEF IsStuck
  <2>2. found = {} \/ (found = {id} /\ id \in ids /\ literals[id] = tests)
    BY <1>5 DEF NodeIsAppended
  <2>3. ~(id \in ids /\ literals[id] = tests)
    BY <1>3, <2>1 DEF IsMerged
  <2> QED BY <2>2, <2>3
<1>7. PlanInv'
  BY MergeKeepsPlan
<1>8. PICK n \in Nat : n = Len(nodes)
  BY LiteralTypes
<1> DEFINE M == nodes'
<1>9. /\ Len(M) = n + 1 /\ remaining' = remaining /\ literals' = literals
      /\ \A k \in 1..n :
           /\ M[k].atoms = nodes[k].atoms /\ M[k].ids = nodes[k].ids
           /\ M[k].mergeable = MergeableWith(k, {left, right}, n + 1, tests)
  <2>1. /\ Len(M) = n + 1 /\ remaining' = remaining \ found
        /\ \A k \in 1..n :
             /\ M[k].atoms = nodes[k].atoms /\ M[k].ids = nodes[k].ids \ found
             /\ M[k].mergeable = MergeableWith(k, {left, right}, n + 1, tests)
    BY <1>5, <1>8 DEF NodeIsAppended
  <2> HIDE DEF M
  <2> QED BY <1>1, <1>6, <2>1
<1>10. M[n + 1].ids = ids
  <2>1. M[n + 1] = [atoms |-> tests, ids |-> ids \ found, mergeable |-> <<>>, literal |-> id,
                    left |-> left, right |-> right, references |-> 0]
    BY <1>5, <1>8 DEF NodeIsAppended
  <2> HIDE DEF M
  <2> QED BY <1>6, <2>1
<1>11. \A k \in 1..n : M[k] \in Node
  BY <1>7, <1>8, <1>9 DEF PlanInv, NodesInv
<1> HIDE DEF M
<1>12. \A k \in 1..n :
         IsGrown(M[k].mergeable, nodes[k].mergeable, n + 1,
                 k \notin {left, right} /\ nodes[k].atoms \cap tests = {})
  <2> TAKE k \in 1..n
  <2>1. k \in 1..Len(nodes)
    BY <1>8
  <2>2. IsGrown(MergeableWith(k, {left, right}, Len(nodes) + 1, tests), nodes[k].mergeable,
                Len(nodes) + 1, k \notin {left, right} /\ nodes[k].atoms \cap tests = {})
    BY <2>1, MergeableIs
  <2>3. M[k].mergeable = MergeableWith(k, {left, right}, Len(nodes) + 1, tests)
    BY <1>8, <1>9
  <2> QED BY <1>8, <2>2, <2>3, Zenon
<1>13. M[left].mergeable = nodes[left].mergeable /\ left \in 1..n /\ right \in 1..n /\ left < n
  <2>1. left \in 1..n /\ right \in 1..n /\ left < n
    BY <1>2, <1>8
  <2>2. IsGrown(M[left].mergeable, nodes[left].mergeable, n + 1,
                left \notin {left, right} /\ nodes[left].atoms \cap tests = {})
    BY <1>12, <2>1
  <2> QED BY <2>1, <2>2, Zenon DEF IsGrown
<1>14. \A k, j \in 1..n : Shared(k, j)' = Shared(k, j)
  BY <1>9 DEF Shared, M
<1>15. PICK b : b = BestPair
  OBVIOUS
<1>16. b = <<left, p>> /\ b[1] = left /\ b[2] = p
  BY <1>2, <1>15
<1>17. b \in Pairs'
  <2>1. b \in Pairs
    BY <1>2, <1>15
  <2>2. PICK k \in 1..Len(nodes) - 1 : b \in {<<k, j>> : j \in DOMAIN nodes[k].mergeable}
    BY <2>1, Zenon DEF Pairs
  <2>3. PICK j \in DOMAIN nodes[k].mergeable : b = <<k, j>>
    BY <2>2
  <2>4. k = left /\ j = p
    BY <1>16, <2>3
  <2>5. b \in {<<left, i>> : i \in DOMAIN M[left].mergeable}
    BY <1>13, <2>3, <2>4
  <2>6. left \in 1..Len(M) - 1
    BY <1>9, <1>13
  <2> QED BY <2>5, <2>6, Zenon DEF Pairs, M
<1>18. SharedBy(b)' = Shared(left, right) /\ SharedBy(b) = Shared(left, right)
  <2>1. SharedBy(b)' = Shared(left, right)'
    <3>1. M[left].mergeable[p] = right
      BY <1>2, <1>13
    <3> QED BY <1>16, <3>1 DEF SharedBy, M
  <2> QED BY <1>2, <1>13, <1>14, <1>15, <2>1
<1>19. ASSUME NEW q \in Pairs'
       PROVE  /\ SharedBy(q)' <= SharedBy(b)'
              /\ SharedBy(q)' = SharedBy(b)' => IsBefore(b, q)
  <2>1. PICK k \in 1..Len(M) - 1 : q \in {<<k, j>> : j \in DOMAIN M[k].mergeable}
    BY <1>19, Zenon DEF Pairs, M
  <2>2. PICK j \in DOMAIN M[k].mergeable : q = <<k, j>>
    BY <2>1
  <2>3. k \in 1..n /\ q[1] = k /\ q[2] = j
    BY <1>9, <2>2
  <2>4. j \in 1..Len(M[k].mergeable) /\ j \in Nat
    <3>1. M[k].mergeable \in Seq(Nat)
      BY <1>11, <2>3 DEF Node
    <3> QED BY <3>1
  <2>5. PICK t : t = M[k].mergeable[j]
    OBVIOUS
  <2>6. SharedBy(q)' = Shared(k, t)'
    BY <2>3, <2>5 DEF SharedBy, M
  <2>7. IsGrown(M[k].mergeable, nodes[k].mergeable, n + 1,
                k \notin {left, right} /\ nodes[k].atoms \cap tests = {})
    BY <1>12, <2>3
  <2>8. \/ t = n + 1 /\ k \notin {left, right} /\ nodes[k].atoms \cap tests = {}
        \/ \E i \in 1..Len(nodes[k].mergeable) : i <= j /\ t = nodes[k].mergeable[i]
    BY <2>4, <2>5, <2>7, Zenon DEF IsGrown
  <2>9. CASE t = n + 1 /\ k \notin {left, right} /\ nodes[k].atoms \cap tests = {}
    <3>1. k \in 1..Len(nodes)
      BY <1>8, <2>3
    <3>2. /\ Cardinality(nodes[k].ids \cap ids) <= Shared(left, right)
          /\ Cardinality(nodes[k].ids \cap ids) = Shared(left, right) => left < k
      BY <1>2, <1>3, <2>9, <3>1, AppendedSharesLess
    <3>3. SharedBy(q)' = Cardinality(nodes[k].ids \cap ids)
      BY <1>9, <1>10, <2>3, <2>6, <2>9 DEF Shared, M
    <3> QED BY <1>16, <1>18, <2>3, <3>2, <3>3 DEF IsBefore
  <2>10. CASE \E i \in 1..Len(nodes[k].mergeable) : i <= j /\ t = nodes[k].mergeable[i]
    <3>1. PICK i \in 1..Len(nodes[k].mergeable) : i <= j /\ t = nodes[k].mergeable[i]
      BY <2>10
    <3>2. t \in 1..n /\ t # k
      BY <1>8, <2>3, <3>1 DEF PlanInv, NodesInv
    <3>3. SharedBy(q)' = Shared(k, t)
      BY <1>14, <2>3, <2>6, <3>2
    <3>4. CanMerge(k, t)
      BY <3>1 DEF CanMerge
    <3>5. CASE k < n
      <4>1. nodes[k] \in Node /\ k \in 1..Len(nodes) - 1
        BY <1>8, <2>3, <3>5 DEF PlanInv, NodesInv
      <4>2. i \in DOMAIN nodes[k].mergeable /\ i \in Nat
        <5>1. nodes[k].mergeable \in Seq(Nat)
          BY <4>1 DEF Node
        <5> QED BY <3>1, <5>1
      <4>3. PICK c : c = <<k, i>>
        OBVIOUS
      <4>4. c \in Pairs
        <5>1. c \in {<<k, l>> : l \in DOMAIN nodes[k].mergeable}
          BY <4>2, <4>3
        <5> QED BY <4>1, <5>1, Zenon DEF Pairs
      <4>5. SharedBy(c) = Shared(k, t) /\ c[1] = k /\ c[2] = i
        BY <3>1, <4>3 DEF SharedBy
      <4>6. SharedBy(c) <= SharedBy(b) /\ (SharedBy(c) = SharedBy(b) => IsBefore(b, c))
        BY <1>2, <1>15, <4>4, Zenon DEF IsFirst
      <4>7. IsBefore(b, c) => IsBefore(b, q)
        BY <1>13, <1>16, <2>3, <2>4, <3>1, <4>2, <4>5 DEF IsBefore
      <4> QED BY <1>18, <3>3, <4>5, <4>6, <4>7
    <3>6. CASE k = n
      <4>1. t < n /\ t <= NumAtoms /\ n <= NumAtoms /\ t # n
        <5>1. CanMerge(n, t) => n < t \/ (n <= NumAtoms /\ t <= NumAtoms)
          BY <1>8, <1>13, <3>2 DEF MergingInv, CanMergeInv
        <5> QED BY <3>2, <3>4, <3>6, <5>1
      <4>2. CanMerge(t, n)
        <5>1. t \in 1..NumAtoms /\ n \in 1..NumAtoms
          BY <1>13, <3>2, <4>1, LiteralTypes
        <5> QED BY <4>1, <5>1 DEF MergingInv, AtomsInv
      <4>3. t \in 1..Len(nodes) - 1
        BY <1>8, <3>2, <4>1
      <4>4. PICK c \in Pairs : c[1] = t /\ SharedBy(c) = Shared(t, n)
        BY <4>2, <4>3, PairOf
      <4>5. Shared(t, n) = Shared(n, t)
        <5>1. nodes[t].ids \cap nodes[n].ids = nodes[n].ids \cap nodes[t].ids
          OBVIOUS
        <5> QED BY <5>1, Zenon DEF Shared
      <4>6. SharedBy(c) <= SharedBy(b)
        BY <1>2, <1>15, <4>4, Zenon DEF IsFirst
      <4>7. IsBefore(b, q)
        BY <1>13, <1>16, <2>3, <3>6 DEF IsBefore
      <4> QED BY <1>18, <3>3, <3>6, <4>4, <4>5, <4>6, <4>7
    <3> QED BY <2>3, <3>5, <3>6
  <2> QED BY <2>8, <2>9, <2>10
<1>20. IsFirst(b)'
  <2>1. \A q \in Pairs' :
          /\ SharedBy(q)' <= SharedBy(b)'
          /\ SharedBy(q)' = SharedBy(b)' => IsBefore(b, q)
    BY <1>19
  <2> QED BY <2>1 DEF IsFirst
<1>21. BestPair' = b
  <2>1. (PlanInv /\ remaining # {} => NoOtherIsFirst)'
    BY FirstIsBest, PTL
  <2>2. NoOtherIsFirst'
    BY <1>1, <1>7, <1>9, <2>1
  <2> QED BY <1>17, <1>20, <2>2 DEF NoOtherIsFirst
<1>22. \A i \in M[left].ids \cap M[right].ids :
         literals'[i] # M[left].atoms \cup M[right].atoms
  <2>1. \A i \in nodes[left].ids \cap nodes[right].ids :
          literals[i] # nodes[left].atoms \cup nodes[right].atoms
    <3>1. BestPair[1] = left /\ nodes[BestPair[1]].mergeable[BestPair[2]] = right
      BY <1>2
    <3> QED BY <3>1, Zenon DEF IsStuck
  <2> QED BY <1>9, <1>13, <2>1
<1>23. M[left].mergeable[p] = right /\ BestPair'[1] = left /\ BestPair'[2] = p
  BY <1>2, <1>13, <1>16, <1>21
<1> QED
  BY <1>1, <1>9, <1>22, <1>23 DEF IsStuck, M

-----------------------------------------------------------------------------
LEMMA MergeKeepsMerging ==
  ASSUME PlanInv, MergingInv, Merge
  PROVE  MergingInv'
<1> DEFINE left == BestPair[1]
           right == nodes[BestPair[1]].mergeable[BestPair[2]]
<1>1. remaining # {} /\ UNCHANGED <<atoms, literals>>
  BY DEF Merge
<1>2. BestPair \in Pairs
  BY <1>1, BestPairIsPair
<1>3. left \in 1..Len(nodes) /\ right \in 1..Len(nodes) /\ left # right
  BY <1>2, PairsAre
<1>4. \/ AppendNode(left, right, nodes[left].atoms \cup nodes[right].atoms,
                    nodes[left].ids \cap nodes[right].ids)
      \/ AppendNode(left, right, {}, {})
  BY Zenon DEF Merge
<1> HIDE DEF left, right
<1>5. PICK tests, ids : AppendNode(left, right, tests, ids) /\ IsMerged(left, right, tests, ids)
  BY <1>4, Zenon DEF IsMerged
<1>6. \E found, id : NodeIsAppended(left, right, tests, ids, found, id)
  BY <1>3, <1>5, AppendIsThat
<1>7. PICK found, id : NodeIsAppended(left, right, tests, ids, found, id)
  BY <1>6
<1> QED
  BY <1>1, <1>3, <1>5, <1>7, AppendedKeepsMerging

LEMMA MergingStays ==
  ASSUME UNCHANGED planVars
  PROVE  (MergingInv => MergingInv') /\ (IsStuck => IsStuck')
<1>1. atoms' = atoms /\ literals' = literals /\ nodes' = nodes /\ remaining' = remaining
  BY DEF planVars
<1>2. NumAtoms' = NumAtoms
  BY <1>1 DEF NumAtoms
<1>3. \A k, j : (CanMerge(k, j)' <=> CanMerge(k, j)) /\ (ShareNoAtom(k, j)' <=> ShareNoAtom(k, j))
  BY <1>1 DEF CanMerge, ShareNoAtom
<1>4. MergingInv => MergingInv'
  <2>1. AtomsInv => AtomsInv'
    BY <1>1, <1>2, <1>3 DEF AtomsInv
  <2>2. NeededInv => NeededInv'
    BY <1>1 DEF NeededInv
  <2>3. CanMergeInv => CanMergeInv'
    BY <1>1, <1>2, <1>3 DEF CanMergeInv
  <2> QED BY <2>1, <2>2, <2>3 DEF MergingInv
<1>5. Pairs' = Pairs /\ \A q : SharedBy(q)' = SharedBy(q)
  BY <1>1 DEF Pairs, SharedBy, Shared
<1>6. BestPair' = BestPair
  BY <1>5 DEF BestPair
<1>7. IsStuck => IsStuck'
  BY <1>1, <1>6 DEF IsStuck
<1> QED
  BY <1>4, <1>7

(* What a step does to a plan. *)
LEMMA PlanSteps ==
  ASSUME PlanningInv, [BindingNext]_<<vars, tableVars>>
  PROVE  \/ \E candidates \in Seq(Seq(Test)) : StartPlan(candidates) /\ remaining = {}
         \/ Merge
         \/ NoPlanning' /\ remaining = {}
         \/ UNCHANGED planVars
<1>1. CASE GeneratePlan
  <2>1. PICK tg \in Groups :
          \E tests \in {[i \in DOMAIN Group(tg).literals |-> Tests(Group(tg).literals[i])]} :
            StartPlan(tests)
    BY <1>1, Zenon DEF GeneratePlan
  <2> DEFINE made == [i \in DOMAIN Group(tg).literals |-> Tests(Group(tg).literals[i])]
  <2>2. StartPlan(made)
    BY <2>1
  <2>3. made \in Seq(Seq(Test))
    BY TestsOfGroup DEF PlanningInv, CountingInv
  <2>4. remaining = {}
    <3>1. literals = <<>>
      BY <1>1, Zenon DEF GeneratePlan
    <3>2. remaining \in SUBSET (1..Len(literals)) /\ Len(literals) = 0 /\ 1..0 = {}
      BY <3>1, LiteralTypes DEF PlanningInv
    <3> QED BY <3>2
  <2> HIDE DEF made
  <2> QED BY <2>2, <2>3, <2>4
<1>2. CASE MergeNodes
  BY <1>2, Zenon DEF MergeNodes
<1>3. CASE KeepPlan
  <2>1. atoms' = <<>> /\ literals' = <<>> /\ nodes' = <<>> /\ remaining' = {} /\ IsPlanned
    BY <1>3, Zenon DEF KeepPlan
  <2> QED BY <2>1 DEF NoPlanning, IsPlanned
<1>4. CASE UNCHANGED vars
  BY <1>4 DEF vars
<1>5. CASE \/ NextVariable \/ AllCounted \/ StartPass \/ PartitionBindings \/ MakeHashTables
           \/ InsertRow \/ StartCounting \/ MoveToNextJoinGroup \/ TakeChunk \/ EndPass
  BY <1>5, Zenon DEF NextVariable, AllCounted, StartPass, PartitionBindings, MakeHashTables,
     InsertRow, StartCounting, MoveToNextJoinGroup, TakeChunk, EndPass, countVars, callVars
<1>6. UNCHANGED vars \/ Next
  BY CountingOrTables
<1> QED
  BY <1>1, <1>2, <1>3, <1>4, <1>5, <1>6, Zenon DEF Next

PairsInv == PlanningInv /\ MergingInv

LEMMA PairsInit == BindingInit => PairsInv
<1> SUFFICES ASSUME BindingInit PROVE PairsInv
  OBVIOUS
<1>1. NoPlanning
  BY DEF BindingInit, Init
<1> QED
  BY <1>1, PlanningInit, NoPlanningIsMerging DEF PairsInv

LEMMA PairsNext == PairsInv /\ [BindingNext]_<<vars, tableVars>> => PairsInv'
<1> SUFFICES ASSUME PairsInv, [BindingNext]_<<vars, tableVars>> PROVE PairsInv'
  OBVIOUS
<1>1. PlanningInv /\ PlanInv /\ MergingInv
  BY DEF PairsInv, PlanningInv
<1>2. PlanningInv'
  BY <1>1, PlanningNext
<1>3. CASE \E candidates \in Seq(Seq(Test)) : StartPlan(candidates)
  BY <1>2, <1>3, StartKeepsMerging DEF PairsInv
<1>4. CASE Merge
  BY <1>1, <1>2, <1>4, MergeKeepsMerging DEF PairsInv
<1>5. CASE NoPlanning'
  <2>1. (NoPlanning => MergingInv)'
    BY NoPlanningIsMerging, PTL
  <2>2. MergingInv'
    BY <1>5, <2>1
  <2> QED BY <1>2, <2>2 DEF PairsInv
<1>6. CASE UNCHANGED planVars
  BY <1>1, <1>2, <1>6, MergingStays DEF PairsInv
<1> QED
  BY <1>1, <1>3, <1>4, <1>5, <1>6, PlanSteps

(* As long as a literal of a plan is missing, two nodes are left that can be merged
   and both need it (the DCHECK_GT of GeneratePredicateEvaluationPlan), and only
   literals with three tests or more can leave the next pair without one.  *)
THEOREM PairsCorrect == BindingSpec => []SomePairIsLeft
<1>1. PairsInv => SomePairIsLeft
  BY PairIsLeft DEF PairsInv, PlanningInv
<1> QED
  BY <1>1, PairsInit, PairsNext, PTL DEF BindingSpec

(* Once the next pair makes no literal it is the next pair for ever: for every
   family of candidates the loop of GeneratePredicateEvaluationPlan either makes
   a literal with each merge or never ends.                                *)
THEOREM StuckCorrect == BindingSpec => StuckForEver
<1>1. PairsInv /\ [BindingNext]_<<vars, tableVars>> => [IsStuck => IsStuck']_vars
  <2> SUFFICES ASSUME PairsInv, [BindingNext]_<<vars, tableVars>>, IsStuck PROVE IsStuck'
    OBVIOUS
  <2>1. PlanningInv /\ PlanInv /\ MergingInv /\ remaining # {}
    BY DEF PairsInv, PlanningInv, IsStuck
  <2>2. Merge \/ UNCHANGED planVars
    BY <2>1, PlanSteps
  <2>3. CASE Merge
    BY <2>1, <2>3, StuckStays
  <2>4. CASE UNCHANGED planVars
    BY <2>4, MergingStays
  <2> QED BY <2>2, <2>3, <2>4
<1> QED
  BY <1>1, PairsInit, PairsNext, PTL DEF BindingSpec, StuckForEver
-----------------------------------------------------------------------------
(* What a plan says of a fact and a binding: which of the group's literals hold. *)
LEMMA PlanHolds ==
  ASSUME PlanInv, IsPlanned, NEW g, g.plan = Plan, NEW fact, NEW binding
  PROVE  LiteralsThatHold(g, fact, binding) =
           {g.literals[i] : i \in {j \in 1..Len(literals) : AllPass(literals[j], fact, binding)}}
<1> DEFINE tree == g.plan.nodes
           Is(h) == h = [n \in DOMAIN tree |->
                          IF tree[n].parts = {}
                          THEN fact[tree[n].test[1]] = binding[tree[n].test[2]]
                          ELSE \A m \in tree[n].parts : h[m]]
           H == CHOOSE h : Is(h)
           named(h) == {g.plan.root} \cup {tree[n].literal : n \in {m \in DOMAIN tree : h[m]}}
<1>1. LiteralsThatHold(g, fact, binding) = {g.literals[i] : i \in named(H) \ {0}}
  BY Zenon DEF LiteralsThatHold
<1>2. Is(H)
  <2>1. \E h : Is(h)
    <3>1. PICK h : IsEvaluated(h, Plan.nodes, fact, binding)
      BY EvaluationExists
    <3>2. IsEvaluated(h, tree, fact, binding)
      BY <3>1
    <3> QED BY <3>2, Zenon DEF IsEvaluated
  <2> HIDE DEF Is
  <2> QED BY <2>1
<1>3. IsEvaluated(H, Plan.nodes, fact, binding)
  <2>1. IsEvaluated(H, tree, fact, binding)
    <3> HIDE DEF H, tree
    <3> QED BY <1>2, Zenon DEF IsEvaluated
  <2> QED BY <2>1
<1> HIDE DEF H
<1>4. named(H) \ {0} = Named(H)
  BY DEF Named
<1> HIDE DEF named
<1>5. Named(H) = {j \in 1..Len(literals) : AllPass(literals[j], fact, binding)}
  <2>1. \A i \in Named(H) : i \in 1..Len(literals) /\ AllPass(literals[i], fact, binding)
    BY <1>3, NamedHold
  <2>2. \A i \in 1..Len(literals) : AllPass(literals[i], fact, binding) => i \in Named(H)
    BY <1>3, HoldingAreNamed
  <2> QED BY <2>1, <2>2
<1> QED
  BY <1>1, <1>4, <1>5

(* The other bound arguments of a literal agree. *)
OthersAgree(c, fact, binding) ==
  \A a \in BoundOf(c) \ {JoinKey(c)} : fact[a] = binding[VariablesOf(c)[a]]

(* The plan of a group finds exactly the literals that hold. *)
IsExactFor(g) ==
  \A fact, binding :
    LiteralsThatHold(g, fact, binding) = {c \in ToSet(g.literals) : OthersAgree(c, fact, binding)}

TestsOf(tg) == [i \in DOMAIN Group(tg).literals |-> Tests(Group(tg).literals[i])]

(* A plan that was made for a group is exact for that group. *)
LEMMA PlanIsExactFor ==
  ASSUME CallInv, TablesInv, PlanInv, IsPlanned, NEW tg \in Groups, IsFamily(TestsOf(tg)),
         NEW g, g.plan = Plan, g.literals = Group(tg).literals
  PROVE  IsExactFor(g)
<1> SUFFICES ASSUME NEW fact, NEW binding
             PROVE  LiteralsThatHold(g, fact, binding)
                      = {c \in ToSet(g.literals) : OthersAgree(c, fact, binding)}
  BY DEF IsExactFor
<1> DEFINE s == Group(tg).literals
           n == Len(s)
<1>1. /\ DOMAIN s = 1..n /\ n \in Nat
      /\ \A i \in 1..n : s[i] \in DOMAIN given.candidates
  BY LiteralsOfGroup
<1>2. /\ Len(literals) = n
      /\ \A i \in 1..n : \A x : Contains(Tests(s[i]), x) <=> \E k \in literals[i] : atoms[k] = x
  <2> DEFINE tests == TestsOf(tg)
  <2>1. DOMAIN tests = 1..n /\ \A i \in 1..n : tests[i] = Tests(s[i])
    BY <1>1 DEF TestsOf
  <2>2. tests \in Seq(Seq(Test))
    BY TestsOfGroup DEF TestsOf
  <2> HIDE DEF tests, s, n
  <2>3. Len(tests) = n
    BY <1>1, <2>1, <2>2, SameSize
  <2>4. /\ Len(literals) = Len(tests)
        /\ \A i \in 1..Len(tests) : \A x :
             Contains(tests[i], x) <=> \E k \in literals[i] : atoms[k] = x
    BY Zenon DEF IsFamily, tests
  <2> QED BY <2>1, <2>3, <2>4
<1> HIDE DEF s, n
<1>3. ASSUME NEW i \in 1..n
      PROVE  AllPass(literals[i], fact, binding) <=> OthersAgree(s[i], fact, binding)
  <2> DEFINE c == s[i]
             others == BoundOf(c) \ {JoinKey(c)}
  <2>1. c \in DOMAIN given.candidates
    BY <1>1
  <2> HIDE DEF c
  <2>2. \A x : Contains(Tests(c), x) <=> \E a \in others : x = <<a, VariablesOf(c)[a]>>
    BY <2>1, TestsAre
  <2>3. \A x : Contains(Tests(c), x) <=> \E k \in literals[i] : atoms[k] = x
    BY <1>2 DEF c
  <2>4. ASSUME AllPass(literals[i], fact, binding), NEW a \in others
        PROVE  fact[a] = binding[VariablesOf(c)[a]]
    <3>1. PICK k \in literals[i] : atoms[k] = <<a, VariablesOf(c)[a]>>
      BY <2>2, <2>3
    <3>2. fact[atoms[k][1]] = binding[atoms[k][2]]
      BY <2>4 DEF AllPass, Passes
    <3> QED BY <3>1, <3>2
  <2>5. ASSUME \A a \in others : fact[a] = binding[VariablesOf(c)[a]], NEW k \in literals[i]
        PROVE  Passes(k, fact, binding)
    <3>1. PICK a \in others : atoms[k] = <<a, VariablesOf(c)[a]>>
      BY <2>2, <2>3
    <3> QED BY <2>5, <3>1 DEF Passes
  <2> QED BY <2>4, <2>5, Zenon DEF AllPass, OthersAgree, c
<1>4. LiteralsThatHold(g, fact, binding) =
        {s[i] : i \in {j \in 1..n : AllPass(literals[j], fact, binding)}}
  <2>1. g.literals = s
    BY DEF s
  <2> QED BY <1>2, <2>1, PlanHolds
<1>5. ToSet(g.literals) = {s[i] : i \in 1..n}
  BY <1>1 DEF ToSet, s
<1> QED
  BY <1>3, <1>4, <1>5

-----------------------------------------------------------------------------
(* The groups' plans: the group that is being planned is the first that has no
   plan, and every plan that was kept is exact.                            *)
IsNextToPlan(tg) ==
  NeedsPlan(tg) /\ \A other \in Groups : NeedsPlan(other) => IsBefore(tg, other)

PlanIsRight(tg) == NeedsPlan(tg) \/ IsExactFor(Group(tg))

Working == {"start", "partition", "build", "count"}

PlansInv ==
  /\ literals # <<>> =>
       /\ pc \in {"plan", "use_after_free"}
       /\ \E tg \in Groups : IsNextToPlan(tg) /\ IsFamily(TestsOf(tg))
  /\ \A tg \in Groups : PlanIsRight(tg)
  /\ pc \in Working => \A tg \in Groups : ~NeedsPlan(tg)

AreJoinGroups == \A tg \in Groups : Group(tg) \in JoinGroup

(* The groups of the tables have the type of join groups. *)
LEMMA GroupsAre == TablesInv => AreJoinGroups
BY GroupIs DEF AreJoinGroups

(* There is one group whose plan is the next to be made. *)
LEMMA FirstIsUnique ==
  ASSUME TablesInv, NEW tg \in Groups, NEW other \in Groups,
         IsBefore(tg, other), IsBefore(other, tg)
  PROVE  tg = other
<1>1. /\ tg = <<tg[1], tg[2]>> /\ other = <<other[1], other[2]>>
      /\ tg[1] \in Nat /\ tg[2] \in Nat /\ other[1] \in Nat /\ other[2] \in Nat
  BY GroupIs
<1>2. tg[1] = other[1] /\ tg[2] = other[2]
  BY <1>1 DEF IsBefore
<1> QED
  BY <1>1, <1>2

(* Whether a plan is exact is said of the group and the input alone. *)
LEMMA ExactStays ==
  ASSUME UNCHANGED given
  PROVE  \A g : IsExactFor(g)' <=> IsExactFor(g)
<1>1. \A c : JoinKey(c)' = JoinKey(c)
  BY DEF JoinKey
<1>2. \A c : VariablesOf(c)' = VariablesOf(c)
  BY DEF VariablesOf
<1>3. \A c : BoundOf(c)' = BoundOf(c)
  BY <1>2 DEF BoundOf
<1>4. \A c, fact, binding : OthersAgree(c, fact, binding)' <=> OthersAgree(c, fact, binding)
  BY <1>1, <1>2, <1>3 DEF OthersAgree
<1> QED
  BY <1>4 DEF IsExactFor

(* Steps that leave the tables leave the groups and what is said of them. *)
LEMMA GroupsStay ==
  ASSUME UNCHANGED <<given, tables>>
  PROVE  /\ Groups' = Groups
         /\ \A tg : /\ Group(tg)' = Group(tg) /\ (NeedsPlan(tg)' <=> NeedsPlan(tg))
                    /\ TestsOf(tg)' = TestsOf(tg) /\ Facts(tg)' = Facts(tg)
                    /\ LiteralsOf(tg)' = LiteralsOf(tg)
                    /\ (PlanIsRight(tg)' <=> PlanIsRight(tg))
<1>1. Groups' = Groups
  BY DEF Groups
<1>2. \A tg : Group(tg)' = Group(tg) /\ Facts(tg)' = Facts(tg)
  BY DEF Group, Facts
<1>3. \A tg : NeedsPlan(tg)' <=> NeedsPlan(tg)
  BY <1>2 DEF NeedsPlan
<1>4. \A tg : LiteralsOf(tg)' = LiteralsOf(tg)
  BY <1>2 DEF LiteralsOf
<1>5. \A tg : TestsOf(tg)' = TestsOf(tg)
  <2>1. \A c : Tests(c)' = Tests(c)
    BY DEF Tests, JoinKey
  <2> QED BY <1>2, <2>1 DEF TestsOf
<1>6. ASSUME NEW tg
      PROVE  PlanIsRight(tg)' <=> PlanIsRight(tg)
  <2>1. PICK g : g = Group(tg)
    OBVIOUS
  <2>2. Group(tg)' = g
    BY <1>2, <2>1
  <2>3. IsExactFor(g)' <=> IsExactFor(g)
    BY ExactStays
  <2> QED BY <1>3, <2>1, <2>2, <2>3 DEF PlanIsRight
<1> QED
  BY <1>1, <1>2, <1>3, <1>4, <1>5, <1>6, Zenon

(* Steps outside of planning. *)
LEMMA PlansStay ==
  ASSUME PlansInv, UNCHANGED <<given, tables>>, UNCHANGED planVars,
         literals # <<>> => pc' \in {"plan", "use_after_free"},
         pc' \in Working => pc \in Working
  PROVE  PlansInv'
<1>1. /\ Groups' = Groups
      /\ \A tg : /\ (NeedsPlan(tg)' <=> NeedsPlan(tg)) /\ TestsOf(tg)' = TestsOf(tg)
                 /\ (PlanIsRight(tg)' <=> PlanIsRight(tg))
  BY GroupsStay
<1>2. literals' = literals /\ atoms' = atoms
  BY DEF planVars
<1>3. \A tg : IsNextToPlan(tg)' <=> IsNextToPlan(tg)
  BY <1>1 DEF IsNextToPlan
<1>4. ASSUME NEW tg
      PROVE  IsFamily(TestsOf(tg))' <=> IsFamily(TestsOf(tg))
  <2>1. PICK family : family = TestsOf(tg)
    OBVIOUS
  <2>2. TestsOf(tg)' = family
    BY <1>1, <2>1
  <2>3. IsFamily(family)' <=> IsFamily(family)
    BY <1>2 DEF IsFamily
  <2> QED BY <2>1, <2>2, <2>3
<1>5. Working' = Working
  BY DEF Working
<1> QED
  BY <1>1, <1>2, <1>3, <1>4, <1>5 DEF PlansInv

(* The groups of a new variable have no plans yet. *)
LEMMA NextVariableKeepsPlans ==
  ASSUME PlanningInv, PlanningInv', PlansInv, NextVariable
  PROVE  PlansInv'
<1>1. /\ pc = "next" /\ pc' \in {"next", "plan"} /\ UNCHANGED planVars
      /\ tables' = TablesFor(variable + 1)
  BY Zenon DEF NextVariable
<1>2. literals' = <<>>
  BY <1>1 DEF PlansInv, planVars
<1>3. PICK v : v = variable + 1
  OBVIOUS
<1>4. \A t \in 1..Len(TablesFor(v)) : HasNoPlans(TablesFor(v)[t].groups)
  BY TablesAreMade DEF PlanningInv, CountingInv
<1>5. PICK ts : ts = TablesFor(v)
  OBVIOUS
<1>6. tables' = ts
  BY <1>1, <1>3, <1>5
<1>7. ASSUME NEW tg, (tg \in Groups)'
      PROVE  NeedsPlan(tg)'
  <2>1. /\ (tg[1] \in 1..Len(tables))' /\ (tg[2] \in 1..Len(tables[tg[1]].groups))'
    <3>1. (TablesInv /\ tg \in Groups =>
            tg[1] \in 1..Len(tables) /\ tg[2] \in 1..Len(tables[tg[1]].groups))'
      BY GroupIs, PTL
    <3> QED BY <1>7, <3>1 DEF PlanningInv
  <2>2. HasNoPlans(ts[tg[1]].groups)
    BY <1>4, <1>5, <1>6, <2>1
  <2>3. ts[tg[1]].groups[tg[2]].plan = NoPlan
    BY <1>6, <2>1, <2>2 DEF HasNoPlans
  <2>4. Group(tg)' = ts[tg[1]].groups[tg[2]]
    BY <1>6 DEF Group
  <2>5. NoPlan' = NoPlan
    BY DEF NoPlan
  <2> QED BY <2>3, <2>4, <2>5 DEF NeedsPlan
<1>8. \A tg \in Groups' : PlanIsRight(tg)'
  BY <1>7 DEF PlanIsRight
<1>9. pc' \notin Working'
  BY <1>1 DEF Working
<1> QED
  BY <1>2, <1>8, <1>9 DEF PlansInv

(* Planning begins with the tests of the first group without a plan. *)
LEMMA GenerateKeepsPlans ==
  ASSUME PlanningInv, PlansInv, GeneratePlan
  PROVE  PlansInv'
<1>1. /\ pc = "plan" /\ pc' = pc /\ UNCHANGED <<given, tables>>
      /\ \E tg \in Groups :
           /\ NeedsPlan(tg) /\ \A other \in Groups : NeedsPlan(other) => IsBefore(tg, other)
           /\ \E tests \in {TestsOf(tg)} : StartPlan(tests)
  BY Zenon DEF GeneratePlan, countVars, callVars, TestsOf
<1>2. PICK tg \in Groups : IsNextToPlan(tg) /\ StartPlan(TestsOf(tg))
  BY <1>1, Zenon DEF IsNextToPlan
<1>3. PICK family : family = TestsOf(tg)
  OBVIOUS
<1>4. family \in Seq(Seq(Test)) /\ StartPlan(family)
  BY <1>2, <1>3, TestsOfGroup DEF PlanningInv, CountingInv, TestsOf
<1>5. IsFamily(family)'
  BY <1>4, FamilyStarts
<1>6. /\ Groups' = Groups
      /\ \A th : /\ (NeedsPlan(th)' <=> NeedsPlan(th)) /\ TestsOf(th)' = TestsOf(th)
                 /\ (PlanIsRight(th)' <=> PlanIsRight(th))
  BY <1>1, GroupsStay
<1>7. IsNextToPlan(tg)'
  BY <1>2, <1>6 DEF IsNextToPlan
<1>8. IsFamily(TestsOf(tg))'
  BY <1>3, <1>5, <1>6
<1>9. \A th \in Groups' : PlanIsRight(th)'
  BY <1>6 DEF PlansInv
<1>10. pc' = "plan" /\ pc' \notin Working'
  BY <1>1 DEF Working
<1>11. \E th \in Groups' : IsNextToPlan(th)' /\ IsFamily(TestsOf(th))'
  BY <1>6, <1>7, <1>8
<1> QED
  BY <1>9, <1>10, <1>11 DEF PlansInv

(* Merging nodes goes on for the same group. *)
LEMMA MergeKeepsPlans ==
  ASSUME PlansInv, MergeNodes
  PROVE  PlansInv'
<1>1. /\ pc = "plan" /\ pc' \in {"plan", "use_after_free"} /\ UNCHANGED <<given, tables>>
      /\ UNCHANGED <<atoms, literals>>
  BY Zenon DEF MergeNodes, callVars, Merge, planVars
<1>2. /\ Groups' = Groups
      /\ \A tg : /\ (NeedsPlan(tg)' <=> NeedsPlan(tg)) /\ TestsOf(tg)' = TestsOf(tg)
                 /\ (PlanIsRight(tg)' <=> PlanIsRight(tg))
  BY <1>1, GroupsStay
<1>3. \A tg : IsNextToPlan(tg)' <=> IsNextToPlan(tg)
  BY <1>2 DEF IsNextToPlan
<1>4. ASSUME NEW tg
      PROVE  IsFamily(TestsOf(tg))' <=> IsFamily(TestsOf(tg))
  <2>1. PICK family : family = TestsOf(tg)
    OBVIOUS
  <2>2. TestsOf(tg)' = family
    BY <1>2, <2>1
  <2>3. IsFamily(family)' <=> IsFamily(family)
    BY <1>1 DEF IsFamily
  <2> QED BY <2>1, <2>2, <2>3
<1>5. pc' \notin Working'
  BY <1>1 DEF Working
<1> QED
  BY <1>1, <1>2, <1>3, <1>4, <1>5 DEF PlansInv

(* The plan that is kept is exact for the group it is kept with, the others stay. *)
LEMMA KeepKeepsPlans ==
  ASSUME PlanningInv, PlansInv, KeepPlan
  PROVE  PlansInv'
<1>1. /\ UNCHANGED <<given, variable>> /\ literals' = <<>> /\ IsPlanned /\ pc = "plan"
      /\ pc' = IF \E th \in Groups : NeedsPlan(th)' THEN "plan" ELSE "start"
  BY Zenon DEF KeepPlan
<1>2. PICK tg \in Groups : /\ IsNextToPlan(tg)
                           /\ tables' = [tables EXCEPT ![tg[1]].groups[tg[2]].plan = Plan]
  BY Zenon DEF KeepPlan, IsNextToPlan
<1>3. CallInv /\ TablesInv /\ PlanInv
  BY DEF PlanningInv, CountingInv
<1>4. PICK p \in EvaluationPlanType : p = Plan
  BY <1>3, PlanNodesAre
<1>5. tables' = [tables EXCEPT ![tg[1]].groups[tg[2]].plan = p]
  BY <1>2, <1>4
<1>6. /\ DOMAIN tables' = DOMAIN tables
      /\ \A t \in DOMAIN tables :
           /\ DOMAIN tables'[t].groups = DOMAIN tables[t].groups
           /\ \A g \in DOMAIN tables[t].groups :
                /\ tables'[t].groups[g].key = tables[t].groups[g].key
                /\ tables'[t].groups[g].literals = tables[t].groups[g].literals
                /\ tables'[t].groups[g].plan =
                     IF tg = <<t, g>> THEN p ELSE tables[t].groups[g].plan
  BY <1>1, <1>3, <1>5, NewPlanKeepsTables
<1>7. Groups' = Groups
  BY <1>6 DEF Groups
<1>8. ASSUME NEW th \in Groups
      PROVE  /\ Group(th)'.key = Group(th).key
             /\ Group(th)'.literals = Group(th).literals
             /\ Group(th)'.plan = IF th = tg THEN p ELSE Group(th).plan
             /\ Group(th)' \in JoinGroup
  <2>0. PICK t \in DOMAIN tables : \E g \in DOMAIN tables[t].groups : th = <<t, g>>
    BY DEF Groups
  <2>1. PICK g \in DOMAIN tables[t].groups : th = <<t, g>>
    BY <2>0
  <2>2. Group(th) = tables[t].groups[g] /\ Group(th)' = tables'[t].groups[g]
    BY <2>1 DEF Group
  <2>3. Group(th)' \in JoinGroup
    <3>1. (TablesInv => AreJoinGroups)'
      BY GroupsAre, PTL
    <3>2. TablesInv'
      BY <1>1, <1>3, <1>5, NewPlanKeepsTables
    <3>3. JoinGroup' = JoinGroup
      BY <1>1, TablesAreAsGiven
    <3> QED BY <1>7, <3>1, <3>2, <3>3 DEF AreJoinGroups
  <2> QED BY <1>6, <2>1, <2>2, <2>3
<1>9. \A th \in Groups : (PlanIsRight(th))'
  <2> TAKE th \in Groups
  <2>1. PICK g : g = Group(th)'
    OBVIOUS
  <2>2. g.literals = Group(th).literals /\ g.plan = IF th = tg THEN p ELSE Group(th).plan
    BY <1>8, <2>1
  <2>3. NoPlan' = NoPlan
    BY DEF NoPlan
  <2>4. NeedsPlan(th)' <=> g.plan = NoPlan
    BY <2>1, <2>3 DEF NeedsPlan
  <2>5. IsExactFor(g)' <=> IsExactFor(g)
    BY <1>1, ExactStays
  <2>6. CASE th = tg
    <3>1. IsFamily(TestsOf(tg))
      <4>1. PICK other \in Groups : IsNextToPlan(other) /\ IsFamily(TestsOf(other))
        BY <1>1 DEF PlansInv, IsPlanned
      <4>2. IsBefore(tg, other) /\ IsBefore(other, tg)
        BY <1>2, <4>1 DEF IsNextToPlan
      <4>3. tg = other
        BY <1>3, <4>2, FirstIsUnique
      <4> QED BY <4>1, <4>3
    <3>2. IsExactFor(g)
      BY <1>1, <1>3, <1>4, <2>2, <2>6, <3>1, PlanIsExactFor
    <3> QED BY <2>1, <2>5, <3>2 DEF PlanIsRight
  <2>7. CASE th # tg
    <3> DEFINE h == Group(th)
    <3>1. h \in JoinGroup /\ g \in JoinGroup
      BY <1>3, <1>8, <2>1, GroupIs
    <3>2. g.key = h.key /\ g.literals = h.literals /\ g.plan = h.plan
      BY <1>8, <2>1, <2>7
    <3>3. g = h
      <4> HIDE DEF h
      <4> QED BY <3>1, <3>2 DEF JoinGroup
    <3>4. NeedsPlan(th) \/ IsExactFor(h)
      BY DEF PlansInv, PlanIsRight
    <3> QED BY <2>1, <2>4, <2>5, <3>3, <3>4 DEF PlanIsRight, NeedsPlan
  <2> QED BY <2>6, <2>7
<1>10. pc' \in Working' => \A th \in Groups' : ~NeedsPlan(th)'
  BY <1>1, <1>7 DEF Working
<1> QED
  BY <1>1, <1>7, <1>9, <1>10 DEF PlansInv

(* Nothing is planned at first. *)
LEMMA PlansInit == BindingInit => PlansInv
<1> SUFFICES ASSUME BindingInit PROVE PlansInv
  OBVIOUS
<1>1. literals = <<>> /\ tables = <<>> /\ pc = "next"
  BY DEF BindingInit, Init, NoPlanning
<1>2. Groups = {}
  BY <1>1 DEF Groups
<1> QED
  BY <1>1, <1>2 DEF PlansInv, Working

(* Every step leaves exact plans exact, and counting starts only when all are there. *)
LEMMA PlansNext ==
  PlanningInv /\ PlanningInv' /\ PlansInv /\ [BindingNext]_<<vars, tableVars>> => PlansInv'
<1> SUFFICES ASSUME PlanningInv, PlanningInv', PlansInv, [BindingNext]_<<vars, tableVars>>
             PROVE  PlansInv'
  OBVIOUS
<1>1. CASE NextVariable
  BY <1>1, NextVariableKeepsPlans
<1>2. CASE GeneratePlan
  BY <1>2, GenerateKeepsPlans
<1>3. CASE MergeNodes
  BY <1>3, MergeKeepsPlans
<1>4. CASE KeepPlan
  BY <1>4, KeepKeepsPlans
<1>5. CASE UNCHANGED vars
  <2>1. UNCHANGED <<given, tables, pc>> /\ UNCHANGED planVars
    BY <1>5 DEF vars, countVars, callVars
  <2> QED BY <2>1, PlansStay DEF PlansInv, Working
<1>6. CASE AllCounted \/ EndPass
  <2>1. /\ UNCHANGED <<given, tables>> /\ UNCHANGED planVars
        /\ pc \in {"next", "count"} /\ (pc' \notin Working \/ pc = "count")
    BY <1>6, Zenon DEF AllCounted, EndPass, callVars, Working
  <2> QED BY <2>1, PlansStay DEF PlansInv, Working
<1>7. CASE \/ StartPass \/ PartitionBindings \/ MakeHashTables \/ InsertRow
           \/ StartCounting \/ MoveToNextJoinGroup \/ TakeChunk
  <2>1. /\ UNCHANGED <<given, tables>> /\ UNCHANGED planVars
        /\ pc \in {"start", "partition", "build", "count"}
    BY <1>7, Zenon DEF StartPass, PartitionBindings, MakeHashTables, InsertRow,
       StartCounting, MoveToNextJoinGroup, TakeChunk, countVars, callVars
  <2> QED BY <2>1, PlansStay DEF PlansInv, Working
<1>8. \/ UNCHANGED vars \/ Next
  BY CountingOrTables
<1> QED
  BY <1>1, <1>2, <1>3, <1>4, <1>5, <1>6, <1>7, <1>8, Zenon DEF Next

-----------------------------------------------------------------------------
-----------------------------------------------------------------------------
(* The hash tables.  What a partition has when all of it is copied. *)
RowsArePartition(p) ==
  /\ p \in Nat
  /\ Histogram(column, p) \in Nat
  /\ Offset(column, p) \in Nat
  /\ Offset(column, p + 1) = Offset(column, p) + Histogram(column, p)
  /\ Offset(column, p) + Histogram(column, p) <= Len(column)
  /\ Histogram(column, p) = Cardinality(RowsAmong(column, p))
  /\ DOMAIN RowsOf(p) = 1..Histogram(column, p)
  /\ \A b \in 1..Histogram(column, p) :
       /\ RowsOf(p)[b] = output[Offset(column, p) + b - 1]
       /\ RowsOf(p)[b] \in DOMAIN column
       /\ PartitionOf(column[RowsOf(p)[b]]) = p
       /\ column[RowsOf(p)[b]] \in Value
       /\ HashInPartition(column[RowsOf(p)[b]]) \in Nat
  /\ \A r \in DOMAIN column : PartitionOf(column[r]) = p =>
       \E b \in 1..Histogram(column, p) : RowsOf(p)[b] = r
  /\ \A b \in 1..Histogram(column, p) : \A d \in 1..Histogram(column, p) :
       RowsOf(p)[b] = RowsOf(p)[d] => b = d

(* Hashes within a partition are numbers. *)
LEMMA HashType ==
  ASSUME NEW v \in Value
  PROVE  HashInPartition(v) \in Nat
<1>1. Hash[v] \in Nat /\ NumPartitions \in Nat \ {0}
  BY RadixAssumption, NumPartitionsType
<1> QED
  BY <1>1 DEF HashInPartition

(* The rows of a partition, position by position. *)
LEMMA PartitionRows ==
  ASSUME PartitionInv, IsPartitioned, NEW p \in Partition
  PROVE  RowsArePartition(p)
<1> DEFINE size == Histogram(column, p)
           base == Offset(column, p)
           mine == RowsAmong(column, p)
           rows == RowsOf(p)
<1>1. /\ column \in Seq(Value) /\ p \in Nat /\ p + 1 \in Nat
      /\ Len(column) \in Nat /\ DOMAIN column = 1..Len(column)
  BY NumPartitionsType DEF PartitionInv, Partition
<1>2. /\ base \in Nat /\ Cardinality(mine) \in Nat
      /\ Offset(column, p + 1) = base + Cardinality(mine)
      /\ Offset(column, p + 1) <= Len(column)
      /\ mine \in SUBSET (1..Len(column))
  BY <1>1, OffsetsAreSums
<1>3. size = Cardinality(mine)
  <2> HIDE DEF mine, base
  <2>1. size = Offset(column, p + 1) - base
    BY DEF Histogram, base
  <2> QED BY <1>2, <2>1
<1>4. DOMAIN rows = 1..size /\ \A b \in 1..size : rows[b] = output[base + b - 1]
  BY DEF RowsOf
<1>5. /\ {rows[k] : k \in DOMAIN rows} = mine
      /\ \A k, l \in DOMAIN rows : k < l => rows[k] < rows[l]
  BY PartitionedIsExact
<1>6. \A r : r \in mine <=> r \in DOMAIN column /\ PartitionOf(column[r]) = p
  BY DEF RowsAmong
<1>7. \A v \in Value : HashInPartition(v) \in Nat
  BY HashType
<1> HIDE DEF rows, mine, base, size
<1>8. \A b \in 1..size : rows[b] \in mine
  BY <1>4, <1>5
<1>9. ASSUME NEW b \in 1..size
      PROVE  /\ rows[b] \in DOMAIN column /\ PartitionOf(column[rows[b]]) = p
             /\ column[rows[b]] \in Value
             /\ HashInPartition(column[rows[b]]) \in Nat
  <2>1. rows[b] \in DOMAIN column /\ PartitionOf(column[rows[b]]) = p
    BY <1>6, <1>8
  <2>2. column[rows[b]] \in Value
    BY <1>1, <2>1, ElementOfSequence
  <2> QED BY <1>7, <2>1, <2>2
<1>10. \A r \in DOMAIN column : PartitionOf(column[r]) = p => \E b \in 1..size : rows[b] = r
  BY <1>4, <1>5, <1>6
<1>11. ASSUME NEW b \in 1..size, NEW d \in 1..size, rows[b] = rows[d]
       PROVE  b = d
  <2>1. b \in Int /\ d \in Int /\ (b = d \/ b < d \/ d < b)
    BY <1>2, <1>3
  <2>2. rows[b] \in Int
    BY <1>1, <1>9
  <2>3. ~(b < d) /\ ~(d < b)
    BY <1>4, <1>5, <1>11, <2>2
  <2> QED BY <2>1, <2>3
<1>12. /\ size \in Nat /\ Offset(column, p + 1) = base + size /\ base + size <= Len(column)
  BY <1>2, <1>3
<1> QED
  BY <1>1, <1>2, <1>3, <1>4, <1>9, <1>10, <1>11, <1>12, Zenon
     DEF RowsArePartition, rows, mine, base, size

-----------------------------------------------------------------------------
(* The table of a partition has the rows that were inserted, each in the chain of
   its value.                                                              *)
IsInChain(t, p, b) == b \in Chain(t, HashInPartition(column[RowsOf(p)[b]]))

HasRows(t, p) ==
  /\ t \in Table(Histogram(column, p)) /\ WellChained(t)
  /\ Entered(t) = {b \in 1..Histogram(column, p) : Offset(column, p) + b - 1 < inserted}
  /\ \A b \in Entered(t) : IsInChain(t, p, b)

AreBuilt ==
  /\ IsPartitioned
  /\ inserted \in 0..Len(column)
  /\ DOMAIN hashTables = Partition
  /\ \A p \in Partition : Histogram(column, p) # 0 => HasRows(hashTables[p], p)

HashInv ==
  /\ pc \in {"partition", "build", "count"} => column = JoinColumn(BindingRows)
  /\ pc \in {"build", "count"} => AreBuilt
  /\ pc = "count" => inserted = Len(column)

(* Steps that leave the partitions and the hash tables leave what is said of them. *)
LEMMA HashStays ==
  ASSUME HashInv, UNCHANGED <<given, variable, pass>>, UNCHANGED partitionVars,
         UNCHANGED <<hashTables, inserted>>,
         pc' \in {"partition", "build", "count"} => pc' = pc
  PROVE  HashInv'
<1>1. column' = column /\ output' = output /\ routed' = routed /\ emptied' = emptied
  BY DEF partitionVars
<1>2. JoinColumn(BindingRows)' = JoinColumn(BindingRows)
  BY DEF JoinColumn, BindingRows, RowsOfPass
<1>3. \A p : RowsOf(p)' = RowsOf(p)
  BY <1>1 DEF RowsOf
<1>4. \A t, p, b : IsInChain(t, p, b)' <=> IsInChain(t, p, b)
  BY <1>1, <1>3 DEF IsInChain
<1>5. \A t, p : HasRows(t, p)' <=> HasRows(t, p)
  BY <1>1, <1>4 DEF HasRows
<1>6. AreBuilt' <=> AreBuilt
  BY <1>1, <1>5 DEF AreBuilt, IsPartitioned
<1> QED
  BY <1>1, <1>2, <1>6 DEF HashInv

(* New hash tables have no rows. *)
LEMMA TablesAreNew ==
  ASSUME PartitionInv, HashInv, MakeHashTables
  PROVE  HashInv'
<1>1. /\ pc = "partition" /\ IsPartitioned /\ pc' = "build" /\ inserted' = 0
      /\ UNCHANGED partitionVars /\ UNCHANGED <<given, variable, pass>>
      /\ hashTables' = [p \in Partition |->
            IF Histogram(column, p) = 0 THEN NoTable ELSE NewTable(Histogram(column, p))]
  BY Zenon DEF MakeHashTables, callVars
<1>2. column' = column /\ output' = output /\ routed' = routed /\ emptied' = emptied
  BY <1>1 DEF partitionVars
<1>3. JoinColumn(BindingRows)' = JoinColumn(BindingRows)
  BY <1>1 DEF JoinColumn, BindingRows, RowsOfPass
<1>4. ASSUME NEW p \in Partition, Histogram(column, p) # 0
      PROVE  HasRows(NewTable(Histogram(column, p)), p)'
  <2>1. PICK n : n = Histogram(column, p)
    OBVIOUS
  <2>2. /\ n \in Nat /\ Offset(column, p) \in Nat
    BY <1>1, <2>1, PartitionRows DEF RowsArePartition
  <2>3. NewTable(n) \in Table(n) /\ WellChained(NewTable(n)) /\ Entered(NewTable(n)) = {}
    BY <2>2, NewTableIsEmpty
  <2>4. {b \in 1..n : Offset(column, p) + b - 1 < 0} = {}
    <3> DEFINE base == Offset(column, p)
    <3>1. base \in Nat
      BY <2>2
    <3> HIDE DEF base
    <3>2. \A b \in 1..n : ~(base + b - 1 < 0)
      BY <2>2, <3>1
    <3> QED BY <3>2, Zenon DEF base
  <2>5. HasRows(NewTable(n), p)'
    BY <1>1, <1>2, <2>1, <2>3, <2>4 DEF HasRows
  <2>6. Histogram(column, p)' = n
    BY <1>2, <2>1 DEF Histogram
  <2> QED BY <2>1, <2>5, <2>6
<1>5. DOMAIN hashTables' = Partition
  BY <1>1
<1>6. ASSUME NEW p \in Partition, Histogram(column, p)' # 0
      PROVE  HasRows(hashTables[p], p)'
  <2>1. PICK n : n = Histogram(column, p)
    OBVIOUS
  <2>2. Histogram(column, p)' = n
    BY <1>2, <2>1 DEF Histogram
  <2>3. hashTables'[p] = NewTable(n)
    BY <1>1, <1>6, <2>1, <2>2
  <2>4. HasRows(NewTable(n), p)'
    BY <1>4, <1>6, <2>1, <2>2
  <2> QED BY <2>3, <2>4
<1>7. IsPartitioned' /\ (0 \in 0..Len(column))'
  <2>1. Len(column) \in Nat
    BY DEF PartitionInv
  <2> QED BY <1>1, <1>2, <2>1 DEF IsPartitioned
<1>8. AreBuilt'
  BY <1>1, <1>5, <1>6, <1>7 DEF AreBuilt
<1> QED
  BY <1>1, <1>2, <1>3, <1>8 DEF HashInv

(* A row is inserted in the table of its partition, in the chain of its hash. *)
LEMMA InsertKeepsTables ==
  ASSUME PartitionInv, HashInv, InsertRow
  PROVE  HashInv'
<1>1. /\ pc = "build" /\ inserted < Len(column) /\ pc' = pc /\ inserted' = inserted + 1
      /\ UNCHANGED partitionVars /\ UNCHANGED <<given, variable, pass>>
      /\ \E p \in Partition :
           /\ inserted \in Offset(column, p)..Offset(column, p + 1) - 1
           /\ hashTables' = [hashTables EXCEPT ![p] =
                Push(@, inserted - Offset(column, p) + 1, HashInPartition(column[output[inserted]]))]
  BY Zenon DEF InsertRow, callVars
<1>2. PICK p \in Partition :
        /\ inserted \in Offset(column, p)..Offset(column, p + 1) - 1
        /\ hashTables' = [hashTables EXCEPT ![p] =
             Push(hashTables[p], inserted - Offset(column, p) + 1,
                  HashInPartition(column[output[inserted]]))]
  BY <1>1
<1>3. AreBuilt /\ column = JoinColumn(BindingRows)
  BY <1>1 DEF HashInv
<1>4. column' = column /\ output' = output /\ routed' = routed /\ emptied' = emptied
  BY <1>1 DEF partitionVars
<1>5. JoinColumn(BindingRows)' = JoinColumn(BindingRows)
  BY <1>1 DEF JoinColumn, BindingRows, RowsOfPass
<1>6. RowsArePartition(p)
  BY <1>3, PartitionRows DEF AreBuilt
<1> DEFINE n == Histogram(column, p)
           base == Offset(column, p)
           new == inserted - base + 1
           t == hashTables[p]
           h == HashInPartition(column[RowsOf(p)[new]])
           u == Push(t, new, h)
<1>7. /\ n \in Nat /\ base \in Nat /\ inserted \in Nat /\ new \in 1..n /\ n # 0
      /\ base + new - 1 = inserted
  <2>1. n \in Nat /\ base \in Nat /\ Offset(column, p + 1) = base + n
    BY <1>6 DEF RowsArePartition
  <2> HIDE DEF n, base
  <2>2. inserted \in base .. base + n - 1
    BY <1>2, <2>1 DEF base
  <2> QED BY <2>1, <2>2
<1>8. RowsOf(p)[new] = output[inserted] /\ h \in Nat
  <2> HIDE DEF n, base, new
  <2>1. RowsOf(p)[new] = output[base + new - 1] /\ HashInPartition(column[RowsOf(p)[new]]) \in Nat
    BY <1>6, <1>7 DEF RowsArePartition, n, base
  <2> QED BY <1>7, <2>1
<1>9. HasRows(t, p)
  BY <1>3, <1>7 DEF AreBuilt
<1>10. /\ t \in Table(n) /\ WellChained(t)
       /\ Entered(t) = {b \in 1..n : base + b - 1 < inserted}
       /\ \A b \in Entered(t) : IsInChain(t, p, b)
  BY <1>9 DEF HasRows
<1>11. hashTables' = [hashTables EXCEPT ![p] = u] /\ DOMAIN hashTables = Partition
  BY <1>2, <1>3, <1>8 DEF AreBuilt
<1>12. new \notin Entered(t)
  <2> HIDE DEF new, base, n, t
  <2> QED BY <1>7, <1>10
<1>13. /\ u \in Table(n) /\ WellChained(u) /\ Entered(u) = Entered(t) \cup {new}
       /\ new \in Chain(u, h)
  <2> HIDE DEF new, base, n, t, h
  <2>1. new \notin Chain(t, h)
    BY <1>7, <1>8, <1>10, <1>12, ChainsAreEntered
  <2> QED BY <1>7, <1>8, <1>10, <2>1, PushKeepsChains
<1>14. \A w \in Nat : Chain(t, w) \subseteq Chain(u, w)
  <2> HIDE DEF new, base, n, t, h
  <2> QED BY <1>7, <1>8, <1>10, <1>12, PushKeepsRows
<1>15. \A b \in Entered(u) : IsInChain(u, p, b)
  <2> TAKE b \in Entered(u)
  <2>1. CASE b = new
    BY <1>13, <2>1 DEF IsInChain
  <2>2. CASE b \in Entered(t)
    <3>1. b \in 1..n
      <4> HIDE DEF n, t
      <4> QED BY <1>10, <2>2
    <3>2. HashInPartition(column[RowsOf(p)[b]]) \in Nat
      BY <1>6, <3>1 DEF RowsArePartition
    <3>3. b \in Chain(t, HashInPartition(column[RowsOf(p)[b]]))
      BY <1>10, <2>2 DEF IsInChain
    <3> HIDE DEF u, t
    <3> QED BY <1>14, <3>2, <3>3 DEF IsInChain
  <2> HIDE DEF u, new, t
  <2> QED BY <1>13, <2>1, <2>2
<1>16. Entered(u) = {b \in 1..n : base + b - 1 < inserted + 1}
  <2> HIDE DEF u, new, t, n, base
  <2> QED BY <1>7, <1>10, <1>13
<1>17. /\ \A q : RowsOf(q)' = RowsOf(q) /\ Histogram(column, q)' = Histogram(column, q)
                 /\ Offset(column, q)' = Offset(column, q)
       /\ \A s, q, b : IsInChain(s, q, b)' <=> IsInChain(s, q, b)
  <2>1. \A q : RowsOf(q)' = RowsOf(q) /\ Histogram(column, q)' = Histogram(column, q)
                 /\ Offset(column, q)' = Offset(column, q)
    BY <1>4 DEF RowsOf, Histogram, Offset, RowsBelow
  <2> QED BY <1>4, <2>1 DEF IsInChain
<1>18. ASSUME NEW q \in Partition, (Histogram(column, q) # 0)'
       PROVE  HasRows(hashTables[q], q)'
  <2>1. CASE q = p
    <3>1. hashTables'[q] = u
      BY <1>11, <2>1
    <3> HIDE DEF u
    <3>2. PICK w : w = u
      OBVIOUS
    <3>3. /\ w \in Table(n) /\ WellChained(w)
          /\ Entered(w) = {b \in 1..n : base + b - 1 < inserted + 1}
          /\ \A b \in Entered(w) : IsInChain(w, p, b)
      BY <1>13, <1>15, <1>16, <3>2
    <3>4. HasRows(w, p)'
      BY <1>1, <1>17, <3>3 DEF HasRows, n, base
    <3> QED BY <2>1, <3>1, <3>2, <3>4
  <2>2. CASE q # p
    <3>1. hashTables'[q] = hashTables[q] /\ HasRows(hashTables[q], q)
      BY <1>3, <1>11, <1>17, <1>18, <2>2 DEF AreBuilt
    <3>2. PICK s : s = hashTables[q]
      OBVIOUS
    <3> DEFINE m == Histogram(column, q)
               other == Offset(column, q)
    <3>3. RowsArePartition(q)
      BY <1>3, PartitionRows DEF AreBuilt
    <3>4. m \in Nat /\ other \in Nat /\ q \in Nat
      BY <3>3 DEF RowsArePartition
    <3>5. inserted \notin other .. other + m - 1
      <4>1. /\ p \in Nat /\ n = Cardinality(RowsAmong(column, p))
            /\ m = Cardinality(RowsAmong(column, q))
        BY <1>6, <3>3 DEF RowsArePartition
      <4>2. inserted \in Int /\ inserted \in base .. base + n - 1
        <5> HIDE DEF n, base, new
        <5> QED BY <1>7
      <4>3. column \in Seq(Value)
        BY DEF PartitionInv
      <4>4. inserted \in Offset(column, p) .. Offset(column, p) + Cardinality(RowsAmong(column, p)) - 1
        BY <4>1, <4>2
      <4>5. inserted \notin Offset(column, q) .. Offset(column, q) + Cardinality(RowsAmong(column, q)) - 1
        BY <2>2, <3>4, <4>1, <4>2, <4>3, <4>4, RoomIsDistinct
      <4> QED BY <4>1, <4>5
    <3>6. {b \in 1..m : other + b - 1 < inserted} = {b \in 1..m : other + b - 1 < inserted + 1}
      <4> HIDE DEF m, other, new
      <4>1. \A b \in 1..m : other + b - 1 < inserted <=> other + b - 1 < inserted + 1
        BY <1>7, <3>4, <3>5
      <4> QED BY <4>1
    <3>7. HasRows(s, q)
      BY <3>1, <3>2
    <3>8. /\ s \in Table(m) /\ WellChained(s)
          /\ Entered(s) = {b \in 1..m : other + b - 1 < inserted + 1}
          /\ \A b \in Entered(s) : IsInChain(s, q, b)
      BY <3>6, <3>7 DEF HasRows
    <3>9. HasRows(s, q)'
      BY <1>1, <1>17, <3>8 DEF HasRows
    <3> QED BY <3>1, <3>2, <3>9
  <2> QED BY <2>1, <2>2
<1>19. AreBuilt'
  <2>1. IsPartitioned' /\ DOMAIN hashTables' = Partition
    BY <1>3, <1>4, <1>11 DEF AreBuilt, IsPartitioned
  <2>2. inserted' \in 0..Len(column')
    <3>1. Len(column) \in Nat
      BY DEF PartitionInv
    <3> HIDE DEF n, base, new
    <3> QED BY <1>1, <1>4, <1>7, <3>1
  <2> QED BY <1>18, <2>1, <2>2 DEF AreBuilt
<1> QED
  BY <1>1, <1>3, <1>4, <1>5, <1>19 DEF HashInv

(* No hash tables at first. *)
LEMMA HashInit == BindingInit => HashInv
BY DEF BindingInit, Init, HashInv

(* The partitions are as they must be while they are made and after. *)
LEMMA PartitionInvHolds ==
  ASSUME CountingInv, pc = "partition" \/ IsPartitioned
  PROVE  PartitionInv
<1>1. IsPartitioned => emptied > 0
  BY NumPartitionsType DEF IsPartitioned
<1> QED
  BY <1>1 DEF CountingInv

(* Every step leaves the hash tables with the rows that were inserted. *)
LEMMA HashNext == CountingInv /\ HashInv /\ [BindingNext]_<<vars, tableVars>> => HashInv'
<1> SUFFICES ASSUME CountingInv, HashInv, [BindingNext]_<<vars, tableVars>>
             PROVE  HashInv'
  OBVIOUS
<1>1. CASE UNCHANGED vars
  <2>1. /\ UNCHANGED <<given, variable, pass>> /\ UNCHANGED partitionVars
        /\ UNCHANGED <<hashTables, inserted, pc>>
    BY <1>1 DEF vars, countVars, callVars
  <2> QED BY <2>1, HashStays
<1>2. CASE NextVariable \/ AllCounted \/ GeneratePlan \/ MergeNodes \/ KeepPlan \/ EndPass
  <2>1. pc' \in {"next", "plan", "done", "use_after_free", "start", "null_dereference"}
    BY <1>2, Zenon DEF NextVariable, AllCounted, GeneratePlan, MergeNodes, KeepPlan, EndPass,
       countVars
  <2>2. pc' \notin {"partition", "build", "count"}
    BY <2>1
  <2> QED BY <2>2 DEF HashInv
<1>3. CASE StartPass
  <2>1. /\ pc' = "partition" /\ column' = JoinColumn(BindingRows)
        /\ UNCHANGED <<given, variable, pass>>
    BY <1>3, Zenon DEF StartPass, StartPartition, callVars
  <2>2. JoinColumn(BindingRows)' = JoinColumn(BindingRows)
    BY <2>1 DEF JoinColumn, BindingRows, RowsOfPass
  <2> QED BY <2>1, <2>2 DEF HashInv
<1>4. CASE PartitionBindings
  <2>1. /\ pc = "partition" /\ pc' = "partition" /\ column' = column
        /\ UNCHANGED <<given, variable, pass>>
    BY <1>4, Zenon DEF PartitionBindings, PartitionStep, RouteRow, CopyRest, countVars, callVars
  <2>2. JoinColumn(BindingRows)' = JoinColumn(BindingRows)
    BY <2>1 DEF JoinColumn, BindingRows, RowsOfPass
  <2> QED BY <2>1, <2>2 DEF HashInv
<1>5. CASE MakeHashTables
  <2>1. pc = "partition"
    BY <1>5, Zenon DEF MakeHashTables
  <2> QED BY <1>5, <2>1, PartitionInvHolds, TablesAreNew
<1>6. CASE InsertRow
  <2>1. pc = "build"
    BY <1>6, Zenon DEF InsertRow
  <2>2. PartitionInv
    BY <2>1, PartitionInvHolds DEF HashInv, AreBuilt
  <2> QED BY <1>6, <2>2, InsertKeepsTables
<1>7. CASE StartCounting
  <2>1. /\ pc = "build" /\ inserted = Len(column) /\ pc' = "count"
        /\ UNCHANGED <<given, variable, pass>> /\ UNCHANGED partitionVars
        /\ UNCHANGED <<hashTables, inserted>>
    BY <1>7, Zenon DEF StartCounting, callVars
  <2>2. column' = column /\ output' = output /\ routed' = routed /\ emptied' = emptied
    BY <2>1 DEF partitionVars
  <2>3. JoinColumn(BindingRows)' = JoinColumn(BindingRows)
    BY <2>1 DEF JoinColumn, BindingRows, RowsOfPass
  <2>4. \A p : RowsOf(p)' = RowsOf(p)
    BY <2>2 DEF RowsOf
  <2>5. \A t, p, b : IsInChain(t, p, b)' <=> IsInChain(t, p, b)
    BY <2>2, <2>4 DEF IsInChain
  <2>6. \A t, p : HasRows(t, p)' <=> HasRows(t, p)
    BY <2>1, <2>2, <2>5 DEF HasRows
  <2>7. AreBuilt' <=> AreBuilt
    BY <2>1, <2>2, <2>6 DEF AreBuilt, IsPartitioned
  <2> QED BY <2>1, <2>2, <2>3, <2>7 DEF HashInv
<1>8. CASE MoveToNextJoinGroup \/ TakeChunk
  <2>1. /\ UNCHANGED <<given, variable, pass>> /\ UNCHANGED partitionVars
        /\ UNCHANGED <<hashTables, inserted, pc>>
    BY <1>8, Zenon DEF MoveToNextJoinGroup, TakeChunk, callVars
  <2> QED BY <2>1, HashStays
<1>9. \/ UNCHANGED vars \/ Next
  BY CountingOrTables
<1> QED
  BY <1>1, <1>2, <1>3, <1>4, <1>5, <1>6, <1>7, <1>8, <1>9, Zenon DEF Next


(* When all rows are inserted a lookup finds all rows of the partition with the value. *)
LEMMA ChainHasRows ==
  ASSUME PartitionInv, AreBuilt, inserted = Len(column), NEW p \in Partition,
         Histogram(column, p) # 0, NEW v \in Value
  PROVE  {b \in Chain(hashTables[p], HashInPartition(v)) : column[RowsOf(p)[b]] = v}
           = {b \in 1..Histogram(column, p) : column[RowsOf(p)[b]] = v}
<1> DEFINE n == Histogram(column, p)
           base == Offset(column, p)
           t == hashTables[p]
<1>1. RowsArePartition(p)
  BY PartitionRows DEF AreBuilt
<1>2. n \in Nat /\ base \in Nat /\ base + n <= Len(column)
  BY <1>1 DEF RowsArePartition
<1>3. HasRows(t, p)
  BY DEF AreBuilt
<1>4. /\ t \in Table(n) /\ WellChained(t)
      /\ Entered(t) = {b \in 1..n : base + b - 1 < inserted}
      /\ \A b \in Entered(t) : IsInChain(t, p, b)
  BY <1>3 DEF HasRows
<1> HIDE DEF n, base, t
<1>5. Entered(t) = 1..n
  <2>1. Len(column) \in Nat
    BY DEF PartitionInv
  <2>2. \A b \in 1..n : base + b - 1 < inserted
    BY <1>2, <2>1
  <2> QED BY <1>4, <2>2
<1>6. Chain(t, HashInPartition(v)) \subseteq 1..n
  <2>1. HashInPartition(v) \in Nat
    BY HashType
  <2> QED BY <1>2, <1>4, <1>5, <2>1, ChainsAreEntered
<1>7. \A b \in 1..n : column[RowsOf(p)[b]] = v => b \in Chain(t, HashInPartition(v))
  BY <1>4, <1>5 DEF IsInChain
<1> QED
  BY <1>6, <1>7 DEF n, t

-----------------------------------------------------------------------------
(* A plan that is kept with a group finds, for every fact and every binding,
   exactly the literals of the group whose other bound arguments agree: it is
   the plan of this group and no other, though one planner makes them all in
   turn.                                                                   *)
KeptPlansAreExact == \A tg \in Groups : NeedsPlan(tg) \/ IsExactFor(Group(tg))

(* The plan of each group is made from its candidates' tests. *)
THEOREM KeptPlansCorrect == BindingSpec => []KeptPlansAreExact
<1>1. PlansInv => KeptPlansAreExact
  BY DEF PlansInv, PlanIsRight, KeptPlansAreExact
<1> QED
  BY <1>1, PlanningInit, PlanningNext, PlansInit, PlansNext, PTL DEF BindingSpec

(* While the assigner counts, a lookup of a value in the hash table of a
   partition finds exactly the rows of the partition with that value, whatever
   rows share their buckets.                                               *)
LookupsAreExact ==
  pc = "count" =>
    \A p \in Partition, v \in Value : Histogram(column, p) # 0 =>
      {b \in Chain(hashTables[p], HashInPartition(v)) : column[RowsOf(p)[b]] = v}
        = {b \in 1..Histogram(column, p) : column[RowsOf(p)[b]] = v}

(* The tables that are walked are those of the rows that are counted. *)
THEOREM LookupsCorrect == BindingSpec => []LookupsAreExact
<1>1. CountingInv /\ HashInv => LookupsAreExact
  <2> SUFFICES ASSUME CountingInv, HashInv, pc = "count",
                      NEW p \in Partition, NEW v \in Value, Histogram(column, p) # 0
               PROVE  {b \in Chain(hashTables[p], HashInPartition(v)) : column[RowsOf(p)[b]] = v}
                        = {b \in 1..Histogram(column, p) : column[RowsOf(p)[b]] = v}
    BY DEF LookupsAreExact
  <2>1. AreBuilt /\ inserted = Len(column)
    BY DEF HashInv
  <2>2. PartitionInv
    BY <2>1, PartitionInvHolds DEF AreBuilt
  <2> QED BY <2>1, <2>2, ChainHasRows
<1> QED
  BY <1>1, CountingInit, CountingNext, HashInit, HashNext, PTL DEF BindingSpec
=============================================================================
