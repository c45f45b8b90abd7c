---------------------------- MODULE CountsProofs ----------------------------
(***************************************************************************)
(* The counts of the candidate literals are exact, and so is the binding   *)
(* table for which they make room: for every input, hash, number of        *)
(* partitions, size of a chunk and size of a block.                        *)
(*                                                                         *)
(* A fact and a binding are a pair when they agree with the literal.  The  *)
(* invariant: at every position of the assigner the counts of a literal    *)
(* are those of its pairs with the facts the assigner has come past, and   *)
(* the semi bit vectors hold the positions of this partition that are in   *)
(* a pair.  A chunk adds its pairs, for the join of a partition finds all  *)
(* of them: the facts and bindings with one value are in one partition.    *)
(*                                                                         *)
(* A binding table is written block by block.  The invariant: the rows of  *)
(* a side are those of the pairs whose row in the probe table has been     *)
(* passed, each in a slot of its own; the exact counts are the numbers of  *)
(* all pairs, so that no row lies behind its side's room.                  *)
(***************************************************************************)
EXTENDS LiteralCountingProofs

(* The facts of a group and the group's literals. *)
KeyValue(tg, f) == Facts(tg)[f][Group(tg).key]

FactsAreFrom(tg) ==
  /\ Len(Facts(tg)) \in Nat
  /\ DOMAIN Facts(tg) = 1..Len(Facts(tg))
  /\ \A f \in DOMAIN Facts(tg) :
       /\ KeyValue(tg, f) \in Value
       /\ HashInPartition(KeyValue(tg, f)) \in Nat
       /\ PartitionOf(KeyValue(tg, f)) \in Partition
       /\ PartitionOf(KeyValue(tg, f)) \in Nat
  /\ \A c \in LiteralsOf(tg) :
       /\ c \in DOMAIN given.candidates
       /\ FactsOf(c) = Facts(tg)
       /\ JoinKey(c) = Group(tg).key
       /\ VariablesOf(c)[Group(tg).key] = variable
       /\ Group(tg).key \in BoundOf(c)

(* The rows of a relation have a value for each argument. *)
LEMMA RowsOfRelation ==
  ASSUME CallInv, NEW r \in DOMAIN given.relations
  PROVE  given.relations[r].rows \in Seq([DOMAIN given.relations[r].types -> Value])
<1>1. given \in Input
  BY DEF CallInv
<1> QED
  BY <1>1, InputAssumption, Zenon

(* The facts of a group, and what its literals have in common. *)
LEMMA FactsOfGroup ==
  ASSUME CallInv, TablesInv, NEW tg \in Groups
  PROVE  FactsAreFrom(tg)
<1> DEFINE r == RelationAt(tg[1])
           s == Group(tg).literals
           rows == given.relations[r].rows
           types == given.relations[r].types
           key == Group(tg).key
<1>1. /\ tg[1] \in 1..Len(tables)
      /\ IsTableOf(tables[tg[1]], variable, r)
  BY GroupIs
<1>2. Facts(tg) = rows
  BY <1>1, Zenon DEF Facts, IsTableOf
<1>3. /\ LiteralsOf(tg) = {c \in CandidatesOf(variable, r) : JoinKey(c) = key}
      /\ LiteralsOf(tg) # {}
  BY LiteralsOfGroup
<1>4. ASSUME NEW c \in LiteralsOf(tg)
      PROVE  /\ c \in DOMAIN given.candidates /\ JoinKey(c) = key /\ RelationOf(c) = r
             /\ key \in BoundOf(c) /\ ClauseVariable(c) = variable
             /\ r \in DOMAIN given.relations /\ key \in DOMAIN types
  <2>1. c \in CandidatesOf(variable, r) /\ JoinKey(c) = key
    BY <1>3
  <2>2. c \in DOMAIN given.candidates /\ RelationOf(c) = r /\ ClauseVariable(c) = variable
    BY <2>1 DEF CandidatesOf, RelationOf
  <2>3. key \in BoundOf(c)
    BY <2>1, <2>2, JoinKeyIsBound
  <2>4. DOMAIN VariablesOf(c) = DOMAIN TypesOf(c) /\ RelationOf(c) \in DOMAIN given.relations
    BY <2>2, CandidateIs
  <2> QED BY <2>1, <2>2, <2>3, <2>4 DEF BoundOf, TypesOf
<1>5. rows \in Seq([DOMAIN types -> Value]) /\ key \in DOMAIN types
  BY <1>3, <1>4, RowsOfRelation
<1>6. Len(rows) \in Nat /\ DOMAIN rows = 1..Len(rows)
  <2> HIDE DEF rows, types
  <2> QED BY <1>5
<1>7. ASSUME NEW f \in DOMAIN rows
      PROVE  rows[f][key] \in Value
  <2>1. rows[f] \in [DOMAIN types -> Value]
    <3> HIDE DEF rows, types
    <3> QED BY <1>5, ElementOfSequence
  <2> QED BY <1>5, <2>1
<1>8. \A v \in Value : HashInPartition(v) \in Nat /\ PartitionOf(v) \in Partition /\ PartitionOf(v) \in Nat
  BY HashType, PartitionType
<1>9. ASSUME NEW c \in LiteralsOf(tg)
      PROVE  FactsOf(c) = Facts(tg) /\ VariablesOf(c)[key] = variable
  BY <1>2, <1>4 DEF FactsOf, RelationOf, ClauseVariable, VariablesOf
<1> HIDE DEF r, s, rows, types, key
<1>10. \A f \in DOMAIN Facts(tg) : KeyValue(tg, f) \in Value
  BY <1>2, <1>7 DEF KeyValue, key
<1> QED
  BY <1>2, <1>4, <1>6, <1>8, <1>9, <1>10 DEF FactsAreFrom, key

(* The relations with candidates for a variable can be counted off. *)
LEMMA RelationsAre ==
  ASSUME CallInv, NEW v
  PROVE  RelationsOf(v) \in SUBSET Int /\ IsFiniteSet(RelationsOf(v))
<1> DEFINE n == Len(given.relations)
           Relations == [rows : Seq(Seq(Value)), types : Seq(Nat)]
<1>1. given.relations \in Seq(Relations)
  BY InputIs, Zenon
<1>2. n \in Nat /\ DOMAIN given.relations = 1..n /\ 1 \in Int /\ n \in Int
  <2> HIDE DEF Relations
  <2> QED BY <1>1
<1>3. RelationsOf(v) \in SUBSET (1..n)
  BY <1>2 DEF RelationsOf
<1> HIDE DEF n
<1>4. IsFiniteSet(1..n)
  BY <1>2, FS_Interval, Zenon
<1>5. RelationsOf(v) \in SUBSET Int
  BY <1>2, <1>3
<1> QED
  BY <1>3, <1>4, <1>5, FS_Subset

(* Every candidate of the variable is in one group. *)
LEMMA GroupsAreDisjoint ==
  ASSUME CallInv, TablesInv, NEW tg \in Groups, NEW th \in Groups,
         NEW c \in LiteralsOf(tg), c \in LiteralsOf(th)
  PROVE  tg = th
<1> DEFINE R == RelationsOf(variable)
<1>1. /\ c \in CandidatesOf(variable, RelationAt(tg[1])) /\ JoinKey(c) = Group(tg).key
      /\ c \in CandidatesOf(variable, RelationAt(th[1])) /\ JoinKey(c) = Group(th).key
  BY LiteralsOfGroup
<1>2. RelationAt(tg[1]) = RelationAt(th[1]) /\ Group(tg).key = Group(th).key
  BY <1>1 DEF CandidatesOf
<1>3. /\ tg[1] \in 1..Len(tables) /\ th[1] \in 1..Len(tables)
      /\ tg[2] \in 1..Len(tables[tg[1]].groups) /\ th[2] \in 1..Len(tables[th[1]].groups)
      /\ tg = <<tg[1], tg[2]>> /\ th = <<th[1], th[2]>> /\ variable # 0
      /\ IsTableOf(tables[tg[1]], variable, RelationAt(tg[1]))
  BY GroupIs
<1>4. Len(tables) = Cardinality(R) /\ R \in SUBSET Int /\ IsFiniteSet(R)
  <2>1. Len(tables) = Cardinality(R)
    BY <1>3 DEF TablesInv
  <2> QED BY <2>1, RelationsAre
<1>5. tg[1] = th[1]
  <2>1. RelationAt(tg[1]) = Nth(R, tg[1]) /\ RelationAt(th[1]) = Nth(R, th[1])
    BY DEF RelationAt
  <2>2. Rank(R, Nth(R, tg[1])) = tg[1] /\ Rank(R, Nth(R, th[1])) = th[1]
    <3> HIDE DEF R
    <3> QED BY <1>3, <1>4, NthIsRanked
  <2> QED BY <1>2, <2>1, <2>2
<1>6. \A g, h \in 1..Len(tables[tg[1]].groups) :
        tables[tg[1]].groups[g].key = tables[tg[1]].groups[h].key => g = h
  BY <1>3, Zenon DEF IsTableOf, HasGroups
<1>7. tg[2] = th[2]
  BY <1>2, <1>3, <1>5, <1>6 DEF Group
<1> QED
  BY <1>3, <1>5, <1>7

(* A candidate of the variable is in a group. *)
LEMMA GroupOfCandidate ==
  ASSUME CallInv, TablesInv, variable # 0,
         NEW c \in DOMAIN given.candidates, ClauseVariable(c) = variable
  PROVE  \E tg \in Groups : c \in LiteralsOf(tg)
<1> DEFINE R == RelationsOf(variable)
           r == RelationOf(c)
           t == Rank(R, r)
<1>1. c \in CandidatesOf(variable, r) /\ r \in R
  <2>1. r \in DOMAIN given.relations
    BY CandidateIs
  <2>2. c \in CandidatesOf(variable, r)
    BY DEF CandidatesOf, RelationOf
  <2> QED BY <2>1, <2>2 DEF RelationsOf
<1>2. /\ tables \in Seq(BackgroundTable) /\ Len(tables) = Cardinality(R)
      /\ \A u \in 1..Len(tables) : IsTableOf(tables[u], variable, RelationAt(u))
  BY DEF TablesInv
<1>3. R \in SUBSET Int /\ IsFiniteSet(R)
  BY RelationsAre
<1>4. t \in 1..Len(tables) /\ RelationAt(t) = r
  <2>1. t \in 1..Cardinality(R) /\ Nth(R, t) = r
    <3> HIDE DEF R, r
    <3> QED BY <1>1, <1>3, RankBounds, NthOfRank
  <2> QED BY <1>2, <2>1 DEF RelationAt
<1> HIDE DEF t
<1>5. IsTableOf(tables[t], variable, r)
  BY <1>2, <1>4
<1>6. PICK g \in 1..Len(tables[t].groups) : tables[t].groups[g].key = JoinKey(c)
  BY <1>1, <1>5, Zenon DEF IsTableOf, HasGroups
<1>7. <<t, g>> \in Groups
  <2>1. tables[t].groups \in Seq(JoinGroup)
    BY <1>5, Zenon DEF IsTableOf, HasGroups
  <2>2. DOMAIN tables[t].groups = 1..Len(tables[t].groups)
    <3> DEFINE gs == tables[t].groups
    <3>1. gs \in Seq(JoinGroup)
      BY <2>1
    <3> HIDE DEF gs
    <3>2. DOMAIN gs = 1..Len(gs)
      BY <3>1
    <3> QED BY <3>2 DEF gs
  <2>3. t \in DOMAIN tables
    BY <1>2, <1>4
  <2> QED BY <1>6, <2>2, <2>3 DEF Groups
<1>8. /\ LiteralsOf(<<t, g>>) = {d \in CandidatesOf(variable, RelationAt(<<t, g>>[1])) :
                                   JoinKey(d) = Group(<<t, g>>).key}
  BY <1>7, LiteralsOfGroup
<1>9. <<t, g>>[1] = t /\ Group(<<t, g>>) = tables[t].groups[g]
  BY DEF Group
<1>10. c \in LiteralsOf(<<t, g>>)
  BY <1>1, <1>4, <1>6, <1>8, <1>9
<1> QED
  BY <1>7, <1>10

(* The literals that are counted are all candidates of the variable. *)
LEMMA LiteralIs ==
  ASSUME CallInv, TablesInv, variable # 0
  PROVE  Literal = {c \in DOMAIN given.candidates : ClauseVariable(c) = variable}
<1>1. ASSUME NEW tg \in Groups, NEW c \in LiteralsOf(tg)
      PROVE  c \in DOMAIN given.candidates /\ ClauseVariable(c) = variable
  <2>1. c \in CandidatesOf(variable, RelationAt(tg[1]))
    BY LiteralsOfGroup
  <2> QED BY <2>1 DEF CandidatesOf
<1> QED
  BY <1>1, GroupOfCandidate DEF Literal

-----------------------------------------------------------------------------
(* The rows of a pass: each is a row of one of its sides, with its place there. *)
SidesOfPass == IF pass = "both" THEN Side ELSE {pass}

PlaceOf(r) ==
  IF pass = "both" /\ SideOf(r) = "negative" THEN r - Len(given.bindings["positive"]) ELSE r

RowsAreSides ==
  /\ SidesOfPass \in SUBSET Side
  /\ DOMAIN BindingRows = 1..Len(BindingRows) /\ Len(BindingRows) \in Nat
  /\ \A r \in DOMAIN BindingRows :
       /\ SideOf(r) \in SidesOfPass
       /\ PlaceOf(r) \in DOMAIN given.bindings[SideOf(r)]
       /\ BindingRows[r] = given.bindings[SideOf(r)][PlaceOf(r)]
  /\ \A r, q \in DOMAIN BindingRows : SideOf(r) = SideOf(q) /\ PlaceOf(r) = PlaceOf(q) => r = q
  /\ \A s \in SidesOfPass : \A i \in DOMAIN given.bindings[s] :
       \E r \in DOMAIN BindingRows : SideOf(r) = s /\ PlaceOf(r) = i

(* The bindings of a side are rows. *)
LEMMA BindingsAre ==
  ASSUME CallInv, NEW s \in Side
  PROVE  /\ given.bindings[s] \in Seq(Seq(Value)) /\ Len(given.bindings[s]) \in Nat
         /\ DOMAIN given.bindings[s] = 1..Len(given.bindings[s])
<1>1. given \in Input
  BY DEF CallInv
<1>2. given.bindings[s] \in Seq(Seq(Value)) \ {<<>>}
  BY <1>1, InputAssumption, Zenon
<1> DEFINE rows == given.bindings[s]
<1>3. rows \in Seq(Seq(Value))
  BY <1>2
<1> HIDE DEF rows
<1>4. Len(rows) \in Nat /\ DOMAIN rows = 1..Len(rows)
  BY <1>3
<1> QED
  BY <1>3, <1>4 DEF rows

(* The rows of a pass are those of its sides, once each. *)
LEMMA PassRows ==
  ASSUME CallInv
  PROVE  RowsAreSides
<1>1. CASE pass = "both"
  <2> DEFINE P == given.bindings["positive"]
             N == given.bindings["negative"]
             rows == P \o N
  <2>1. /\ P \in Seq(Seq(Value)) /\ Len(P) \in Nat /\ DOMAIN P = 1..Len(P)
        /\ N \in Seq(Seq(Value)) /\ Len(N) \in Nat /\ DOMAIN N = 1..Len(N)
    BY BindingsAre DEF Side
  <2>2. BindingRows = rows /\ SidesOfPass = Side
    BY <1>1 DEF BindingRows, RowsOfPass, SidesOfPass
  <2>3. \A r : /\ SideOf(r) = IF r <= Len(P) THEN "positive" ELSE "negative"
               /\ PlaceOf(r) = IF r <= Len(P) THEN r ELSE r - Len(P)
    BY <1>1 DEF SideOf, PlaceOf
  <2>4. \A r : given.bindings[SideOf(r)] = IF r <= Len(P) THEN P ELSE N
    BY <2>3
  <2>5. /\ DOMAIN rows = 1..Len(rows) /\ Len(rows) = Len(P) + Len(N)
        /\ \A r \in 1..Len(rows) : rows[r] = IF r <= Len(P) THEN P[r] ELSE N[r - Len(P)]
    <3> HIDE DEF P, N
    <3> QED BY <2>1
  <2> HIDE DEF P, N, rows
  <2>6. ASSUME NEW r \in DOMAIN rows
        PROVE  /\ SideOf(r) \in Side
               /\ PlaceOf(r) \in DOMAIN given.bindings[SideOf(r)]
               /\ rows[r] = given.bindings[SideOf(r)][PlaceOf(r)]
    <3>1. r \in Nat /\ r \in 1..Len(P) + Len(N)
      BY <2>1, <2>5
    <3>2. CASE r <= Len(P)
      BY <2>1, <2>3, <2>4, <2>5, <3>1, <3>2 DEF Side
    <3>3. CASE ~(r <= Len(P))
      <4>1. r - Len(P) \in 1..Len(N)
        BY <2>1, <3>1, <3>3
      <4> QED BY <2>1, <2>3, <2>4, <2>5, <3>3, <4>1 DEF Side
    <3> QED BY <3>2, <3>3
  <2>7. ASSUME NEW r \in DOMAIN rows, NEW q \in DOMAIN rows,
               SideOf(r) = SideOf(q), PlaceOf(r) = PlaceOf(q)
        PROVE  r = q
    <3>1. r \in Nat /\ q \in Nat
      BY <2>1, <2>5
    <3> QED BY <2>1, <2>3, <2>7, <3>1
  <2>8. ASSUME NEW s \in Side, NEW i \in DOMAIN given.bindings[s]
        PROVE  \E r \in DOMAIN rows : SideOf(r) = s /\ PlaceOf(r) = i
    <3>1. CASE s = "positive"
      <4>1. i \in 1..Len(P)
        BY <2>1, <3>1 DEF P
      <4>2. i \in DOMAIN rows /\ i <= Len(P)
        BY <2>1, <2>5, <4>1
      <4> QED BY <2>3, <3>1, <4>2
    <3>2. CASE s = "negative"
      <4>1. i \in 1..Len(N)
        BY <2>1, <3>2 DEF N
      <4>2. PICK r : r = i + Len(P)
        OBVIOUS
      <4>3. r \in 1..Len(rows) /\ ~(r <= Len(P)) /\ r - Len(P) = i
        BY <2>1, <2>5, <4>1, <4>2
      <4>4. SideOf(r) = s /\ PlaceOf(r) = i
        BY <2>3, <3>2, <4>3
      <4> QED BY <2>5, <4>3, <4>4
    <3> QED BY <3>1, <3>2 DEF Side
  <2>9. Len(rows) \in Nat
    BY <2>1, <2>5
  <2>10. SidesOfPass \in SUBSET Side
    BY <2>2
  <2> QED
    BY <2>2, <2>5, <2>6, <2>7, <2>8, <2>9, <2>10, Zenon DEF RowsAreSides
<1>2. CASE pass # "both"
  <2>1. pass \in Side
    BY <1>2 DEF CallInv
  <2>2. BindingRows = given.bindings[pass] /\ SidesOfPass = {pass}
    BY <1>2 DEF BindingRows, RowsOfPass, SidesOfPass
  <2>3. \A r : SideOf(r) = pass /\ PlaceOf(r) = r
    BY <1>2 DEF SideOf, PlaceOf
  <2>4. Len(BindingRows) \in Nat /\ DOMAIN BindingRows = 1..Len(BindingRows)
    BY <2>1, <2>2, BindingsAre
  <2>5. SidesOfPass \in SUBSET Side
    BY <2>1, <2>2
  <2>6. \A r \in DOMAIN BindingRows :
          /\ SideOf(r) \in SidesOfPass
          /\ PlaceOf(r) \in DOMAIN given.bindings[SideOf(r)]
          /\ BindingRows[r] = given.bindings[SideOf(r)][PlaceOf(r)]
    BY <2>2, <2>3
  <2>7. \A r, q \in DOMAIN BindingRows : SideOf(r) = SideOf(q) /\ PlaceOf(r) = PlaceOf(q) => r = q
    BY <2>3
  <2>8. \A s \in SidesOfPass : \A i \in DOMAIN given.bindings[s] :
          \E r \in DOMAIN BindingRows : SideOf(r) = s /\ PlaceOf(r) = i
    BY <2>2, <2>3
  <2> QED
    BY <2>4, <2>5, <2>6, <2>7, <2>8, Zenon DEF RowsAreSides
<1> QED
  BY <1>1, <1>2

-----------------------------------------------------------------------------
(* A fact and a binding of a side agree with a literal; the pairs there are with
   some facts, and the bindings in them.                                   *)
Agree(c, f, s, i) ==
  \A a \in BoundOf(c) : FactsOf(c)[f][a] = given.bindings[s][i][VariablesOf(c)[a]]

PairsOf(c, s, F) == {fb \in F \X DOMAIN given.bindings[s] : Agree(c, fb[1], s, fb[2])}
Paired(c, s, F) == {fb[2] : fb \in PairsOf(c, s, F)}

(* Sets with a one-to-one map between them have the same size. *)
LEMMA OneToOne ==
  ASSUME NEW S, IsFiniteSet(S), NEW T, NEW f \in [S -> T],
         \A x, y \in S : f[x] = f[y] => x = y,
         \A z \in T : \E x \in S : f[x] = z
  PROVE  IsFiniteSet(T) /\ Cardinality(T) = Cardinality(S)
<1>1. f \in Bijection(S, T)
  BY DEF Bijection, Injection, Surjection, IsInjective
<1>2. ExistsBijection(S, T)
  BY <1>1 DEF ExistsBijection
<1> QED
  BY <1>2, FS_Bijection

(* Pairs and their bindings, member by member. *)
LEMMA PairedIs ==
  ASSUME NEW c, NEW s, NEW F
  PROVE  /\ \A fb : fb \in PairsOf(c, s, F) <=>
              \E f \in F, i \in DOMAIN given.bindings[s] : fb = <<f, i>> /\ Agree(c, f, s, i)
         /\ \A i : i \in Paired(c, s, F) <=>
              i \in DOMAIN given.bindings[s] /\ \E f \in F : Agree(c, f, s, i)
<1>1. \A fb : fb \in PairsOf(c, s, F) <=>
         \E f \in F, i \in DOMAIN given.bindings[s] : fb = <<f, i>> /\ Agree(c, f, s, i)
  BY DEF PairsOf
<1>2. ASSUME NEW i
      PROVE  i \in Paired(c, s, F) <=>
               i \in DOMAIN given.bindings[s] /\ \E f \in F : Agree(c, f, s, i)
  <2>1. ASSUME i \in Paired(c, s, F)
        PROVE  i \in DOMAIN given.bindings[s] /\ \E f \in F : Agree(c, f, s, i)
    <3>1. PICK fb \in PairsOf(c, s, F) : i = fb[2]
      BY <2>1 DEF Paired
    <3>2. PICK f \in F, j \in DOMAIN given.bindings[s] : fb = <<f, j>> /\ Agree(c, f, s, j)
      BY <1>1, <3>1
    <3> QED BY <3>1, <3>2
  <2>2. ASSUME i \in DOMAIN given.bindings[s], NEW f \in F, Agree(c, f, s, i)
        PROVE  i \in Paired(c, s, F)
    <3>1. <<f, i>> \in PairsOf(c, s, F) /\ <<f, i>>[2] = i
      BY <1>1, <2>2
    <3> QED BY <3>1, Zenon DEF Paired
  <2> QED BY <2>1, <2>2
<1> QED
  BY <1>1, <1>2

(* There are finitely many pairs. *)
LEMMA PairsAreFinite ==
  ASSUME CallInv, TablesInv, NEW tg \in Groups, NEW c \in LiteralsOf(tg), NEW s \in Side,
         NEW F \in SUBSET (DOMAIN Facts(tg))
  PROVE  /\ IsFiniteSet(PairsOf(c, s, F)) /\ Cardinality(PairsOf(c, s, F)) \in Nat
         /\ IsFiniteSet(Paired(c, s, F)) /\ Cardinality(Paired(c, s, F)) \in Nat
<1> DEFINE n == Len(Facts(tg))
           m == Len(given.bindings[s])
<1>1. n \in Nat /\ DOMAIN Facts(tg) = 1..n
  BY FactsOfGroup DEF FactsAreFrom
<1>2. m \in Nat /\ DOMAIN given.bindings[s] = 1..m
  BY BindingsAre
<1> HIDE DEF n, m
<1>3. 1 \in Int /\ n \in Int /\ m \in Int
  BY <1>1, <1>2
<1>4. IsFiniteSet(1..n) /\ IsFiniteSet(1..m)
  BY <1>3, FS_Interval, Zenon
<1>5. IsFiniteSet(F)
  BY <1>1, <1>4, FS_Subset
<1>6. IsFiniteSet(F \X (1..m))
  BY <1>4, <1>5, FS_Product
<1>7. PairsOf(c, s, F) \subseteq F \X (1..m)
  BY <1>2 DEF PairsOf
<1>8. Paired(c, s, F) \subseteq 1..m
  BY <1>2, PairedIs
<1>9. IsFiniteSet(PairsOf(c, s, F)) /\ IsFiniteSet(Paired(c, s, F))
  BY <1>4, <1>6, <1>7, <1>8, FS_Subset
<1> QED
  BY <1>9, FS_CardinalityType

(* Of more facts there are so many more pairs, and more positions. *)
Joins(c, s, F, K) ==
  /\ Cardinality(PairsOf(c, s, F \cup K)) = Cardinality(PairsOf(c, s, F)) + Cardinality(PairsOf(c, s, K))
  /\ Cardinality(Paired(c, s, F \cup K))
       = Cardinality(Paired(c, s, F)) + Cardinality(Paired(c, s, K) \ Paired(c, s, F))

(* More facts: their pairs are others. *)
LEMMA PairsJoin ==
  ASSUME CallInv, TablesInv, NEW tg \in Groups, NEW c \in LiteralsOf(tg), NEW s \in Side,
         NEW F \in SUBSET (DOMAIN Facts(tg)), NEW K \in SUBSET (DOMAIN Facts(tg)), F \cap K = {}
  PROVE  Joins(c, s, F, K)
<1> DEFINE old == PairsOf(c, s, F)
           new == PairsOf(c, s, K)
           olds == Paired(c, s, F)
           news == Paired(c, s, K) \ olds
<1>1. /\ IsFiniteSet(old) /\ IsFiniteSet(new) /\ IsFiniteSet(olds) /\ IsFiniteSet(Paired(c, s, K))
      /\ Cardinality(old) \in Nat /\ Cardinality(new) \in Nat /\ Cardinality(olds) \in Nat
  BY PairsAreFinite
<1>2. PairsOf(c, s, F \cup K) = old \cup new /\ old \cap new = {}
  BY DEF PairsOf
<1>3. Paired(c, s, F \cup K) = olds \cup news /\ olds \cap news = {}
  BY PairedIs
<1>4. IsFiniteSet(news)
  BY <1>1, FS_Subset
<1> HIDE DEF old, new, olds, news
<1>5. Cardinality({}) = 0
  BY FS_EmptySet
<1>6. /\ Cardinality(old \cup new) = Cardinality(old) + Cardinality(new) - Cardinality(old \cap new)
      /\ Cardinality(olds \cup news) = Cardinality(olds) + Cardinality(news) - Cardinality(olds \cap news)
      /\ Cardinality(news) \in Nat
  BY <1>1, <1>4, FS_Union, FS_CardinalityType
<1>7. Cardinality(old \cap new) = 0 /\ Cardinality(olds \cap news) = 0
  BY <1>2, <1>3, <1>5
<1>8. /\ Cardinality(old \cup new) = Cardinality(old) + Cardinality(new)
      /\ Cardinality(olds \cup news) = Cardinality(olds) + Cardinality(news)
  BY <1>1, <1>6, <1>7
<1> QED
  BY <1>2, <1>3, <1>8 DEF Joins, old, new, olds, news

(* What the results are to be. *)
LEMMA MatchesArePairs ==
  ASSUME CallInv, NEW c \in DOMAIN given.candidates, NEW s \in Side
  PROVE  /\ Matches(c, s) = PairsOf(c, s, DOMAIN FactsOf(c))
         /\ {fb[2] : fb \in Matches(c, s)} = Paired(c, s, DOMAIN FactsOf(c))
<1>1. \A f, i : Agree(c, f, s, i) <=>
        \A a \in DOMAIN VariablesOf(c) :
          VariablesOf(c)[a] # 0 => FactsOf(c)[f][a] = given.bindings[s][i][VariablesOf(c)[a]]
  BY DEF Agree, BoundOf
<1>2. Matches(c, s) = {fb \in (DOMAIN FactsOf(c)) \X (DOMAIN given.bindings[s]) :
        \A a \in DOMAIN VariablesOf(c) :
          VariablesOf(c)[a] # 0 => FactsOf(c)[fb[1]][a] = given.bindings[s][fb[2]][VariablesOf(c)[a]]}
  BY Zenon DEF Matches, FactsOf, VariablesOf
<1>3. Matches(c, s) = PairsOf(c, s, DOMAIN FactsOf(c))
  BY <1>1, <1>2 DEF PairsOf
<1> QED
  BY <1>3 DEF Paired

-----------------------------------------------------------------------------
(* The hash join of some facts: all rows of the partition with their value. *)
JoinedWith(p, tg, K) ==
  {fb \in K \X (1..Histogram(column, p)) : column[RowsOf(p)[fb[2]]] = KeyValue(tg, fb[1])}

(* The hash join gives every row of the partition with the value of a fact. *)
LEMMA JoinIs ==
  ASSUME CallInv, TablesInv, PartitionInv, AreBuilt, inserted = Len(column),
         CurrentGroup \in Groups, cursor.partition \in Partition,
         NEW K \in SUBSET (DOMAIN Facts(CurrentGroup))
  PROVE  JoinOf(K) = JoinedWith(cursor.partition, CurrentGroup, K)
<1> DEFINE p == cursor.partition
           tg == CurrentGroup
           n == Histogram(column, p)
           joining(f) == {b \in Chain(hashTables[p], HashInPartition(KeyValue(tg, f))) :
                            column[RowsOf(p)[b]] = KeyValue(tg, f)}
<1>3. JoinOf(K) = IF n = 0 THEN {} ELSE UNION {{<<f, b>> : b \in joining(f)} : f \in K}
  BY Zenon DEF JoinOf, KeyValue
<1>1. p \in Partition /\ tg \in Groups
  OBVIOUS
<1> HIDE DEF p, tg
<1>4. RowsArePartition(p)
  BY <1>1, PartitionRows DEF AreBuilt
<1>5. n \in Nat
  BY <1>4 DEF RowsArePartition
<1>6. CASE n = 0
  <2>1. 1..n = {}
    BY <1>6
  <2> QED BY <1>3, <1>6, <2>1 DEF JoinedWith, p, tg
<1>7. CASE n # 0
  <2>1. ASSUME NEW f \in K
        PROVE  joining(f) = {b \in 1..n : column[RowsOf(p)[b]] = KeyValue(tg, f)}
    <3>1. f \in DOMAIN Facts(tg)
      BY DEF tg
    <3>2. KeyValue(tg, f) \in Value
      BY <1>1, <3>1, FactsOfGroup DEF FactsAreFrom
    <3> QED BY <1>1, <1>7, <3>2, ChainHasRows
  <2> HIDE DEF joining, n
  <2>2. UNION {{<<f, b>> : b \in joining(f)} : f \in K}
          = {fb \in K \X (1..n) : column[RowsOf(p)[fb[2]]] = KeyValue(tg, fb[1])}
    BY <2>1
  <2> QED BY <1>3, <1>7, <2>2 DEF JoinedWith, n, p, tg
<1> QED
  BY <1>6, <1>7

-----------------------------------------------------------------------------
(* The joined rows of a side in which a literal holds. *)
HitsOf(p, tg, c, s, K) ==
  {fb \in JoinedWith(p, tg, K) :
     /\ c \in LiteralsThatHold(Group(tg), Facts(tg)[fb[1]], BindingRows[RowsOf(p)[fb[2]]])
     /\ SideOf(RowsOf(p)[fb[2]]) = s}

PositionsPaired(p, c, s, F) ==
  {b \in 1..Histogram(column, p) :
     SideOf(RowsOf(p)[b]) = s /\ PlaceOf(RowsOf(p)[b]) \in Paired(c, s, F)}

(* A fact agrees with a binding when the join values are equal and the tests hold. *)
LEMMA AgreeIs ==
  ASSUME CallInv, TablesInv, column = JoinColumn(BindingRows),
         NEW tg \in Groups, NEW c \in LiteralsOf(tg), NEW f \in DOMAIN Facts(tg),
         NEW r \in DOMAIN column
  PROVE  Agree(c, f, SideOf(r), PlaceOf(r)) <=>
           column[r] = KeyValue(tg, f) /\ OthersAgree(c, Facts(tg)[f], BindingRows[r])
<1> DEFINE key == Group(tg).key
           row == BindingRows[r]
           fact == Facts(tg)[f]
<1>1. /\ FactsOf(c) = Facts(tg) /\ JoinKey(c) = key /\ key \in BoundOf(c)
      /\ VariablesOf(c)[key] = variable
  BY FactsOfGroup DEF FactsAreFrom
<1>2. row = given.bindings[SideOf(r)][PlaceOf(r)] /\ column[r] = row[variable]
  <2>1. DOMAIN column = DOMAIN BindingRows /\ column[r] = row[variable]
    BY DEF JoinColumn
  <2> QED BY <2>1, PassRows DEF RowsAreSides
<1>3. KeyValue(tg, f) = fact[key]
  BY DEF KeyValue
<1>4. Agree(c, f, SideOf(r), PlaceOf(r)) <=> \A a \in BoundOf(c) : fact[a] = row[VariablesOf(c)[a]]
  BY <1>1, <1>2 DEF Agree
<1>5. OthersAgree(c, fact, row) <=> \A a \in BoundOf(c) \ {key} : fact[a] = row[VariablesOf(c)[a]]
  BY <1>1 DEF OthersAgree
<1> HIDE DEF fact, row, key
<1> SUFFICES (\A a \in BoundOf(c) : fact[a] = row[VariablesOf(c)[a]]) <=>
               row[variable] = fact[key]
               /\ \A a \in BoundOf(c) \ {key} : fact[a] = row[VariablesOf(c)[a]]
  BY <1>2, <1>3, <1>4, <1>5 DEF fact, row
<1> QED
  BY <1>1

(* The joined rows in which a literal holds are the rows that agree with it. *)
LEMMA HitsAre ==
  ASSUME CallInv, TablesInv, PartitionInv, IsPartitioned, column = JoinColumn(BindingRows),
         NEW tg \in Groups, IsExactFor(Group(tg)), NEW c \in LiteralsOf(tg), NEW s \in Side,
         NEW p \in Partition, NEW K \in SUBSET (DOMAIN Facts(tg))
  PROVE  HitsOf(p, tg, c, s, K)
           = {fb \in K \X (1..Histogram(column, p)) :
                /\ SideOf(RowsOf(p)[fb[2]]) = s
                /\ Agree(c, fb[1], s, PlaceOf(RowsOf(p)[fb[2]]))}
<1>1. RowsArePartition(p)
  BY PartitionRows
<1>2. ASSUME NEW f \in K, NEW b \in 1..Histogram(column, p)
      PROVE  <<f, b>> \in HitsOf(p, tg, c, s, K) <=>
               SideOf(RowsOf(p)[b]) = s /\ Agree(c, f, s, PlaceOf(RowsOf(p)[b]))
  <2> DEFINE r == RowsOf(p)[b]
  <2>1. r \in DOMAIN column
    BY <1>1 DEF RowsArePartition
  <2>2. c \in LiteralsThatHold(Group(tg), Facts(tg)[f], BindingRows[r])
          <=> OthersAgree(c, Facts(tg)[f], BindingRows[r])
    BY DEF IsExactFor, LiteralsOf
  <2> HIDE DEF r
  <2>3. Agree(c, f, SideOf(r), PlaceOf(r)) <=>
           column[r] = KeyValue(tg, f) /\ OthersAgree(c, Facts(tg)[f], BindingRows[r])
    BY <2>1, AgreeIs
  <2>4. <<f, b>> \in HitsOf(p, tg, c, s, K) <=>
          /\ column[r] = KeyValue(tg, f)
          /\ c \in LiteralsThatHold(Group(tg), Facts(tg)[f], BindingRows[r])
          /\ SideOf(r) = s
    BY DEF HitsOf, JoinedWith, r
  <2> QED BY <2>2, <2>3, <2>4 DEF r
<1>3. HitsOf(p, tg, c, s, K) \subseteq K \X (1..Histogram(column, p))
  BY DEF HitsOf, JoinedWith
<1> QED
  BY <1>2, <1>3

-----------------------------------------------------------------------------
(* A partition of the facts of a group, and that partition of the bindings. *)
FactsAt(tg, p) == {i \in DOMAIN Facts(tg) : PartitionOf(Facts(tg)[i][Group(tg).key]) = p}

IsReady ==
  /\ CallInv /\ TablesInv /\ PartitionInv
  /\ AreBuilt /\ inserted = Len(column) /\ column = JoinColumn(BindingRows)
  /\ \A tg \in Groups : IsExactFor(Group(tg))

PlacesArePositions(p) ==
  /\ Histogram(column, p) \in Nat
  /\ \A b \in 1..Histogram(column, p) :
       /\ SideOf(RowsOf(p)[b]) \in SidesOfPass
       /\ PlaceOf(RowsOf(p)[b]) \in DOMAIN given.bindings[SideOf(RowsOf(p)[b])]
  /\ \A b, d \in 1..Histogram(column, p) :
       /\ SideOf(RowsOf(p)[b]) = SideOf(RowsOf(p)[d])
       /\ PlaceOf(RowsOf(p)[b]) = PlaceOf(RowsOf(p)[d])
       => b = d

(* The positions of a partition stand for different bindings of the sides of the pass. *)
LEMMA PositionsAre ==
  ASSUME IsReady, NEW p \in Partition
  PROVE  PlacesArePositions(p)
<1>1. RowsArePartition(p)
  BY PartitionRows DEF IsReady, AreBuilt
<1>2. RowsAreSides
  BY PassRows DEF IsReady
<1>3. DOMAIN column = DOMAIN BindingRows
  BY DEF IsReady, JoinColumn
<1>4. \A b \in 1..Histogram(column, p) : RowsOf(p)[b] \in DOMAIN BindingRows
  BY <1>1, <1>3 DEF RowsArePartition
<1>5. \A b \in 1..Histogram(column, p) :
       /\ SideOf(RowsOf(p)[b]) \in SidesOfPass
       /\ PlaceOf(RowsOf(p)[b]) \in DOMAIN given.bindings[SideOf(RowsOf(p)[b])]
  BY <1>2, <1>4, Zenon DEF RowsAreSides
<1>6. ASSUME NEW b \in 1..Histogram(column, p), NEW d \in 1..Histogram(column, p),
             SideOf(RowsOf(p)[b]) = SideOf(RowsOf(p)[d]),
             PlaceOf(RowsOf(p)[b]) = PlaceOf(RowsOf(p)[d])
      PROVE  b = d
  <2>1. RowsOf(p)[b] = RowsOf(p)[d]
    BY <1>2, <1>4, <1>6, Zenon DEF RowsAreSides
  <2> QED BY <1>1, <2>1, Zenon DEF RowsArePartition
<1>7. Histogram(column, p) \in Nat
  BY <1>1 DEF RowsArePartition
<1> QED
  BY <1>5, <1>6, <1>7, Zenon DEF PlacesArePositions

(* A binding that agrees with a fact of a partition is in that partition. *)
LEMMA PlaceHasPosition ==
  ASSUME IsReady, NEW p \in Partition, NEW tg \in Groups, NEW c \in LiteralsOf(tg),
         NEW f \in FactsAt(tg, p), NEW s \in SidesOfPass, NEW i \in DOMAIN given.bindings[s],
         Agree(c, f, s, i)
  PROVE  \E b \in 1..Histogram(column, p) : SideOf(RowsOf(p)[b]) = s /\ PlaceOf(RowsOf(p)[b]) = i
<1>1. RowsArePartition(p)
  BY PartitionRows DEF IsReady, AreBuilt
<1>2. PICK r \in DOMAIN BindingRows : SideOf(r) = s /\ PlaceOf(r) = i
  BY PassRows, Zenon DEF IsReady, RowsAreSides
<1>3. r \in DOMAIN column
  BY DEF IsReady, JoinColumn
<1>4. f \in DOMAIN Facts(tg) /\ PartitionOf(KeyValue(tg, f)) = p
  BY DEF FactsAt, KeyValue
<1>5. column[r] = KeyValue(tg, f)
  BY <1>2, <1>3, <1>4, AgreeIs DEF IsReady
<1>6. PICK b \in 1..Histogram(column, p) : RowsOf(p)[b] = r
  BY <1>1, <1>3, <1>4, <1>5, Zenon DEF RowsArePartition
<1> QED
  BY <1>2, <1>6

(* There are as many joined rows of a literal as there are pairs with those facts. *)
LEMMA HitsCounted ==
  ASSUME IsReady, NEW p \in Partition, NEW tg \in Groups, NEW c \in LiteralsOf(tg),
         NEW K \in SUBSET FactsAt(tg, p), NEW s \in SidesOfPass
  PROVE  Cardinality(HitsOf(p, tg, c, s, K)) = Cardinality(PairsOf(c, s, K))
<1> DEFINE n == Histogram(column, p)
           place(b) == PlaceOf(RowsOf(p)[b])
           S == HitsOf(p, tg, c, s, K)
           T == PairsOf(c, s, K)
           h == [fb \in S |-> <<fb[1], place(fb[2])>>]
<1>1. s \in Side /\ K \in SUBSET (DOMAIN Facts(tg))
  <2>1. SidesOfPass \in SUBSET Side
    BY PassRows DEF IsReady, RowsAreSides
  <2> QED BY <2>1 DEF FactsAt
<1>2. S = {fb \in K \X (1..n) : SideOf(RowsOf(p)[fb[2]]) = s /\ Agree(c, fb[1], s, place(fb[2]))}
  BY <1>1, HitsAre DEF IsReady, AreBuilt
<1>3. PlacesArePositions(p)
  BY PositionsAre
<1>4. \A fb : fb \in T <=>
         \E f \in K, i \in DOMAIN given.bindings[s] : fb = <<f, i>> /\ Agree(c, f, s, i)
  BY PairedIs
<1>5. IsFiniteSet(S)
  <2>1. n \in Nat /\ 1 \in Int /\ n \in Int
    BY <1>3 DEF PlacesArePositions
  <2>2. Len(Facts(tg)) \in Nat /\ DOMAIN Facts(tg) = 1..Len(Facts(tg)) /\ Len(Facts(tg)) \in Int
    BY FactsOfGroup DEF FactsAreFrom, IsReady
  <2> HIDE DEF n, S
  <2>3. IsFiniteSet(1..n) /\ IsFiniteSet(1..Len(Facts(tg)))
    BY <2>1, <2>2, FS_Interval, Zenon
  <2>4. IsFiniteSet(K)
    BY <1>1, <2>2, <2>3, FS_Subset
  <2>5. IsFiniteSet(K \X (1..n))
    BY <2>3, <2>4, FS_Product
  <2>6. S \subseteq K \X (1..n)
    BY <1>2
  <2> QED BY <2>5, <2>6, FS_Subset
<1>6. ASSUME NEW fb \in S
      PROVE  /\ fb = <<fb[1], fb[2]>> /\ fb[1] \in K /\ fb[2] \in 1..n
             /\ SideOf(RowsOf(p)[fb[2]]) = s /\ Agree(c, fb[1], s, place(fb[2]))
             /\ place(fb[2]) \in DOMAIN given.bindings[s]
             /\ <<fb[1], place(fb[2])>> \in T
  <2>1. /\ fb = <<fb[1], fb[2]>> /\ fb[1] \in K /\ fb[2] \in 1..n
        /\ SideOf(RowsOf(p)[fb[2]]) = s /\ Agree(c, fb[1], s, place(fb[2]))
    <3> HIDE DEF S, place
    <3> QED BY <1>2
  <2>2. place(fb[2]) \in DOMAIN given.bindings[s]
    BY <1>3, <2>1, Zenon DEF PlacesArePositions
  <2> HIDE DEF place, T
  <2> QED BY <1>4, <2>1, <2>2
<1>7. h \in [S -> T]
  <2> HIDE DEF S, T, place
  <2> QED BY <1>6
<1>8. ASSUME NEW x \in S, NEW y \in S, h[x] = h[y]
      PROVE  x = y
  <2>1. x[1] = y[1] /\ place(x[2]) = place(y[2])
    <3> HIDE DEF S, place
    <3> QED BY <1>8
  <2>2. x[2] = y[2]
    BY <1>3, <1>6, <2>1, Zenon DEF PlacesArePositions
  <2> HIDE DEF S
  <2> QED BY <1>6, <2>1, <2>2
<1>9. ASSUME NEW z \in T
      PROVE  \E x \in S : h[x] = z
  <2>1. PICK f \in K, i \in DOMAIN given.bindings[s] : z = <<f, i>> /\ Agree(c, f, s, i)
    BY <1>4
  <2>2. PICK b \in 1..n : SideOf(RowsOf(p)[b]) = s /\ place(b) = i
    BY <2>1, PlaceHasPosition
  <2>3. <<f, b>> \in S
    <3> HIDE DEF S, place
    <3> QED BY <1>2, <2>1, <2>2
  <2> HIDE DEF S, place
  <2>4. h[<<f, b>>] = <<f, place(b)>>
    BY <2>3
  <2> QED BY <2>1, <2>2, <2>3, <2>4
<1> HIDE DEF S, T, h
<1> QED
  BY <1>5, <1>7, <1>8, <1>9, OneToOne DEF S, T

(* The positions of these rows are those of the paired bindings. *)
LEMMA PositionsOfHits ==
  ASSUME IsReady, NEW p \in Partition, NEW tg \in Groups, NEW c \in LiteralsOf(tg),
         NEW K \in SUBSET FactsAt(tg, p), NEW s \in Side
  PROVE  {fb[2] : fb \in HitsOf(p, tg, c, s, K)} = PositionsPaired(p, c, s, K)
<1> DEFINE n == Histogram(column, p)
           place(b) == PlaceOf(RowsOf(p)[b])
           S == HitsOf(p, tg, c, s, K)
<1>1. K \in SUBSET (DOMAIN Facts(tg))
  BY DEF FactsAt
<1>2. S = {fb \in K \X (1..n) : SideOf(RowsOf(p)[fb[2]]) = s /\ Agree(c, fb[1], s, place(fb[2]))}
  BY <1>1, HitsAre DEF IsReady, AreBuilt
<1>3. PlacesArePositions(p)
  BY PositionsAre
<1>4. \A b \in 1..n : SideOf(RowsOf(p)[b]) = s =>
        (place(b) \in Paired(c, s, K) <=> \E f \in K : Agree(c, f, s, place(b)))
  <2>1. \A b \in 1..n : SideOf(RowsOf(p)[b]) = s => place(b) \in DOMAIN given.bindings[s]
    BY <1>3, Zenon DEF PlacesArePositions
  <2>2. \A i : i \in Paired(c, s, K) <=>
              i \in DOMAIN given.bindings[s] /\ \E f \in K : Agree(c, f, s, i)
    BY PairedIs
  <2> QED BY <2>1, <2>2, Zenon
<1>5. ASSUME NEW b
      PROVE  b \in {fb[2] : fb \in S} <=>
               b \in 1..n /\ SideOf(RowsOf(p)[b]) = s /\ \E f \in K : Agree(c, f, s, place(b))
  <2> HIDE DEF S, place, n
  <2>1. ASSUME b \in {fb[2] : fb \in S}
        PROVE  b \in 1..n /\ SideOf(RowsOf(p)[b]) = s /\ \E f \in K : Agree(c, f, s, place(b))
    <3>1. PICK fb \in S : b = fb[2]
      BY <2>1
    <3> QED BY <1>2, <3>1
  <2>2. ASSUME b \in 1..n, SideOf(RowsOf(p)[b]) = s, NEW f \in K, Agree(c, f, s, place(b))
        PROVE  b \in {fb[2] : fb \in S}
    <3>1. <<f, b>> \in S /\ <<f, b>>[2] = b
      BY <1>2, <2>2
    <3> QED BY <3>1, Zenon
  <2> QED BY <2>1, <2>2
<1> HIDE DEF S
<1>6. \A b : b \in PositionsPaired(p, c, s, K) <=>
               b \in 1..n /\ SideOf(RowsOf(p)[b]) = s /\ place(b) \in Paired(c, s, K)
  BY DEF PositionsPaired
<1> HIDE DEF n, place
<1>7. \A b : b \in {fb[2] : fb \in S} <=> b \in PositionsPaired(p, c, s, K)
  BY <1>4, <1>5, <1>6
<1> QED
  BY <1>7 DEF S

(* A binding that is new in a partition is new. *)
LEMMA PositionsCounted ==
  ASSUME IsReady, NEW p \in Partition, NEW tg \in Groups, NEW c \in LiteralsOf(tg),
         NEW K \in SUBSET FactsAt(tg, p), NEW s \in SidesOfPass, NEW F
  PROVE  Cardinality(PositionsPaired(p, c, s, K) \ PositionsPaired(p, c, s, F))
           = Cardinality(Paired(c, s, K) \ Paired(c, s, F))
<1> DEFINE n == Histogram(column, p)
           place(b) == PlaceOf(RowsOf(p)[b])
           S == PositionsPaired(p, c, s, K) \ PositionsPaired(p, c, s, F)
           T == Paired(c, s, K) \ Paired(c, s, F)
           h == [b \in S |-> place(b)]
<1>1. \A b : b \in S <=> b \in 1..n /\ SideOf(RowsOf(p)[b]) = s /\ place(b) \in T
  BY DEF PositionsPaired
<1>2. PlacesArePositions(p)
  BY PositionsAre
<1>3. IsFiniteSet(S)
  <2>1. n \in Nat /\ 1 \in Int /\ n \in Int
    BY <1>2 DEF PlacesArePositions
  <2> HIDE DEF n, S
  <2>2. IsFiniteSet(1..n)
    BY <2>1, FS_Interval, Zenon
  <2>3. S \subseteq 1..n
    BY <1>1
  <2> QED BY <2>2, <2>3, FS_Subset
<1>4. ASSUME NEW z \in T
      PROVE  \E b \in S : h[b] = z
  <2>1. z \in DOMAIN given.bindings[s] /\ \E f \in K : Agree(c, f, s, z)
    <3>1. z \in Paired(c, s, K)
      OBVIOUS
    <3> QED BY <3>1, PairedIs
  <2>2. PICK f \in K : Agree(c, f, s, z)
    BY <2>1
  <2>3. PICK b \in 1..n : SideOf(RowsOf(p)[b]) = s /\ place(b) = z
    BY <2>1, <2>2, PlaceHasPosition
  <2> HIDE DEF S, T, place, n
  <2>4. b \in S
    BY <1>1, <2>3
  <2> QED BY <2>3, <2>4
<1> HIDE DEF S, T
<1>5. h \in [S -> T]
  BY <1>1
<1>6. ASSUME NEW x \in S, NEW y \in S, h[x] = h[y]
      PROVE  x = y
  <2>1. place(x) = place(y)
    <3> HIDE DEF place
    <3> QED BY <1>6
  <2> QED BY <1>1, <1>2, <2>1, Zenon DEF PlacesArePositions
<1> HIDE DEF h
<1>7. Cardinality(T) = Cardinality(S)
  BY <1>3, <1>4, <1>5, <1>6, OneToOne
<1> QED
  BY <1>7 DEF S, T

(* On a side that is not of this pass nothing joins. *)
LEMMA OtherSides ==
  ASSUME IsReady, NEW p \in Partition, NEW tg \in Groups, NEW c, NEW s, s \notin SidesOfPass,
         NEW K, NEW F
  PROVE  HitsOf(p, tg, c, s, K) = {} /\ PositionsPaired(p, c, s, F) = {}
<1>1. PlacesArePositions(p)
  BY PositionsAre
<1>2. \A b \in 1..Histogram(column, p) : SideOf(RowsOf(p)[b]) # s
  BY <1>1, Zenon DEF PlacesArePositions
<1>3. \A fb \in HitsOf(p, tg, c, s, K) : fb[2] \in 1..Histogram(column, p) /\ SideOf(RowsOf(p)[fb[2]]) = s
  BY DEF HitsOf, JoinedWith
<1> QED
  BY <1>2, <1>3 DEF PositionsPaired

-----------------------------------------------------------------------------
(* The facts the assigner has come past: those of lower partitions, those of the
   groups before the one it is at, and the first ones of that.             *)
Cursor == [partition : Nat, table : Nat, group : Nat, offset : Nat]
GroupAt(cur) == <<cur.table, cur.group>>

IsDoneAt(cur, tg, f) ==
  LET p == PartitionOf(KeyValue(tg, f))
  IN  \/ p < cur.partition
      \/ p = cur.partition /\ tg = GroupAt(cur) /\ Rank(FactsAt(tg, p), f) <= cur.offset
      \/ p = cur.partition /\ tg # GroupAt(cur) /\ IsBefore(tg, GroupAt(cur))

DoneAt(cur, tg) == {f \in DOMAIN Facts(tg) : IsDoneAt(cur, tg, f)}

IsInside(cur) ==
  /\ cur \in Cursor /\ cur.partition \in Partition /\ GroupAt(cur) \in Groups
  /\ cur.offset <= Cardinality(FactsAt(GroupAt(cur), cur.partition))

FactsAreListed(tg, p) ==
  /\ FactsAt(tg, p) \in SUBSET (DOMAIN Facts(tg)) /\ FactsAt(tg, p) \in SUBSET Int
  /\ IsFiniteSet(FactsAt(tg, p)) /\ Cardinality(FactsAt(tg, p)) \in Nat
  /\ Len(FactsIn(tg, p)) = Cardinality(FactsAt(tg, p))
  /\ DOMAIN FactsIn(tg, p) = 1..Cardinality(FactsAt(tg, p))
  /\ \A k \in 1..Cardinality(FactsAt(tg, p)) :
       /\ FactsIn(tg, p)[k] \in FactsAt(tg, p)
       /\ Rank(FactsAt(tg, p), FactsIn(tg, p)[k]) = k
  /\ \A f \in FactsAt(tg, p) :
       /\ Rank(FactsAt(tg, p), f) \in 1..Cardinality(FactsAt(tg, p))
       /\ FactsIn(tg, p)[Rank(FactsAt(tg, p), f)] = f

(* A partition of a group's facts lists them by their rank. *)
LEMMA FactsInOrder ==
  ASSUME CallInv, TablesInv, NEW tg \in Groups, NEW p
  PROVE  FactsAreListed(tg, p)
<1> DEFINE S == FactsAt(tg, p)
           n == Len(Facts(tg))
<1>1. n \in Nat /\ DOMAIN Facts(tg) = 1..n /\ 1 \in Int /\ n \in Int
  <2>1. Len(Facts(tg)) \in Nat /\ DOMAIN Facts(tg) = 1..Len(Facts(tg))
    BY FactsOfGroup, Zenon DEF FactsAreFrom
  <2> QED BY <2>1
<1>2. S \in SUBSET (DOMAIN Facts(tg))
  BY DEF FactsAt
<1>3. FactsIn(tg, p) = InOrder(S)
  BY DEF FactsIn, FactsAt
<1> HIDE DEF S, n
<1>4. IsFiniteSet(1..n)
  BY <1>1, FS_Interval, Zenon
<1>5. S \in SUBSET Int /\ IsFiniteSet(S)
  BY <1>1, <1>2, <1>4, FS_Subset
<1>6. Cardinality(S) \in Nat
  BY <1>5, FS_CardinalityType
<1>7. /\ InOrder(S) = [k \in 1..Cardinality(S) |-> Nth(S, k)]
      /\ \A k \in 1..Cardinality(S) : Nth(S, k) \in S /\ Rank(S, Nth(S, k)) = k
      /\ \A f \in S : Rank(S, f) \in 1..Cardinality(S) /\ Nth(S, Rank(S, f)) = f
  BY <1>5, NthIsRanked, RankBounds, NthOfRank DEF InOrder
<1>8. /\ DOMAIN InOrder(S) = 1..Cardinality(S)
      /\ \A k \in 1..Cardinality(S) : InOrder(S)[k] = Nth(S, k)
  BY <1>7, Zenon
<1>9. Len(InOrder(S)) = Cardinality(S)
  BY <1>6, <1>7
<1>10. /\ \A k \in 1..Cardinality(S) : InOrder(S)[k] \in S /\ Rank(S, InOrder(S)[k]) = k
       /\ \A f \in S : Rank(S, f) \in 1..Cardinality(S) /\ InOrder(S)[Rank(S, f)] = f
  BY <1>7, <1>8, Zenon
<1> QED
  BY <1>2, <1>3, <1>5, <1>6, <1>8, <1>9, <1>10, Zenon DEF FactsAreListed, S

(* The next chunk of the group: the facts behind the first ones. *)
ChunkOf(cur, end) ==
  {FactsIn(GroupAt(cur), cur.partition)[i] :
     i \in (DOMAIN FactsIn(GroupAt(cur), cur.partition)) \cap (cur.offset + 1..end)}

(* Its facts are those that are done behind it and were not before. *)
LEMMA ChunkIs ==
  ASSUME CallInv, TablesInv, NEW cur, IsInside(cur),
         NEW end \in Nat, cur.offset <= end,
         end <= Cardinality(FactsAt(GroupAt(cur), cur.partition)),
         NEW new, new.partition = cur.partition, GroupAt(new) = GroupAt(cur), new.offset = end,
         NEW K, K = ChunkOf(cur, end)
  PROVE  /\ K \in SUBSET FactsAt(GroupAt(cur), cur.partition)
         /\ DoneAt(new, GroupAt(cur)) = DoneAt(cur, GroupAt(cur)) \cup K
         /\ DoneAt(cur, GroupAt(cur)) \cap K = {}
         /\ \A tg \in Groups : tg # GroupAt(cur) => DoneAt(new, tg) = DoneAt(cur, tg)
<1> DEFINE th == GroupAt(cur)
           p == cur.partition
           S == FactsAt(th, p)
           rank(f) == Rank(S, f)
<1>1. th \in Groups /\ p \in Nat /\ cur.offset \in Nat
  BY DEF IsInside, Cursor
<1>2. FactsAreListed(th, p)
  BY <1>1, FactsInOrder
<1>3. \A f \in DOMAIN Facts(th) : f \in S <=> PartitionOf(KeyValue(th, f)) = p
  BY DEF FactsAt, KeyValue
<1>4. \A f \in DOMAIN Facts(th) : PartitionOf(KeyValue(th, f)) \in Nat
  BY <1>1, FactsOfGroup, Zenon DEF FactsAreFrom
<1>5. \A f : f \in K <=> f \in S /\ cur.offset < rank(f) /\ rank(f) <= end
  <2>0. K = {FactsIn(th, p)[i] : i \in (DOMAIN FactsIn(th, p)) \cap (cur.offset + 1..end)}
    BY Zenon DEF ChunkOf
  <2>1. ASSUME NEW f \in K
        PROVE  f \in S /\ cur.offset < rank(f) /\ rank(f) <= end
    <3>1. PICK i \in (DOMAIN FactsIn(th, p)) \cap (cur.offset + 1..end) : f = FactsIn(th, p)[i]
      BY <2>0
    <3>2. i \in 1..Cardinality(S) /\ cur.offset < i /\ i <= end
      <4>1. i \in 1..Cardinality(S) /\ i \in cur.offset + 1..end
        BY <1>2, <3>1 DEF FactsAreListed
      <4> QED BY <1>1, <4>1
    <3>3. f \in S /\ rank(f) = i
      BY <1>2, <3>1, <3>2, Zenon DEF FactsAreListed
    <3> QED BY <3>2, <3>3
  <2>2. ASSUME NEW f \in S, cur.offset < rank(f), rank(f) <= end
        PROVE  f \in K
    <3>1. rank(f) \in 1..Cardinality(S) /\ FactsIn(th, p)[rank(f)] = f /\ Cardinality(S) \in Nat
      BY <1>2, Zenon DEF FactsAreListed
    <3> HIDE DEF rank, S
    <3>2. rank(f) \in cur.offset + 1..end
      BY <1>1, <2>2, <3>1
    <3>3. rank(f) \in DOMAIN FactsIn(th, p)
      BY <1>2, <3>1 DEF FactsAreListed, S
    <3> QED BY <2>0, <3>1, <3>2, <3>3
  <2> QED BY <2>1, <2>2
<1>6. \A f \in S : rank(f) \in Nat /\ f \in DOMAIN Facts(th)
  BY <1>2 DEF FactsAreListed
<1>7. \A f : /\ f \in DoneAt(cur, th) <=>
                  f \in DOMAIN Facts(th) /\ \/ PartitionOf(KeyValue(th, f)) < p
                                            \/ f \in S /\ rank(f) <= cur.offset
             /\ f \in DoneAt(new, th) <=>
                  f \in DOMAIN Facts(th) /\ \/ PartitionOf(KeyValue(th, f)) < p
                                            \/ f \in S /\ rank(f) <= end
  <2> HIDE DEF S
  <2>1. \A f \in DOMAIN Facts(th) :
          /\ IsDoneAt(cur, th, f) <=> \/ PartitionOf(KeyValue(th, f)) < p
                                      \/ f \in S /\ rank(f) <= cur.offset
          /\ IsDoneAt(new, th, f) <=> \/ PartitionOf(KeyValue(th, f)) < p
                                      \/ f \in S /\ rank(f) <= end
    BY <1>3 DEF IsDoneAt, S
  <2> HIDE DEF th
  <2> QED BY <2>1 DEF DoneAt
<1>8. ASSUME NEW tg \in Groups, tg # th
      PROVE  DoneAt(new, tg) = DoneAt(cur, tg)
  <2>1. \A f : IsDoneAt(new, tg, f) <=> IsDoneAt(cur, tg, f)
    BY <1>8 DEF IsDoneAt
  <2> QED BY <2>1 DEF DoneAt
<1> HIDE DEF S, rank, th, p
<1>9. \A f \in S : /\ rank(f) <= end <=> rank(f) <= cur.offset \/ (cur.offset < rank(f) /\ rank(f) <= end)
                   /\ ~(rank(f) <= cur.offset /\ cur.offset < rank(f))
  BY <1>1, <1>6
<1>10. \A f \in S : ~(PartitionOf(KeyValue(th, f)) < p)
  <2>1. \A f \in S : PartitionOf(KeyValue(th, f)) = p
    BY <1>3, <1>6
  <2> QED BY <1>1, <2>1
<1>11. K \in SUBSET S
  BY <1>5
<1>12. DoneAt(new, th) = DoneAt(cur, th) \cup K
  <2>1. \A f : f \in DoneAt(new, th) <=> f \in DoneAt(cur, th) \/ f \in K
    BY <1>5, <1>6, <1>7, <1>9, Zenon
  <2> QED BY <2>1
<1>13. DoneAt(cur, th) \cap K = {}
  <2>1. \A f : ~(f \in DoneAt(cur, th) /\ f \in K)
    BY <1>5, <1>7, <1>9, <1>10, Zenon
  <2> QED BY <2>1
<1> QED
  BY <1>8, <1>11, <1>12, <1>13 DEF th, S, p

-----------------------------------------------------------------------------
TablesAreListed ==
  /\ Len(tables) \in Nat /\ DOMAIN tables = 1..Len(tables)
  /\ \A t \in 1..Len(tables) :
       /\ Len(tables[t].groups) \in Nat \ {0}
       /\ DOMAIN tables[t].groups = 1..Len(tables[t].groups)

(* The tables and their groups are sequences. *)
LEMMA TablesAre ==
  ASSUME CallInv, TablesInv
  PROVE  TablesAreListed
<1>1. CASE variable = 0
  <2>1. tables = <<>>
    BY <1>1 DEF TablesInv
  <2>2. Len(<<>>) = 0 /\ DOMAIN <<>> = 1..0 /\ 1..0 = {}
    OBVIOUS
  <2> QED BY <2>1, <2>2 DEF TablesAreListed
<1>2. CASE variable # 0
  <2>1. /\ tables \in Seq(BackgroundTable)
        /\ \A t \in 1..Len(tables) : IsTableOf(tables[t], variable, RelationAt(t))
    BY <1>2 DEF TablesInv
  <2>2. Len(tables) \in Nat /\ DOMAIN tables = 1..Len(tables)
    BY <2>1
  <2>3. ASSUME NEW t \in 1..Len(tables)
        PROVE  /\ Len(tables[t].groups) \in Nat \ {0}
               /\ DOMAIN tables[t].groups = 1..Len(tables[t].groups)
    <3> DEFINE gs == tables[t].groups
    <3>1. gs \in Seq(JoinGroup) /\ gs # <<>>
      BY <2>1, Zenon DEF IsTableOf, HasGroups
    <3> HIDE DEF gs
    <3>2. Len(gs) \in Nat \ {0} /\ DOMAIN gs = 1..Len(gs)
      BY <3>1
    <3> QED BY <3>2 DEF gs
  <2> QED BY <2>2, <2>3 DEF TablesAreListed
<1> QED
  BY <1>1, <1>2

(* A group is a place in the tables. *)
LEMMA GroupPlaces ==
  ASSUME CallInv, TablesInv
  PROVE  /\ \A tg \in Groups : /\ tg = <<tg[1], tg[2]>>
                               /\ tg[1] \in 1..Len(tables)
                               /\ tg[2] \in 1..Len(tables[tg[1]].groups)
                               /\ tg[1] \in Nat \ {0} /\ tg[2] \in Nat \ {0}
         /\ \A t \in 1..Len(tables) : \A g \in 1..Len(tables[t].groups) : <<t, g>> \in Groups
         /\ tables # <<>> => <<1, 1>> \in Groups
<1>1. TablesAreListed
  BY TablesAre
<1>2. \A t \in 1..Len(tables) : \A g \in 1..Len(tables[t].groups) : <<t, g>> \in Groups
  BY <1>1 DEF TablesAreListed, Groups
<1>3. ASSUME NEW tg \in Groups
      PROVE  /\ tg = <<tg[1], tg[2]>>
             /\ tg[1] \in 1..Len(tables)
             /\ tg[2] \in 1..Len(tables[tg[1]].groups)
             /\ tg[1] \in Nat \ {0} /\ tg[2] \in Nat \ {0}
  <2>1. /\ tg = <<tg[1], tg[2]>> /\ tg[1] \in 1..Len(tables)
        /\ tg[2] \in 1..Len(tables[tg[1]].groups)
    BY GroupIs
  <2>2. Len(tables) \in Nat /\ Len(tables[tg[1]].groups) \in Nat
    BY <1>1, <2>1 DEF TablesAreListed
  <2> QED BY <2>1, <2>2
<1>4. tables # <<>> => <<1, 1>> \in Groups
  <2> SUFFICES ASSUME tables # <<>> PROVE <<1, 1>> \in Groups
    OBVIOUS
  <2>1. variable # 0
    BY DEF TablesInv
  <2>2. tables \in Seq(BackgroundTable)
    BY <2>1 DEF TablesInv
  <2>3. 1 \in 1..Len(tables)
    BY <2>2
  <2>4. Len(tables[1].groups) \in Nat \ {0}
    BY <1>1, <2>3 DEF TablesAreListed
  <2>5. 1 \in 1..Len(tables[1].groups)
    BY <2>4
  <2> QED BY <1>2, <2>3, <2>5
<1> QED
  BY <1>2, <1>3, <1>4

(* The assigner goes to the next group of the partition, behind the last one to
   the first of the next.                                                  *)
IsNextOf(new, cur) ==
  /\ new \in Cursor /\ new.offset = 0 /\ GroupAt(new) \in Groups
  /\ \/ /\ new.partition = cur.partition
        /\ \A tg \in Groups : IsBefore(tg, GroupAt(cur)) <=>
             tg # GroupAt(new) /\ IsBefore(tg, GroupAt(new))
     \/ /\ new.partition = cur.partition + 1
        /\ \A tg \in Groups : IsBefore(tg, GroupAt(cur)) /\ ~(tg # GroupAt(new) /\ IsBefore(tg, GroupAt(new)))

(* The two moves within a partition, field by field. *)
LEMMA CursorMoves ==
  ASSUME NEW cur \in Cursor
  PROVE  /\ [cur EXCEPT !.group = @ + 1, !.offset = 0]
              = [partition |-> cur.partition, table |-> cur.table, group |-> cur.group + 1, offset |-> 0]
         /\ [cur EXCEPT !.table = @ + 1, !.group = 1, !.offset = 0]
              = [partition |-> cur.partition, table |-> cur.table + 1, group |-> 1, offset |-> 0]
<1>0. cur.table \in Nat /\ cur.group \in Nat
  BY DEF Cursor
<1>1. PICK a \in Nat : a = cur.group + 1
  BY <1>0
<1>2. PICK b \in Nat : b = cur.table + 1
  BY <1>0
<1> DEFINE first == [cur EXCEPT !.group = a, !.offset = 0]
           second == [cur EXCEPT !.table = b, !.group = 1, !.offset = 0]
<1>3. /\ first = [cur EXCEPT !.group = @ + 1, !.offset = 0]
      /\ second = [cur EXCEPT !.table = @ + 1, !.group = 1, !.offset = 0]
  BY <1>1, <1>2, Zenon
<1>4. first = [partition |-> cur.partition, table |-> cur.table, group |-> a, offset |-> 0]
  <2>1. first \in Cursor
    BY DEF Cursor
  <2>2. /\ first.partition = cur.partition /\ first.table = cur.table
        /\ first.group = a /\ first.offset = 0
    BY DEF Cursor
  <2> HIDE DEF first
  <2> QED BY <2>1, <2>2 DEF Cursor
<1>5. second = [partition |-> cur.partition, table |-> b, group |-> 1, offset |-> 0]
  <2>1. second \in Cursor
    BY DEF Cursor
  <2>2. /\ second.partition = cur.partition /\ second.table = b
        /\ second.group = 1 /\ second.offset = 0
    BY DEF Cursor
  <2> HIDE DEF second
  <2> QED BY <2>1, <2>2 DEF Cursor
<1> HIDE DEF first, second
<1> QED
  BY <1>1, <1>2, <1>3, <1>4, <1>5, Zenon

(* MoveToNextJoinGroup goes to the next group in the order of the tables. *)
LEMMA NextGroupIs ==
  ASSUME CallInv, TablesInv, NEW cur, IsInside(cur)
  PROVE  IsNextOf(NextJoinGroup(cur), cur)
<1> DEFINE t == cur.table
           g == cur.group
           p == cur.partition
           m == Len(tables)
           n == Len(tables[t].groups)
           new == NextJoinGroup(cur)
           after(a, b, o) == [partition |-> a, table |-> b, group |-> o, offset |-> 0]
<1>0. cur \in Cursor
  BY DEF IsInside
<1>1. p \in Nat /\ t \in Nat /\ g \in Nat /\ cur.offset \in Nat
  BY DEF IsInside, Cursor
<1>2. GroupAt(cur) = <<t, g>> /\ <<t, g>>[1] = t /\ <<t, g>>[2] = g /\ <<t, g>> \in Groups
  BY DEF GroupAt, IsInside
<1>3. TablesAreListed
  BY TablesAre
<1>4. /\ \A tg \in Groups : /\ tg = <<tg[1], tg[2]>>
                            /\ tg[1] \in 1..Len(tables)
                            /\ tg[2] \in 1..Len(tables[tg[1]].groups)
                            /\ tg[1] \in Nat \ {0} /\ tg[2] \in Nat \ {0}
      /\ \A u \in 1..Len(tables) : \A h \in 1..Len(tables[u].groups) : <<u, h>> \in Groups
      /\ tables # <<>> => <<1, 1>> \in Groups
  BY GroupPlaces
<1>5. t \in 1..m /\ g \in 1..n /\ m \in Nat /\ n \in Nat
  BY <1>2, <1>3, <1>4 DEF TablesAreListed
<1> HIDE DEF t, g, p, m, n
<1>6. \A a, b, o : /\ after(a, b, o).partition = a /\ after(a, b, o).offset = 0
                   /\ GroupAt(after(a, b, o)) = <<b, o>>
                   /\ a \in Nat /\ b \in Nat /\ o \in Nat => after(a, b, o) \in Cursor
  BY DEF GroupAt, Cursor
<1>7. CASE g < n
  <2>0. g # n
    BY <1>5, <1>7
  <2>1. new = after(p, t, g + 1)
    <3>1. new = [cur EXCEPT !.group = @ + 1, !.offset = 0]
      BY <1>7, <2>0, Zenon DEF NextJoinGroup, g, n, t
    <3> QED BY <1>0, <3>1, CursorMoves, Zenon DEF p, t, g
  <2>2. <<t, g + 1>> \in Groups
    <3>1. g + 1 \in 1..n
      BY <1>5, <1>7
    <3> QED BY <1>4, <1>5, <3>1 DEF m, n
  <2>3. ASSUME NEW tg \in Groups
        PROVE  IsBefore(tg, <<t, g>>) <=> tg # <<t, g + 1>> /\ IsBefore(tg, <<t, g + 1>>)
    <3>1. tg = <<tg[1], tg[2]>> /\ tg[1] \in Nat /\ tg[2] \in Nat
      BY <1>4
    <3>2. tg # <<t, g + 1>> <=> tg[1] # t \/ tg[2] # g + 1
      BY <3>1
    <3> QED BY <1>1, <3>1, <3>2 DEF IsBefore
  <2> HIDE DEF new, after
  <2>4. /\ new \in Cursor /\ new.offset = 0 /\ GroupAt(new) = <<t, g + 1>> /\ new.partition = p
    <3>1. g + 1 \in Nat
      BY <1>1
    <3> QED BY <1>1, <1>6, <2>1, <3>1
  <2> QED BY <1>2, <2>2, <2>3, <2>4 DEF IsNextOf, new, p
<1>8. CASE ~(g < n) /\ t < m
  <2>0. g = n
    BY <1>5, <1>8
  <2>1. new = after(p, t + 1, 1)
    <3>1. new = [cur EXCEPT !.table = @ + 1, !.group = 1, !.offset = 0]
      BY <1>8, <2>0, Zenon DEF NextJoinGroup, g, n, t, m
    <3> QED BY <1>0, <3>1, CursorMoves, Zenon DEF p, t, g
  <2>2. <<t + 1, 1>> \in Groups
    <3>1. t + 1 \in 1..m
      BY <1>5, <1>8
    <3>2. Len(tables[t + 1].groups) \in Nat \ {0}
      BY <1>3, <3>1 DEF TablesAreListed, m
    <3>3. 1 \in 1..Len(tables[t + 1].groups)
      BY <3>2
    <3> QED BY <1>4, <3>1, <3>3 DEF m
  <2>3. ASSUME NEW tg \in Groups
        PROVE  IsBefore(tg, <<t, g>>) <=> tg # <<t + 1, 1>> /\ IsBefore(tg, <<t + 1, 1>>)
    <3>1. tg = <<tg[1], tg[2]>> /\ tg[1] \in Nat /\ tg[2] \in Nat \ {0}
      BY <1>4
    <3>2. tg # <<t + 1, 1>> <=> tg[1] # t + 1 \/ tg[2] # 1
      BY <3>1
    <3>3. tg[1] = t => tg[2] <= g
      <4>1. tg[1] = t => tg[2] \in 1..n
        BY <1>4 DEF n
      <4> QED BY <1>5, <2>0, <4>1
    <3> QED BY <1>1, <3>1, <3>2, <3>3 DEF IsBefore
  <2> HIDE DEF new, after
  <2>4. /\ new \in Cursor /\ new.offset = 0 /\ GroupAt(new) = <<t + 1, 1>> /\ new.partition = p
    <3>1. t + 1 \in Nat /\ 1 \in Nat
      BY <1>1
    <3> QED BY <1>1, <1>6, <2>1, <3>1
  <2> QED BY <1>2, <2>2, <2>3, <2>4 DEF IsNextOf, new, p
<1>9. CASE ~(g < n) /\ ~(t < m)
  <2>0. g = n /\ t = m
    BY <1>5, <1>9
  <2>1. new = after(p + 1, 1, 1)
    BY <1>9, Zenon DEF NextJoinGroup, g, n, t, m, p
  <2>2. <<1, 1>> \in Groups
    <3>1. 1 \in 1..m
      BY <1>5
    <3>2. Len(tables[1].groups) \in Nat \ {0}
      BY <1>3, <3>1 DEF TablesAreListed, m
    <3>3. 1 \in 1..Len(tables[1].groups)
      BY <3>2
    <3> QED BY <1>4, <3>1, <3>3 DEF m
  <2>3. ASSUME NEW tg \in Groups
        PROVE  IsBefore(tg, <<t, g>>) /\ ~(tg # <<1, 1>> /\ IsBefore(tg, <<1, 1>>))
    <3>1. tg = <<tg[1], tg[2]>> /\ tg[1] \in Nat \ {0} /\ tg[2] \in Nat \ {0} /\ tg[1] \in 1..m
      BY <1>4 DEF m
    <3>2. tg # <<1, 1>> <=> tg[1] # 1 \/ tg[2] # 1
      BY <3>1
    <3>3. tg[1] = t => tg[2] <= g
      <4>1. tg[1] = t => tg[2] \in 1..n
        BY <1>4 DEF n
      <4> QED BY <1>5, <2>0, <4>1
    <3> QED BY <1>1, <1>5, <2>0, <3>1, <3>2, <3>3 DEF IsBefore
  <2> HIDE DEF new, after
  <2>4. /\ new \in Cursor /\ new.offset = 0 /\ GroupAt(new) = <<1, 1>> /\ new.partition = p + 1
    <3>1. p + 1 \in Nat /\ 1 \in Nat
      BY <1>1
    <3> QED BY <1>1, <1>6, <2>1, <3>1
  <2> QED BY <1>2, <2>2, <2>3, <2>4 DEF IsNextOf, new, p
<1> QED
  BY <1>7, <1>8, <1>9

(* What is done does not change by that: nothing of the next group is. *)
LEMMA NextKeepsDone ==
  ASSUME CallInv, TablesInv, NEW cur, IsInside(cur),
         cur.offset = Cardinality(FactsAt(GroupAt(cur), cur.partition)),
         NEW new, IsNextOf(new, cur), NEW tg \in Groups
  PROVE  DoneAt(new, tg) = DoneAt(cur, tg)
<1>1. /\ cur.partition \in Nat /\ new.partition \in Nat /\ new.offset = 0
      /\ GroupAt(cur) \in Groups /\ GroupAt(new) \in Groups
  BY DEF IsInside, Cursor, IsNextOf
<1>2. IsBefore(GroupAt(cur), GroupAt(cur))
  <2>1. GroupAt(cur)[1] \in Nat /\ GroupAt(cur)[2] \in Nat
    BY <1>1, GroupPlaces
  <2> QED BY <2>1 DEF IsBefore
<1>3. ASSUME NEW f \in DOMAIN Facts(tg)
      PROVE  IsDoneAt(new, tg, f) <=> IsDoneAt(cur, tg, f)
  <2> DEFINE p == PartitionOf(KeyValue(tg, f))
             S == FactsAt(tg, p)
  <2>1. p \in Nat
    BY FactsOfGroup, Zenon DEF FactsAreFrom
  <2>2. f \in S
    BY DEF FactsAt, KeyValue
  <2>3. Rank(S, f) \in 1..Cardinality(S) /\ Cardinality(S) \in Nat
    <3>1. FactsAreListed(tg, p)
      BY FactsInOrder
    <3> QED BY <2>2, <3>1 DEF FactsAreListed
  <2>4. IsDoneAt(cur, tg, f) <=> p < cur.partition \/ (p = cur.partition /\ IsBefore(tg, GroupAt(cur)))
    <3>1. tg = GroupAt(cur) /\ p = cur.partition => Rank(S, f) <= cur.offset
      BY <2>3
    <3> HIDE DEF p
    <3> QED BY <1>2, <3>1 DEF IsDoneAt, p
  <2>5. IsDoneAt(new, tg, f) <=>
          p < new.partition \/ (p = new.partition /\ tg # GroupAt(new) /\ IsBefore(tg, GroupAt(new)))
    <3>1. ~(Rank(S, f) <= new.offset)
      BY <1>1, <2>3
    <3> QED BY <3>1 DEF IsDoneAt
  <2> HIDE DEF p
  <2>6. CASE /\ new.partition = cur.partition
             /\ IsBefore(tg, GroupAt(cur)) <=> tg # GroupAt(new) /\ IsBefore(tg, GroupAt(new))
    BY <2>4, <2>5, <2>6
  <2>7. CASE /\ new.partition = cur.partition + 1 /\ IsBefore(tg, GroupAt(cur))
             /\ ~(tg # GroupAt(new) /\ IsBefore(tg, GroupAt(new)))
    <3>1. p < cur.partition + 1 <=> p < cur.partition \/ p = cur.partition
      BY <1>1, <2>1
    <3> QED BY <2>4, <2>5, <2>7, <3>1
  <2> QED BY <2>6, <2>7 DEF IsNextOf
<1> QED
  BY <1>3 DEF DoneAt

(* At the end of the last partition all is done. *)
LEMMA EndIsDone ==
  ASSUME CallInv, TablesInv, NEW cur, IsInside(cur),
         cur.offset = Cardinality(FactsAt(GroupAt(cur), cur.partition)),
         NEW new, IsNextOf(new, cur), new.partition = NumPartitions, NEW tg \in Groups
  PROVE  DoneAt(cur, tg) = DOMAIN Facts(tg)
<1>1. DoneAt(new, tg) = DoneAt(cur, tg)
  BY NextKeepsDone
<1>2. ASSUME NEW f \in DOMAIN Facts(tg)
      PROVE  PartitionOf(KeyValue(tg, f)) < new.partition
  <2>1. PartitionOf(KeyValue(tg, f)) \in Partition
    BY FactsOfGroup, Zenon DEF FactsAreFrom
  <2> QED BY <2>1, NumPartitionsType DEF Partition
<1> QED
  BY <1>1, <1>2 DEF DoneAt, IsDoneAt

(* At the first position nothing is done. *)
LEMMA NothingIsDone ==
  ASSUME CallInv, TablesInv, NEW tg \in Groups
  PROVE  DoneAt(FirstChunk, tg) = {}
<1>1. /\ FirstChunk.partition = 0 /\ FirstChunk.offset = 0
      /\ GroupAt(FirstChunk) = <<1, 1>> /\ <<1, 1>>[1] = 1 /\ <<1, 1>>[2] = 1
  BY DEF FirstChunk, GroupAt
<1>2. /\ tg = <<tg[1], tg[2]>> /\ tg[1] \in Nat \ {0} /\ tg[2] \in Nat \ {0}
  BY GroupPlaces
<1>3. ~(tg # <<1, 1>> /\ IsBefore(tg, <<1, 1>>))
  <2>1. tg # <<1, 1>> <=> tg[1] # 1 \/ tg[2] # 1
    BY <1>2
  <2> QED BY <1>1, <1>2, <2>1 DEF IsBefore
<1>4. ASSUME NEW f \in DOMAIN Facts(tg)
      PROVE  ~IsDoneAt(FirstChunk, tg, f)
  <2> DEFINE p == PartitionOf(KeyValue(tg, f))
             S == FactsAt(tg, p)
  <2>1. p \in Nat
    BY FactsOfGroup, Zenon DEF FactsAreFrom
  <2>2. f \in S
    BY DEF FactsAt, KeyValue
  <2>3. Rank(S, f) \in 1..Cardinality(S) /\ Cardinality(S) \in Nat
    <3>1. FactsAreListed(tg, p)
      BY FactsInOrder
    <3> QED BY <2>2, <3>1 DEF FactsAreListed
  <2>4. ~(p < FirstChunk.partition)
    <3> HIDE DEF p
    <3> QED BY <1>1, <2>1
  <2>5. ~(Rank(S, f) <= FirstChunk.offset)
    BY <1>1, <2>3
  <2> QED BY <1>1, <1>3, <2>4, <2>5 DEF IsDoneAt
<1> QED
  BY <1>4 DEF DoneAt

-----------------------------------------------------------------------------
(* What the counts are while a variable is counted: those of the facts that the
   assigner has come past, on the sides of this pass; all on the side of the
   pass before.                                                            *)
FactsDone(tg, s) ==
  IF s \in SidesOfPass THEN DoneAt(cursor, tg)
  ELSE IF pass = "negative" THEN DOMAIN Facts(tg) ELSE {}

CountOf(tg, c) ==
  [binding |-> [s \in Side |-> Cardinality(PairsOf(c, s, FactsDone(tg, s)))],
   covered |-> [s \in Side |-> Cardinality(Paired(c, s, FactsDone(tg, s)))]]

AreCounted == \A tg \in Groups : \A c \in LiteralsOf(tg) : counts[c] = CountOf(tg, c)

(* The semi bit vectors, unless they are of an older partition: the positions of
   this one that have joined.                                              *)
SeenOf(tg, c, s) == IF saved[tg] = cursor.partition THEN seen[c][s] ELSE {}

AreSeen ==
  \A tg \in Groups :
    /\ saved[tg] <= cursor.partition
    /\ \A c \in LiteralsOf(tg) : \A s \in Side :
         SeenOf(tg, c, s) = PositionsPaired(cursor.partition, c, s, DoneAt(cursor, tg))

Counts == [binding : [Side -> Nat], covered : [Side -> Nat]]

AreTyped ==
  /\ saved \in [Groups -> Partition \cup {-1}]
  /\ seen \in [Literal -> [Side -> SUBSET (1..Len(column))]]
  /\ counts \in [Literal -> Counts]
  /\ joined \in BOOLEAN
  /\ pc \in {"next", "plan", "start", "partition", "build", "count", "done",
             "use_after_free", "null_dereference"}

IsFresh == cursor = FirstChunk /\ saved = NoPartition /\ seen = NothingSeen
IsNew ==
  /\ IsFresh /\ counts = NothingCounted /\ joined = FALSE
  /\ pass = FirstPass /\ pc \in {"next", "plan"}

Unfinished == {"plan", "start", "partition", "build", "count"}
Prepared == {"plan", "start", "partition", "build"}

CountsInv ==
  /\ AreTyped
  /\ pc \in Unfinished => tables # <<>> /\ AreCounted
  /\ pc \in Prepared => IsFresh
  /\ pc = "count" => IsInside(cursor) /\ AreSeen

-----------------------------------------------------------------------------
(* The literals are those of the groups. *)
LEMMA LiteralsAre ==
  /\ \A tg \in Groups : \A c \in LiteralsOf(tg) : c \in Literal
  /\ \A c \in Literal : \E tg \in Groups : c \in LiteralsOf(tg)
BY DEF Literal

(* The vectors of a pass are empty at its start, whatever its column is. *)
LEMMA FreshHasType ==
  /\ NoPartition \in [Groups -> Partition \cup {-1}]
  /\ \A n : NothingSeen \in [Literal -> [Side -> SUBSET (1..n)]]
  /\ NothingCounted \in [Literal -> Counts]
<1>1. NoPartition \in [Groups -> Partition \cup {-1}]
  BY DEF NoPartition
<1>2. \A n : NothingSeen \in [Literal -> [Side -> SUBSET (1..n)]]
  BY DEF NothingSeen
<1>3. NothingCounted \in [Literal -> Counts]
  BY DEF NothingCounted, Counts
<1> QED
  BY <1>1, <1>2, <1>3

(* Without facts there are no pairs. *)
LEMMA NoPairs ==
  ASSUME NEW c, NEW s
  PROVE  Cardinality(PairsOf(c, s, {})) = 0 /\ Cardinality(Paired(c, s, {})) = 0
<1>1. PairsOf(c, s, {}) = {}
  BY DEF PairsOf
<1>2. Paired(c, s, {}) = {}
  BY <1>1 DEF Paired
<1> QED
  BY <1>1, <1>2, FS_EmptySet

(* At the start of a variable nothing is done and nothing is counted. *)
LEMMA NewIsCounted == CallInv /\ TablesInv /\ IsNew => AreTyped /\ AreCounted
<1> SUFFICES ASSUME CallInv, TablesInv, IsNew PROVE AreTyped /\ AreCounted
  OBVIOUS
<1>1. /\ cursor = FirstChunk /\ saved = NoPartition /\ seen = NothingSeen
      /\ counts = NothingCounted /\ joined = FALSE /\ pc \in {"next", "plan"} /\ pass # "negative"
  BY DEF IsNew, IsFresh, FirstPass
<1>2. AreTyped
  BY <1>1, FreshHasType DEF AreTyped
<1>3. ASSUME NEW tg \in Groups, NEW c \in LiteralsOf(tg)
      PROVE  counts[c] = CountOf(tg, c)
  <2>1. counts[c] = [binding |-> [s \in Side |-> 0], covered |-> [s \in Side |-> 0]]
    BY <1>1, LiteralsAre DEF NothingCounted
  <2>2. \A s : FactsDone(tg, s) = {}
    BY <1>1, NothingIsDone DEF FactsDone
  <2>3. \A s \in Side : /\ Cardinality(PairsOf(c, s, FactsDone(tg, s))) = 0
                        /\ Cardinality(Paired(c, s, FactsDone(tg, s))) = 0
    BY <2>2, NoPairs
  <2> QED BY <2>1, <2>3, Zenon DEF CountOf
<1> QED
  BY <1>2, <1>3 DEF AreCounted

-----------------------------------------------------------------------------
(* Steps that leave the candidates, their groups and their facts. *)
DataStay ==
  /\ given' = given /\ Groups' = Groups
  /\ \A tg \in Groups : /\ Facts(tg)' = Facts(tg) /\ Group(tg)'.key = Group(tg).key
                        /\ LiteralsOf(tg)' = LiteralsOf(tg)

(* What is done and paired depends on the candidates, groups and facts only. *)
LEMMA DataKeeps ==
  ASSUME DataStay
  PROVE  /\ Literal' = Literal
         /\ \A tg \in Groups : \A p : FactsAt(tg, p)' = FactsAt(tg, p)
         /\ \A tg \in Groups : \A cur : DoneAt(cur, tg)' = DoneAt(cur, tg)
         /\ \A c, s, F : PairsOf(c, s, F)' = PairsOf(c, s, F) /\ Paired(c, s, F)' = Paired(c, s, F)
         /\ NoPartition' = NoPartition /\ NothingSeen' = NothingSeen
<1>1. Literal' = Literal
  BY DEF DataStay, Literal
<1>2. ASSUME NEW tg \in Groups
      PROVE  /\ \A p : FactsAt(tg, p)' = FactsAt(tg, p)
             /\ \A cur : DoneAt(cur, tg)' = DoneAt(cur, tg)
  <2>1. Facts(tg)' = Facts(tg) /\ Group(tg)'.key = Group(tg).key
    BY DEF DataStay
  <2>2. \A f : KeyValue(tg, f)' = KeyValue(tg, f)
    BY <2>1 DEF KeyValue
  <2>3. \A p : FactsAt(tg, p)' = FactsAt(tg, p)
    BY <2>1 DEF FactsAt
  <2>4. \A cur, f : IsDoneAt(cur, tg, f)' <=> IsDoneAt(cur, tg, f)
    <3>1. \A f : FactsAt(tg, PartitionOf(KeyValue(tg, f)))' = FactsAt(tg, PartitionOf(KeyValue(tg, f)))
      <4> TAKE f
      <4>1. PICK p : p = PartitionOf(KeyValue(tg, f))
        OBVIOUS
      <4>2. PartitionOf(KeyValue(tg, f))' = p
        BY <2>2, <4>1 DEF PartitionOf
      <4> QED BY <2>3, <4>1, <4>2
    <3>2. \A f : PartitionOf(KeyValue(tg, f))' = PartitionOf(KeyValue(tg, f))
      BY <2>2
    <3> QED BY <3>1, <3>2, Zenon DEF IsDoneAt
  <2>5. \A cur : DoneAt(cur, tg)' = DoneAt(cur, tg)
    BY <2>1, <2>4 DEF DoneAt
  <2> QED BY <2>3, <2>5
<1>3. \A c, s, F : PairsOf(c, s, F)' = PairsOf(c, s, F)
  <2>1. \A c : FactsOf(c)' = FactsOf(c) /\ VariablesOf(c)' = VariablesOf(c)
    BY DEF DataStay, FactsOf, VariablesOf
  <2>2. \A c : BoundOf(c)' = BoundOf(c)
    BY <2>1 DEF BoundOf
  <2>3. given' = given
    BY DEF DataStay
  <2>4. \A c, f, s, i : Agree(c, f, s, i)' <=> Agree(c, f, s, i)
    BY <2>1, <2>2, <2>3 DEF Agree
  <2> QED BY <2>3, <2>4 DEF PairsOf
<1>4. \A c, s, F : Paired(c, s, F)' = Paired(c, s, F)
  BY <1>3 DEF Paired
<1>5. NoPartition' = NoPartition /\ NothingSeen' = NothingSeen
  BY <1>1 DEF DataStay, NoPartition, NothingSeen
<1> QED
  BY <1>1, <1>2, <1>3, <1>4, <1>5

-----------------------------------------------------------------------------
(* Steps that leave the counts and the position leave the counts right. *)
LEMMA CountedStays ==
  ASSUME AreCounted, DataStay, UNCHANGED <<pass, cursor, counts>>
  PROVE  AreCounted'
<1>1. ASSUME NEW tg \in Groups, NEW c \in LiteralsOf(tg)
      PROVE  CountOf(tg, c)' = CountOf(tg, c)
  <2>1. PICK cur : cur = cursor
    OBVIOUS
  <2>2. cursor' = cur
    BY <2>1
  <2>3. DoneAt(cur, tg)' = DoneAt(cur, tg)
    BY DataKeeps
  <2>4. Facts(tg)' = Facts(tg) /\ SidesOfPass' = SidesOfPass
    BY DEF DataStay, SidesOfPass
  <2>5. \A s : FactsDone(tg, s)' = FactsDone(tg, s)
    BY <2>1, <2>2, <2>3, <2>4 DEF FactsDone
  <2>6. ASSUME NEW s
        PROVE  /\ PairsOf(c, s, FactsDone(tg, s))' = PairsOf(c, s, FactsDone(tg, s))
               /\ Paired(c, s, FactsDone(tg, s))' = Paired(c, s, FactsDone(tg, s))
    <3>1. PICK F : F = FactsDone(tg, s)
      OBVIOUS
    <3>2. FactsDone(tg, s)' = F
      BY <2>5, <3>1
    <3>3. PairsOf(c, s, F)' = PairsOf(c, s, F) /\ Paired(c, s, F)' = Paired(c, s, F)
      BY DataKeeps
    <3> QED BY <3>1, <3>2, <3>3
  <2> QED BY <2>6, Zenon DEF CountOf
<1> QED
  BY <1>1 DEF AreCounted, DataStay

(* Steps that leave the counters leave their types. *)
LEMMA TypedStays ==
  ASSUME AreTyped, DataStay, UNCHANGED <<saved, seen, counts, joined, column>>,
         pc' \in Unfinished \cup {"next", "done", "use_after_free", "null_dereference"}
  PROVE  AreTyped'
<1>1. Literal' = Literal /\ Groups' = Groups
  BY DataKeeps DEF DataStay
<1> QED
  BY <1>1 DEF AreTyped, Unfinished

(* Steps that leave the partitions leave the positions of paired bindings. *)
LEMMA PositionsStay ==
  ASSUME DataStay, UNCHANGED pass, UNCHANGED partitionVars
  PROVE  \A p, c, s, F : PositionsPaired(p, c, s, F)' = PositionsPaired(p, c, s, F)
<1>1. column' = column /\ output' = output /\ given' = given
  BY DEF partitionVars, DataStay
<1>2. \A p : RowsOf(p)' = RowsOf(p)
  BY <1>1 DEF RowsOf
<1>3. \A r : SideOf(r)' = SideOf(r)
  BY <1>1 DEF SideOf
<1>4. \A r : PlaceOf(r)' = PlaceOf(r)
  BY <1>1, <1>3 DEF PlaceOf
<1>5. ASSUME NEW p, NEW b
      PROVE  /\ SideOf(RowsOf(p)[b])' = SideOf(RowsOf(p)[b])
             /\ PlaceOf(RowsOf(p)[b])' = PlaceOf(RowsOf(p)[b])
  <2>1. PICK r : r = RowsOf(p)[b]
    OBVIOUS
  <2>2. (RowsOf(p)[b])' = r
    BY <1>2, <2>1
  <2> QED BY <1>3, <1>4, <2>1, <2>2
<1>6. \A c, s, F : Paired(c, s, F)' = Paired(c, s, F)
  BY DataKeeps
<1>7. \A p : Histogram(column, p)' = Histogram(column, p)
  BY <1>1
<1> QED
  BY <1>5, <1>6, <1>7 DEF PositionsPaired

(* The position stays inside its facts. *)
LEMMA InsideStays ==
  ASSUME NEW cur, IsInside(cur), DataStay
  PROVE  IsInside(cur)'
<1>1. GroupAt(cur) \in Groups /\ Groups' = Groups
  BY DEF IsInside, DataStay
<1>2. \A p : FactsAt(GroupAt(cur), p)' = FactsAt(GroupAt(cur), p)
  <2>1. PICK tg : tg = GroupAt(cur)
    OBVIOUS
  <2>2. \A p : FactsAt(tg, p)' = FactsAt(tg, p)
    BY <1>1, <2>1, DataKeeps
  <2>3. GroupAt(cur)' = tg
    BY <2>1 DEF GroupAt
  <2> QED BY <2>1, <2>2, <2>3
<1> QED
  BY <1>1, <1>2 DEF IsInside

(* Steps that leave the semi bit vectors leave them right. *)
LEMMA SeenStays ==
  ASSUME AreSeen, DataStay, UNCHANGED <<pass, cursor, saved, seen>>, UNCHANGED partitionVars
  PROVE  AreSeen'
<1>1. PICK cur : cur = cursor
  OBVIOUS
<1>2. cursor' = cur
  BY <1>1
<1>3. ASSUME NEW tg \in Groups, NEW c \in LiteralsOf(tg), NEW s \in Side
      PROVE  (SeenOf(tg, c, s) = PositionsPaired(cursor.partition, c, s, DoneAt(cursor, tg)))'
  <2>1. SeenOf(tg, c, s)' = SeenOf(tg, c, s)
    BY DEF SeenOf
  <2>2. PICK F : F = DoneAt(cur, tg)
    OBVIOUS
  <2>3. DoneAt(cur, tg)' = F
    BY <2>2, DataKeeps
  <2>4. DoneAt(cursor, tg) = F /\ DoneAt(cursor, tg)' = F
    BY <1>1, <1>2, <2>2, <2>3
  <2>5. PICK p : p = cur.partition
    OBVIOUS
  <2>6. PositionsPaired(p, c, s, F)' = PositionsPaired(p, c, s, F)
    BY PositionsStay
  <2>7. SeenOf(tg, c, s) = PositionsPaired(p, c, s, F)
    BY <1>1, <2>4, <2>5 DEF AreSeen
  <2>8. PositionsPaired(cursor.partition, c, s, DoneAt(cursor, tg))' = PositionsPaired(p, c, s, F)'
    BY <1>2, <2>4, <2>5
  <2> QED BY <2>1, <2>6, <2>7, <2>8
<1>4. \A tg \in Groups : (saved[tg] <= cursor.partition)'
  BY DEF AreSeen
<1> QED
  BY <1>3, <1>4 DEF AreSeen, DataStay

(* Steps that do not count. *)
LEMMA CountsStay ==
  ASSUME CountsInv, DataStay, tables # <<>> => tables' # <<>>,
         UNCHANGED <<pass, cursor, saved, seen, counts, joined, column>>,
         pc' \in Unfinished \cup {"next", "done", "use_after_free", "null_dereference"},
         pc' \in Unfinished => pc \in Unfinished, pc' \in Prepared => pc \in Prepared,
         pc' = "count" => pc = "count" /\ UNCHANGED partitionVars
  PROVE  CountsInv'
<1>1. AreTyped'
  BY TypedStays DEF CountsInv
<1>2. pc' \in Unfinished' => tables' # <<>> /\ AreCounted'
  BY CountedStays DEF CountsInv, Unfinished
<1>3. pc' \in Prepared' => IsFresh'
  <2> SUFFICES ASSUME pc' \in Prepared PROVE IsFresh'
    BY DEF Prepared
  <2>1. cursor = FirstChunk /\ saved = NoPartition /\ seen = NothingSeen
    BY DEF CountsInv, IsFresh
  <2>2. FirstChunk' = FirstChunk /\ NoPartition' = NoPartition /\ NothingSeen' = NothingSeen
    BY DataKeeps DEF FirstChunk
  <2> QED BY <2>1, <2>2 DEF IsFresh
<1>4. pc' = "count" => IsInside(cursor)' /\ AreSeen'
  <2> SUFFICES ASSUME pc' = "count" PROVE IsInside(cursor)' /\ AreSeen'
    OBVIOUS
  <2>1. IsInside(cursor) /\ AreSeen /\ UNCHANGED partitionVars
    BY DEF CountsInv
  <2>2. PICK cur : cur = cursor
    OBVIOUS
  <2>3. IsInside(cur)' /\ cursor' = cur
    BY <2>1, <2>2, InsideStays
  <2>4. IsInside(cursor)'
    BY <2>3
  <2> QED BY <2>1, <2>4, SeenStays
<1> QED
  BY <1>1, <1>2, <1>3, <1>4 DEF CountsInv

(* The data stay when the tables do. *)
LEMMA SameData ==
  ASSUME UNCHANGED <<given, tables>>
  PROVE  DataStay
<1>1. \A tg : Group(tg)' = Group(tg) /\ Facts(tg)' = Facts(tg)
  BY DEF Group, Facts
<1>2. \A tg : LiteralsOf(tg)' = LiteralsOf(tg)
  BY <1>1 DEF LiteralsOf
<1> QED
  BY <1>1, <1>2 DEF DataStay, Groups

(* A plan that is kept changes nothing else of its group. *)
LEMMA KeptPlanKeepsData ==
  ASSUME PlanningInv, KeepPlan
  PROVE  DataStay /\ (tables # <<>> => tables' # <<>>)
<1>1. UNCHANGED <<given, variable>>
  BY Zenon DEF KeepPlan
<1>2. PICK tg \in Groups : tables' = [tables EXCEPT ![tg[1]].groups[tg[2]].plan = Plan]
  BY Zenon DEF KeepPlan
<1>3. CallInv /\ TablesInv /\ PlanInv
  BY DEF PlanningInv, CountingInv
<1>4. PICK p \in EvaluationPlanType : p = Plan
  BY <1>3, PlanNodesAre
<1>5. tables' = [tables EXCEPT ![tg[1]].groups[tg[2]].plan = p]
  BY <1>2, <1>4
<1>6. /\ DOMAIN tables' = DOMAIN tables
      /\ \A t \in DOMAIN tables :
           /\ tables'[t].rows = tables[t].rows
           /\ DOMAIN tables'[t].groups = DOMAIN tables[t].groups
           /\ \A g \in DOMAIN tables[t].groups :
                /\ tables'[t].groups[g].key = tables[t].groups[g].key
                /\ tables'[t].groups[g].literals = tables[t].groups[g].literals
  <2>1. TablesInv /\ tg \in Groups /\ p \in EvaluationPlanType
    BY <1>3
  <2>2. /\ DOMAIN tables' = DOMAIN tables
        /\ \A t \in DOMAIN tables :
             /\ tables'[t].rows = tables[t].rows
             /\ DOMAIN tables'[t].groups = DOMAIN tables[t].groups
             /\ \A g \in DOMAIN tables[t].groups :
                  /\ tables'[t].groups[g].key = tables[t].groups[g].key
                  /\ tables'[t].groups[g].literals = tables[t].groups[g].literals
                  /\ tables'[t].groups[g].plan =
                       IF tg = <<t, g>> THEN p ELSE tables[t].groups[g].plan
    BY <1>1, <1>5, <2>1, NewPlanKeepsTables, Zenon
  <2> QED BY <2>2, Zenon
<1>7. Groups' = Groups
  BY <1>6 DEF Groups
<1>8. ASSUME NEW th \in Groups
      PROVE  /\ Facts(th)' = Facts(th) /\ Group(th)'.key = Group(th).key
             /\ LiteralsOf(th)' = LiteralsOf(th)
  <2>0. PICK t \in DOMAIN tables : \E g \in DOMAIN tables[t].groups : th = <<t, g>>
    BY DEF Groups
  <2>1. PICK g \in DOMAIN tables[t].groups : th = <<t, g>>
    BY <2>0
  <2>2. /\ Group(th) = tables[t].groups[g] /\ Group(th)' = tables'[t].groups[g]
        /\ Facts(th) = tables[t].rows /\ Facts(th)' = tables'[t].rows
    BY <2>1 DEF Group, Facts
  <2>3. Group(th)'.literals = Group(th).literals
    BY <1>6, <2>1, <2>2
  <2> QED BY <1>6, <2>1, <2>2, <2>3 DEF LiteralsOf
<1>9. tables # <<>> => tables' # <<>>
  <2> SUFFICES ASSUME tables' = <<>> PROVE FALSE
    OBVIOUS
  <2>1. DOMAIN tables = {}
    BY <1>6
  <2> QED BY <2>1 DEF Groups
<1> QED
  BY <1>1, <1>7, <1>8, <1>9 DEF DataStay

-----------------------------------------------------------------------------
(* A new variable begins without counts. *)
LEMMA NextVariableKeepsCounts ==
  ASSUME PlanningInv', NextVariable
  PROVE  CountsInv'
<1>1. /\ given' = given /\ pass' = FirstPass /\ cursor' = FirstChunk /\ joined' = FALSE
      /\ saved' = NoPartition' /\ seen' = NothingSeen' /\ counts' = NothingCounted'
      /\ pc' = IF tables' = <<>> THEN "next" ELSE "plan"
  BY Zenon DEF NextVariable
<1>2. FirstPass' = FirstPass /\ FirstChunk' = FirstChunk
  BY <1>1 DEF FirstPass, FirstChunk
<1>3. IsFresh' /\ pc' \in {"next", "plan"}
  BY <1>1, <1>2 DEF IsFresh
<1>4. IsNew'
  BY <1>1, <1>2, <1>3 DEF IsNew
<1>5. CallInv' /\ TablesInv'
  BY DEF PlanningInv, CountingInv
<1>6. AreTyped' /\ AreCounted'
  <2>1. (CallInv /\ TablesInv /\ IsNew => AreTyped /\ AreCounted)'
    BY NewIsCounted, PTL
  <2> QED BY <1>4, <1>5, <2>1
<1>7. pc' \in Unfinished' => tables' # <<>>
  BY <1>1 DEF Unfinished
<1>8. pc' # "count"
  BY <1>1
<1> QED
  BY <1>3, <1>6, <1>7, <1>8 DEF CountsInv

(* A pass begins at the first position, whatever column it partitions. *)
LEMMA StartPassKeepsCounts ==
  ASSUME CountsInv, StartPass
  PROVE  CountsInv'
<1>1. /\ UNCHANGED <<given, tables, pass, cursor, saved, seen, counts, joined>>
      /\ pc = "start" /\ pc' = "partition"
  BY Zenon DEF StartPass, callVars
<1>2. DataStay
  BY <1>1, SameData
<1>3. /\ Literal' = Literal /\ Groups' = Groups /\ NoPartition' = NoPartition
      /\ NothingSeen' = NothingSeen /\ FirstChunk' = FirstChunk
  BY <1>2, DataKeeps DEF DataStay, FirstChunk
<1>4. /\ tables # <<>> /\ AreCounted /\ AreTyped
      /\ cursor = FirstChunk /\ saved = NoPartition /\ seen = NothingSeen
  BY <1>1 DEF CountsInv, Unfinished, Prepared, IsFresh
<1>5. IsFresh'
  BY <1>1, <1>3, <1>4 DEF IsFresh
<1>6. AreTyped'
  <2>1. PICK n : n = Len(column')
    OBVIOUS
  <2>2. NothingSeen \in [Literal -> [Side -> SUBSET (1..n)]]
    BY FreshHasType
  <2> QED BY <1>1, <1>3, <1>4, <2>1, <2>2 DEF AreTyped
<1>7. AreCounted'
  BY <1>1, <1>2, <1>4, CountedStays
<1> QED
  BY <1>1, <1>4, <1>5, <1>6, <1>7 DEF CountsInv

(* At the first position nothing is seen and nothing done. *)
LEMMA FreshIsSeen ==
  ASSUME CallInv, TablesInv, tables # <<>>, IsFresh
  PROVE  IsInside(cursor) /\ AreSeen
<1>1. /\ cursor = FirstChunk /\ saved = NoPartition /\ FirstChunk.partition = 0
      /\ FirstChunk.offset = 0 /\ GroupAt(FirstChunk) = <<1, 1>> /\ FirstChunk \in Cursor
  BY DEF IsFresh, FirstChunk, Cursor, GroupAt
<1>2. <<1, 1>> \in Groups
  BY GroupPlaces
<1>3. 0 \in Partition
  BY NumPartitionsType DEF Partition
<1>4. IsInside(cursor)
  <2>1. Cardinality(FactsAt(<<1, 1>>, 0)) \in Nat
    BY <1>2, FactsInOrder DEF FactsAreListed
  <2> QED BY <1>1, <1>2, <1>3, <2>1 DEF IsInside
<1>5. ASSUME NEW tg \in Groups, NEW c \in LiteralsOf(tg), NEW s \in Side
      PROVE  SeenOf(tg, c, s) = PositionsPaired(cursor.partition, c, s, DoneAt(cursor, tg))
  <2>1. SeenOf(tg, c, s) = {}
    BY <1>1 DEF SeenOf, NoPartition
  <2>2. DoneAt(cursor, tg) = {}
    BY <1>1, NothingIsDone
  <2>3. Paired(c, s, {}) = {}
    BY DEF Paired, PairsOf
  <2> QED BY <2>1, <2>2, <2>3 DEF PositionsPaired
<1>6. \A tg \in Groups : saved[tg] <= cursor.partition
  BY <1>1 DEF NoPartition
<1> QED
  BY <1>4, <1>5, <1>6 DEF AreSeen

(* Counting begins there. *)
LEMMA StartKeepsCounts ==
  ASSUME CallInv, TablesInv, CountsInv, StartCounting
  PROVE  CountsInv'
<1>1. /\ UNCHANGED <<given, tables, pass, cursor, saved, seen, counts, joined>>
      /\ UNCHANGED partitionVars /\ pc = "build" /\ pc' = "count"
  BY Zenon DEF StartCounting, callVars
<1>2. DataStay /\ column' = column
  BY <1>1, SameData DEF partitionVars
<1>3. tables # <<>> /\ AreCounted /\ AreTyped /\ IsFresh
  BY <1>1 DEF CountsInv, Unfinished, Prepared
<1>4. IsInside(cursor) /\ AreSeen
  BY <1>3, FreshIsSeen
<1>5. IsInside(cursor)'
  <2>1. PICK cur : cur = cursor
    OBVIOUS
  <2>2. IsInside(cur)' /\ cursor' = cur
    BY <1>1, <1>2, <1>4, <2>1, InsideStays
  <2> QED BY <2>2
<1>6. AreSeen' /\ AreCounted'
  BY <1>1, <1>2, <1>3, <1>4, SeenStays, CountedStays
<1>7. AreTyped'
  BY <1>1, <1>2, <1>3, TypedStays DEF Unfinished
<1> QED
  BY <1>1, <1>3, <1>5, <1>6, <1>7 DEF CountsInv, Prepared

(* The facts that are done are the same. *)
LEMMA CountedAgain ==
  ASSUME AreCounted, DataStay, counts' = counts,
         \A tg \in Groups : \A s \in Side : FactsDone(tg, s)' = FactsDone(tg, s)
  PROVE  AreCounted'
<1>1. ASSUME NEW tg \in Groups, NEW c \in LiteralsOf(tg)
      PROVE  CountOf(tg, c)' = CountOf(tg, c)
  <2>1. ASSUME NEW s \in Side
        PROVE  /\ PairsOf(c, s, FactsDone(tg, s))' = PairsOf(c, s, FactsDone(tg, s))
               /\ Paired(c, s, FactsDone(tg, s))' = Paired(c, s, FactsDone(tg, s))
    <3>1. PICK F : F = FactsDone(tg, s)
      OBVIOUS
    <3>2. FactsDone(tg, s)' = F
      BY <3>1
    <3>3. PairsOf(c, s, F)' = PairsOf(c, s, F) /\ Paired(c, s, F)' = Paired(c, s, F)
      BY DataKeeps
    <3> QED BY <3>1, <3>2, <3>3
  <2>2. Side' = Side
    BY DEF Side
  <2> QED BY <2>1, <2>2 DEF CountOf
<1> QED
  BY <1>1 DEF AreCounted, DataStay

(* In a partition nothing was seen before the first chunk of it. *)
LEMMA NothingPairedYet ==
  ASSUME IsReady, NEW p \in Partition, NEW tg \in Groups, NEW c \in LiteralsOf(tg),
         NEW s, NEW F \in SUBSET (DOMAIN Facts(tg)),
         \A f \in F : PartitionOf(KeyValue(tg, f)) # p
  PROVE  PositionsPaired(p, c, s, F) = {}
<1> SUFFICES ASSUME NEW b \in PositionsPaired(p, c, s, F) PROVE FALSE
  OBVIOUS
<1> DEFINE r == RowsOf(p)[b]
<1>1. b \in 1..Histogram(column, p) /\ SideOf(r) = s /\ PlaceOf(r) \in Paired(c, s, F)
  BY DEF PositionsPaired
<1>2. RowsArePartition(p)
  BY PartitionRows DEF IsReady, AreBuilt
<1>3. r \in DOMAIN column /\ PartitionOf(column[r]) = p
  BY <1>1, <1>2 DEF RowsArePartition
<1> HIDE DEF r
<1>4. PICK f \in F : Agree(c, f, s, PlaceOf(r))
  BY <1>1, PairedIs
<1>5. column[r] = KeyValue(tg, f)
  BY <1>1, <1>3, <1>4, AgreeIs DEF IsReady
<1> QED
  BY <1>3, <1>5

-----------------------------------------------------------------------------
(* The position is inside the facts of the current group and partition. *)
LEMMA CurrentFactsAre ==
  ASSUME CallInv, TablesInv, IsInside(cursor)
  PROVE  /\ CurrentGroup = GroupAt(cursor) /\ GroupAt(cursor) \in Groups
         /\ cursor.offset \in Nat /\ cursor.partition \in Partition
         /\ Len(CurrentFacts) = Cardinality(FactsAt(GroupAt(cursor), cursor.partition))
         /\ Len(CurrentFacts) \in Nat
         /\ cursor.offset <= Len(CurrentFacts)
         /\ CurrentFacts = FactsIn(GroupAt(cursor), cursor.partition)
<1>1. /\ CurrentGroup = GroupAt(cursor) /\ GroupAt(cursor) \in Groups
      /\ cursor.offset \in Nat /\ cursor.partition \in Partition
      /\ cursor.offset <= Cardinality(FactsAt(GroupAt(cursor), cursor.partition))
  BY DEF CurrentGroup, GroupAt, IsInside, Cursor
<1>2. CurrentFacts = FactsIn(GroupAt(cursor), cursor.partition)
  BY <1>1 DEF CurrentFacts
<1>3. FactsAreListed(GroupAt(cursor), cursor.partition)
  BY <1>1, FactsInOrder
<1>4. /\ Len(CurrentFacts) = Cardinality(FactsAt(GroupAt(cursor), cursor.partition))
      /\ Cardinality(FactsAt(GroupAt(cursor), cursor.partition)) \in Nat
  BY <1>2, <1>3 DEF FactsAreListed
<1> QED
  BY <1>1, <1>2, <1>4

(* Moving to the next group, table or partition leaves the counts right; the bits
   of an older partition are not those of this one. *)
LEMMA MoveKeepsCounts ==
  ASSUME IsReady, CountsInv, MoveToNextJoinGroup
  PROVE  CountsInv'
<1>1. /\ pc = "count" /\ pc' = "count" /\ cursor.offset = Len(CurrentFacts)
      /\ ~IsExhausted /\ cursor' = NextJoinGroup(cursor)
      /\ UNCHANGED <<given, tables, pass, saved, seen, counts, joined>>
      /\ UNCHANGED partitionVars
  BY Zenon DEF MoveToNextJoinGroup, callVars
<1>2. CallInv /\ TablesInv
  BY DEF IsReady
<1>3. DataStay /\ column' = column
  BY <1>1, SameData DEF partitionVars
<1>4. AreTyped /\ tables # <<>> /\ AreCounted /\ IsInside(cursor) /\ AreSeen
  BY <1>1 DEF CountsInv, Unfinished
<1>5. PICK cur : cur = cursor
  OBVIOUS
<1>6. PICK new : new = NextJoinGroup(cursor)
  OBVIOUS
<1>7. cursor' = new /\ new = NextJoinGroup(cur) /\ IsInside(cur)
  BY <1>1, <1>4, <1>5, <1>6
<1>8. IsNextOf(new, cur)
  BY <1>2, <1>7, NextGroupIs
<1>9. /\ cur.partition \in Partition /\ cur.partition \in Nat
      /\ cur.offset = Cardinality(FactsAt(GroupAt(cur), cur.partition))
  BY <1>1, <1>2, <1>4, <1>5, CurrentFactsAre DEF IsInside, Cursor
<1>10. new.partition # NumPartitions
  BY <1>1, <1>6 DEF IsExhausted
<1>11. new.partition \in Partition /\ (new.partition = cur.partition \/ new.partition = cur.partition + 1)
  BY <1>8, <1>9, <1>10, NumPartitionsType DEF IsNextOf, Partition
<1>12. \A tg \in Groups : DoneAt(new, tg) = DoneAt(cur, tg)
  BY <1>2, <1>7, <1>8, <1>9, NextKeepsDone
<1>13. IsInside(cursor)'
  <2>1. IsInside(new)
    <3>1. GroupAt(new) \in Groups /\ new \in Cursor /\ new.offset = 0
      BY <1>8 DEF IsNextOf
    <3>2. Cardinality(FactsAt(GroupAt(new), new.partition)) \in Nat
      BY <1>2, <3>1, FactsInOrder DEF FactsAreListed
    <3> QED BY <1>11, <3>1, <3>2 DEF IsInside
  <2>2. IsInside(new)'
    BY <1>3, <2>1, InsideStays
  <2> QED BY <1>7, <2>2
<1>14. AreTyped'
  BY <1>1, <1>3, <1>4, TypedStays DEF Unfinished
<1>15. AreCounted'
  <2>1. SidesOfPass' = SidesOfPass
    BY <1>1 DEF SidesOfPass
  <2>2. ASSUME NEW tg \in Groups, NEW s \in Side
        PROVE  FactsDone(tg, s)' = FactsDone(tg, s)
    <3>1. DoneAt(new, tg)' = DoneAt(new, tg)
      BY <1>3, DataKeeps
    <3>2. DoneAt(cursor, tg)' = DoneAt(cursor, tg)
      BY <1>5, <1>7, <1>12, <3>1
    <3>3. Facts(tg)' = Facts(tg)
      BY <1>3 DEF DataStay
    <3> QED BY <1>1, <2>1, <3>2, <3>3 DEF FactsDone
  <2> QED BY <1>1, <1>3, <1>4, <2>2, CountedAgain
<1>16. \A tg \in Groups : saved[tg] \in Int /\ saved[tg] <= cur.partition
  BY <1>4, <1>5 DEF AreSeen, AreTyped, Partition
<1>17. ASSUME NEW tg \in Groups, NEW c \in LiteralsOf(tg), NEW s \in Side
       PROVE  (SeenOf(tg, c, s) = PositionsPaired(cursor.partition, c, s, DoneAt(cursor, tg)))'
  <2>1. PICK F : F = DoneAt(cur, tg)
    OBVIOUS
  <2>2. PICK p : p = new.partition
    OBVIOUS
  <2>3. DoneAt(new, tg)' = F
    BY <1>3, <1>12, <2>1, DataKeeps
  <2>4. PositionsPaired(p, c, s, F)' = PositionsPaired(p, c, s, F)
    BY <1>1, <1>3, PositionsStay
  <2>5. PositionsPaired(cursor.partition, c, s, DoneAt(cursor, tg))' = PositionsPaired(p, c, s, F)
    BY <1>7, <2>2, <2>3, <2>4
  <2>6. SeenOf(tg, c, s)' = IF saved[tg] = p THEN seen[c][s] ELSE {}
    BY <1>1, <1>7, <2>2 DEF SeenOf
  <2>7. CASE p = cur.partition
    <3>1. SeenOf(tg, c, s) = PositionsPaired(p, c, s, F)
      BY <1>4, <1>5, <2>1, <2>7 DEF AreSeen
    <3>2. SeenOf(tg, c, s) = IF saved[tg] = p THEN seen[c][s] ELSE {}
      BY <1>5, <2>7 DEF SeenOf
    <3> QED BY <2>5, <2>6, <3>1, <3>2
  <2>8. CASE p # cur.partition
    <3>1. p = cur.partition + 1
      BY <1>11, <2>2, <2>8
    <3>2. saved[tg] # p
      BY <1>9, <1>16, <3>1
    <3>3. F \in SUBSET (DOMAIN Facts(tg))
      BY <2>1 DEF DoneAt
    <3>4. \A f \in F : PartitionOf(KeyValue(tg, f)) # p
      <4> TAKE f \in F
      <4>1. IsDoneAt(cur, tg, f)
        BY <2>1 DEF DoneAt
      <4>2. PartitionOf(KeyValue(tg, f)) <= cur.partition \/ PartitionOf(KeyValue(tg, f)) < cur.partition
        BY <1>9, <4>1 DEF IsDoneAt
      <4> QED BY <1>9, <3>1, <4>2
    <3>5. PositionsPaired(p, c, s, F) = {}
      BY <1>11, <2>2, <3>3, <3>4, NothingPairedYet
    <3> QED BY <2>5, <2>6, <3>2, <3>5
  <2> QED BY <2>7, <2>8
<1>18. \A tg \in Groups : (saved[tg] <= cursor.partition)'
  <2> TAKE tg \in Groups
  <2>1. saved[tg] <= new.partition
    BY <1>9, <1>11, <1>16
  <2> QED BY <1>1, <1>7, <2>1
<1>19. AreSeen'
  BY <1>3, <1>17, <1>18 DEF AreSeen, DataStay
<1>20. tables' # <<>>
  BY <1>1, <1>4
<1> QED
  BY <1>1, <1>13, <1>14, <1>15, <1>19, <1>20 DEF CountsInv, Prepared

-----------------------------------------------------------------------------
(* A chunk's facts are counted: its joined rows and the positions that had not
   joined in this partition.                                               *)
NewCount(th, p, c, K) ==
  [binding |-> [s \in Side |-> counts[c].binding[s] + Cardinality(HitsOf(p, th, c, s, K))],
   covered |-> [s \in Side |->
     counts[c].covered[s] + Cardinality(PositionsPaired(p, c, s, K) \ SeenOf(th, c, s))]]

IsCountedChunk(th, p, K) ==
  /\ saved' \in [Groups -> Partition \cup {-1}]
  /\ \A tg \in Groups : saved'[tg] \in {saved[tg], p} /\ (tg # th => saved'[tg] = saved[tg])
  /\ DOMAIN counts' = Literal /\ counts' = [c \in Literal |-> counts'[c]]
  /\ seen' \in [Literal -> [Side -> SUBSET (1..Len(column))]]
  /\ \A c \in Literal : c \notin LiteralsOf(th) => counts'[c] = counts[c] /\ seen'[c] = seen[c]
  /\ \A c \in LiteralsOf(th) :
       /\ counts'[c] = NewCount(th, p, c, K)
       /\ \A s \in Side : (IF saved'[th] = p THEN seen'[c][s] ELSE {})
                            = SeenOf(th, c, s) \cup PositionsPaired(p, c, s, K)
  /\ joined' \in BOOLEAN

(* Positions of a partition are no more than rows. *)
LEMMA PositionsAreRows ==
  ASSUME IsReady, NEW p \in Partition, NEW c, NEW s, NEW F
  PROVE  PositionsPaired(p, c, s, F) \in SUBSET (1..Len(column))
<1>1. RowsArePartition(p)
  BY PartitionRows DEF IsReady, AreBuilt
<1>2. /\ Histogram(column, p) \in Nat /\ Offset(column, p) \in Nat /\ Len(column) \in Nat
      /\ Offset(column, p) + Histogram(column, p) <= Len(column)
  BY <1>1 DEF RowsArePartition
<1>3. \A b \in 1..Histogram(column, p) : b \in 1..Len(column)
  BY <1>2
<1> QED
  BY <1>3 DEF PositionsPaired

(* The rows of a chunk that join are counted once for each literal they have. *)
LEMMA CountIs ==
  ASSUME IsReady, AreTyped, CurrentGroup \in Groups, cursor.partition \in Partition,
         NEW K \in SUBSET FactsAt(CurrentGroup, cursor.partition),
         NEW join, join = JoinedWith(cursor.partition, CurrentGroup, K), Count(join)
  PROVE  IsCountedChunk(CurrentGroup, cursor.partition, K)
<1> DEFINE rowAt(fb) == RowsOf(cursor.partition)[fb[2]]
           held == [fb \in join |->
                 LiteralsThatHold(Group(CurrentGroup), Facts(CurrentGroup)[fb[1]],
                                  BindingRows[rowAt(fb)])]
           hits == [c \in LiteralsOf(CurrentGroup) |-> [s \in Side |->
                 {fb \in join : c \in held[fb] /\ SideOf(rowAt(fb)) = s}]]
           bindings(c, s) == {fb[2] : fb \in hits[c][s]}
           before == [c \in LiteralsOf(CurrentGroup) |-> SeenInPartition(c)]
           p == cursor.partition
           th == CurrentGroup
<1>1. /\ seen' = [c \in Literal |->
           IF c \notin LiteralsOf(CurrentGroup) THEN seen[c]
           ELSE [s \in Side |-> before[c][s] \cup bindings(c, s)]]
      /\ counts' = [c \in Literal |->
           IF c \notin LiteralsOf(CurrentGroup) THEN counts[c]
           ELSE [binding |-> [s \in Side |->
                   counts[c].binding[s] + Cardinality(hits[c][s])],
                 covered |-> [s \in Side |->
                   counts[c].covered[s]
                   + Cardinality(bindings(c, s) \ before[c][s])]]]
      /\ saved' = [saved EXCEPT ![CurrentGroup] = cursor.partition]
      /\ joined' = TRUE
  BY Zenon DEF Count
<1>2. ASSUME NEW c \in LiteralsOf(th), NEW s \in Side
      PROVE  /\ hits[c][s] = HitsOf(p, th, c, s, K)
             /\ bindings(c, s) = PositionsPaired(p, c, s, K)
             /\ before[c][s] = SeenOf(th, c, s)
  <2>1. hits[c][s] = {fb \in join : c \in held[fb] /\ SideOf(rowAt(fb)) = s}
    BY Zenon
  <2>2. \A fb \in join : held[fb] = LiteralsThatHold(Group(th), Facts(th)[fb[1]], BindingRows[rowAt(fb)])
    BY Zenon
  <2>3. HitsOf(p, th, c, s, K) =
          {fb \in join : c \in LiteralsThatHold(Group(th), Facts(th)[fb[1]], BindingRows[rowAt(fb)])
                         /\ SideOf(rowAt(fb)) = s}
    BY Zenon DEF HitsOf
  <2>4. hits[c][s] = HitsOf(p, th, c, s, K)
    <3> HIDE DEF hits, held, rowAt
    <3> QED BY <2>1, <2>2, <2>3
  <2>5. bindings(c, s) = {fb[2] : fb \in HitsOf(p, th, c, s, K)}
    <3> HIDE DEF hits
    <3> QED BY <2>4
  <2>6. {fb[2] : fb \in HitsOf(p, th, c, s, K)} = PositionsPaired(p, c, s, K)
    BY PositionsOfHits
  <2>7. before[c][s] = SeenOf(th, c, s)
    <3>1. before[c] = IF saved[CurrentGroup] = cursor.partition THEN seen[c] ELSE [t \in Side |-> {}]
      BY Zenon DEF SeenInPartition
    <3> HIDE DEF before
    <3> QED BY <3>1 DEF SeenOf
  <2> QED BY <2>4, <2>5, <2>6, <2>7, Zenon
<1>3. LiteralsOf(th) \subseteq Literal
  BY LiteralsAre
<1> HIDE DEF hits, held, rowAt, bindings, before
<1>4. ASSUME NEW c \in LiteralsOf(th)
      PROVE  counts'[c] = NewCount(th, p, c, K)
  <2>1. counts'[c] = [binding |-> [s \in Side |-> counts[c].binding[s] + Cardinality(hits[c][s])],
                      covered |-> [s \in Side |->
                        counts[c].covered[s] + Cardinality(bindings(c, s) \ before[c][s])]]
    BY <1>1, <1>3, Zenon
  <2>2. [s \in Side |-> counts[c].binding[s] + Cardinality(hits[c][s])]
          = [s \in Side |-> counts[c].binding[s] + Cardinality(HitsOf(p, th, c, s, K))]
    BY <1>2
  <2>3. [s \in Side |-> counts[c].covered[s] + Cardinality(bindings(c, s) \ before[c][s])]
          = [s \in Side |-> counts[c].covered[s] + Cardinality(PositionsPaired(p, c, s, K) \ SeenOf(th, c, s))]
    BY <1>2
  <2> QED BY <2>1, <2>2, <2>3, Zenon DEF NewCount
<1>5. ASSUME NEW c \in LiteralsOf(th)
      PROVE  /\ seen'[c] \in [Side -> SUBSET (1..Len(column))]
             /\ \A s \in Side : seen'[c][s] = SeenOf(th, c, s) \cup PositionsPaired(p, c, s, K)
  <2>1. seen'[c] = [s \in Side |-> before[c][s] \cup bindings(c, s)]
    BY <1>1, <1>3, Zenon
  <2>2. \A s \in Side : SeenOf(th, c, s) \in SUBSET (1..Len(column))
    BY <1>3 DEF SeenOf, AreTyped
  <2>3. \A s \in Side : PositionsPaired(p, c, s, K) \in SUBSET (1..Len(column))
    BY PositionsAreRows
  <2>4. \A s \in Side : seen'[c][s] = SeenOf(th, c, s) \cup PositionsPaired(p, c, s, K)
    BY <1>2, <2>1
  <2> QED BY <2>1, <2>2, <2>3, <2>4
<1>6. saved \in [Groups -> Partition \cup {-1}] /\ seen \in [Literal -> [Side -> SUBSET (1..Len(column))]]
  BY DEF AreTyped
<1>7. /\ saved' \in [Groups -> Partition \cup {-1}] /\ saved'[th] = p
      /\ \A tg \in Groups : saved'[tg] \in {saved[tg], p} /\ (tg # th => saved'[tg] = saved[tg])
  BY <1>1, <1>6
<1>8. \A c \in Literal : c \notin LiteralsOf(th) => counts'[c] = counts[c] /\ seen'[c] = seen[c]
  BY <1>1
<1>9. DOMAIN counts' = Literal /\ counts' = [c \in Literal |-> counts'[c]] /\ DOMAIN seen' = Literal
      /\ seen' = [c \in Literal |-> seen'[c]]
  BY <1>1
<1>10. seen' \in [Literal -> [Side -> SUBSET (1..Len(column))]]
  <2>1. \A c \in Literal : seen'[c] \in [Side -> SUBSET (1..Len(column))]
    BY <1>5, <1>6, <1>8
  <2> QED BY <1>9, <2>1
<1>11. \A c \in LiteralsOf(th) : \A s \in Side :
         (IF saved'[th] = p THEN seen'[c][s] ELSE {}) = SeenOf(th, c, s) \cup PositionsPaired(p, c, s, K)
  BY <1>5, <1>7
<1>12. joined' \in BOOLEAN
  BY <1>1
<1> QED
  BY <1>4, <1>7, <1>8, <1>9, <1>10, <1>11, <1>12, Zenon DEF IsCountedChunk

(* A chunk without joined rows counts for nothing. *)
LEMMA NoJoinIs ==
  ASSUME IsReady, AreTyped, CurrentGroup \in Groups, cursor.partition \in Partition,
         NEW K \in SUBSET FactsAt(CurrentGroup, cursor.partition),
         JoinedWith(cursor.partition, CurrentGroup, K) = {},
         UNCHANGED <<saved, seen, counts, joined>>
  PROVE  IsCountedChunk(CurrentGroup, cursor.partition, K)
<1> DEFINE p == cursor.partition
           th == CurrentGroup
<1>1. LiteralsOf(th) \subseteq Literal
  BY LiteralsAre
<1>2. ASSUME NEW c \in LiteralsOf(th), NEW s \in Side
      PROVE  HitsOf(p, th, c, s, K) = {} /\ PositionsPaired(p, c, s, K) = {}
  <2>1. HitsOf(p, th, c, s, K) = {}
    BY DEF HitsOf
  <2>2. {fb[2] : fb \in HitsOf(p, th, c, s, K)} = PositionsPaired(p, c, s, K)
    BY PositionsOfHits
  <2> QED BY <2>1, <2>2
<1>3. /\ saved \in [Groups -> Partition \cup {-1}]
      /\ seen \in [Literal -> [Side -> SUBSET (1..Len(column))]]
      /\ counts \in [Literal -> Counts] /\ joined \in BOOLEAN
  BY DEF AreTyped
<1>4. Cardinality({}) = 0
  BY FS_EmptySet
<1>5. ASSUME NEW c \in LiteralsOf(th)
      PROVE  counts[c] = NewCount(th, p, c, K)
  <2>1. counts[c] \in Counts
    BY <1>1, <1>3
  <2>2. \A s \in Side : /\ Cardinality(HitsOf(p, th, c, s, K)) = 0
                        /\ Cardinality(PositionsPaired(p, c, s, K) \ SeenOf(th, c, s)) = 0
    BY <1>2, <1>4
  <2>3. \A s \in Side : counts[c].binding[s] \in Nat /\ counts[c].covered[s] \in Nat
    BY <2>1 DEF Counts
  <2>4. /\ [s \in Side |-> counts[c].binding[s] + Cardinality(HitsOf(p, th, c, s, K))] = counts[c].binding
        /\ [s \in Side |-> counts[c].covered[s] + Cardinality(PositionsPaired(p, c, s, K) \ SeenOf(th, c, s))]
             = counts[c].covered
    <3>1. counts[c].binding \in [Side -> Nat] /\ counts[c].covered \in [Side -> Nat]
      BY <2>1 DEF Counts
    <3>2. \A s \in Side :
            /\ counts[c].binding[s] + Cardinality(HitsOf(p, th, c, s, K)) = counts[c].binding[s]
            /\ counts[c].covered[s] + Cardinality(PositionsPaired(p, c, s, K) \ SeenOf(th, c, s))
                 = counts[c].covered[s]
      BY <2>2, <2>3
    <3>3. [s \in Side |-> counts[c].binding[s] + Cardinality(HitsOf(p, th, c, s, K))] = counts[c].binding
      BY <3>1, <3>2
    <3>4. [s \in Side |-> counts[c].covered[s] + Cardinality(PositionsPaired(p, c, s, K) \ SeenOf(th, c, s))]
            = counts[c].covered
      BY <3>1, <3>2
    <3> QED BY <3>3, <3>4
  <2>5. counts[c] = [binding |-> counts[c].binding, covered |-> counts[c].covered]
    BY <2>1 DEF Counts
  <2> QED BY <2>4, <2>5, Zenon DEF NewCount
<1>6. \A c \in LiteralsOf(th) : \A s \in Side :
         (IF saved[th] = p THEN seen[c][s] ELSE {}) = SeenOf(th, c, s) \cup PositionsPaired(p, c, s, K)
  BY <1>2 DEF SeenOf
<1>7. counts = [c \in Literal |-> counts[c]] /\ DOMAIN counts = Literal
  BY <1>3
<1>8. saved' = saved /\ seen' = seen /\ counts' = counts /\ joined' = joined
  OBVIOUS
<1> QED
  BY <1>3, <1>5, <1>6, <1>7, <1>8 DEF IsCountedChunk

-----------------------------------------------------------------------------
Adds(p, tg, c, s, F, K, D, E) ==
  /\ Cardinality(PairsOf(c, s, E)) = Cardinality(PairsOf(c, s, D)) + Cardinality(HitsOf(p, tg, c, s, K))
  /\ Cardinality(Paired(c, s, E))
       = Cardinality(Paired(c, s, D))
         + Cardinality(PositionsPaired(p, c, s, K) \ PositionsPaired(p, c, s, F))

(* What a chunk of facts adds to the counts of a side, if it is of this pass. *)
LEMMA ChunkAdds ==
  ASSUME IsReady, NEW p \in Partition, NEW tg \in Groups, NEW c \in LiteralsOf(tg), NEW s \in Side,
         NEW F \in SUBSET (DOMAIN Facts(tg)), NEW K \in SUBSET FactsAt(tg, p), F \cap K = {},
         NEW D \in SUBSET (DOMAIN Facts(tg)), s \in SidesOfPass => D = F,
         NEW E, E = IF s \in SidesOfPass THEN F \cup K ELSE D
  PROVE  Adds(p, tg, c, s, F, K, D, E)
<1>1. CallInv /\ TablesInv
  BY DEF IsReady
<1>2. K \in SUBSET (DOMAIN Facts(tg))
  BY DEF FactsAt
<1>3. CASE s \in SidesOfPass
  <2>1. D = F /\ E = F \cup K
    BY <1>3
  <2>2. Joins(c, s, F, K)
    BY <1>1, <1>2, PairsJoin
  <2>3. Cardinality(HitsOf(p, tg, c, s, K)) = Cardinality(PairsOf(c, s, K))
    BY <1>3, HitsCounted
  <2>4. Cardinality(PositionsPaired(p, c, s, K) \ PositionsPaired(p, c, s, F))
          = Cardinality(Paired(c, s, K) \ Paired(c, s, F))
    BY <1>3, PositionsCounted
  <2> QED BY <2>1, <2>2, <2>3, <2>4 DEF Adds, Joins
<1>4. CASE s \notin SidesOfPass
  <2>1. HitsOf(p, tg, c, s, K) = {} /\ PositionsPaired(p, c, s, K) = {}
    BY <1>4, OtherSides
  <2>2. Cardinality({}) = 0
    BY FS_EmptySet
  <2>3. Cardinality(PairsOf(c, s, D)) \in Nat /\ Cardinality(Paired(c, s, D)) \in Nat
    BY <1>1, PairsAreFinite
  <2>4. PositionsPaired(p, c, s, K) \ PositionsPaired(p, c, s, F) = {}
    BY <2>1
  <2>5. Cardinality(HitsOf(p, tg, c, s, K)) = 0
        /\ Cardinality(PositionsPaired(p, c, s, K) \ PositionsPaired(p, c, s, F)) = 0
    BY <2>1, <2>2, <2>4
  <2>6. E = D
    BY <1>4
  <2>7. \A k \in Nat : k = k + 0
    OBVIOUS
  <2> QED BY <2>3, <2>5, <2>6, <2>7, Zenon DEF Adds
<1> QED
  BY <1>3, <1>4

(* The positions of two sets of facts. *)
LEMMA PositionsJoin ==
  ASSUME NEW p, NEW c, NEW s, NEW F, NEW K
  PROVE  PositionsPaired(p, c, s, F \cup K) = PositionsPaired(p, c, s, F) \cup PositionsPaired(p, c, s, K)
<1>1. \A i : i \in Paired(c, s, F \cup K) <=> i \in Paired(c, s, F) \/ i \in Paired(c, s, K)
  BY PairedIs
<1> QED
  BY <1>1 DEF PositionsPaired

CountsHaveType == \A tg \in Groups : \A c \in LiteralsOf(tg) : CountOf(tg, c) \in Counts

(* What is done is among the facts. *)
LEMMA FactsDoneAre ==
  ASSUME NEW tg, NEW s
  PROVE  FactsDone(tg, s) \in SUBSET (DOMAIN Facts(tg))
BY DEF FactsDone, DoneAt

(* The counts are numbers. *)
LEMMA CountHasType == CallInv /\ TablesInv => CountsHaveType
<1> SUFFICES ASSUME CallInv, TablesInv, NEW tg \in Groups, NEW c \in LiteralsOf(tg)
             PROVE  CountOf(tg, c) \in Counts
  BY DEF CountsHaveType
<1>1. \A s \in Side : /\ Cardinality(PairsOf(c, s, FactsDone(tg, s))) \in Nat
                      /\ Cardinality(Paired(c, s, FactsDone(tg, s))) \in Nat
  BY FactsDoneAre, PairsAreFinite
<1> QED
  BY <1>1 DEF CountOf, Counts

(* A chunk ends behind its start and not behind the facts. *)
LEMMA ChunkEnd ==
  ASSUME NEW first \in Nat, NEW n \in Nat, first < n
  PROVE  ByChunk(first, n) \in Nat /\ first <= ByChunk(first, n) /\ ByChunk(first, n) <= n
<1>1. ChunkSize \in Nat \ {0}
  BY InputAssumption, Zenon
<1> QED
  BY <1>1 DEF ByChunk

(* A chunk that is counted makes the counts those of the facts done with it. *)
LEMMA CountedChunk ==
  ASSUME IsReady, AreCounted, AreSeen, DataStay, UNCHANGED pass, IsInside(cursor),
         NEW K \in SUBSET FactsAt(GroupAt(cursor), cursor.partition),
         IsCountedChunk(GroupAt(cursor), cursor.partition, K),
         DoneAt(cursor, GroupAt(cursor)) \cap K = {},
         NEW new, cursor' = new,
         DoneAt(new, GroupAt(cursor)) = DoneAt(cursor, GroupAt(cursor)) \cup K,
         \A tg \in Groups : tg # GroupAt(cursor) => DoneAt(new, tg) = DoneAt(cursor, tg)
  PROVE  AreCounted'
<1> DEFINE th == GroupAt(cursor)
           p == cursor.partition
<1>1. th \in Groups /\ p \in Partition /\ CallInv /\ TablesInv
  BY DEF IsInside, IsReady
<1>2. SidesOfPass' = SidesOfPass
  BY DEF SidesOfPass
<1>3. ASSUME NEW tg \in Groups, NEW s
      PROVE  FactsDone(tg, s)' = IF s \in SidesOfPass THEN DoneAt(new, tg) ELSE FactsDone(tg, s)
  <2>1. DoneAt(new, tg)' = DoneAt(new, tg) /\ Facts(tg)' = Facts(tg)
    BY DataKeeps DEF DataStay
  <2> QED BY <1>2, <2>1 DEF FactsDone
<1>4. ASSUME NEW tg \in Groups, NEW c \in LiteralsOf(tg)
      PROVE  (counts[c] = CountOf(tg, c))'
  <2>1. counts[c] = CountOf(tg, c) /\ c \in Literal
    BY LiteralsAre DEF AreCounted
  <2>2. ASSUME NEW s \in Side, NEW E, FactsDone(tg, s)' = E
        PROVE  /\ PairsOf(c, s, FactsDone(tg, s))' = PairsOf(c, s, E)
               /\ Paired(c, s, FactsDone(tg, s))' = Paired(c, s, E)
    <3>1. PairsOf(c, s, E)' = PairsOf(c, s, E) /\ Paired(c, s, E)' = Paired(c, s, E)
      BY DataKeeps
    <3> QED BY <2>2, <3>1
  <2>3. Side' = Side
    BY DEF Side
  <2>4. CASE tg # th
    <3>1. c \notin LiteralsOf(th)
      BY <1>1, <2>4, GroupsAreDisjoint
    <3>2. counts'[c] = counts[c]
      BY <2>1, <3>1 DEF IsCountedChunk
    <3>3. DoneAt(new, tg) = DoneAt(cursor, tg)
      BY <2>4
    <3>4. \A s : FactsDone(tg, s)' = FactsDone(tg, s)
      BY <1>3, <3>3 DEF FactsDone
    <3>5. ASSUME NEW s \in Side
          PROVE  /\ PairsOf(c, s, FactsDone(tg, s))' = PairsOf(c, s, FactsDone(tg, s))
                 /\ Paired(c, s, FactsDone(tg, s))' = Paired(c, s, FactsDone(tg, s))
      <4>1. PICK E : E = FactsDone(tg, s)
        OBVIOUS
      <4>2. FactsDone(tg, s)' = E
        BY <3>4, <4>1
      <4> QED BY <2>2, <4>1, <4>2
    <3>6. CountOf(tg, c)' = CountOf(tg, c)
      BY <2>3, <3>5 DEF CountOf
    <3> QED BY <2>1, <3>2, <3>6
  <2>5. CASE tg = th
    <3> DEFINE F == DoneAt(cursor, tg)
               D(s) == FactsDone(tg, s)
               E(s) == IF s \in SidesOfPass THEN F \cup K ELSE D(s)
    <3>1. counts'[c] = NewCount(tg, p, c, K)
      BY <2>5 DEF IsCountedChunk
    <3>2. \A s \in Side : SeenOf(tg, c, s) = PositionsPaired(p, c, s, F)
      BY DEF AreSeen
    <3>3. ASSUME NEW s \in Side
          PROVE  /\ Cardinality(PairsOf(c, s, E(s))) = Cardinality(PairsOf(c, s, D(s))) + Cardinality(HitsOf(p, tg, c, s, K))
                 /\ Cardinality(Paired(c, s, E(s)))
                      = Cardinality(Paired(c, s, D(s)))
                        + Cardinality(PositionsPaired(p, c, s, K) \ SeenOf(tg, c, s))
      <4>1. F \in SUBSET (DOMAIN Facts(tg)) /\ D(s) \in SUBSET (DOMAIN Facts(tg))
        BY FactsDoneAre DEF DoneAt
      <4>2. s \in SidesOfPass => D(s) = F
        BY DEF FactsDone
      <4>3. K \in SUBSET FactsAt(tg, p) /\ F \cap K = {}
        BY <2>5
      <4>4. SeenOf(tg, c, s) = PositionsPaired(p, c, s, F)
        BY <3>2
      <4>5. PICK DD : DD = D(s)
        OBVIOUS
      <4>6. PICK EE : EE = E(s)
        OBVIOUS
      <4>7. EE = IF s \in SidesOfPass THEN F \cup K ELSE DD
        BY <4>5, <4>6
      <4>8. /\ Cardinality(PairsOf(c, s, EE)) = Cardinality(PairsOf(c, s, DD)) + Cardinality(HitsOf(p, tg, c, s, K))
            /\ Cardinality(Paired(c, s, EE))
                 = Cardinality(Paired(c, s, DD))
                   + Cardinality(PositionsPaired(p, c, s, K) \ PositionsPaired(p, c, s, F))
        <5>1. DD \in SUBSET (DOMAIN Facts(tg)) /\ (s \in SidesOfPass => DD = F)
          BY <4>1, <4>2, <4>5
        <5>2. F \in SUBSET (DOMAIN Facts(tg)) /\ K \in SUBSET FactsAt(tg, p) /\ F \cap K = {}
              /\ p \in Partition
          BY <1>1, <4>1, <4>3
        <5> HIDE DEF F, D, E, p
        <5>3. Adds(p, tg, c, s, F, K, DD, EE)
          BY <4>7, <5>1, <5>2, ChunkAdds
        <5> QED BY <5>3, Zenon DEF Adds
      <4> QED BY <4>4, <4>5, <4>6, <4>8
    <3>4. ASSUME NEW s \in Side
          PROVE  FactsDone(tg, s)' = E(s)
      BY <1>3, <2>5
    <3>5. ASSUME NEW s \in Side
          PROVE  /\ PairsOf(c, s, FactsDone(tg, s))' = PairsOf(c, s, E(s))
                 /\ Paired(c, s, FactsDone(tg, s))' = Paired(c, s, E(s))
      <4>1. PICK EE : EE = E(s)
        OBVIOUS
      <4>2. FactsDone(tg, s)' = EE
        BY <3>4, <4>1
      <4>3. /\ PairsOf(c, s, FactsDone(tg, s))' = PairsOf(c, s, EE)
            /\ Paired(c, s, FactsDone(tg, s))' = Paired(c, s, EE)
        BY <2>2, <4>2
      <4> QED BY <4>1, <4>3
    <3> HIDE DEF E, D, F
    <3>6. CountOf(tg, c)' = [binding |-> [s \in Side |-> Cardinality(PairsOf(c, s, E(s)))],
                             covered |-> [s \in Side |-> Cardinality(Paired(c, s, E(s)))]]
      BY <2>3, <3>5 DEF CountOf
    <3>7. /\ counts[c].binding = [s \in Side |-> Cardinality(PairsOf(c, s, D(s)))]
          /\ counts[c].covered = [s \in Side |-> Cardinality(Paired(c, s, D(s)))]
      BY <2>1 DEF CountOf, D
    <3>8. /\ [s \in Side |-> counts[c].binding[s] + Cardinality(HitsOf(p, tg, c, s, K))]
               = [s \in Side |-> Cardinality(PairsOf(c, s, E(s)))]
          /\ [s \in Side |-> counts[c].covered[s] + Cardinality(PositionsPaired(p, c, s, K) \ SeenOf(tg, c, s))]
               = [s \in Side |-> Cardinality(Paired(c, s, E(s)))]
      <4>1. \A s \in Side :
              /\ counts[c].binding[s] + Cardinality(HitsOf(p, tg, c, s, K)) = Cardinality(PairsOf(c, s, E(s)))
              /\ counts[c].covered[s] + Cardinality(PositionsPaired(p, c, s, K) \ SeenOf(tg, c, s))
                   = Cardinality(Paired(c, s, E(s)))
        <5> TAKE s \in Side
        <5>1. /\ counts[c].binding[s] = Cardinality(PairsOf(c, s, D(s)))
              /\ counts[c].covered[s] = Cardinality(Paired(c, s, D(s)))
          BY <3>7
        <5> QED BY <3>3, <5>1, Zenon
      <4> QED BY <4>1
    <3>9. NewCount(tg, p, c, K)
            = [binding |-> [s \in Side |-> Cardinality(PairsOf(c, s, E(s)))],
               covered |-> [s \in Side |-> Cardinality(Paired(c, s, E(s)))]]
      BY <3>8, Zenon DEF NewCount
    <3> QED BY <3>1, <3>6, <3>9
  <2> QED BY <2>4, <2>5
<1> QED
  BY <1>4 DEF AreCounted, DataStay

-----------------------------------------------------------------------------
(* A chunk that is counted makes the bits those of the facts done with it. *)
LEMMA SeenChunk ==
  ASSUME IsReady, AreSeen, AreTyped, DataStay, UNCHANGED pass, UNCHANGED partitionVars, IsInside(cursor),
         NEW K \in SUBSET FactsAt(GroupAt(cursor), cursor.partition),
         IsCountedChunk(GroupAt(cursor), cursor.partition, K),
         NEW new, cursor' = new, new.partition = cursor.partition,
         DoneAt(new, GroupAt(cursor)) = DoneAt(cursor, GroupAt(cursor)) \cup K,
         \A tg \in Groups : tg # GroupAt(cursor) => DoneAt(new, tg) = DoneAt(cursor, tg)
  PROVE  AreSeen'
<1> DEFINE th == GroupAt(cursor)
<1>1. PICK p \in Partition : p = cursor.partition
  BY DEF IsInside
<1>2. th \in Groups /\ CallInv /\ TablesInv /\ p \in Nat
  BY <1>1 DEF IsInside, IsReady, Partition
<1>3. ASSUME NEW tg \in Groups
      PROVE  (saved[tg] <= cursor.partition)'
  <2>1. saved[tg] <= p
    BY <1>1 DEF AreSeen
  <2>2. saved'[tg] \in {saved[tg], p}
    BY <1>1 DEF IsCountedChunk
  <2> QED BY <1>1, <1>2, <2>1, <2>2
<1>4. ASSUME NEW tg \in Groups, NEW c \in LiteralsOf(tg), NEW s \in Side
      PROVE  (SeenOf(tg, c, s) = PositionsPaired(cursor.partition, c, s, DoneAt(cursor, tg)))'
  <2>1. PICK E : E = DoneAt(new, tg)
    OBVIOUS
  <2>2. DoneAt(new, tg)' = E
    BY <2>1, DataKeeps
  <2>3. PositionsPaired(p, c, s, E)' = PositionsPaired(p, c, s, E)
    BY PositionsStay
  <2>4. PositionsPaired(cursor.partition, c, s, DoneAt(cursor, tg))' = PositionsPaired(p, c, s, E)
    BY <1>1, <2>2, <2>3
  <2>5. SeenOf(tg, c, s)' = IF saved'[tg] = p THEN seen'[c][s] ELSE {}
    BY <1>1 DEF SeenOf
  <2>6. SeenOf(tg, c, s) = PositionsPaired(p, c, s, DoneAt(cursor, tg))
    BY <1>1 DEF AreSeen
  <2>7. c \in Literal
    BY LiteralsAre
  <2>8. CASE tg # th
    <3>1. c \notin LiteralsOf(th)
      BY <1>2, <2>8, GroupsAreDisjoint
    <3>2. saved'[tg] = saved[tg] /\ seen'[c] = seen[c]
      BY <2>7, <2>8, <3>1 DEF IsCountedChunk
    <3>3. SeenOf(tg, c, s) = IF saved[tg] = p THEN seen[c][s] ELSE {}
      BY <1>1 DEF SeenOf
    <3>4. E = DoneAt(cursor, tg)
      BY <2>1, <2>8
    <3> QED BY <2>4, <2>5, <2>6, <3>2, <3>3, <3>4
  <2>9. CASE tg = th
    <3>1. (IF saved'[tg] = p THEN seen'[c][s] ELSE {}) = SeenOf(tg, c, s) \cup PositionsPaired(p, c, s, K)
      BY <1>1, <2>9 DEF IsCountedChunk
    <3>2. E = DoneAt(cursor, tg) \cup K
      BY <2>1, <2>9
    <3>3. PositionsPaired(p, c, s, E) = PositionsPaired(p, c, s, DoneAt(cursor, tg)) \cup PositionsPaired(p, c, s, K)
      BY <3>2, PositionsJoin
    <3> QED BY <2>4, <2>5, <2>6, <3>1, <3>3
  <2> QED BY <2>8, <2>9
<1> QED
  BY <1>3, <1>4 DEF AreSeen, DataStay

(* Taking a chunk leaves counts and bits right, whether something joins or not. *)
LEMMA TakeKeepsCounts ==
  ASSUME IsReady, PlanningInv', CountsInv, TakeChunk
  PROVE  CountsInv'
<1> DEFINE n == Len(CurrentFacts)
           end == ByChunk(cursor.offset, n)
           K == {CurrentFacts[i] : i \in (DOMAIN CurrentFacts) \cap (cursor.offset + 1..end)}
<1>1. /\ pc = "count" /\ pc' = "count" /\ cursor.offset < n
      /\ cursor' = [cursor EXCEPT !.offset = end]
      /\ UNCHANGED <<given, tables, pass>> /\ UNCHANGED partitionVars
      /\ \/ JoinOf(K) # {} /\ Count(JoinOf(K))
         \/ JoinOf(K) = {} /\ UNCHANGED <<saved, seen, counts, joined>>
  BY Zenon DEF TakeChunk, callVars
<1>2. CallInv /\ TablesInv
  BY DEF IsReady
<1>3. DataStay /\ column' = column
  BY <1>1, SameData DEF partitionVars
<1>4. AreTyped /\ tables # <<>> /\ AreCounted /\ IsInside(cursor) /\ AreSeen
  BY <1>1 DEF CountsInv, Unfinished
<1>5. /\ CurrentGroup = GroupAt(cursor) /\ GroupAt(cursor) \in Groups
      /\ cursor.offset \in Nat /\ cursor.partition \in Partition
      /\ n = Cardinality(FactsAt(GroupAt(cursor), cursor.partition)) /\ n \in Nat
      /\ CurrentFacts = FactsIn(GroupAt(cursor), cursor.partition)
  BY <1>2, <1>4, CurrentFactsAre
<1>6. end \in Nat /\ cursor.offset <= end /\ end <= n
  BY <1>1, <1>5, ChunkEnd
<1>7. PICK e \in Nat : e = end
  BY <1>6
<1>8. PICK new : new = [cursor EXCEPT !.offset = e]
  OBVIOUS
<1>9. cursor' = new
  BY <1>1, <1>7, <1>8, Zenon
<1>10. cursor \in Cursor
  BY <1>4 DEF IsInside
<1>11. /\ new \in Cursor /\ new.partition = cursor.partition /\ new.offset = e
       /\ GroupAt(new) = GroupAt(cursor)
  BY <1>7, <1>8, <1>10 DEF Cursor, GroupAt
<1>12. K = ChunkOf(cursor, e)
  BY <1>5, <1>7, Zenon DEF ChunkOf
<1> HIDE DEF n, end, K
<1>13. /\ K \in SUBSET FactsAt(GroupAt(cursor), cursor.partition)
       /\ DoneAt(new, GroupAt(cursor)) = DoneAt(cursor, GroupAt(cursor)) \cup K
       /\ DoneAt(cursor, GroupAt(cursor)) \cap K = {}
       /\ \A tg \in Groups : tg # GroupAt(cursor) => DoneAt(new, tg) = DoneAt(cursor, tg)
  <2>1. cursor.offset <= e /\ e <= Cardinality(FactsAt(GroupAt(cursor), cursor.partition))
    BY <1>5, <1>6, <1>7
  <2>2. PICK cur : cur = cursor
    OBVIOUS
  <2>3. /\ K \in SUBSET FactsAt(GroupAt(cur), cur.partition)
        /\ DoneAt(new, GroupAt(cur)) = DoneAt(cur, GroupAt(cur)) \cup K
        /\ DoneAt(cur, GroupAt(cur)) \cap K = {}
        /\ \A tg \in Groups : tg # GroupAt(cur) => DoneAt(new, tg) = DoneAt(cur, tg)
    <3>1. /\ IsInside(cur) /\ e \in Nat /\ cur.offset <= e
          /\ e <= Cardinality(FactsAt(GroupAt(cur), cur.partition))
          /\ new.partition = cur.partition /\ GroupAt(new) = GroupAt(cur) /\ new.offset = e
          /\ K = ChunkOf(cur, e)
      BY <1>4, <1>11, <1>12, <2>1, <2>2, Zenon
    <3> QED BY <1>2, <3>1, ChunkIs
  <2> QED BY <2>2, <2>3, Zenon
<1>14. JoinOf(K) = JoinedWith(cursor.partition, CurrentGroup, K)
  <2>1. K \in SUBSET (DOMAIN Facts(CurrentGroup))
    BY <1>5, <1>13 DEF FactsAt
  <2> QED BY <1>2, <1>5, <2>1, JoinIs DEF IsReady
<1>15. IsCountedChunk(GroupAt(cursor), cursor.partition, K)
  <2>1. /\ CurrentGroup \in Groups /\ K \in SUBSET FactsAt(CurrentGroup, cursor.partition)
        /\ cursor.partition \in Partition
    BY <1>5, <1>13
  <2>2. CASE Count(JoinOf(K))
    <3>1. PICK join : join = JoinOf(K)
      OBVIOUS
    <3>2. Count(join)
      BY <2>2, <3>1, Zenon DEF Count
    <3>3. IsCountedChunk(CurrentGroup, cursor.partition, K)
      BY <1>4, <1>14, <2>1, <3>1, <3>2, CountIs, Zenon
    <3> QED BY <1>5, <3>3
  <2>3. CASE JoinOf(K) = {} /\ UNCHANGED <<saved, seen, counts, joined>>
    <3>1. JoinedWith(cursor.partition, CurrentGroup, K) = {}
      BY <1>14, <2>3
    <3>2. IsCountedChunk(CurrentGroup, cursor.partition, K)
      BY <1>4, <2>1, <2>3, <3>1, NoJoinIs
    <3> QED BY <1>5, <3>2
  <2> QED BY <1>1, <2>2, <2>3
<1>16. pass' = pass
  BY <1>1
<1>17. AreCounted'
  BY <1>3, <1>4, <1>9, <1>13, <1>15, <1>16, CountedChunk
<1>18. AreSeen'
  BY <1>1, <1>3, <1>4, <1>9, <1>11, <1>13, <1>15, <1>16, SeenChunk
<1>19. IsInside(cursor)'
  <2>1. e <= Cardinality(FactsAt(GroupAt(new), new.partition))
    BY <1>5, <1>6, <1>7, <1>11
  <2>2. IsInside(new)
    BY <1>5, <1>11, <2>1 DEF IsInside
  <2>3. IsInside(new)'
    BY <1>3, <2>2, InsideStays
  <2> QED BY <1>9, <2>3
<1>20. AreTyped'
  <2>1. Literal' = Literal /\ Groups' = Groups
    BY <1>3, DataKeeps DEF DataStay
  <2>2. CountsHaveType'
    <3>1. CallInv' /\ TablesInv'
      BY DEF PlanningInv, CountingInv
    <3>2. (CallInv /\ TablesInv => CountsHaveType)'
      BY CountHasType, PTL
    <3> QED BY <3>1, <3>2
  <2>3. \A c \in Literal : counts'[c] \in Counts
    <3> TAKE c \in Literal
    <3>1. \E tg \in Groups' : c \in LiteralsOf(tg)'
      <4>1. PICK tg \in Groups : c \in LiteralsOf(tg)
        BY LiteralsAre
      <4> QED BY <1>3, <4>1 DEF DataStay
    <3>2. PICK tg \in Groups' : c \in LiteralsOf(tg)'
      BY <3>1
    <3>3. counts'[c] = CountOf(tg, c)' /\ CountOf(tg, c)' \in Counts'
      BY <1>17, <2>2, <3>2 DEF AreCounted, CountsHaveType
    <3> QED BY <3>3 DEF Counts, Side
  <2>4. /\ counts' = [c \in Literal |-> counts'[c]] /\ saved' \in [Groups -> Partition \cup {-1}]
        /\ seen' \in [Literal -> [Side -> SUBSET (1..Len(column))]] /\ joined' \in BOOLEAN
    BY <1>15 DEF IsCountedChunk
  <2>5. counts' \in [Literal -> Counts]
    BY <2>3, <2>4
  <2> QED BY <1>1, <1>3, <2>1, <2>4, <2>5 DEF AreTyped, Counts
<1>21. tables' # <<>>
  BY <1>1, <1>4
<1> QED
  BY <1>1, <1>17, <1>18, <1>19, <1>20, <1>21 DEF CountsInv, Prepared

-----------------------------------------------------------------------------
(* At the end of a pass the facts have all been done. *)
LEMMA EndOfPass ==
  ASSUME CallInv, TablesInv, IsInside(cursor), cursor.offset = Len(CurrentFacts), IsExhausted
  PROVE  \A tg \in Groups : DoneAt(cursor, tg) = DOMAIN Facts(tg)
<1>1. PICK new : new = NextJoinGroup(cursor)
  OBVIOUS
<1>2. IsNextOf(new, cursor) /\ new.partition = NumPartitions
  BY <1>1, NextGroupIs DEF IsExhausted
<1>3. cursor.offset = Cardinality(FactsAt(GroupAt(cursor), cursor.partition))
  BY CurrentFactsAre
<1> QED
  BY <1>2, <1>3, EndIsDone

(* The pass over the negative rows goes on from the counts of the positive ones. *)
LEMMA EndPassKeepsCounts ==
  ASSUME CallInv, TablesInv, CountsInv, EndPass
  PROVE  CountsInv'
<1>1. /\ pc = "count" /\ cursor.offset = Len(CurrentFacts) /\ IsExhausted
      /\ UNCHANGED <<given, tables, counts>> /\ UNCHANGED partitionVars
      /\ \/ pc' = "null_dereference" /\ UNCHANGED <<pass, cursor, saved, seen, joined>>
         \/ /\ pass = "positive" /\ pc' = "start" /\ pass' = "negative"
            /\ cursor' = FirstChunk /\ saved' = NoPartition /\ seen' = NothingSeen
            /\ joined' = FALSE
         \/ pc' = "next" /\ UNCHANGED <<pass, cursor, saved, seen, joined>>
  BY Zenon DEF EndPass
<1>2. DataStay /\ column' = column
  BY <1>1, SameData DEF partitionVars
<1>3. AreTyped /\ tables # <<>> /\ AreCounted /\ IsInside(cursor)
  BY <1>1 DEF CountsInv, Unfinished
<1>4. CASE pc' \in {"null_dereference", "next"} /\ UNCHANGED <<pass, cursor, saved, seen, joined>>
  <2>1. AreTyped'
    BY <1>1, <1>2, <1>3, <1>4, TypedStays
  <2> QED BY <1>4, <2>1 DEF CountsInv, Unfinished, Prepared
<1>5. CASE /\ pass = "positive" /\ pc' = "start" /\ pass' = "negative"
           /\ cursor' = FirstChunk /\ saved' = NoPartition /\ seen' = NothingSeen
           /\ joined' = FALSE
  <2>1. /\ Literal' = Literal /\ Groups' = Groups /\ NoPartition' = NoPartition
        /\ NothingSeen' = NothingSeen /\ FirstChunk' = FirstChunk
    BY <1>2, DataKeeps DEF DataStay, FirstChunk
  <2>2. IsFresh'
    BY <1>5, <2>1 DEF IsFresh
  <2>3. AreTyped'
    <3>1. PICK n : n = Len(column)
      OBVIOUS
    <3>2. NothingSeen \in [Literal -> [Side -> SUBSET (1..n)]] /\ NoPartition \in [Groups -> Partition \cup {-1}]
      BY FreshHasType
    <3> QED BY <1>1, <1>2, <1>3, <1>5, <2>1, <3>1, <3>2 DEF AreTyped
  <2>4. PICK cur : cur = FirstChunk
    OBVIOUS
  <2>5. cursor' = cur
    BY <1>5, <2>4
  <2>6. ASSUME NEW tg \in Groups, NEW s \in Side
        PROVE  FactsDone(tg, s)' = FactsDone(tg, s)
    <3>1. DoneAt(cur, tg)' = {}
      <4>1. DoneAt(cur, tg) = {}
        BY <2>4, NothingIsDone
      <4> QED BY <1>2, <4>1, DataKeeps
    <3>2. DoneAt(cursor, tg) = DOMAIN Facts(tg)
      BY <1>1, <1>3, EndOfPass
    <3>3. Facts(tg)' = Facts(tg)
      BY <1>2 DEF DataStay
    <3>4. SidesOfPass = {"positive"} /\ SidesOfPass' = {"negative"}
      BY <1>5 DEF SidesOfPass
    <3>5. FactsDone(tg, s) = IF s \in {"positive"} THEN DOMAIN Facts(tg) ELSE {}
      BY <1>5, <3>2, <3>4 DEF FactsDone
    <3>6. FactsDone(tg, s)' = IF s \in {"negative"} THEN {} ELSE DOMAIN Facts(tg)
      BY <1>5, <2>5, <3>1, <3>3, <3>4 DEF FactsDone
    <3>7. s \in {"negative"} <=> s \notin {"positive"}
      BY DEF Side
    <3> QED BY <3>5, <3>6, <3>7
  <2>7. AreCounted'
    BY <1>1, <1>2, <1>3, <2>6, CountedAgain
  <2>8. tables' # <<>>
    BY <1>1, <1>3
  <2> QED BY <1>5, <2>2, <2>3, <2>7, <2>8 DEF CountsInv
<1> QED
  BY <1>1, <1>4, <1>5

(* A call begins without counts. *)
LEMMA CountsInit == BindingInit => CountsInv
<1> SUFFICES ASSUME BindingInit PROVE CountsInv
  OBVIOUS
<1>1. CallInv /\ TablesInv
  BY PlanningInit DEF PlanningInv, CountingInv
<1>2. /\ pc = "next" /\ pass = FirstPass /\ cursor = FirstChunk
      /\ saved = NoPartition /\ seen = NothingSeen /\ counts = NothingCounted /\ joined = FALSE
  BY Zenon DEF BindingInit, Init
<1>3. IsNew
  BY <1>2 DEF IsNew, IsFresh
<1>4. AreTyped
  BY <1>1, <1>3, NewIsCounted
<1> QED
  BY <1>2, <1>4 DEF CountsInv, Unfinished, Prepared

(* While the facts are counted the tables and the plans are as they must be. *)
LEMMA CountingIsReady ==
  ASSUME PlanningInv, PlansInv, HashInv, pc = "count"
  PROVE  IsReady
<1>1. CallInv /\ TablesInv /\ CountingInv
  BY DEF PlanningInv, CountingInv
<1>2. AreBuilt /\ inserted = Len(column) /\ column = JoinColumn(BindingRows)
  BY DEF HashInv
<1>3. PartitionInv
  BY <1>1, <1>2, PartitionInvHolds DEF AreBuilt
<1>4. \A tg \in Groups : IsExactFor(Group(tg))
  BY DEF PlansInv, Working, PlanIsRight
<1> QED
  BY <1>1, <1>2, <1>3, <1>4 DEF IsReady

-----------------------------------------------------------------------------
(* Every step leaves the counts those of the facts that are done. *)
LEMMA CountsNext ==
  PlanningInv /\ PlanningInv' /\ PlansInv /\ HashInv /\ CountsInv /\ [BindingNext]_<<vars, tableVars>>
    => CountsInv'
<1> SUFFICES ASSUME PlanningInv, PlanningInv', PlansInv, HashInv, CountsInv,
                    [BindingNext]_<<vars, tableVars>>
             PROVE  CountsInv'
  OBVIOUS
<1>1. CallInv /\ TablesInv
  BY DEF PlanningInv, CountingInv
<1>2. CASE UNCHANGED vars
  <2>1. /\ UNCHANGED <<given, tables>> /\ UNCHANGED partitionVars
        /\ UNCHANGED <<pc, pass, cursor, saved, seen, counts, joined>>
    BY <1>2 DEF vars, countVars, callVars
  <2>2. pc' \in Unfinished \cup {"next", "done", "use_after_free", "null_dereference"}
    BY <2>1 DEF CountsInv, AreTyped, Unfinished
  <2> QED BY <2>1, <2>2, SameData, CountsStay DEF partitionVars
<1>3. CASE NextVariable
  BY <1>3, NextVariableKeepsCounts
<1>4. CASE AllCounted \/ GeneratePlan \/ MergeNodes \/ PartitionBindings \/ MakeHashTables \/ InsertRow
  <2>1. /\ UNCHANGED <<given, tables, column>>
        /\ UNCHANGED <<pass, cursor, saved, seen, counts, joined>>
        /\ \/ pc' \in {"done", "use_after_free"}
           \/ pc = "plan" /\ pc' = pc
           \/ pc = "partition" /\ pc' \in {"partition", "build"}
           \/ pc = "build" /\ pc' = pc
    <3>1. CASE AllCounted
      BY <3>1, Zenon DEF AllCounted, callVars, partitionVars
    <3>2. CASE GeneratePlan
      BY <3>2, Zenon DEF GeneratePlan, callVars, partitionVars, countVars
    <3>3. CASE MergeNodes
      BY <3>3, Zenon DEF MergeNodes, callVars, partitionVars
    <3>4. CASE PartitionBindings
      BY <3>4, Zenon DEF PartitionBindings, PartitionStep, RouteRow, CopyRest, countVars, callVars
    <3>5. CASE MakeHashTables
      BY <3>5, Zenon DEF MakeHashTables, callVars, partitionVars
    <3>6. CASE InsertRow
      BY <3>6, Zenon DEF InsertRow, callVars, partitionVars
    <3> QED BY <1>4, <3>1, <3>2, <3>3, <3>4, <3>5, <3>6
  <2>2. /\ pc' \in Unfinished \cup {"next", "done", "use_after_free", "null_dereference"}
        /\ pc' \in Unfinished => pc \in Unfinished
        /\ pc' \in Prepared => pc \in Prepared
        /\ pc' # "count"
    BY <2>1 DEF Unfinished, Prepared
  <2> QED BY <2>1, <2>2, SameData, CountsStay
<1>5. CASE KeepPlan
  <2>1. DataStay /\ (tables # <<>> => tables' # <<>>)
    BY <1>5, KeptPlanKeepsData
  <2>2. /\ UNCHANGED partitionVars /\ UNCHANGED <<pass, cursor, saved, seen, counts, joined>>
        /\ pc = "plan" /\ pc' \in {"plan", "start"}
    BY <1>5, Zenon DEF KeepPlan
  <2>3. /\ pc' \in Unfinished \cup {"next", "done", "use_after_free", "null_dereference"}
        /\ pc' \in Unfinished => pc \in Unfinished
        /\ pc' \in Prepared => pc \in Prepared
        /\ pc' # "count"
    BY <2>2 DEF Unfinished, Prepared
  <2>4. column' = column
    BY <2>2 DEF partitionVars
  <2> QED BY <2>1, <2>2, <2>3, <2>4, CountsStay
<1>6. CASE StartPass
  BY <1>6, StartPassKeepsCounts
<1>7. CASE StartCounting
  BY <1>1, <1>7, StartKeepsCounts
<1>8. CASE MoveToNextJoinGroup
  <2>1. pc = "count"
    BY <1>8, Zenon DEF MoveToNextJoinGroup
  <2> QED BY <1>8, <2>1, CountingIsReady, MoveKeepsCounts
<1>9. CASE TakeChunk
  <2>1. pc = "count"
    BY <1>9, Zenon DEF TakeChunk
  <2> QED BY <1>9, <2>1, CountingIsReady, TakeKeepsCounts
<1>10. CASE EndPass
  BY <1>1, <1>10, EndPassKeepsCounts
<1>11. \/ UNCHANGED vars \/ Next
  BY CountingOrTables
<1> QED
  BY <1>2, <1>3, <1>4, <1>5, <1>6, <1>7, <1>8, <1>9, <1>10, <1>11, Zenon DEF Next

-----------------------------------------------------------------------------
(* The results are the exact counts, of the candidates whose clause variable has
   had its turn.                                                           *)
Reported ==
  {c \in DOMAIN given.candidates :
     IF pc \in {"next", "done"} THEN ClauseVariable(c) <= variable ELSE ClauseVariable(c) < variable}

ExactCount(c) ==
  [binding |-> [s \in Side |-> Cardinality(Matches(c, s))],
   covered |-> [s \in Side |-> Cardinality({fb[2] : fb \in Matches(c, s)})]]

ResultsInv ==
  /\ results = [c \in Reported |-> ExactCount(c)]
  /\ pc = "done" => variable = Width

(* A candidate joins on a variable of the clause. *)
LEMMA ClauseVariables ==
  ASSUME CallInv, NEW c \in DOMAIN given.candidates
  PROVE  ClauseVariable(c) \in 1..Width /\ Width \in Nat
<1> DEFINE k == JoinKey(c)
<1>1. k \in DOMAIN VariablesOf(c) /\ VariablesOf(c)[k] # 0
  BY JoinKeyIsBound DEF BoundOf
<1>2. given \in Input
  BY DEF CallInv
<1>3. \A s \in Side : \A a \in DOMAIN VariablesOf(c) : VariablesOf(c)[a] \in 0..Len(given.bindings[s][1])
  BY <1>2, InputAssumption, Zenon DEF VariablesOf
<1>4. VariablesOf(c)[k] \in 0..Width
  BY <1>1, <1>3 DEF Width, Side
<1>5. ClauseVariable(c) = VariablesOf(c)[k]
  BY DEF ClauseVariable, VariablesOf
<1>6. Width \in Nat
  <2>1. given.bindings["positive"] \in Seq(Seq(Value)) \ {<<>>}
    BY <1>2, InputAssumption, Zenon DEF Side
  <2> DEFINE rows == given.bindings["positive"]
  <2>2. rows \in Seq(Seq(Value)) /\ rows # <<>>
    BY <2>1
  <2> HIDE DEF rows
  <2>3. rows[1] \in Seq(Value)
    BY <2>2
  <2>4. Len(rows[1]) \in Nat
    BY <2>3
  <2> QED BY <2>4 DEF Width, rows
<1> HIDE DEF k
<1> QED
  BY <1>1, <1>4, <1>5, <1>6

(* Both are of the input alone. *)
LEMMA ClauseVariableStays ==
  ASSUME UNCHANGED given
  PROVE  \A c : ClauseVariable(c)' = ClauseVariable(c)
<1>1. \A c : JoinKey(c)' = JoinKey(c)
  BY Zenon DEF JoinKey
<1> QED
  BY <1>1 DEF ClauseVariable

(* What its counts must be is given as well. *)
LEMMA ExactCountStays ==
  ASSUME UNCHANGED given
  PROVE  \A c : ExactCount(c)' = ExactCount(c)
<1>1. \A c, s : Matches(c, s)' = Matches(c, s)
  BY DEF Matches
<1> QED
  BY <1>1 DEF ExactCount, Side

(* So is the number of variables. *)
LEMMA WidthStays ==
  ASSUME UNCHANGED given
  PROVE  Width' = Width
BY DEF Width

(* LiteralIs as one formula, to be read of the next state. *)
LEMMA LiteralIsImplied ==
  CallInv /\ TablesInv /\ variable # 0
    => Literal = {c \in DOMAIN given.candidates : ClauseVariable(c) = variable}
BY LiteralIs

(* Steps that report nothing. *)
LEMMA ResultsStay ==
  ASSUME ResultsInv, UNCHANGED <<given, variable, results>>,
         pc' \in {"next", "done"} <=> pc \in {"next", "done"},
         pc' = "done" => pc = "done" \/ variable = Width
  PROVE  ResultsInv'
<1>1. /\ \A c : ExactCount(c)' = ExactCount(c)
      /\ \A c : ClauseVariable(c)' = ClauseVariable(c)
      /\ Width' = Width
  BY ClauseVariableStays, ExactCountStays, WidthStays
<1>2. Reported' = Reported
  BY <1>1 DEF Reported
<1>3. [c \in Reported |-> ExactCount(c)]' = [c \in Reported |-> ExactCount(c)]
  BY <1>1, <1>2
<1> QED
  BY <1>1, <1>3 DEF ResultsInv

(* A variable without candidates: no candidate is passed over. *)
LEMMA NextVariableKeepsResults ==
  ASSUME PlanningInv, PlanningInv', ResultsInv, NextVariable
  PROVE  ResultsInv'
<1>1. /\ UNCHANGED <<given, results>> /\ pc = "next" /\ variable' = variable + 1
      /\ pc' = IF tables' = <<>> THEN "next" ELSE "plan"
  BY Zenon DEF NextVariable
<1>2. CallInv /\ CallInv' /\ TablesInv'
  BY DEF PlanningInv, CountingInv
<1>3. /\ \A c : ExactCount(c)' = ExactCount(c)
      /\ \A c : ClauseVariable(c)' = ClauseVariable(c)
  BY <1>1, ClauseVariableStays, ExactCountStays, WidthStays
<1>4. variable \in Nat
  BY <1>2 DEF CallInv
<1>5. \A c \in DOMAIN given.candidates : ClauseVariable(c) \in Nat
  BY <1>2, ClauseVariables
<1>6. tables' = <<>> => \A c \in DOMAIN given.candidates : ClauseVariable(c) # variable'
  <2>1. (CallInv /\ TablesInv /\ variable # 0
           => Literal = {c \in DOMAIN given.candidates : ClauseVariable(c) = variable})'
    BY LiteralIsImplied, PTL
  <2>2. variable' # 0
    BY <1>1, <1>4
  <2>3. Literal' = {c \in DOMAIN given'.candidates : ClauseVariable(c)' = variable'}
    BY <1>2, <2>1, <2>2
  <2>4. tables' = <<>> => Literal' = {}
    BY DEF Literal, Groups
  <2> QED BY <1>1, <1>3, <2>3, <2>4
<1>7. Reported' = Reported
  <2>1. \A c \in DOMAIN given.candidates :
          (IF pc' \in {"next", "done"} THEN ClauseVariable(c) <= variable' ELSE ClauseVariable(c) < variable')
            <=> ClauseVariable(c) <= variable
    BY <1>1, <1>4, <1>5, <1>6
  <2>2. Reported = {c \in DOMAIN given.candidates : ClauseVariable(c) <= variable}
    BY <1>1 DEF Reported
  <2>3. Reported' = {c \in DOMAIN given.candidates :
          IF pc' \in {"next", "done"} THEN ClauseVariable(c) <= variable' ELSE ClauseVariable(c) < variable'}
    BY <1>1, <1>3 DEF Reported
  <2> QED BY <2>1, <2>2, <2>3
<1>8. [c \in Reported |-> ExactCount(c)]' = [c \in Reported |-> ExactCount(c)]
  BY <1>3, <1>7
<1> QED
  BY <1>1, <1>8 DEF ResultsInv

(* At the end of the last pass the counts are the exact ones. *)
LEMMA EndCounts ==
  ASSUME CallInv, TablesInv, AreCounted, IsInside(cursor), cursor.offset = Len(CurrentFacts), IsExhausted,
         pass # "positive", NEW c \in Literal
  PROVE  counts[c] = ExactCount(c)
<1>1. PICK tg \in Groups : c \in LiteralsOf(tg)
  BY LiteralsAre
<1>2. DoneAt(cursor, tg) = DOMAIN Facts(tg)
  BY EndOfPass
<1>3. pass \in {"both", "negative"}
  BY DEF CallInv, Side
<1>4. \A s \in Side : FactsDone(tg, s) = DOMAIN Facts(tg)
  BY <1>2, <1>3 DEF FactsDone, SidesOfPass
<1>5. FactsOf(c) = Facts(tg) /\ c \in DOMAIN given.candidates
  BY <1>1, FactsOfGroup DEF FactsAreFrom
<1>6. \A s \in Side : /\ Matches(c, s) = PairsOf(c, s, FactsDone(tg, s))
                      /\ {fb[2] : fb \in Matches(c, s)} = Paired(c, s, FactsDone(tg, s))
  BY <1>4, <1>5, MatchesArePairs
<1>7. ExactCount(c) = CountOf(tg, c)
  <2>1. \A s \in Side : /\ Cardinality(Matches(c, s)) = Cardinality(PairsOf(c, s, FactsDone(tg, s)))
                        /\ Cardinality({fb[2] : fb \in Matches(c, s)}) = Cardinality(Paired(c, s, FactsDone(tg, s)))
    BY <1>6, Zenon
  <2> QED BY <2>1, Zenon DEF ExactCount, CountOf
<1> QED
  BY <1>1, <1>7 DEF AreCounted

(* The end of the last pass reports the candidates of the variable. *)
LEMMA EndPassKeepsResults ==
  ASSUME CallInv, TablesInv, CountsInv, ResultsInv, EndPass
  PROVE  ResultsInv'
<1>1. /\ pc = "count" /\ cursor.offset = Len(CurrentFacts) /\ IsExhausted
      /\ UNCHANGED <<given, variable>>
      /\ \/ pc' \in {"null_dereference", "start"} /\ UNCHANGED results
         \/ /\ pass # "positive" /\ pc' = "next"
            /\ results' = [c \in DOMAIN results \cup Literal |->
                              IF c \in Literal THEN counts[c] ELSE results[c]]
  BY Zenon DEF EndPass
<1>2. CASE pc' \in {"null_dereference", "start"} /\ UNCHANGED results
  <2>1. pc' \notin {"next", "done"} /\ pc \notin {"next", "done"}
    BY <1>1, <1>2
  <2> QED BY <1>1, <1>2, <2>1, ResultsStay
<1>3. CASE /\ pass # "positive" /\ pc' = "next"
           /\ results' = [c \in DOMAIN results \cup Literal |->
                             IF c \in Literal THEN counts[c] ELSE results[c]]
  <2>1. variable # 0 /\ variable \in Nat
    BY <1>1 DEF CallInv
  <2>2. Literal = {c \in DOMAIN given.candidates : ClauseVariable(c) = variable}
    BY <2>1, LiteralIs
  <2>3. Reported = {c \in DOMAIN given.candidates : ClauseVariable(c) < variable}
    BY <1>1 DEF Reported
  <2>4. \A c \in DOMAIN given.candidates : ClauseVariable(c) \in Nat
    BY ClauseVariables
  <2>5. /\ \A c : ExactCount(c)' = ExactCount(c)
        /\ \A c : ClauseVariable(c)' = ClauseVariable(c)
    BY <1>1, ClauseVariableStays, ExactCountStays, WidthStays
  <2>6. Reported' = {c \in DOMAIN given.candidates : ClauseVariable(c) <= variable}
    BY <1>1, <1>3, <2>5 DEF Reported
  <2>7. Reported' = Reported \cup Literal
    BY <2>1, <2>2, <2>3, <2>4, <2>6
  <2>8. results = [c \in Reported |-> ExactCount(c)]
    BY DEF ResultsInv
  <2>9. AreCounted /\ IsInside(cursor)
    BY <1>1 DEF CountsInv, Unfinished
  <2>10. \A c \in Literal : counts[c] = ExactCount(c)
    BY <1>1, <1>3, <2>9, EndCounts
  <2>11. DOMAIN results = Reported /\ \A c \in Reported : results[c] = ExactCount(c)
    BY <2>8
  <2>12. results' = [c \in Reported \cup Literal |-> ExactCount(c)]
    BY <1>3, <2>10, <2>11
  <2>13. [c \in Reported |-> ExactCount(c)]' = [c \in Reported \cup Literal |-> ExactCount(c)]
    BY <2>5, <2>7
  <2> QED BY <1>3, <2>12, <2>13 DEF ResultsInv
<1> QED
  BY <1>1, <1>2, <1>3

(* Every step leaves the results exact for the variables that had their turn. *)
LEMMA ResultsNext ==
  PlanningInv /\ PlanningInv' /\ CountsInv /\ ResultsInv /\ [BindingNext]_<<vars, tableVars>>
    => ResultsInv'
<1> SUFFICES ASSUME PlanningInv, PlanningInv', CountsInv, ResultsInv, [BindingNext]_<<vars, tableVars>>
             PROVE  ResultsInv'
  OBVIOUS
<1>1. CallInv /\ TablesInv
  BY DEF PlanningInv, CountingInv
<1>2. CASE UNCHANGED vars
  <2>1. UNCHANGED <<given, variable, results, pc>>
    BY <1>2 DEF vars, countVars, callVars
  <2> QED BY <2>1, ResultsStay
<1>3. CASE NextVariable
  BY <1>3, NextVariableKeepsResults
<1>4. CASE AllCounted
  <2>1. /\ UNCHANGED <<given, variable, results>> /\ pc = "next" /\ pc' = "done"
        /\ variable = Len(given.bindings["positive"][1])
    BY <1>4, Zenon DEF AllCounted, callVars
  <2> QED BY <2>1, ResultsStay DEF Width
<1>5. CASE \/ GeneratePlan \/ MergeNodes \/ KeepPlan \/ StartPass \/ PartitionBindings \/ MakeHashTables
           \/ InsertRow \/ StartCounting \/ MoveToNextJoinGroup \/ TakeChunk
  <2>1. /\ UNCHANGED <<given, variable, results>>
        /\ pc \in {"plan", "start", "partition", "build", "count"}
        /\ pc' = pc \/ pc' \in {"use_after_free", "start", "partition", "build", "count"}
    <3>1. CASE GeneratePlan \/ MergeNodes \/ KeepPlan
      BY <3>1, Zenon DEF GeneratePlan, MergeNodes, KeepPlan, countVars, callVars
    <3>2. CASE StartPass \/ PartitionBindings \/ MakeHashTables \/ InsertRow
      BY <3>2, Zenon DEF StartPass, PartitionBindings, MakeHashTables, InsertRow, countVars, callVars
    <3>3. CASE StartCounting \/ MoveToNextJoinGroup \/ TakeChunk
      BY <3>3, Zenon DEF StartCounting, MoveToNextJoinGroup, TakeChunk, countVars, callVars
    <3> QED BY <1>5, <3>1, <3>2, <3>3, Zenon
  <2>2. pc' \notin {"next", "done"} /\ pc \notin {"next", "done"}
    BY <2>1
  <2> QED BY <2>1, <2>2, ResultsStay
<1>6. CASE EndPass
  BY <1>1, <1>6, EndPassKeepsResults
<1>7. \/ UNCHANGED vars \/ Next
  BY CountingOrTables
<1> QED
  BY <1>2, <1>3, <1>4, <1>5, <1>6, <1>7, Zenon DEF Next

(* Nothing is reported at first. *)
LEMMA ResultsInit == BindingInit => ResultsInv
<1> SUFFICES ASSUME BindingInit PROVE ResultsInv
  OBVIOUS
<1>1. CallInv
  BY CountingInit DEF CountingInv
<1>2. pc = "next" /\ variable = 0 /\ results = <<>>
  BY Zenon DEF BindingInit, Init
<1>3. Reported = {}
  BY <1>1, <1>2, ClauseVariables DEF Reported
<1>4. results = [c \in Reported |-> ExactCount(c)]
  BY <1>2, <1>3
<1> QED
  BY <1>2, <1>4 DEF ResultsInv

(* What the check of a run sees at the end of a call. *)
LEMMA ResultsAreExact ==
  ASSUME CallInv, ResultsInv
  PROVE  CountsAreExact
<1> SUFFICES ASSUME pc = "done", NEW c \in DOMAIN given.candidates, NEW s \in Side
             PROVE  /\ results[c].binding[s] = Cardinality(Matches(c, s))
                    /\ results[c].covered[s] = Cardinality({fb[2] : fb \in Matches(c, s)})
  BY DEF CountsAreExact
<1>1. variable = Width /\ ClauseVariable(c) \in 1..Width /\ Width \in Nat
  BY ClauseVariables DEF ResultsInv
<1>2. c \in Reported
  BY <1>1 DEF Reported
<1>3. results[c] = ExactCount(c)
  BY <1>2 DEF ResultsInv
<1> QED
  BY <1>3 DEF ExactCount

-----------------------------------------------------------------------------
(* All of it is inductive. *)
AllCountingInv == PlanningInv /\ PlansInv /\ HashInv /\ CountsInv /\ ResultsInv

LEMMA AllCountingHolds == BindingSpec => []AllCountingInv
<1>1. BindingInit => AllCountingInv
  BY PlanningInit, PlansInit, HashInit, CountsInit, ResultsInit DEF AllCountingInv
<1>2. AllCountingInv /\ [BindingNext]_<<vars, tableVars>> => AllCountingInv'
  <2> SUFFICES ASSUME AllCountingInv, [BindingNext]_<<vars, tableVars>>
               PROVE  AllCountingInv'
    OBVIOUS
  <2>1. PlanningInv /\ PlansInv /\ HashInv /\ CountsInv /\ ResultsInv /\ CountingInv
    BY DEF AllCountingInv, PlanningInv
  <2>2. PlanningInv'
    BY <2>1, PlanningNext
  <2>3. PlansInv' /\ HashInv'
    BY <2>1, <2>2, PlansNext, HashNext
  <2>4. CountsInv' /\ ResultsInv'
    BY <2>1, <2>2, CountsNext, ResultsNext
  <2> QED BY <2>2, <2>3, <2>4 DEF AllCountingInv
<1> QED
  BY <1>1, <1>2, PTL DEF BindingSpec

(* Every variable keeps its type: the assigner's position is never outside its
   partition, table, group or the facts there, although its end is found out by
   the group behind.                                                       *)
THEOREM CountingTypeCorrect == BindingSpec => []TypeOK
<1>1. AllCountingInv => TypeOK
  <2> SUFFICES ASSUME AllCountingInv PROVE TypeOK
    OBVIOUS
  <2>1. CallInv /\ TablesInv /\ CountsInv /\ ResultsInv /\ AreTyped
    BY DEF AllCountingInv, PlanningInv, CountingInv, CountsInv
  <2>2. variable \in 0..Len(given.bindings["positive"][1]) /\ pass \in Side \cup {"both"}
    BY <2>1 DEF CallInv, Width
  <2>3. pc = "count" => /\ cursor.partition \in Partition
                        /\ CurrentGroup \in Groups
                        /\ cursor.offset \in 0..Len(CurrentFacts)
    <3> SUFFICES ASSUME pc = "count"
                 PROVE  /\ cursor.partition \in Partition
                        /\ CurrentGroup \in Groups
                        /\ cursor.offset \in 0..Len(CurrentFacts)
      OBVIOUS
    <3>1. IsInside(cursor)
      BY <2>1 DEF CountsInv
    <3> QED BY <2>1, <3>1, CurrentFactsAre
  <2>4. DOMAIN results \subseteq DOMAIN given.candidates
    BY <2>1 DEF ResultsInv, Reported
  <2> QED BY <2>1, <2>2, <2>3, <2>4, Zenon DEF TypeOK, AreTyped, Counts
<1> QED
  BY <1>1, AllCountingHolds, PTL

(* However the candidates fall into groups, plans and nodes, and the rows into
   partitions, chunks and chains: each candidate is reported with the number of
   bindings its clause would have and the number of bindings it keeps, for each
   side.                                                                   *)
THEOREM CountsExactCorrect == BindingSpec => []CountsAreExact
<1>1. AllCountingInv => CountsAreExact
  BY ResultsAreExact DEF AllCountingInv, PlanningInv, CountingInv
<1> QED
  BY <1>1, AllCountingHolds, PTL

-----------------------------------------------------------------------------
(* The binding tables.  A join compares the keys of its two tables, and finds the
   facts and bindings that agree.                                          *)
TableNames == Side \cup {"facts"}
IsLiteral == literal \in DOMAIN given.candidates

KeyArguments == BoundOf(literal)
KeyColumn(table, a) == IF table = "facts" THEN a ELSE VariablesOf(literal)[a]

Agreeing(f, s, b) ==
  \A a \in KeyArguments :
    FactsOf(literal)[f][a] = given.bindings[s][b][VariablesOf(literal)[a]]

AreRowsWith(rows, width) ==
  /\ rows \in Seq(Seq(Value))
  /\ \A p \in DOMAIN rows : Len(rows[p]) = width

LEMMA JoinRowsAre ==
  ASSUME CallInv, IsLiteral
  PROVE  /\ AreRowsWith(FactsOf(literal), Len(VariablesOf(literal)))
         /\ \A s \in Side : AreRowsWith(given.bindings[s], Width) /\ given.bindings[s] # <<>>
         /\ \A a \in KeyArguments : a \in 1..Len(VariablesOf(literal))
                                    /\ VariablesOf(literal)[a] \in 1..Width
         /\ Width \in Nat
<1>1. given \in Input
  BY DEF CallInv
<1>2. /\ \A s \in Side : given.bindings[s] \in Seq(Seq(Value)) \ {<<>>}
      /\ \A s, t \in Side : \A i \in DOMAIN given.bindings[s], j \in DOMAIN given.bindings[t] :
           Len(given.bindings[s][i]) = Len(given.bindings[t][j])
      /\ \A r \in DOMAIN given.relations :
           given.relations[r].rows \in Seq([DOMAIN given.relations[r].types -> Value])
      /\ \A c \in DOMAIN given.candidates : \A s \in Side :
           \A a \in DOMAIN given.candidates[c].variables :
             given.candidates[c].variables[a] \in 0..Len(given.bindings[s][1])
  BY <1>1, InputAssumption, Zenon
<1>3. "positive" \in Side
  BY DEF Side
<1>4. \A s \in Side : /\ given.bindings[s] \in Seq(Seq(Value)) /\ given.bindings[s] # <<>>
                      /\ 1 \in DOMAIN given.bindings[s]
  BY <1>2
<1>5. \A s \in Side : AreRowsWith(given.bindings[s], Width) /\ given.bindings[s] # <<>>
  BY <1>2, <1>3, <1>4 DEF AreRowsWith, Width
<1>6. Width \in Nat
  <2> DEFINE rows == given.bindings["positive"]
  <2>1. rows \in Seq(Seq(Value)) /\ 1 \in DOMAIN rows
    BY <1>3, <1>4
  <2> HIDE DEF rows
  <2>2. rows[1] \in Seq(Value)
    BY <2>1
  <2>3. Len(rows[1]) \in Nat
    BY <2>2
  <2> QED BY <2>3 DEF rows, Width
<1>7. /\ RelationOf(literal) \in DOMAIN given.relations
      /\ VariablesOf(literal) \in Seq(Nat)
      /\ DOMAIN VariablesOf(literal) = 1..Len(VariablesOf(literal))
      /\ DOMAIN TypesOf(literal) = 1..Len(VariablesOf(literal))
      /\ Len(VariablesOf(literal)) \in Nat
  BY CandidateIs DEF IsLiteral
<1>8. \A a \in KeyArguments : a \in 1..Len(VariablesOf(literal))
                              /\ VariablesOf(literal)[a] \in 1..Width
  <2>1. \A a \in DOMAIN VariablesOf(literal) : VariablesOf(literal)[a] \in 0..Width
    BY <1>2, <1>3 DEF IsLiteral, VariablesOf, Width
  <2> QED BY <1>6, <1>7, <2>1 DEF KeyArguments, BoundOf
<1>9. AreRowsWith(FactsOf(literal), Len(VariablesOf(literal)))
  <2> DEFINE n == Len(VariablesOf(literal))
             rows == FactsOf(literal)
  <2>1. rows \in Seq([1..n -> Value]) /\ n \in Nat
    BY <1>2, <1>7 DEF FactsOf, RelationOf, TypesOf
  <2> HIDE DEF n, rows
  <2>2. \A p \in DOMAIN rows : rows[p] \in [1..n -> Value]
    BY <2>1
  <2>3. \A r \in [1..n -> Value] : r \in Seq(Value) /\ Len(r) = n
    BY <2>1
  <2>4. rows \in Seq(Seq(Value))
    BY <2>1, <2>2, <2>3
  <2> QED BY <2>2, <2>3, <2>4 DEF AreRowsWith, n, rows
<1> QED
  BY <1>5, <1>6, <1>8, <1>9

LEMMA MatchesAre ==
  ASSUME NEW s
  PROVE  Matches(literal, s)
           = {fb \in (DOMAIN FactsOf(literal)) \X (DOMAIN given.bindings[s]) :
                Agreeing(fb[1], s, fb[2])}
<1> DEFINE agree(fb) == \A a \in DOMAIN VariablesOf(literal) :
                        VariablesOf(literal)[a] # 0 =>
                          FactsOf(literal)[fb[1]][a] = given.bindings[s][fb[2]][VariablesOf(literal)[a]]
           pairs == (DOMAIN FactsOf(literal)) \X (DOMAIN given.bindings[s])
<1>1. \A fb : Agreeing(fb[1], s, fb[2]) <=> agree(fb)
  BY DEF Agreeing, KeyArguments, BoundOf
<1>2. Matches(literal, s) = {fb \in pairs : agree(fb)}
  BY Zenon DEF Matches, VariablesOf, FactsOf, RelationOf
<1> HIDE DEF agree, pairs
<1>3. {fb \in pairs : agree(fb)} = {fb \in pairs : Agreeing(fb[1], s, fb[2])}
  BY <1>1
<1> QED
  BY <1>2, <1>3 DEF pairs

LEMMA BoundArgumentsAre ==
  ASSUME CallInv, IsLiteral
  PROVE  /\ AreRowsAt(BoundArguments, [a \in DOMAIN VariablesOf(literal) |-> <<a, VariablesOf(literal)[a]>>],
                      KeyArguments, Nat \X Nat)
         /\ IsFiniteSet(KeyArguments)
<1> DEFINE n == Len(VariablesOf(literal))
           f == [a \in DOMAIN VariablesOf(literal) |-> <<a, VariablesOf(literal)[a]>>]
<1>1. /\ n \in Nat /\ VariablesOf(literal) \in Seq(Nat) /\ DOMAIN VariablesOf(literal) = 1..n
  BY CandidateIs DEF IsLiteral
<1>2. KeyArguments \subseteq 1..n
  BY <1>1 DEF KeyArguments, BoundOf
<1>3. \A a \in KeyArguments : f[a] \in Nat \X Nat
  BY <1>1, <1>2
<1>4. BoundArguments = RowsIn(f, KeyArguments)
  BY Zenon DEF BoundArguments, VariablesOf, KeyArguments, BoundOf
<1> HIDE DEF f, n
<1>5. 1 \in Int /\ n \in Int
  BY <1>1
<1>6. IsFiniteSet(1..n)
  BY <1>5, FS_Interval, Zenon
<1>7. IsFiniteSet(KeyArguments)
  BY <1>2, <1>6, FS_Subset
<1>8. KeyArguments \in SUBSET Int
  BY <1>2
<1>9. AreRowsAt(RowsIn(f, KeyArguments), f, KeyArguments, Nat \X Nat)
  BY <1>3, <1>7, <1>8, RowsAtSet
<1> QED
  BY <1>4, <1>7, <1>9 DEF f

(* A key has the values of the bound arguments in their order. *)
LEMMA KeyIs ==
  ASSUME CallInv, IsLiteral, NEW t \in TableNames, NEW p \in DOMAIN TableRows(t)
  PROVE  /\ KeyOf(t, p) \in [1..Cardinality(KeyArguments) -> Value]
         /\ \A k \in 1..Cardinality(KeyArguments) :
              KeyOf(t, p)[k] = TableRows(t)[p][KeyColumn(t, Nth(KeyArguments, k))]
<1> DEFINE n == Cardinality(KeyArguments)
           f == [a \in DOMAIN VariablesOf(literal) |-> <<a, VariablesOf(literal)[a]>>]
<1>1. AreRowsAt(BoundArguments, f, KeyArguments, Nat \X Nat)
  BY BoundArgumentsAre
<1>2. /\ n \in Nat /\ BoundArguments \in Seq(Nat \X Nat) /\ Len(BoundArguments) = n
      /\ \A k \in 1..n : Nth(KeyArguments, k) \in KeyArguments
                         /\ BoundArguments[k] = f[Nth(KeyArguments, k)]
  BY <1>1, Zenon DEF AreRowsAt
<1>3. DOMAIN BoundArguments = 1..n
  BY <1>2
<1>4. \A a \in KeyArguments : f[a] = <<a, VariablesOf(literal)[a]>>
  BY DEF KeyArguments, BoundOf
<1> HIDE DEF f, n
<1>5. \A k \in 1..n : BoundArguments[k][IF t = "facts" THEN 1 ELSE 2]
                        = KeyColumn(t, Nth(KeyArguments, k))
  BY <1>2, <1>4 DEF KeyColumn
<1>6. KeyOf(t, p) = [k \in 1..n |-> TableRows(t)[p][KeyColumn(t, Nth(KeyArguments, k))]]
  BY <1>3, <1>5 DEF KeyOf
<1>7. \A a \in KeyArguments : TableRows(t)[p][KeyColumn(t, a)] \in Value
  <2>1. CASE t = "facts"
    <3>1. /\ TableRows(t) = FactsOf(literal) /\ \A a : KeyColumn(t, a) = a
      BY <2>1 DEF TableRows, RowsFor, KeyColumn
    <3>2. AreRowsWith(FactsOf(literal), Len(VariablesOf(literal)))
          /\ \A a \in KeyArguments : a \in 1..Len(VariablesOf(literal))
      BY JoinRowsAre
    <3>3. FactsOf(literal)[p] \in Seq(Value) /\ Len(FactsOf(literal)[p]) = Len(VariablesOf(literal))
      BY <3>1, <3>2 DEF AreRowsWith
    <3> QED BY <3>1, <3>2, <3>3
  <2>2. CASE t \in Side /\ t # "facts"
    <3>1. /\ TableRows(t) = given.bindings[t] /\ \A a : KeyColumn(t, a) = VariablesOf(literal)[a]
      BY <2>2 DEF TableRows, RowsFor, KeyColumn
    <3>2. AreRowsWith(given.bindings[t], Width)
          /\ \A a \in KeyArguments : VariablesOf(literal)[a] \in 1..Width
      BY <2>2, JoinRowsAre
    <3>3. given.bindings[t][p] \in Seq(Value) /\ Len(given.bindings[t][p]) = Width
      BY <3>1, <3>2 DEF AreRowsWith
    <3> QED BY <3>1, <3>2, <3>3
  <2> QED BY <2>1, <2>2 DEF TableNames
<1> QED
  BY <1>2, <1>6, <1>7 DEF n

LEMMA HashOfRowType ==
  ASSUME CallInv, IsLiteral, NEW t \in TableNames, NEW p \in DOMAIN TableRows(t)
  PROVE  HashOfRow(t, p) \in Nat
<1>1. given \in Input
  BY DEF CallInv
<1>2. \A c \in DOMAIN given.candidates :
        \A key \in [1..Cardinality({a \in DOMAIN given.candidates[c].variables :
                                      given.candidates[c].variables[a] # 0}) -> Value] :
          KeyHash(key) \in Nat
  BY <1>1, BindingTablesAssumption, Zenon
<1>3. \A key \in [1..Cardinality(KeyArguments) -> Value] : KeyHash(key) \in Nat
  BY <1>2 DEF IsLiteral, KeyArguments, BoundOf, VariablesOf
<1> QED
  BY <1>3, KeyIs DEF HashOfRow

(* Two functions are the same exactly if they agree on their domain. *)
LEMMA SameFunctions ==
  ASSUME NEW D, NEW R, NEW u \in [D -> R], NEW v \in [D -> R]
  PROVE  u = v <=> \A k \in D : u[k] = v[k]
<1>1. u = [k \in D |-> u[k]] /\ v = [k \in D |-> v[k]]
  OBVIOUS
<1>2. ASSUME \A k \in D : u[k] = v[k] PROVE [k \in D |-> u[k]] = [k \in D |-> v[k]]
  BY <1>2
<1>3. (\A k \in D : u[k] = v[k]) => u = v
  BY <1>1, <1>2
<1> QED
  BY <1>3

(* The keys are the same exactly if the fact and the binding agree. *)
LEMMA KeysAgree ==
  ASSUME CallInv, IsLiteral, NEW s \in Side,
         NEW f \in DOMAIN FactsOf(literal), NEW b \in DOMAIN given.bindings[s]
  PROVE  KeyOf("facts", f) = KeyOf(s, b) <=> Agreeing(f, s, b)
<1> DEFINE n == Cardinality(KeyArguments)
           u == KeyOf("facts", f)
           v == KeyOf(s, b)
<1>1. "facts" \in TableNames /\ s \in TableNames /\ s # "facts"
  BY DEF TableNames, Side
<1>2. TableRows("facts") = FactsOf(literal) /\ TableRows(s) = given.bindings[s]
  BY <1>1 DEF TableRows, RowsFor
<1>3. /\ u \in [1..n -> Value] /\ v \in [1..n -> Value]
      /\ \A k \in 1..n : u[k] = FactsOf(literal)[f][Nth(KeyArguments, k)]
      /\ \A k \in 1..n : v[k] = given.bindings[s][b][VariablesOf(literal)[Nth(KeyArguments, k)]]
  BY <1>1, <1>2, KeyIs DEF KeyColumn
<1> HIDE DEF n, u, v
<1>4. u = v <=> \A k \in 1..n : u[k] = v[k]
  <2>1. PICK D, x, y : D = 1..n /\ x = u /\ y = v
    OBVIOUS
  <2>2. x \in [D -> Value] /\ y \in [D -> Value]
    BY <1>3, <2>1
  <2>3. x = y <=> \A k \in D : x[k] = y[k]
    BY <2>2, SameFunctions
  <2> QED BY <2>1, <2>3
<1>5. /\ \A k \in 1..n : Nth(KeyArguments, k) \in KeyArguments
      /\ \A a \in KeyArguments : Rank(KeyArguments, a) \in 1..n
                                 /\ Nth(KeyArguments, Rank(KeyArguments, a)) = a
  <2>1. IsFiniteSet(KeyArguments)
    BY BoundArgumentsAre
  <2>2. KeyArguments \in SUBSET Int
    BY JoinRowsAre
  <2>3. PICK S : S = KeyArguments
    OBVIOUS
  <2>4. S \in SUBSET Int /\ IsFiniteSet(S)
    BY <2>1, <2>2, <2>3
  <2>5. \A k \in 1..Cardinality(S) : Nth(S, k) \in S
    BY <2>4, NthIsRanked
  <2>6. \A a \in S : Rank(S, a) \in 1..Cardinality(S) /\ Nth(S, Rank(S, a)) = a
    BY <2>4, RankBounds, NthOfRank
  <2> QED BY <2>3, <2>5, <2>6 DEF n
<1>6. (\A k \in 1..n : u[k] = v[k]) <=> Agreeing(f, s, b)
  BY <1>3, <1>5 DEF Agreeing
<1> QED
  BY <1>4, <1>6 DEF u, v

-----------------------------------------------------------------------------
(* The hash tables of the joins.  A table that waits has no rows, the one that is
   built has those that were inserted, the others have all: each row is in the
   chain of its key.                                                       *)
InLine(t) == \E i \in DOMAIN toHash : toHash[i] = t

RowsEntered(t) ==
  IF ~InLine(t) THEN Len(TableRows(t)) ELSE IF t = toHash[1] THEN rowsHashed ELSE 0

HasJoinRows(tbl, t, m) ==
  /\ tbl \in Table(Len(TableRows(t))) /\ WellChained(tbl)
  /\ Entered(tbl) = 1..m
  /\ \A p \in 1..m : p \in Chain(tbl, HashOfRow(t, p))

HashLines == {<<>>, <<"positive", "negative">>, <<"negative">>, <<"facts">>, <<"positive">>}

JoinTablesInv ==
  /\ IsLiteral
  /\ toHash \in HashLines
  /\ \A i \in DOMAIN toHash : toHash[i] \in DOMAIN joinTables
  /\ rowsHashed \in 0..(IF toHash = <<>> THEN 0 ELSE Len(TableRows(toHash[1])))
  /\ DOMAIN joinTables \subseteq TableNames
  /\ \A t \in DOMAIN joinTables : HasJoinRows(joinTables[t], t, RowsEntered(t))

(* The lines, name by name. *)
LEMMA HashLine ==
  ASSUME toHash \in HashLines, toHash # <<>>
  PROVE  /\ toHash[1] \in TableNames
         /\ Tail(toHash) \in HashLines
         /\ \A t : (\E i \in DOMAIN Tail(toHash) : Tail(toHash)[i] = t) <=> InLine(t) /\ t # toHash[1]
         /\ Tail(toHash) # <<>> =>
              \A t : (\E i \in DOMAIN Tail(toHash) : Tail(toHash)[i] = t) <=> t = Tail(toHash)[1]
         /\ InLine(toHash[1])
<1>1. CASE toHash = <<"positive", "negative">>
  <2>1. /\ toHash[1] = "positive" /\ Tail(toHash) = <<"negative">>
        /\ \A t : InLine(t) <=> t = "positive" \/ t = "negative"
        /\ \A t : (\E i \in DOMAIN <<"negative">> : <<"negative">>[i] = t) <=> t = "negative"
    BY <1>1 DEF InLine
  <2> QED BY <2>1 DEF TableNames, Side, HashLines
<1>2. ASSUME NEW n \in TableNames, toHash = <<n>>
      PROVE  /\ toHash[1] = n /\ Tail(toHash) = <<>>
             /\ \A t : InLine(t) <=> t = n
    BY <1>2 DEF InLine
<1>3. CASE toHash # <<"positive", "negative">>
  <2>1. PICK n \in TableNames : toHash = <<n>>
    BY <1>3 DEF HashLines, TableNames, Side
  <2> QED BY <1>2, <2>1 DEF HashLines
<1> QED
  BY <1>1, <1>3

LEMMA LengthOfRows ==
  ASSUME CallInv, IsLiteral, NEW t \in TableNames
  PROVE  Len(TableRows(t)) \in Nat /\ DOMAIN TableRows(t) = 1..Len(TableRows(t))
<1>1. FactsOf(literal) \in Seq(Seq(Value)) /\ \A s \in Side : given.bindings[s] \in Seq(Seq(Value))
  BY JoinRowsAre DEF AreRowsWith
<1>2. PICK rows : rows = TableRows(t)
  OBVIOUS
<1>3. rows \in Seq(Seq(Value))
  BY <1>1, <1>2 DEF TableRows, RowsFor, TableNames
<1>4. Len(rows) \in Nat /\ DOMAIN rows = 1..Len(rows)
  BY <1>3
<1> QED
  BY <1>2, <1>4

(* What does not change the tables and their rows leaves what is said of them. *)
LEMMA JoinTablesStay ==
  ASSUME UNCHANGED <<given, literal>>
  PROVE  /\ \A t : TableRows(t)' = TableRows(t)
         /\ \A t, p : HashOfRow(t, p)' = HashOfRow(t, p)
         /\ \A tbl, t, m : HasJoinRows(tbl, t, m)' <=> HasJoinRows(tbl, t, m)
         /\ IsLiteral' <=> IsLiteral
<1>1. \A t : TableRows(t)' = TableRows(t)
  BY DEF TableRows, RowsFor, FactsOf
<1>2. BoundArguments' = BoundArguments
  BY DEF BoundArguments
<1>3. \A t, p : HashOfRow(t, p)' = HashOfRow(t, p)
  BY <1>1, <1>2 DEF HashOfRow, KeyOf
<1>4. \A tbl, t, m : HasJoinRows(tbl, t, m)' <=> HasJoinRows(tbl, t, m)
  BY <1>1, <1>3 DEF HasJoinRows
<1> QED
  BY <1>1, <1>3, <1>4 DEF IsLiteral

LEMMA JoinTablesKept ==
  ASSUME JoinTablesInv, UNCHANGED <<given, literal, hashVars>>
  PROVE  JoinTablesInv'
<1>1. UNCHANGED <<given, literal>> /\ UNCHANGED <<toHash, rowsHashed, joinTables>>
  BY DEF hashVars
<1>2. \A t : InLine(t)' <=> InLine(t)
  BY <1>1 DEF InLine
<1>3. \A t : TableRows(t)' = TableRows(t)
  BY <1>1, JoinTablesStay
<1>4. \A t : RowsEntered(t)' = RowsEntered(t)
  BY <1>1, <1>2, <1>3 DEF RowsEntered
<1>5. \A tbl, t, m : HasJoinRows(tbl, t, m)' <=> HasJoinRows(tbl, t, m)
  BY <1>1, JoinTablesStay
<1>6. IsLiteral'
  BY <1>1, JoinTablesStay DEF JoinTablesInv
<1>7. ASSUME NEW t \in DOMAIN joinTables
      PROVE  HasJoinRows(joinTables[t], t, RowsEntered(t))'
  <2>1. PICK tbl, m : tbl = joinTables[t] /\ m = RowsEntered(t)
    OBVIOUS
  <2>2. HasJoinRows(tbl, t, m)
    BY <2>1 DEF JoinTablesInv
  <2>3. HasJoinRows(tbl, t, m)'
    BY <1>5, <2>2
  <2> QED BY <1>1, <1>4, <2>1, <2>3
<1> QED
  BY <1>1, <1>3, <1>6, <1>7 DEF JoinTablesInv

LEMMA HashRowKeepsTables ==
  ASSUME CallInv, JoinTablesInv, HashRow
  PROVE  JoinTablesInv'
<1> DEFINE t == toHash[1]
           n == Len(TableRows(t))
           p == rowsHashed + 1
           tbl == joinTables[t]
           new == Push(tbl, p, HashOfRow(t, p))
<1>1. /\ toHash # <<>> /\ rowsHashed < n
      /\ joinTables' = [joinTables EXCEPT ![t] = new]
      /\ rowsHashed' = p /\ toHash' = toHash
      /\ UNCHANGED vars /\ literal' = literal
  BY Zenon DEF HashRow
<1>2. /\ t \in TableNames /\ InLine(t) /\ t \in DOMAIN joinTables
  <2>1. 1 \in DOMAIN toHash
    BY <1>1 DEF JoinTablesInv, HashLines
  <2> QED BY <1>1, <2>1, HashLine DEF JoinTablesInv
<1>3. given' = given
  BY <1>1 DEF vars, countVars, callVars
<1>4. n \in Nat /\ DOMAIN TableRows(t) = 1..n
  BY <1>2, LengthOfRows DEF JoinTablesInv
<1>5. rowsHashed \in Nat /\ p \in 1..n /\ rowsHashed = p - 1
  BY <1>1, <1>4 DEF JoinTablesInv
<1>6. RowsEntered(t) = rowsHashed
  BY <1>2 DEF RowsEntered
<1>7. HasJoinRows(tbl, t, rowsHashed)
  BY <1>2, <1>6 DEF JoinTablesInv
<1>8. \A q \in 1..n : HashOfRow(t, q) \in Nat
  BY <1>2, <1>4, HashOfRowType DEF JoinTablesInv
<1> HIDE DEF n, tbl, t, p
<1>9. HasJoinRows(new, t, p)
  <2>1. /\ tbl \in Table(n) /\ WellChained(tbl) /\ Entered(tbl) = 1..rowsHashed
        /\ \A q \in 1..rowsHashed : q \in Chain(tbl, HashOfRow(t, q))
    BY <1>7 DEF HasJoinRows, n
  <2>2. PICK h \in Nat : h = HashOfRow(t, p)
    BY <1>5, <1>8
  <2>3. p \notin Entered(tbl)
    BY <1>5, <2>1
  <2>4. p \notin Chain(tbl, h)
    BY <1>4, <2>1, <2>2, <2>3, ChainsAreEntered
  <2> HIDE DEF new
  <2>5. new = Push(tbl, p, h)
    BY <2>2 DEF new
  <2>6. /\ new \in Table(n) /\ WellChained(new) /\ Entered(new) = 1..rowsHashed \cup {p}
        /\ p \in Chain(new, h)
    BY <1>4, <1>5, <2>1, <2>2, <2>4, <2>5, PushKeepsChains
  <2>7. ASSUME NEW q \in 1..rowsHashed
        PROVE  q \in Chain(new, HashOfRow(t, q))
    <3>1. HashOfRow(t, q) \in Nat
      BY <1>4, <1>5, <1>8
    <3>2. Chain(tbl, HashOfRow(t, q)) \subseteq Chain(new, HashOfRow(t, q))
      BY <1>4, <1>5, <2>1, <2>2, <2>3, <2>5, <3>1, PushKeepsRows
    <3> QED BY <2>1, <3>2
  <2>8. 1..p = 1..rowsHashed \cup {p}
    BY <1>5
  <2> QED BY <2>2, <2>6, <2>7, <2>8 DEF HasJoinRows, n
<1> HIDE DEF new
<1>10. \A u : InLine(u)' <=> InLine(u)
  BY <1>1 DEF InLine
<1>11. /\ \A u : TableRows(u)' = TableRows(u)
       /\ \A v, u, m : HasJoinRows(v, u, m)' <=> HasJoinRows(v, u, m)
       /\ IsLiteral'
  BY <1>1, <1>3, JoinTablesStay DEF JoinTablesInv
<1>12. /\ \A u : u = t => RowsEntered(u)' = p
       /\ \A u : u # t => RowsEntered(u)' = RowsEntered(u)
  BY <1>1, <1>2, <1>10, <1>11 DEF RowsEntered, t
<1>13. ASSUME NEW u \in DOMAIN joinTables
       PROVE  HasJoinRows(joinTables[u], u, RowsEntered(u))'
  <2>1. CASE u = t
    <3>1. joinTables'[u] = new /\ RowsEntered(u)' = p
      BY <1>1, <1>2, <1>12, <2>1
    <3>2. PICK v, m : v = new /\ m = p
      OBVIOUS
    <3>3. HasJoinRows(v, u, m)'
      BY <1>9, <1>11, <2>1, <3>2
    <3> QED BY <3>1, <3>2, <3>3
  <2>2. CASE u # t
    <3>1. joinTables'[u] = joinTables[u] /\ RowsEntered(u)' = RowsEntered(u)
      BY <1>1, <1>12, <2>2
    <3>2. PICK v, m : v = joinTables[u] /\ m = RowsEntered(u)
      OBVIOUS
    <3>3. HasJoinRows(v, u, m)
      BY <3>2 DEF JoinTablesInv
    <3>4. HasJoinRows(v, u, m)'
      BY <1>11, <3>3
    <3> QED BY <3>1, <3>2, <3>4
  <2> QED BY <2>1, <2>2
<1>14. DOMAIN joinTables' = DOMAIN joinTables
  BY <1>1
<1>15. rowsHashed' \in 0..(IF toHash = <<>> THEN 0 ELSE Len(TableRows(toHash[1])))'
  <2>1. Len(TableRows(toHash[1]))' = n
    BY <1>1, <1>11 DEF n, t
  <2> QED BY <1>1, <1>4, <1>5, <2>1
<1> QED
  BY <1>1, <1>11, <1>13, <1>14, <1>15 DEF JoinTablesInv

(* The table that is done has all its rows, and the next one none. *)
LEMMA EndHashTableKeepsTables ==
  ASSUME CallInv, JoinTablesInv, EndHashTable
  PROVE  JoinTablesInv'
<1> DEFINE t == toHash[1]
           n == Len(TableRows(t))
           rest == Tail(toHash)
<1>1. /\ toHash # <<>> /\ rowsHashed = n /\ joinTables' = joinTables
      /\ rowsHashed' = 0 /\ toHash' = rest
      /\ UNCHANGED vars /\ literal' = literal
  BY Zenon DEF EndHashTable
<1>2. /\ t \in TableNames /\ InLine(t) /\ rest \in HashLines
      /\ \A u : (\E i \in DOMAIN rest : rest[i] = u) <=> InLine(u) /\ u # t
      /\ rest # <<>> => \A u : (\E i \in DOMAIN rest : rest[i] = u) <=> u = rest[1]
  BY <1>1, HashLine DEF JoinTablesInv
<1>3. given' = given
  BY <1>1 DEF vars, countVars, callVars
<1> HIDE DEF t, n, rest
<1>4. \A u : InLine(u)' <=> InLine(u) /\ u # t
  BY <1>1, <1>2 DEF InLine
<1>5. /\ \A u : TableRows(u)' = TableRows(u)
      /\ \A v, u, m : HasJoinRows(v, u, m)' <=> HasJoinRows(v, u, m)
      /\ IsLiteral'
  BY <1>1, <1>3, JoinTablesStay DEF JoinTablesInv
<1>6. ASSUME NEW u
      PROVE  RowsEntered(u)' = RowsEntered(u)
  <2>1. CASE u = t
    <3>1. RowsEntered(u) = n /\ ~InLine(u)'
      BY <1>1, <1>2, <1>4, <2>1 DEF RowsEntered, t
    <3> QED BY <1>5, <2>1, <3>1 DEF RowsEntered, n
  <2>2. CASE u # t /\ InLine(u)
    <3>1. RowsEntered(u) = 0
      BY <2>2 DEF RowsEntered, t
    <3>2. InLine(u)'
      BY <1>4, <2>2
    <3> QED BY <1>1, <3>1, <3>2 DEF RowsEntered
  <2>3. CASE ~InLine(u)
    <3>1. ~InLine(u)'
      BY <1>4, <2>3
    <3> QED BY <1>5, <2>3, <3>1 DEF RowsEntered
  <2> QED BY <2>1, <2>2, <2>3
<1>7. ASSUME NEW u \in DOMAIN joinTables
      PROVE  HasJoinRows(joinTables[u], u, RowsEntered(u))'
  <2>1. PICK v, m : v = joinTables[u] /\ m = RowsEntered(u)
    OBVIOUS
  <2>2. HasJoinRows(v, u, m)
    BY <2>1 DEF JoinTablesInv
  <2>3. HasJoinRows(v, u, m)'
    BY <1>5, <2>2
  <2> QED BY <1>1, <1>6, <2>1, <2>3
<1>8. \A i \in DOMAIN rest : rest[i] \in DOMAIN joinTables
  <2>1. \A u : InLine(u) => u \in DOMAIN joinTables
    BY DEF JoinTablesInv, InLine
  <2> QED BY <1>2, <2>1
<1>9. rowsHashed' \in 0..(IF toHash = <<>> THEN 0 ELSE Len(TableRows(toHash[1])))'
  <2>1. CASE rest = <<>>
    BY <1>1, <2>1
  <2>2. CASE rest # <<>>
    <3>1. rest[1] \in TableNames
      <4>1. 1 \in DOMAIN rest
        BY <1>2, <2>2 DEF HashLines
      <4>2. rest[1] \in DOMAIN joinTables
        BY <1>8, <4>1
      <4> QED BY <4>2 DEF JoinTablesInv
    <3>2. Len(TableRows(rest[1])) \in Nat
      BY <3>1, LengthOfRows DEF JoinTablesInv
    <3>3. Len(TableRows(toHash[1]))' = Len(TableRows(rest[1]))
      BY <1>1, <1>5
    <3> QED BY <1>1, <2>2, <3>2, <3>3
  <2> QED BY <2>1, <2>2
<1> QED
  BY <1>1, <1>2, <1>5, <1>7, <1>8, <1>9 DEF JoinTablesInv

LEMMA LengthsOfRows ==
  CallInv /\ IsLiteral =>
    \A t \in TableNames : Len(TableRows(t)) \in Nat /\ DOMAIN TableRows(t) = 1..Len(TableRows(t))
BY LengthOfRows

(* The tables that are begun are empty. *)
LEMMA BeginMakesTables ==
  ASSUME CallInv, CallInv', NEW c \in DOMAIN given.candidates, NEW k, NEW build \in HashLines,
         build # <<>>, rowsHashed = 0, Begin(c, k, build)
  PROVE  JoinTablesInv' /\ DOMAIN joinTables' = ToSet(build)
<1>1. /\ literal' = c /\ toHash' = build /\ UNCHANGED vars /\ rowsHashed' = 0
      /\ joinTables' = [t \in ToSet(build) |-> NewTable(Len(RowsFor(c, t)))]
  BY Zenon DEF Begin
<1>2. given' = given
  BY <1>1 DEF vars, countVars, callVars
<1>3. IsLiteral'
  BY <1>1, <1>2 DEF IsLiteral
<1>4. \A t : TableRows(t)' = RowsFor(c, t)
  BY <1>1, <1>2 DEF TableRows, RowsFor, FactsOf
<1>5. (CallInv /\ IsLiteral)' =>
        (\A t \in TableNames : Len(TableRows(t)) \in Nat /\ DOMAIN TableRows(t) = 1..Len(TableRows(t)))'
  BY LengthsOfRows, PTL
<1>6. \A t \in TableNames : Len(RowsFor(c, t)) \in Nat
  BY <1>3, <1>4, <1>5 DEF TableNames, Side
<1>7. /\ \A i \in DOMAIN build : build[i] \in TableNames /\ build[i] \in ToSet(build)
      /\ ToSet(build) = {build[i] : i \in DOMAIN build}
      /\ 1 \in DOMAIN build
  BY DEF HashLines, ToSet, TableNames, Side
<1>8. \A t \in ToSet(build) : t \in TableNames /\ InLine(t)'
  BY <1>1, <1>7 DEF InLine
<1>9. ASSUME NEW t \in ToSet(build)
      PROVE  HasJoinRows(joinTables[t], t, RowsEntered(t))'
  <2>1. RowsEntered(t)' = 0
    BY <1>1, <1>8, <1>9 DEF RowsEntered
  <2>2. PICK n \in Nat : n = Len(RowsFor(c, t))
    BY <1>6, <1>8, <1>9
  <2>3. joinTables'[t] = NewTable(n)
    BY <1>1, <1>9, <2>2
  <2>4. NewTable(n) \in Table(n) /\ WellChained(NewTable(n)) /\ Entered(NewTable(n)) = {}
    BY <2>2, NewTableIsEmpty
  <2>5. PICK tbl : tbl = NewTable(n)
    OBVIOUS
  <2>6. HasJoinRows(tbl, t, 0)'
    BY <1>4, <2>2, <2>4, <2>5 DEF HasJoinRows
  <2> QED BY <2>1, <2>3, <2>5, <2>6
<1>10. rowsHashed' \in 0..(IF toHash = <<>> THEN 0 ELSE Len(TableRows(toHash[1])))'
  <2>1. build[1] \in TableNames
    BY <1>7
  <2>2. Len(RowsFor(c, build[1])) \in Nat
    BY <1>6, <2>1
  <2>3. Len(TableRows(toHash[1]))' = Len(RowsFor(c, build[1]))
    BY <1>1, <1>4
  <2> QED BY <1>1, <2>2, <2>3
<1>11. DOMAIN joinTables' = ToSet(build)
  BY <1>1
<1> QED
  BY <1>1, <1>3, <1>7, <1>8, <1>9, <1>10, <1>11 DEF JoinTablesInv

(* When a table has all its rows, a lookup finds those with the key. *)
LEMMA JoinLookup ==
  ASSUME CallInv, JoinTablesInv, toHash = <<>>, NEW t \in DOMAIN joinTables, NEW h \in Nat
  PROVE  /\ Chain(joinTables[t], h) \subseteq DOMAIN TableRows(t)
         /\ \A p \in DOMAIN TableRows(t) : HashOfRow(t, p) = h => p \in Chain(joinTables[t], h)
<1>1. t \in TableNames /\ ~InLine(t)
  BY DEF JoinTablesInv, InLine
<1>2. PICK n, tbl : n = Len(TableRows(t)) /\ tbl = joinTables[t]
  OBVIOUS
<1>3. n \in Nat /\ DOMAIN TableRows(t) = 1..n
  BY <1>1, <1>2, LengthOfRows DEF JoinTablesInv
<1>4. RowsEntered(t) = n
  BY <1>1, <1>2 DEF RowsEntered
<1>5. HasJoinRows(tbl, t, n)
  BY <1>2, <1>4 DEF JoinTablesInv
<1>6. /\ tbl \in Table(n) /\ WellChained(tbl) /\ Entered(tbl) = 1..n
      /\ \A p \in 1..n : p \in Chain(tbl, HashOfRow(t, p))
  BY <1>2, <1>5 DEF HasJoinRows
<1>7. Chain(tbl, h) \subseteq 1..n
  BY <1>3, <1>6, ChainsAreEntered
<1> QED
  BY <1>2, <1>3, <1>6, <1>7

-----------------------------------------------------------------------------
(* Lists: what is reversed, what is renamed one to one, and what is flattened. *)
LEMMA ReverseLists ==
  ASSUME NEW S, NEW w, Lists(w, S)
  PROVE  Lists(Reverse(w), S)
<1> DEFINE n == Len(w)
           r == Reverse(w)
<1>1. w \in Seq(S) /\ n \in Nat
  BY DEF Lists
<1>2. /\ r \in Seq(S) /\ Len(r) = n
      /\ \A k \in 1..n : n - k + 1 \in 1..n /\ r[k] = w[n - k + 1]
  BY <1>1, ReversedIs
<1> HIDE DEF r, n
<1>3. ASSUME NEW x \in S
      PROVE  \E k \in 1..n : r[k] = x
  <2>1. PICK k \in 1..n : w[k] = x
    BY DEF Lists, n
  <2>2. n - k + 1 \in 1..n /\ n - (n - k + 1) + 1 = k
    BY <1>1
  <2> QED BY <1>2, <2>1, <2>2
<1>4. ASSUME NEW k \in 1..n, NEW l \in 1..n, r[k] = r[l]
      PROVE  k = l
  <2>1. n - k + 1 \in 1..n /\ n - l + 1 \in 1..n
    BY <1>2
  <2>2. w[n - k + 1] = w[n - l + 1]
    BY <1>2, <1>4
  <2>3. n - k + 1 = n - l + 1
    BY <2>1, <2>2 DEF Lists, n
  <2> QED BY <1>1, <2>3
<1> QED
  BY <1>2, <1>3, <1>4 DEF Lists, r

TakesApart(f, S) == \A x \in S : \A y \in S : f[x] = f[y] => x = y

LEMMA ImageLists ==
  ASSUME NEW S, NEW w, Lists(w, S), NEW f, TakesApart(f, S)
  PROVE  Lists([k \in DOMAIN w |-> f[w[k]]], {f[x] : x \in S})
<1> DEFINE n == Len(w)
           r == [k \in DOMAIN w |-> f[w[k]]]
           I == {f[x] : x \in S}
<1>1. n \in Nat /\ DOMAIN w = 1..n /\ \A k \in 1..n : w[k] \in S
  BY DEF Lists
<1>2. r \in Seq(I) /\ Len(r) = n /\ \A k \in 1..n : r[k] = f[w[k]]
  <2>1. \A k \in 1..n : f[w[k]] \in I
    BY <1>1
  <2> HIDE DEF I, n
  <2> QED BY <1>1, <2>1
<1> HIDE DEF r, n
<1>3. \A y \in I : \E k \in 1..n : r[k] = y
  BY <1>2 DEF Lists, n
<1>4. \A k \in 1..n : \A l \in 1..n : r[k] = r[l] => k = l
  BY <1>1, <1>2 DEF Lists, n, TakesApart
<1> QED
  BY <1>2, <1>3, <1>4 DEF Lists, r

-----------------------------------------------------------------------------
(* One block of a join. *)
Probe == joins[1].probe

(* The join that is under way can be done for a side. *)
IsJoinFor(s) ==
  /\ toHash = <<>> /\ Probe \in TableNames
  /\ BuildOf(s) \in DOMAIN joinTables

FoundIn(s, p) == {b \in DOMAIN TableRows(BuildOf(s)) : KeyOf(BuildOf(s), b) = KeyOf(Probe, p)}

LEMMA JoiningIs ==
  ASSUME CallInv, JoinTablesInv, NEW s, IsJoinFor(s), NEW p \in DOMAIN TableRows(Probe)
  PROVE  Joining(s, p) = FoundIn(s, p)
<1>1. PICK h : h = HashOfRow(Probe, p)
  OBVIOUS
<1>2. h \in Nat
  BY <1>1, HashOfRowType DEF JoinTablesInv, IsJoinFor
<1>3. PICK t \in DOMAIN joinTables : t = BuildOf(s)
  BY DEF IsJoinFor
<1>4. /\ Chain(joinTables[t], h) \subseteq DOMAIN TableRows(t)
      /\ \A b \in DOMAIN TableRows(t) : HashOfRow(t, b) = h => b \in Chain(joinTables[t], h)
  BY <1>2, JoinLookup DEF IsJoinFor
<1>5. \A b : KeyOf(t, b) = KeyOf(Probe, p) => HashOfRow(t, b) = h
  BY <1>1 DEF HashOfRow
<1>6. Joining(s, p) = {b \in Chain(joinTables[t], h) : KeyOf(t, b) = KeyOf(Probe, p)}
  BY <1>1, <1>3 DEF Joining, Probe
<1> QED
  BY <1>3, <1>4, <1>5, <1>6 DEF FoundIn

(* The pairs of the rows of a block and what is found for them. *)
BlockSize ==
  IF JoinChunkSize < Len(TableRows(Probe)) - offset THEN JoinChunkSize
  ELSE Len(TableRows(Probe)) - offset
PairsFound(s, p) == {<<p, b>> : b \in FoundIn(s, p)}
BlockPairs(s) == UNION {PairsFound(s, offset + i) : i \in 1..BlockSize}

LEMMA JoinedRowsList ==
  ASSUME CallInv, JoinTablesInv, NEW s, IsJoinFor(s), BuildOf(s) \in TableNames,
         NEW p \in DOMAIN TableRows(Probe)
  PROVE  /\ Lists(JoinedRows(s, p), PairsFound(s, p))
         /\ JoinedRows(s, p) \in Seq(Nat \X Nat)
<1>1. PICK F, n : F = FoundIn(s, p) /\ n = Len(TableRows(BuildOf(s)))
  OBVIOUS
<1>2. n \in Nat /\ F \in SUBSET (1..n)
  BY <1>1, LengthOfRows DEF FoundIn, JoinTablesInv
<1>3. IsFiniteSet(F) /\ F \in SUBSET Int
  <2>1. 1 \in Int /\ n \in Int
    BY <1>2
  <2>2. IsFiniteSet(1..n)
    BY <2>1, FS_Interval, Zenon
  <2>3. IsFiniteSet(F)
    BY <1>2, <2>2, FS_Subset
  <2> QED BY <1>2, <2>3
<1>4. Lists(InOrder(F), F)
  BY <1>3, InOrderLists
<1>5. PICK found : found = Reverse(InOrder(F))
  OBVIOUS
<1>6. Lists(found, F)
  BY <1>4, <1>5, ReverseLists
<1>7. JoinedRows(s, p) = [k \in DOMAIN found |-> <<p, found[k]>>]
  BY <1>1, <1>5, JoiningIs DEF JoinedRows
<1>8. p \in Nat
  <2>1. Probe \in TableNames
    BY DEF IsJoinFor
  <2>2. Len(TableRows(Probe)) \in Nat /\ DOMAIN TableRows(Probe) = 1..Len(TableRows(Probe))
    BY <2>1, LengthOfRows DEF JoinTablesInv
  <2> QED BY <2>2
<1> DEFINE f == [b \in F |-> <<p, b>>]
<1>9. /\ \A x \in F : f[x] = <<p, x>>
      /\ TakesApart(f, F)
  BY DEF TakesApart
<1> HIDE DEF f
<1>10. Lists([k \in DOMAIN found |-> f[found[k]]], {f[x] : x \in F})
  BY <1>6, <1>9, ImageLists
<1>11. \A k \in DOMAIN found : found[k] \in F
  BY <1>6 DEF Lists
<1>12. [k \in DOMAIN found |-> f[found[k]]] = [k \in DOMAIN found |-> <<p, found[k]>>]
  BY <1>9, <1>11
<1>13. {f[x] : x \in F} = {<<p, b>> : b \in F}
  BY <1>9
<1>14. Lists(JoinedRows(s, p), PairsFound(s, p))
  BY <1>1, <1>7, <1>10, <1>12, <1>13 DEF PairsFound
<1>15. PairsFound(s, p) \subseteq Nat \X Nat
  BY <1>1, <1>2, <1>8 DEF PairsFound
<1> QED
  BY <1>14, <1>15, SeqMonotonic DEF Lists

LEMMA BlockLists ==
  ASSUME CallInv, JoinTablesInv, NEW s, IsJoinFor(s), BuildOf(s) \in TableNames,
         offset \in Nat, offset < Len(TableRows(Probe))
  PROVE  /\ Lists(BlockJoin(s), BlockPairs(s))
         /\ BlockSize \in Nat /\ offset + BlockSize <= Len(TableRows(Probe))
         /\ BlockSize <= JoinChunkSize
         /\ BlockSize = JoinChunkSize \/ offset + BlockSize = Len(TableRows(Probe))
<1>1. PICK m, n : m = Len(TableRows(Probe)) /\ n = BlockSize
  OBVIOUS
<1>2. Probe \in TableNames
  BY DEF IsJoinFor
<1>3. m \in Nat /\ DOMAIN TableRows(Probe) = 1..m
  BY <1>1, <1>2, LengthOfRows DEF JoinTablesInv
<1>4. JoinChunkSize \in Nat \ {0}
  BY BindingTablesAssumption
<1>5. /\ n \in Nat /\ offset + n <= m /\ n <= JoinChunkSize
      /\ n = JoinChunkSize \/ offset + n = m
  BY <1>1, <1>3, <1>4 DEF BlockSize
<1>6. BlockJoin(s) = FlattenSeq([i \in 1..n |-> JoinedRows(s, offset + i)])
  BY <1>1, Zenon DEF BlockJoin, BlockSize, Probe
<1> DEFINE ss == [i \in 1..n |-> JoinedRows(s, offset + i)]
           S == [i \in 1..n |-> PairsFound(s, offset + i)]
<1>7. ASSUME NEW i \in 1..n
      PROVE  /\ Lists(JoinedRows(s, offset + i), PairsFound(s, offset + i))
             /\ JoinedRows(s, offset + i) \in Seq(Nat \X Nat)
             /\ \A x \in PairsFound(s, offset + i) : x[1] = offset + i
  <2>1. PICK p : p = offset + i
    OBVIOUS
  <2>2. p \in DOMAIN TableRows(Probe)
    BY <1>3, <1>5, <2>1
  <2>3. \A x \in PairsFound(s, p) : x[1] = p
    BY DEF PairsFound
  <2> QED BY <2>1, <2>2, <2>3, JoinedRowsList
<1>8. AreListed(ss, S, n)
  BY <1>7 DEF AreListed
<1>9. AreApart(S, n)
  <2> SUFFICES ASSUME NEW i \in 1..n, NEW j \in 1..n, NEW x, x \in S[i], x \in S[j]
               PROVE  i = j
    BY DEF AreApart
  <2>1. x[1] = offset + i /\ x[1] = offset + j
    BY <1>7
  <2>2. i \in Int /\ j \in Int
    BY <1>5
  <2> QED BY <2>1, <2>2
<1>10. UNION {S[i] : i \in 1..n} = BlockPairs(s)
  <2>1. \A i \in 1..n : S[i] = PairsFound(s, offset + i)
    OBVIOUS
  <2>2. {S[i] : i \in 1..n} = {PairsFound(s, offset + i) : i \in 1..n}
    BY <2>1
  <2> QED BY <1>1, <2>2 DEF BlockPairs
<1> HIDE DEF ss, S
<1>11. Lists(FlattenSeq(ss), UNION {S[i] : i \in 1..n})
  <2>1. PICK r, R : r = ss /\ R = S
    OBVIOUS
  <2>2. AreListed(r, R, n) /\ AreApart(R, n)
    BY <1>8, <1>9, <2>1
  <2>3. Lists(FlattenSeq(r), AllOf(R, n))
    BY <1>5, <2>2, FlattenLists
  <2> QED BY <2>1, <2>3 DEF AllOf
<1> QED
  BY <1>1, <1>5, <1>6, <1>10, <1>11 DEF ss

-----------------------------------------------------------------------------
(* The binding table that is made.  What is left to be joined is one of a few
   sequences of joins, for the hash tables that were made.                 *)
JoinOn(probe, into) == [probe |-> probe, into |-> into]
OnFacts(into) == <<JoinOn("facts", into)>>
LastSide(s) == <<JoinOn(s, {s})>>
BothSides == <<JoinOn("positive", {"positive"}), JoinOn("negative", {"negative"})>>

AreJoins ==
  \/ joins = <<>>
  \/ kind = "label_aware" /\ DOMAIN joinTables = Side /\ joins = OnFacts(Side)
  \/ kind = "label_aware" /\ DOMAIN joinTables = {"facts"} /\ joins = BothSides
  \/ kind = "label_aware" /\ DOMAIN joinTables = {"facts"} /\ joins = LastSide("negative")
  \/ kind = "resizable" /\ DOMAIN joinTables = {"facts"} /\ joins = LastSide("positive")
  \/ kind = "resizable" /\ DOMAIN joinTables = {"positive"} /\ joins = OnFacts({"positive"})

Sides == IF kind = "label_aware" THEN Side ELSE {"positive"}

Left(s) == \E i \in DOMAIN joins : s \in joins[i].into
ProbeAt(fb) == IF Probe = "facts" THEN fb[1] ELSE fb[2]

(* The pairs of a side whose rows have been written. *)
Past(s) ==
  IF ~Left(s) THEN Matches(literal, s)
  ELSE IF s \in joins[1].into THEN {fb \in Matches(literal, s) : ProbeAt(fb) <= offset}
  ELSE {}

BindingRow(fb, s) ==
  LET fact == FactsOf(literal)[fb[1]]
      unbound == UnboundArguments(fact)
  IN  given.bindings[s][fb[2]] \o [k \in DOMAIN unbound |-> fact[unbound[k]]]

AreWritten(s, w) ==
  /\ Lists(w, Past(s)) /\ filled[s] = Len(w)
  /\ \A k \in 1..Len(w) : /\ FirstOutputSlot(s) + k \in DOMAIN buffer
                          /\ buffer[FirstOutputSlot(s) + k] = BindingRow(w[k], s)

PartOf(s) == {FirstOutputSlot(s) + k : k \in 1..filled[s]}
RoomOf(s) == results[literal].binding[s]

TableInv ==
  /\ pc = "done"
  /\ \A s \in Sides : \E w : AreWritten(s, w)
  /\ DOMAIN buffer = UNION {PartOf(s) : s \in Sides}
  /\ kind = "label_aware" => capacity = RoomOf("positive") + RoomOf("negative")
  /\ kind = "resizable" => /\ filled["positive"] <= capacity
                           /\ joins = <<>> => capacity = filled["positive"]

JoinsInv ==
  /\ JoinTablesInv
  /\ kind \in {"none", "label_aware", "resizable"}
  /\ kind = "none" => /\ toHash = <<>> /\ joins = <<>> /\ offset = 0
                      /\ filled = [s \in Side |-> 0] /\ buffer = <<>>
  /\ AreJoins
  /\ offset \in Nat /\ capacity \in Nat /\ filled \in [Side -> Nat]
  /\ kind # "none" => TableInv

(* A pair of a fact and a binding that agree. *)
LEMMA MatchIs ==
  ASSUME CallInv, IsLiteral, NEW s \in Side, NEW fb \in Matches(literal, s)
  PROVE  /\ fb = <<fb[1], fb[2]>> /\ fb[1] \in Nat \ {0} /\ fb[2] \in Nat \ {0}
         /\ fb[1] \in DOMAIN TableRows("facts") /\ fb[2] \in DOMAIN TableRows(s)
<1>1. TableRows("facts") = FactsOf(literal) /\ TableRows(s) = given.bindings[s] /\ s # "facts"
      /\ "facts" \in TableNames /\ s \in TableNames
  BY DEF TableRows, RowsFor, Side, TableNames
<1>2. fb \in (DOMAIN FactsOf(literal)) \X (DOMAIN given.bindings[s])
  BY MatchesAre
<1>3. /\ Len(TableRows("facts")) \in Nat /\ DOMAIN TableRows("facts") = 1..Len(TableRows("facts"))
      /\ Len(TableRows(s)) \in Nat /\ DOMAIN TableRows(s) = 1..Len(TableRows(s))
  BY <1>1, LengthOfRows
<1>4. PICK m \in Nat, n \in Nat : DOMAIN FactsOf(literal) = 1..m /\ DOMAIN given.bindings[s] = 1..n
  BY <1>1, <1>3
<1>5. fb \in (1..m) \X (1..n)
  BY <1>2, <1>4
<1>6. fb = <<fb[1], fb[2]>> /\ fb[1] \in 1..m /\ fb[2] \in 1..n
  BY <1>5
<1> QED
  BY <1>1, <1>4, <1>6

LEMMA MatchesAreFinite ==
  ASSUME CallInv, IsLiteral, NEW s \in Side
  PROVE  IsFiniteSet(Matches(literal, s)) /\ Cardinality(Matches(literal, s)) \in Nat
<1>1. "facts" \in TableNames /\ s \in TableNames /\ s # "facts"
  BY DEF TableNames, Side
<1>2. PICK m, n : m = Len(TableRows("facts")) /\ n = Len(TableRows(s))
  OBVIOUS
<1>3. m \in Nat /\ n \in Nat /\ DOMAIN TableRows("facts") = 1..m /\ DOMAIN TableRows(s) = 1..n
  BY <1>1, <1>2, LengthOfRows
<1>4. Matches(literal, s) \in SUBSET ((1..m) \X (1..n))
  BY <1>1, <1>3, MatchesAre DEF TableRows, RowsFor
<1>5. 1 \in Int /\ m \in Int /\ n \in Int
  BY <1>3
<1>6. IsFiniteSet(1..m) /\ IsFiniteSet(1..n)
  BY <1>5, FS_Interval, Zenon
<1>7. IsFiniteSet((1..m) \X (1..n))
  BY <1>6, FS_Product
<1>8. IsFiniteSet(Matches(literal, s))
  BY <1>4, <1>7, FS_Subset
<1> QED
  BY <1>8, FS_CardinalityType

(* What depends on the call, the literal and its counts only. *)
LEMMA TableDataStay ==
  ASSUME UNCHANGED <<given, literal, results>>
  PROVE  /\ \A s : Matches(literal, s)' = Matches(literal, s)
         /\ \A fb, s : BindingRow(fb, s)' = BindingRow(fb, s)
         /\ \A s : FirstOutputSlot(s)' = FirstOutputSlot(s) /\ RoomOf(s)' = RoomOf(s)
         /\ \A t : TableRows(t)' = TableRows(t)
<1>1. \A s : Matches(literal, s)' = Matches(literal, s)
  BY DEF Matches
<1>2. \A fb, s : BindingRow(fb, s)' = BindingRow(fb, s)
  BY DEF BindingRow, FactsOf, UnboundArguments
<1>3. \A s : FirstOutputSlot(s)' = FirstOutputSlot(s) /\ RoomOf(s)' = RoomOf(s)
  BY DEF FirstOutputSlot, RoomOf
<1> QED
  BY <1>1, <1>2, <1>3, JoinTablesStay

(* The join that is under way, for the sides it is for. *)
LEMMA JoinOfSide ==
  ASSUME JoinsInv, toHash = <<>>, joins # <<>>
  PROVE  /\ joins[1].into \subseteq Sides /\ Sides \subseteq Side
         /\ Probe \in TableNames
         /\ \A s \in joins[1].into :
              /\ IsJoinFor(s) /\ Left(s) /\ BuildOf(s) \in TableNames
              /\ \/ Probe = "facts" /\ BuildOf(s) = s
                 \/ Probe = s /\ BuildOf(s) = "facts" /\ Probe # "facts"
<1>1. AreJoins /\ 1 \in DOMAIN joins
  BY DEF JoinsInv, AreJoins, OnFacts, BothSides, LastSide
<1>2. \/ kind = "label_aware" /\ DOMAIN joinTables = Side /\ joins[1] = JoinOn("facts", Side)
      \/ kind = "label_aware" /\ DOMAIN joinTables = {"facts"} /\ joins[1] = JoinOn("positive", {"positive"})
      \/ kind = "label_aware" /\ DOMAIN joinTables = {"facts"} /\ joins[1] = JoinOn("negative", {"negative"})
      \/ kind = "resizable" /\ DOMAIN joinTables = {"facts"} /\ joins[1] = JoinOn("positive", {"positive"})
      \/ kind = "resizable" /\ DOMAIN joinTables = {"positive"} /\ joins[1] = JoinOn("facts", {"positive"})
  BY <1>1 DEF AreJoins, OnFacts, BothSides, LastSide
<1>3. \A p, i : JoinOn(p, i).probe = p /\ JoinOn(p, i).into = i
  BY DEF JoinOn
<1>4. joins[1].into \subseteq Sides /\ Sides \subseteq Side /\ Probe \in TableNames
  BY <1>2, <1>3 DEF Sides, Side, Probe, TableNames
<1>5. ASSUME NEW s \in joins[1].into
      PROVE  /\ BuildOf(s) \in DOMAIN joinTables /\ BuildOf(s) \in TableNames
             /\ \/ Probe = "facts" /\ BuildOf(s) = s
                \/ Probe = s /\ BuildOf(s) = "facts" /\ Probe # "facts"
  BY <1>2, <1>3, <1>5 DEF Side, Probe, TableNames, BuildOf
<1>6. \A s \in joins[1].into : Left(s)
  BY <1>1 DEF Left
<1> QED
  BY <1>4, <1>5, <1>6 DEF IsJoinFor

(* A pair of rows, as a fact and a binding. *)
Turn(pair) == IF Probe = "facts" THEN pair ELSE <<pair[2], pair[1]>>

LEMMA FoundAreMatches ==
  ASSUME CallInv, JoinsInv, toHash = <<>>, joins # <<>>, NEW s \in joins[1].into
  PROVE  \A p \in DOMAIN TableRows(Probe) : \A b :
           b \in FoundIn(s, p) <=> Turn(<<p, b>>) \in Matches(literal, s)
<1>1. IsLiteral
  BY DEF JoinsInv, JoinTablesInv
<1>2. s \in Side /\ s # "facts"
  BY JoinOfSide DEF Side
<1>3. TableRows("facts") = FactsOf(literal) /\ TableRows(s) = given.bindings[s]
  BY <1>2 DEF TableRows, RowsFor
<1>4. \A f \in DOMAIN FactsOf(literal), c \in DOMAIN given.bindings[s] :
        KeyOf("facts", f) = KeyOf(s, c) <=> Agreeing(f, s, c)
  BY <1>1, <1>2, KeysAgree
<1>5. \A f, c : <<f, c>> \in Matches(literal, s) <=>
        f \in DOMAIN FactsOf(literal) /\ c \in DOMAIN given.bindings[s] /\ Agreeing(f, s, c)
  BY MatchesAre
<1> TAKE p \in DOMAIN TableRows(Probe)
<1> TAKE b
<1>6. CASE Probe = "facts" /\ BuildOf(s) = s
  <2>1. b \in FoundIn(s, p) <=> b \in DOMAIN given.bindings[s] /\ KeyOf(s, b) = KeyOf("facts", p)
    BY <1>3, <1>6 DEF FoundIn
  <2>2. p \in DOMAIN FactsOf(literal) /\ Turn(<<p, b>>) = <<p, b>>
    BY <1>3, <1>6 DEF Turn
  <2> QED BY <1>4, <1>5, <2>1, <2>2
<1>7. CASE Probe = s /\ BuildOf(s) = "facts" /\ Probe # "facts"
  <2>1. b \in FoundIn(s, p) <=> b \in DOMAIN FactsOf(literal) /\ KeyOf("facts", b) = KeyOf(s, p)
    BY <1>3, <1>7 DEF FoundIn
  <2>2. p \in DOMAIN given.bindings[s] /\ Turn(<<p, b>>) = <<b, p>>
    BY <1>3, <1>7 DEF Turn
  <2> QED BY <1>4, <1>5, <2>1, <2>2
<1> QED
  BY <1>6, <1>7, JoinOfSide

(* The pairs that are past after the block. *)
PastBlock(s) == {fb \in Matches(literal, s) : ProbeAt(fb) <= offset + JoinChunkSize}
TurnedPairs(s) == {Turn(x) : x \in BlockPairs(s)}

LEMMA BlockAddsPairs ==
  ASSUME CallInv, JoinsInv, toHash = <<>>, joins # <<>>, offset < Len(TableRows(Probe)),
         NEW s \in joins[1].into
  PROVE  /\ PastBlock(s) = Past(s) \cup TurnedPairs(s)
         /\ Past(s) \cap TurnedPairs(s) = {}
<1> DEFINE n == BlockSize
           m == Len(TableRows(Probe))
<1>1. /\ IsJoinFor(s) /\ BuildOf(s) \in TableNames /\ Left(s) /\ s \in Side /\ Probe \in TableNames
      /\ \/ Probe = "facts" /\ BuildOf(s) = s
         \/ Probe = s /\ BuildOf(s) = "facts" /\ Probe # "facts"
  BY JoinOfSide
<1>2. IsLiteral /\ JoinTablesInv /\ offset \in Nat
  BY DEF JoinsInv, JoinTablesInv
<1>3. /\ n \in Nat /\ offset + n <= m /\ n <= JoinChunkSize
      /\ n = JoinChunkSize \/ offset + n = m
  BY <1>1, <1>2, BlockLists
<1>4. m \in Nat /\ DOMAIN TableRows(Probe) = 1..m
  BY <1>1, <1>2, LengthOfRows
<1>5. JoinChunkSize \in Nat \ {0}
  BY BindingTablesAssumption
<1>6. Past(s) = {fb \in Matches(literal, s) : ProbeAt(fb) <= offset}
  BY <1>1 DEF Past
<1>7. \A x : x \in BlockPairs(s) <=>
        \E i \in 1..n : \E b \in FoundIn(s, offset + i) : x = <<offset + i, b>>
  BY DEF BlockPairs, PairsFound
<1> HIDE DEF n, m
<1>8. ASSUME NEW x \in BlockPairs(s)
      PROVE  /\ Turn(x) \in Matches(literal, s)
             /\ ProbeAt(Turn(x)) \in offset + 1..offset + n
  <2>0. PICK i \in 1..n : \E b \in FoundIn(s, offset + i) : x = <<offset + i, b>>
    BY <1>7
  <2>1. PICK b : b \in FoundIn(s, offset + i) /\ x = <<offset + i, b>>
    BY <2>0
  <2>2. offset + i \in 1..m
    BY <1>2, <1>3, <1>4
  <2>3. PICK p \in 1..m : p = offset + i
    BY <2>2
  <2>4. Turn(<<p, b>>) \in Matches(literal, s)
    BY <1>4, <2>1, <2>3, FoundAreMatches
  <2>5. ProbeAt(Turn(<<p, b>>)) = p
    BY DEF ProbeAt, Turn
  <2> QED BY <1>2, <1>3, <2>1, <2>3, <2>4, <2>5
<1>9. ASSUME NEW fb \in Matches(literal, s)
      PROVE  ProbeAt(fb) \in 1..m /\ (ProbeAt(fb) \in offset + 1..offset + n => fb \in TurnedPairs(s))
  <2>1. /\ fb = <<fb[1], fb[2]>>
        /\ fb[1] \in DOMAIN TableRows("facts") /\ fb[2] \in DOMAIN TableRows(s)
    BY <1>1, <1>2, MatchIs
  <2> DEFINE p == ProbeAt(fb)
             b == IF Probe = "facts" THEN fb[2] ELSE fb[1]
  <2>2. p \in DOMAIN TableRows(Probe) /\ Turn(<<p, b>>) = fb
    BY <1>1, <2>1 DEF ProbeAt, Turn
  <2> HIDE DEF p, b
  <2>3. b \in FoundIn(s, p)
    BY <2>2, FoundAreMatches
  <2>4. ASSUME p \in offset + 1..offset + n
        PROVE  fb \in TurnedPairs(s)
    <3>1. PICK i \in 1..n : p = offset + i
      <4>1. p \in Int /\ p - offset \in 1..n /\ p = offset + (p - offset)
        BY <1>2, <1>3, <2>4
      <4> QED BY <4>1
    <3>2. <<p, b>> \in BlockPairs(s)
      BY <1>7, <2>3, <3>1
    <3> QED BY <2>2, <3>2 DEF TurnedPairs
  <2> QED BY <1>4, <2>2, <2>4 DEF p
<1>10. \A q \in 1..m : q <= offset + JoinChunkSize <=> q <= offset \/ q \in offset + 1..offset + n
  BY <1>2, <1>3, <1>4, <1>5
<1>11. \A q \in offset + 1..offset + n : ~(q <= offset)
  BY <1>2, <1>3
<1>12. PastBlock(s) = Past(s) \cup TurnedPairs(s)
  <2>1. \A fb : fb \in TurnedPairs(s) => fb \in Matches(literal, s) /\ ProbeAt(fb) \in offset + 1..offset + n
    BY <1>8 DEF TurnedPairs
  <2>2. \A fb \in Matches(literal, s) :
          ProbeAt(fb) <= offset + JoinChunkSize <=> ProbeAt(fb) <= offset \/ fb \in TurnedPairs(s)
    BY <1>9, <1>10, <2>1
  <2> QED BY <1>6, <2>1, <2>2 DEF PastBlock
<1>13. Past(s) \cap TurnedPairs(s) = {}
  BY <1>6, <1>8, <1>11 DEF TurnedPairs
<1> QED
  BY <1>12, <1>13

(* The rows of a side's block follow those that were written. *)
IsLonger(s, w, u) ==
  /\ Lists(u, PastBlock(s)) /\ Len(u) = filled[s] + Len(BlockJoin(s))
  /\ \A k \in 1..filled[s] : u[k] = w[k]
  /\ \A k \in 1..Len(BlockJoin(s)) : u[filled[s] + k] = Turn(BlockJoin(s)[k])

LEMMA BlockIsBehind ==
  ASSUME CallInv, JoinsInv, toHash = <<>>, joins # <<>>, offset < Len(TableRows(Probe)),
         NEW s \in joins[1].into, NEW w, AreWritten(s, w)
  PROVE  /\ Len(BlockJoin(s)) \in Nat /\ DOMAIN BlockJoin(s) = 1..Len(BlockJoin(s))
         /\ \E u : IsLonger(s, w, u)
<1>1. Lists(BlockJoin(s), BlockPairs(s))
  BY JoinOfSide, BlockLists DEF JoinsInv
<1>2. PICK x, S, P, a, n : /\ x = BlockJoin(s) /\ S = BlockPairs(s) /\ P = Past(s)
                           /\ a = filled[s] /\ n = Len(x)
  OBVIOUS
<1>3. Lists(x, S) /\ Lists(w, P) /\ Len(w) = a
  BY <1>1, <1>2 DEF AreWritten
<1>4. x \in Seq(S) /\ w \in Seq(P) /\ n \in Nat /\ a \in Nat /\ DOMAIN x = 1..n
  BY <1>2, <1>3 DEF Lists
<1>5. PICK f : f = [y \in S |-> Turn(y)]
  OBVIOUS
<1>6. TakesApart(f, S)
  <2>1. \A y \in S : y = <<y[1], y[2]>>
    BY <1>2 DEF BlockPairs, PairsFound
  <2>2. \A y, z : Turn(<<y[1], y[2]>>) = Turn(<<z[1], z[2]>>) => y[1] = z[1] /\ y[2] = z[2]
    BY DEF Turn
  <2>3. ASSUME NEW y \in S, NEW z \in S, f[y] = f[z]
        PROVE  y = z
    <3>1. Turn(y) = Turn(z)
      BY <1>5, <2>3
    <3> QED BY <2>1, <2>2, <3>1
  <2> QED BY <2>3 DEF TakesApart
<1>7. PICK v, T : v = [k \in DOMAIN x |-> f[x[k]]] /\ T = {f[y] : y \in S}
  OBVIOUS
<1>8. Lists(v, T)
  BY <1>3, <1>6, <1>7, ImageLists
<1>9. T = TurnedPairs(s)
  BY <1>2, <1>5, <1>7 DEF TurnedPairs
<1>10. P \cup T = PastBlock(s) /\ P \cap T = {}
  BY <1>2, <1>9, BlockAddsPairs
<1>11. Lists(w \o v, P \cup T)
  BY <1>3, <1>8, <1>10, ListsBehind
<1>12. /\ v \in Seq(T) /\ Len(v) = n
       /\ \A k \in 1..n : v[k] = Turn(x[k])
  <2>1. v \in Seq(T)
    BY <1>8 DEF Lists
  <2>2. Len(v) = n
    BY <1>4, <1>7, <2>1
  <2>3. \A k \in 1..n : x[k] \in S
    BY <1>4
  <2> QED BY <1>4, <1>5, <1>7, <2>1, <2>2, <2>3
<1>13. PICK u : u = w \o v
  OBVIOUS
<1>14. /\ Len(u) = a + n
       /\ \A k \in 1..a + n : u[k] = IF k <= a THEN w[k] ELSE v[k - a]
  <2>1. PICK C : C = P \cup T
    OBVIOUS
  <2>2. w \in Seq(C) /\ v \in Seq(C)
    BY <1>4, <1>12, <2>1, SeqMonotonic
  <2>3. /\ Len(w \o v) = Len(w) + Len(v)
        /\ \A k \in 1 .. Len(w) + Len(v) : (w \o v)[k] = IF k <= Len(w) THEN w[k] ELSE v[k - Len(w)]
    BY <2>2, ConcatProperties, Zenon
  <2> QED BY <1>3, <1>12, <1>13, <2>3
<1>15. \A k \in 1..a : u[k] = w[k]
  BY <1>4, <1>14
<1>16. \A k \in 1..n : u[a + k] = Turn(x[k])
  <2> TAKE k \in 1..n
  <2>1. a + k \in 1..a + n /\ ~(a + k <= a) /\ (a + k) - a = k
    BY <1>4
  <2> QED BY <1>12, <1>14, <2>1
<1>17. IsLonger(s, w, u)
  BY <1>2, <1>10, <1>11, <1>13, <1>14, <1>15, <1>16 DEF IsLonger
<1> QED
  BY <1>2, <1>4, <1>17

(* What is written for a pair of a join is the row of the fact and the binding. *)
LEMMA ProjectedIs ==
  ASSUME NEW s, NEW pair
  PROVE  Projected(s, pair) = BindingRow(Turn(pair), s)
<1>1. TableRows("facts") = FactsOf(literal)
  BY DEF TableRows, RowsFor
<1>2. CASE Probe = "facts"
  BY <1>1, <1>2 DEF Projected, BindingRow, Turn, Probe
<1>3. CASE Probe # "facts"
  <2>1. Turn(pair) = <<pair[2], pair[1]>>
    BY <1>3 DEF Turn
  <2>2. Turn(pair)[1] = pair[2] /\ Turn(pair)[2] = pair[1]
    BY <2>1
  <2> QED BY <1>1, <1>3, <2>2 DEF Projected, BindingRow, Probe
<1> QED
  BY <1>2, <1>3

(* The counts give each side the room it needs. *)
LEMMA CountsGiveRoom ==
  ASSUME CallInv, CountsAreExact, JoinsInv, kind # "none", NEW s \in Side
  PROVE  RoomOf(s) \in Nat /\ \A u, S : Lists(u, S) /\ S \subseteq Matches(literal, s) => Len(u) <= RoomOf(s)
<1>1. pc = "done" /\ IsLiteral
  BY DEF JoinsInv, TableInv, JoinTablesInv
<1>2. RoomOf(s) = Cardinality(Matches(literal, s))
  BY <1>1 DEF CountsAreExact, RoomOf, IsLiteral
<1>3. IsFiniteSet(Matches(literal, s)) /\ Cardinality(Matches(literal, s)) \in Nat
  BY <1>1, MatchesAreFinite
<1>4. PICK M : M = Matches(literal, s)
  OBVIOUS
<1>5. ASSUME NEW u, NEW S, Lists(u, S), S \subseteq M
      PROVE  Len(u) <= Cardinality(M)
  <2>1. Cardinality(S) = Len(u)
    BY <1>5, ListedIsCounted
  <2>2. S \in SUBSET M /\ IsFiniteSet(M)
    BY <1>3, <1>4, <1>5
  <2> QED BY <2>1, <2>2, FS_Subset
<1> QED
  BY <1>2, <1>3, <1>4, <1>5

(* The rows a side gets with a block. *)
Added(s) == IF s \in joins[1].into THEN Len(BlockJoin(s)) ELSE 0

LEMMA BlockHasRoom ==
  ASSUME CallInv, CountsAreExact, JoinsInv, kind # "none", toHash = <<>>, joins # <<>>,
         offset < Len(TableRows(Probe)), NEW s \in Sides
  PROVE  /\ Added(s) \in Nat /\ filled[s] \in Nat
         /\ kind = "label_aware" => RoomOf(s) \in Nat /\ filled[s] + Added(s) <= RoomOf(s)
<1>1. s \in Side /\ filled[s] \in Nat
  BY JoinOfSide DEF JoinsInv
<1>2. PICK w : AreWritten(s, w)
  BY DEF JoinsInv, TableInv
<1>3. CASE s \in joins[1].into
  <2>1. Added(s) = Len(BlockJoin(s)) /\ Len(BlockJoin(s)) \in Nat
    BY <1>2, <1>3, BlockIsBehind DEF Added
  <2>2. PICK u : IsLonger(s, w, u)
    BY <1>2, <1>3, BlockIsBehind
  <2>3. Lists(u, PastBlock(s)) /\ PastBlock(s) \subseteq Matches(literal, s)
        /\ Len(u) = filled[s] + Added(s)
    BY <2>1, <2>2 DEF IsLonger, PastBlock
  <2> QED BY <1>1, <2>1, <2>3, CountsGiveRoom
<1>4. CASE s \notin joins[1].into
  <2>1. Added(s) = 0
    BY <1>4 DEF Added
  <2>2. Lists(w, Past(s)) /\ Past(s) \subseteq Matches(literal, s) /\ Len(w) = filled[s]
    BY <1>2 DEF AreWritten, Past
  <2> QED BY <1>1, <2>1, <2>2, CountsGiveRoom
<1> QED
  BY <1>3, <1>4

(* No two rows have the same slot. *)
LEMMA SlotsAreApart ==
  ASSUME CallInv, CountsAreExact, JoinsInv, kind # "none", toHash = <<>>, joins # <<>>,
         offset < Len(TableRows(Probe)), NEW s \in Sides, NEW t \in Sides,
         NEW k \in 1..filled[s] + Added(s), NEW l \in 1..filled[t] + Added(t),
         FirstOutputSlot(s) + k = FirstOutputSlot(t) + l
  PROVE  s = t /\ k = l
<1>1. /\ Added(s) \in Nat /\ filled[s] \in Nat /\ Added(t) \in Nat /\ filled[t] \in Nat
      /\ kind = "label_aware" => RoomOf("positive") \in Nat
                                 /\ filled["positive"] + Added("positive") <= RoomOf("positive")
  BY BlockHasRoom DEF Sides, Side
<1>2. CASE kind = "label_aware"
  <2>1. s \in {"positive", "negative"} /\ t \in {"positive", "negative"}
    BY <1>2 DEF Sides, Side
  <2>2. FirstOutputSlot("positive") = 0 /\ FirstOutputSlot("negative") = RoomOf("positive")
    BY DEF FirstOutputSlot, RoomOf
  <2>3. PICK r \in Nat : r = RoomOf("positive")
    BY <1>1, <1>2
  <2>4. PICK fs, ft : fs = FirstOutputSlot(s) /\ ft = FirstOutputSlot(t)
    OBVIOUS
  <2>5. k \in Nat /\ l \in Nat /\ k >= 1 /\ l >= 1 /\ fs + k = ft + l
    BY <1>1, <2>4
  <2>6. (s = "positive" => k <= r) /\ (t = "positive" => l <= r)
    BY <1>1, <1>2, <2>3
  <2>7. /\ fs = (IF s = "positive" THEN 0 ELSE r) /\ ft = (IF t = "positive" THEN 0 ELSE r)
    BY <2>1, <2>2, <2>3, <2>4
  <2> QED BY <2>1, <2>5, <2>6, <2>7
<1>3. CASE kind # "label_aware"
  <2>1. s = "positive" /\ t = "positive"
    BY <1>3 DEF Sides
  <2>2. FirstOutputSlot(s) = 0 /\ FirstOutputSlot(t) = 0
    BY <2>1 DEF FirstOutputSlot
  <2>3. k \in Int /\ l \in Int
    BY <1>1
  <2> QED BY <2>1, <2>2, <2>3
<1> QED
  BY <1>2, <1>3

(* What a block does to the buffer. *)
NewSlots(s) == {Slot(s, k) : k \in 1..Len(BlockJoin(s))}

IsWithBlock ==
  /\ \A s \in joins[1].into : \A k \in 1..Len(BlockJoin(s)) :
       buffer'[Slot(s, k)] = Projected(s, BlockJoin(s)[k])
  /\ \A i \in DOMAIN buffer : buffer'[i] = buffer[i]
  /\ DOMAIN buffer' = DOMAIN buffer \cup UNION {NewSlots(s) : s \in joins[1].into}
  /\ filled' = [s \in Side |-> filled[s] + Added(s)]
  /\ kind # "resizable" => capacity' = capacity
  /\ kind = "resizable" => capacity' \in Nat /\ filled'["positive"] <= capacity'

LEMMA BlockIsWritten ==
  ASSUME CallInv, CountsAreExact, JoinsInv, JoinBlock
  PROVE  IsWithBlock
<1>1. /\ toHash = <<>> /\ joins # <<>> /\ offset < Len(TableRows(joins[1].probe))
      /\ \E new \in {[s \in joins[1].into |-> BlockJoin(s)]} :
           LET Slots(s) == {Slot(s, k) : k \in DOMAIN new[s]}
               RowFor(i) == LET s == CHOOSE x \in DOMAIN new : i \in Slots(x)
                                k == CHOOSE y \in DOMAIN new[s] : Slot(s, y) = i
                            IN  Projected(s, new[s][k])
               slots == UNION {Slots(s) : s \in DOMAIN new}
               needed == filled["positive"] + Len(new["positive"])
           IN  /\ buffer' = [i \in DOMAIN buffer \cup slots |->
                               IF i \in slots THEN RowFor(i) ELSE buffer[i]]
               /\ filled' = [s \in Side |->
                               filled[s] + IF s \in DOMAIN new THEN Len(new[s]) ELSE 0]
               /\ capacity' = IF kind = "resizable" /\ capacity < needed THEN Grown(capacity, needed)
                              ELSE capacity
  BY Zenon DEF JoinBlock
<1>2. PICK new : /\ new = [s \in joins[1].into |-> BlockJoin(s)]
                 /\ LET Slots(s) == {Slot(s, k) : k \in DOMAIN new[s]}
                        RowFor(i) == LET s == CHOOSE x \in DOMAIN new : i \in Slots(x)
                                         k == CHOOSE y \in DOMAIN new[s] : Slot(s, y) = i
                                     IN  Projected(s, new[s][k])
                        slots == UNION {Slots(s) : s \in DOMAIN new}
                        needed == filled["positive"] + Len(new["positive"])
                    IN  /\ buffer' = [i \in DOMAIN buffer \cup slots |->
                                        IF i \in slots THEN RowFor(i) ELSE buffer[i]]
                        /\ filled' = [s \in Side |->
                                        filled[s] + IF s \in DOMAIN new THEN Len(new[s]) ELSE 0]
                        /\ capacity' = IF kind = "resizable" /\ capacity < needed
                                       THEN Grown(capacity, needed) ELSE capacity
  BY <1>1, Zenon
<1> DEFINE Slots(s) == {Slot(s, k) : k \in DOMAIN new[s]}
           RowFor(i) == LET s == CHOOSE x \in DOMAIN new : i \in Slots(x)
                            k == CHOOSE y \in DOMAIN new[s] : Slot(s, y) = i
                        IN  Projected(s, new[s][k])
           slots == UNION {Slots(s) : s \in DOMAIN new}
           needed == filled["positive"] + Len(new["positive"])
<1>3. /\ buffer' = [i \in DOMAIN buffer \cup slots |-> IF i \in slots THEN RowFor(i) ELSE buffer[i]]
      /\ filled' = [s \in Side |-> filled[s] + IF s \in DOMAIN new THEN Len(new[s]) ELSE 0]
      /\ capacity' = IF kind = "resizable" /\ capacity < needed THEN Grown(capacity, needed)
                     ELSE capacity
  BY <1>2, Zenon
<1>4. /\ kind # "none" /\ offset < Len(TableRows(Probe)) /\ TableInv
      /\ joins[1].into \subseteq Sides /\ Sides \subseteq Side
  <2>1. kind # "none"
    BY <1>1 DEF JoinsInv
  <2> QED BY <1>1, <2>1, JoinOfSide DEF JoinsInv, Probe
<1>5. ASSUME NEW s \in joins[1].into
      PROVE  /\ Len(BlockJoin(s)) \in Nat /\ DOMAIN BlockJoin(s) = 1..Len(BlockJoin(s))
             /\ Added(s) = Len(BlockJoin(s)) /\ filled[s] \in Nat
             /\ \A k \in 1..Len(BlockJoin(s)) :
                  /\ filled[s] + k \in 1..filled[s] + Added(s)
                  /\ Slot(s, k) = FirstOutputSlot(s) + (filled[s] + k)
  <2>1. PICK w : AreWritten(s, w)
    BY <1>4, <1>5 DEF TableInv
  <2>2. Len(BlockJoin(s)) \in Nat /\ DOMAIN BlockJoin(s) = 1..Len(BlockJoin(s))
    BY <1>1, <1>4, <1>5, <2>1, BlockIsBehind
  <2>3. filled[s] \in Nat /\ Added(s) = Len(BlockJoin(s))
    BY <1>4, <1>5 DEF JoinsInv, Added
  <2>4. FirstOutputSlot(s) \in Nat
    <3>1. RoomOf("positive") \in Nat
      BY <1>4, CountsGiveRoom DEF Side
    <3> QED BY <3>1 DEF FirstOutputSlot, RoomOf
  <2>5. ASSUME NEW k \in 1..Len(BlockJoin(s))
        PROVE  /\ filled[s] + k \in 1..filled[s] + Added(s)
               /\ Slot(s, k) = FirstOutputSlot(s) + (filled[s] + k)
    <3>1. PICK f, a, n : f = FirstOutputSlot(s) /\ a = filled[s] /\ n = Len(BlockJoin(s))
      OBVIOUS
    <3>2. f \in Nat /\ a \in Nat /\ n \in Nat /\ k \in 1..n /\ Added(s) = n
      BY <2>2, <2>3, <2>4, <3>1
    <3>3. a + k \in 1..a + n /\ f + a + k = f + (a + k)
      BY <3>2
    <3> QED BY <3>1, <3>2, <3>3 DEF Slot
  <2> QED BY <2>2, <2>3, <2>5
<1>6. ASSUME NEW s \in joins[1].into, NEW t \in joins[1].into,
             NEW k \in 1..Len(BlockJoin(s)), NEW l \in 1..Len(BlockJoin(t)), Slot(s, k) = Slot(t, l)
      PROVE  s = t /\ k = l
  <2>1. PICK i, j : i = filled[s] + k /\ j = filled[t] + l
    OBVIOUS
  <2>2. /\ i \in 1..filled[s] + Added(s) /\ j \in 1..filled[t] + Added(t)
        /\ FirstOutputSlot(s) + i = FirstOutputSlot(t) + j
    BY <1>5, <1>6, <2>1
  <2>3. s = t /\ i = j
    BY <1>1, <1>4, <2>2, SlotsAreApart
  <2>4. filled[s] \in Nat /\ k \in Int /\ l \in Int
    BY <1>5, <1>6
  <2> QED BY <2>1, <2>3, <2>4
<1>7. ASSUME NEW s \in joins[1].into, NEW k \in 1..Len(BlockJoin(s))
      PROVE  Slot(s, k) \notin DOMAIN buffer
  <2> SUFFICES ASSUME Slot(s, k) \in DOMAIN buffer PROVE FALSE
    OBVIOUS
  <2>1. PICK t \in Sides : Slot(s, k) \in PartOf(t)
    BY <1>4 DEF TableInv
  <2>2. PICK l \in 1..filled[t] : Slot(s, k) = FirstOutputSlot(t) + l
    BY <2>1 DEF PartOf
  <2>3. filled[t] \in Nat /\ Added(t) \in Nat
    BY <1>1, <1>4, BlockHasRoom
  <2>4. l \in 1..filled[t] + Added(t) /\ l \in Int /\ l <= filled[t]
    BY <2>3
  <2>5. PICK i : i = filled[s] + k
    OBVIOUS
  <2>6. i \in 1..filled[s] + Added(s) /\ FirstOutputSlot(s) + i = FirstOutputSlot(t) + l
    BY <1>5, <1>7, <2>2, <2>5
  <2>7. s = t /\ i = l
    BY <1>1, <1>4, <1>7, <2>4, <2>6, SlotsAreApart
  <2>8. k \in Int /\ k >= 1
    BY <1>5, <1>7
  <2> QED BY <2>3, <2>4, <2>5, <2>7, <2>8
<1>8. /\ DOMAIN new = joins[1].into
      /\ \A s \in joins[1].into : new[s] = BlockJoin(s) /\ Slots(s) = NewSlots(s)
  BY <1>2, <1>5 DEF NewSlots
<1>9. slots = UNION {NewSlots(s) : s \in joins[1].into}
  <2>1. {Slots(s) : s \in DOMAIN new} = {NewSlots(s) : s \in joins[1].into}
    BY <1>8
  <2> QED BY <2>1
<1>10. ASSUME NEW s \in joins[1].into, NEW k \in 1..Len(BlockJoin(s))
       PROVE  Slot(s, k) \in slots /\ RowFor(Slot(s, k)) = Projected(s, BlockJoin(s)[k])
  <2> DEFINE x == CHOOSE x \in DOMAIN new : Slot(s, k) \in Slots(x)
             y == CHOOSE y \in DOMAIN new[x] : Slot(x, y) = Slot(s, k)
  <2>1. Slot(s, k) \in NewSlots(s)
    BY DEF NewSlots
  <2>2. s \in DOMAIN new /\ Slot(s, k) \in Slots(s)
    BY <1>8, <2>1
  <2>3. x \in DOMAIN new /\ Slot(s, k) \in Slots(x)
    <3> HIDE DEF Slots
    <3> QED BY <2>2
  <2> HIDE DEF x
  <2>4. x \in joins[1].into /\ Slot(s, k) \in NewSlots(x)
    BY <1>8, <2>3
  <2>5. PICK l \in 1..Len(BlockJoin(x)) : Slot(x, l) = Slot(s, k)
    BY <2>4 DEF NewSlots
  <2>6. x = s
    BY <1>6, <2>4, <2>5
  <2>7. k \in DOMAIN new[x] /\ Slot(x, k) = Slot(s, k)
    BY <1>5, <1>8, <2>6
  <2>8. y \in DOMAIN new[x] /\ Slot(x, y) = Slot(s, k)
    BY <2>7
  <2> HIDE DEF y
  <2>9. y = k
    BY <1>5, <1>6, <1>8, <2>6, <2>8
  <2>10. RowFor(Slot(s, k)) = Projected(x, new[x][y])
    BY Zenon DEF x, y
  <2>11. Slot(s, k) \in slots
    BY <1>9, <2>1
  <2> QED BY <1>8, <2>6, <2>9, <2>10, <2>11
<1>11. \A i \in DOMAIN buffer : i \notin slots
  BY <1>7, <1>9 DEF NewSlots
<1> HIDE DEF RowFor, slots, Slots
<1>12. /\ \A s \in joins[1].into : \A k \in 1..Len(BlockJoin(s)) :
            buffer'[Slot(s, k)] = Projected(s, BlockJoin(s)[k])
       /\ \A i \in DOMAIN buffer : buffer'[i] = buffer[i]
       /\ DOMAIN buffer' = DOMAIN buffer \cup UNION {NewSlots(s) : s \in joins[1].into}
  BY <1>3, <1>9, <1>10, <1>11
<1>13. filled' = [s \in Side |-> filled[s] + Added(s)]
  BY <1>3, <1>8 DEF Added
<1>14. kind # "resizable" => capacity' = capacity
  BY <1>3
<1>15. ASSUME kind = "resizable"
       PROVE  capacity' \in Nat /\ filled'["positive"] <= capacity'
  <2>1. "positive" \in Side /\ "positive" \in joins[1].into
    <3>1. "positive" \in Side
      BY DEF Side
    <3> QED BY <1>1, <1>15, <3>1 DEF JoinsInv, AreJoins, OnFacts, LastSide, JoinOn
  <2>2. needed = filled["positive"] + Added("positive") /\ filled'["positive"] = needed
    BY <1>8, <1>13, <2>1 DEF Added
  <2>3. needed \in Nat
    BY <1>5, <2>1, <2>2
  <2>4. capacity \in Nat
    BY DEF JoinsInv
  <2> HIDE DEF needed
  <2>5. CASE capacity < needed
    <3>1. capacity' = Grown(capacity, needed)
      BY <1>3, <1>15, <2>5
    <3>2. Grown(capacity, needed) \in Nat /\ needed <= Grown(capacity, needed)
      BY <2>3, <2>4 DEF Grown
    <3> QED BY <2>2, <3>1, <3>2
  <2>6. CASE ~(capacity < needed)
    BY <1>3, <2>2, <2>3, <2>4, <2>6
  <2> QED BY <2>5, <2>6
<1> QED
  BY <1>12, <1>13, <1>14, <1>15 DEF IsWithBlock

(* A block is added to what was written before. *)
LEMMA BlockKeepsTable ==
  ASSUME CallInv, CountsAreExact, JoinsInv, JoinBlock
  PROVE  JoinsInv'
<1>1. /\ toHash = <<>> /\ joins # <<>> /\ offset < Len(TableRows(Probe))
      /\ offset' = offset + JoinChunkSize
      /\ UNCHANGED vars /\ UNCHANGED <<kind, literal>> /\ UNCHANGED hashVars /\ joins' = joins
  BY Zenon DEF JoinBlock, Probe
<1>2. IsWithBlock
  BY BlockIsWritten
<1>3. /\ UNCHANGED <<given, literal, results>> /\ UNCHANGED <<toHash, joinTables>> /\ pc' = pc
  BY <1>1 DEF vars, countVars, callVars, hashVars
<1>4. /\ kind # "none" /\ TableInv
      /\ joins[1].into \subseteq Sides /\ Sides \subseteq Side
  <2>1. kind # "none"
    BY <1>1 DEF JoinsInv
  <2> QED BY <1>1, <2>1, JoinOfSide DEF JoinsInv
<1>5. /\ \A s : Matches(literal, s)' = Matches(literal, s)
      /\ \A fb, s : BindingRow(fb, s)' = BindingRow(fb, s)
      /\ \A s : FirstOutputSlot(s)' = FirstOutputSlot(s) /\ RoomOf(s)' = RoomOf(s)
  BY <1>3, TableDataStay
<1>6. JoinTablesInv'
  BY <1>1, <1>3, JoinTablesKept DEF JoinsInv
<1>7. Sides' = Sides /\ (AreJoins' <=> AreJoins)
  BY <1>1, <1>3 DEF Sides, AreJoins
<1>8. /\ \A fb : ProbeAt(fb)' = ProbeAt(fb)
      /\ \A s : Left(s)' <=> Left(s)
  BY <1>1 DEF ProbeAt, Probe, Left
<1>9. \A s \in joins[1].into : Past(s)' = PastBlock(s)
  <2> TAKE s \in joins[1].into
  <2>1. Left(s)
    BY <1>1, JoinOfSide
  <2>2. Past(s)' = {fb \in Matches(literal, s)' : ProbeAt(fb)' <= offset'}
    BY <1>1, <1>8, <2>1 DEF Past
  <2> QED BY <1>1, <1>5, <1>8, <2>2 DEF PastBlock
<1>10. \A s : s \notin joins[1].into => Past(s)' = Past(s)
  BY <1>1, <1>5, <1>8 DEF Past
<1>11. \A s \in Sides : filled'[s] = filled[s] + Added(s) /\ Added(s) \in Nat /\ filled[s] \in Nat
  BY <1>1, <1>2, <1>4, BlockHasRoom DEF IsWithBlock
<1>12. \A i \in DOMAIN buffer : i \in DOMAIN buffer' /\ buffer'[i] = buffer[i]
  BY <1>2 DEF IsWithBlock
<1>13. ASSUME NEW s \in Sides
       PROVE  (\E w : AreWritten(s, w))'
  <2>1. PICK w : AreWritten(s, w)
    BY <1>4 DEF TableInv
  <2>2. CASE s \notin joins[1].into
    <3>1. Added(s) = 0 /\ Past(s)' = Past(s) /\ filled'[s] = filled[s]
      BY <1>10, <1>11, <2>2 DEF Added
    <3>2. /\ Lists(w, Past(s)) /\ filled[s] = Len(w)
          /\ \A k \in 1..Len(w) : /\ FirstOutputSlot(s) + k \in DOMAIN buffer
                                  /\ buffer[FirstOutputSlot(s) + k] = BindingRow(w[k], s)
      BY <2>1 DEF AreWritten
    <3>3. \A k \in 1..Len(w) : /\ FirstOutputSlot(s) + k \in DOMAIN buffer'
                               /\ buffer'[FirstOutputSlot(s) + k] = BindingRow(w[k], s)
      BY <1>12, <3>2
    <3>4. AreWritten(s, w)'
      BY <1>5, <3>1, <3>2, <3>3 DEF AreWritten
    <3> QED BY <3>4
  <2>3. CASE s \in joins[1].into
    <3>1. PICK u : IsLonger(s, w, u)
      BY <1>1, <2>1, <2>3, BlockIsBehind
    <3>2. PICK a, n, f : a = filled[s] /\ n = Len(BlockJoin(s)) /\ f = FirstOutputSlot(s)
      OBVIOUS
    <3>3. Added(s) = n /\ filled'[s] = a + n /\ a \in Nat /\ n \in Nat
      BY <1>11, <2>3, <3>2 DEF Added
    <3>4. /\ Lists(u, PastBlock(s)) /\ Len(u) = a + n
          /\ \A k \in 1..a : u[k] = w[k]
          /\ \A k \in 1..n : u[a + k] = Turn(BlockJoin(s)[k])
      BY <3>1, <3>2 DEF IsLonger
    <3>5. \A k \in 1..a : f + k \in DOMAIN buffer' /\ buffer'[f + k] = BindingRow(u[k], s)
      BY <1>12, <2>1, <3>2, <3>4 DEF AreWritten
    <3>6. \A k \in 1..n : f + a + k \in DOMAIN buffer' /\ buffer'[f + a + k] = BindingRow(u[a + k], s)
      <4> TAKE k \in 1..n
      <4>1. Slot(s, k) = f + a + k
        BY <3>2 DEF Slot
      <4>2. buffer'[Slot(s, k)] = Projected(s, BlockJoin(s)[k])
        BY <1>2, <2>3, <3>2 DEF IsWithBlock
      <4>3. Slot(s, k) \in DOMAIN buffer'
        BY <1>2, <2>3, <3>2 DEF IsWithBlock, NewSlots
      <4> QED BY <3>4, <4>1, <4>2, <4>3, ProjectedIs
    <3>7. f \in Int
      <4>1. RoomOf("positive") \in Nat
        BY <1>4, CountsGiveRoom DEF Side
      <4> QED BY <3>2, <4>1 DEF FirstOutputSlot, RoomOf
    <3>8. \A k \in 1..a + n : f + k \in DOMAIN buffer' /\ buffer'[f + k] = BindingRow(u[k], s)
      <4> TAKE k \in 1..a + n
      <4>1. CASE k <= a
        BY <3>3, <3>5, <4>1
      <4>2. CASE ~(k <= a)
        <5>1. PICK j \in 1..n : k = a + j
          <6>1. k - a \in 1..n /\ k = a + (k - a)
            BY <3>3, <4>2
          <6> QED BY <6>1
        <5>2. f + k = f + a + j
          BY <3>3, <3>7, <5>1
        <5> QED BY <3>6, <5>1, <5>2
      <4> QED BY <4>1, <4>2
    <3>9. Past(s)' = PastBlock(s)
      BY <1>9, <2>3
    <3>10. AreWritten(s, u)'
      BY <1>5, <3>2, <3>3, <3>4, <3>8, <3>9 DEF AreWritten
    <3> QED BY <3>10
  <2> QED BY <2>2, <2>3
<1>14. ASSUME NEW s \in Sides
       PROVE  PartOf(s)' = PartOf(s) \cup (IF s \in joins[1].into THEN NewSlots(s) ELSE {})
  <2>1. PICK a, n, f : a = filled[s] /\ n = Added(s) /\ f = FirstOutputSlot(s)
    OBVIOUS
  <2>2. a \in Nat /\ n \in Nat /\ filled'[s] = a + n
    BY <1>11, <1>14, <2>1
  <2>3. PartOf(s)' = {f + k : k \in 1..a + n} /\ PartOf(s) = {f + k : k \in 1..a}
    BY <1>5, <2>1, <2>2 DEF PartOf
  <2>4. f \in Int
    <3>1. RoomOf("positive") \in Nat
      BY <1>4, CountsGiveRoom DEF Side
    <3> QED BY <2>1, <3>1 DEF FirstOutputSlot, RoomOf
  <2>5. {f + k : k \in 1..a + n} = {f + k : k \in 1..a} \cup {f + a + k : k \in 1..n}
    <3>1. \A k \in 1..a + n : k \in 1..a \/ (k - a \in 1..n /\ f + k = f + a + (k - a))
      BY <2>2, <2>4
    <3>2. \A k \in 1..a : k \in 1..a + n
      BY <2>2
    <3>3. \A k \in 1..n : a + k \in 1..a + n /\ f + a + k = f + (a + k)
      BY <2>2, <2>4
    <3> QED BY <3>1, <3>2, <3>3
  <2>6. (IF s \in joins[1].into THEN NewSlots(s) ELSE {}) = {f + a + k : k \in 1..n}
    <3>1. CASE s \in joins[1].into
      BY <2>1, <3>1 DEF NewSlots, Added, Slot
    <3>2. CASE s \notin joins[1].into
      BY <2>1, <3>2 DEF Added
    <3> QED BY <3>1, <3>2
  <2> QED BY <2>3, <2>5, <2>6
<1>15. DOMAIN buffer' = UNION {PartOf(s)' : s \in Sides}
  <2>1. DOMAIN buffer = UNION {PartOf(s) : s \in Sides}
    BY <1>4 DEF TableInv
  <2>2. DOMAIN buffer' = DOMAIN buffer \cup UNION {NewSlots(s) : s \in joins[1].into}
    BY <1>2 DEF IsWithBlock
  <2>3. \A i : i \in DOMAIN buffer' <=> (\E s \in Sides : i \in PartOf(s)')
    BY <1>4, <1>14, <2>1, <2>2
  <2> QED BY <2>3
<1>16. offset' \in Nat
  BY <1>1, BindingTablesAssumption DEF JoinsInv
<1>17. filled' \in [Side -> Nat]
  <2>1. filled' = [s \in Side |-> filled[s] + Added(s)]
    BY <1>2 DEF IsWithBlock
  <2>2. ASSUME NEW s \in Side
        PROVE  filled[s] + Added(s) \in Nat
    <3>1. CASE s \in Sides
      BY <1>11, <3>1
    <3>2. CASE s \notin Sides
      BY <1>4, <3>2 DEF Added, JoinsInv
    <3> QED BY <3>1, <3>2
  <2> QED BY <2>1, <2>2
<1>18. TableInv'
  <2>1. kind = "label_aware" => capacity' = (RoomOf("positive") + RoomOf("negative"))'
    BY <1>2, <1>4, <1>5 DEF IsWithBlock, TableInv
  <2>2. kind = "resizable" => filled'["positive"] <= capacity'
    BY <1>2 DEF IsWithBlock
  <2>3. pc' = "done"
    BY <1>3, <1>4 DEF TableInv
  <2>4. DOMAIN buffer' = (UNION {PartOf(s) : s \in Sides})'
    BY <1>7, <1>15
  <2> QED BY <1>1, <1>3, <1>7, <1>13, <2>1, <2>2, <2>3, <2>4 DEF TableInv
<1>19. capacity' \in Nat
  BY <1>2 DEF IsWithBlock, JoinsInv
<1> QED
  BY <1>1, <1>3, <1>4, <1>6, <1>7, <1>16, <1>17, <1>18, <1>19 DEF JoinsInv

(* When the rows of the probe table have been read, nothing is left of its join. *)
LEMMA EndJoinKeepsTable ==
  ASSUME CallInv, JoinsInv, EndJoin
  PROVE  JoinsInv'
<1>1. /\ toHash = <<>> /\ joins # <<>> /\ offset >= Len(TableRows(Probe))
      /\ joins' = Tail(joins) /\ offset' = 0
      /\ capacity' = IF kind = "resizable" THEN filled["positive"] ELSE capacity
      /\ UNCHANGED vars /\ UNCHANGED <<kind, literal>> /\ UNCHANGED hashVars
      /\ UNCHANGED <<filled, buffer>>
  BY Zenon DEF EndJoin, Probe
<1>2. /\ UNCHANGED <<given, literal, results>> /\ UNCHANGED <<toHash, joinTables>> /\ pc' = pc
  BY <1>1 DEF vars, countVars, callVars, hashVars
<1>3. /\ kind # "none" /\ TableInv /\ IsLiteral /\ Probe \in TableNames
      /\ joins[1].into \subseteq Sides /\ Sides \subseteq Side
  <2>1. kind # "none"
    BY <1>1 DEF JoinsInv
  <2> QED BY <1>1, <2>1, JoinOfSide DEF JoinsInv, JoinTablesInv
<1>4. /\ \A s : Matches(literal, s)' = Matches(literal, s)
      /\ \A fb, s : BindingRow(fb, s)' = BindingRow(fb, s)
      /\ \A s : FirstOutputSlot(s)' = FirstOutputSlot(s) /\ RoomOf(s)' = RoomOf(s)
  BY <1>2, TableDataStay
<1>5. JoinTablesInv'
  BY <1>1, <1>2, JoinTablesKept DEF JoinsInv
<1>6. Sides' = Sides
  BY <1>1 DEF Sides
<1>7. ASSUME NEW s \in joins[1].into
      PROVE  Past(s) = Matches(literal, s)
  <2>1. Left(s) /\ s \in Side /\ (Probe = "facts" \/ (Probe = s /\ Probe # "facts"))
    BY <1>1, <1>3, JoinOfSide
  <2>2. PICK n : n = Len(TableRows(Probe))
    OBVIOUS
  <2>3. n \in Nat /\ DOMAIN TableRows(Probe) = 1..n
    BY <1>3, <2>2, LengthOfRows
  <2>4. ASSUME NEW fb \in Matches(literal, s)
        PROVE  ProbeAt(fb) <= offset
    <3>1. fb[1] \in DOMAIN TableRows("facts") /\ fb[2] \in DOMAIN TableRows(s)
      BY <1>3, <2>1, MatchIs
    <3>2. ProbeAt(fb) \in 1..n
      BY <2>1, <2>3, <3>1 DEF ProbeAt
    <3>3. offset \in Nat /\ offset >= n
      BY <1>1, <2>2 DEF JoinsInv
    <3> QED BY <2>3, <3>2, <3>3
  <2> QED BY <2>1, <2>4 DEF Past
<1>8. \/ joins' = <<>> /\ \A s \in Sides : s \in joins[1].into \/ ~Left(s)
      \/ /\ joins = BothSides /\ joins' = LastSide("negative") /\ kind = "label_aware"
         /\ DOMAIN joinTables = {"facts"} /\ joins[1].into = {"positive"}
  <2>1. AreJoins
    BY DEF JoinsInv
  <2>2. \A x : Tail(<<x>>) = <<>> /\ <<x>>[1] = x
    OBVIOUS
  <2>3. /\ Tail(BothSides) = LastSide("negative") /\ BothSides[1].into = {"positive"}
    BY DEF BothSides, LastSide, JoinOn
  <2>4. \A p, i : JoinOn(p, i).into = i
    BY DEF JoinOn
  <2>5. CASE joins = OnFacts(Side) /\ kind = "label_aware"
    BY <1>1, <2>2, <2>4, <2>5 DEF OnFacts, Sides
  <2>6. CASE joins = BothSides /\ kind = "label_aware" /\ DOMAIN joinTables = {"facts"}
    BY <1>1, <2>3, <2>6
  <2>7. CASE joins = LastSide("positive") /\ kind = "resizable"
    BY <1>1, <2>2, <2>4, <2>7 DEF LastSide, Sides
  <2>8. CASE joins = OnFacts({"positive"}) /\ kind = "resizable"
    BY <1>1, <2>2, <2>4, <2>8 DEF OnFacts, Sides
  <2>9. CASE joins = LastSide("negative") /\ kind = "label_aware"
    <3>1. joins = <<JoinOn("negative", {"negative"})>>
      BY <2>9 DEF LastSide
    <3>2. ~Left("positive")
      BY <2>4, <3>1 DEF Left
    <3>3. joins' = <<>> /\ joins[1].into = {"negative"}
      BY <1>1, <2>2, <2>4, <3>1
    <3>4. \A s \in Sides : s \in joins[1].into \/ ~Left(s)
      BY <2>9, <3>2, <3>3 DEF Sides, Side
    <3> QED BY <3>3, <3>4
  <2> QED BY <1>1, <2>1, <2>5, <2>6, <2>7, <2>8, <2>9 DEF AreJoins
<1>9. AreJoins'
  BY <1>1, <1>2, <1>8 DEF AreJoins
<1>10. ASSUME NEW s \in Sides
       PROVE  Past(s)' = Past(s)
  <2>1. CASE joins' = <<>> /\ (s \in joins[1].into \/ ~Left(s))
    <3>1. ~Left(s)'
      BY <2>1 DEF Left
    <3>2. Past(s)' = Matches(literal, s)
      BY <1>4, <3>1 DEF Past
    <3>3. Past(s) = Matches(literal, s)
      BY <1>7, <2>1 DEF Past
    <3> QED BY <3>2, <3>3
  <2>2. CASE /\ joins = BothSides /\ joins' = LastSide("negative") /\ kind = "label_aware"
             /\ joins[1].into = {"positive"}
    <3>1. /\ joins' = <<JoinOn("negative", {"negative"})>>
          /\ JoinOn("negative", {"negative"}).into = {"negative"}
          /\ JoinOn("negative", {"negative"}).probe = "negative"
          /\ DOMAIN joins = 1..2 /\ joins[2].into = {"negative"}
      BY <2>2 DEF LastSide, JoinOn, BothSides
    <3>2. CASE s = "positive"
      <4>1. ~Left(s)'
        BY <3>1, <3>2 DEF Left
      <4>2. Past(s)' = Matches(literal, s)
        BY <1>4, <4>1 DEF Past
      <4> QED BY <1>7, <2>2, <3>2, <4>2
    <3>3. CASE s = "negative"
      <4>1. Left(s)' /\ s \in joins'[1].into /\ Probe' = "negative"
        BY <3>1, <3>3 DEF Left, Probe
      <4>2. Past(s)' = {fb \in Matches(literal, s) : fb[2] <= 0}
        BY <1>1, <1>4, <4>1 DEF Past, ProbeAt
      <4>3. \A fb \in Matches(literal, s) : fb[2] \in Nat \ {0}
        BY <1>3, MatchIs
      <4>4. Past(s)' = {}
        BY <4>2, <4>3
      <4>5. Left(s) /\ s \notin joins[1].into
        BY <2>2, <3>1, <3>3 DEF Left
      <4> QED BY <4>4, <4>5 DEF Past
    <3> QED BY <1>3, <3>2, <3>3 DEF Side
  <2> QED BY <1>8, <2>1, <2>2
<1>11. \A s \in Sides : (\E w : AreWritten(s, w))'
  <2> TAKE s \in Sides
  <2>1. PICK w : AreWritten(s, w)
    BY <1>3 DEF TableInv
  <2>2. AreWritten(s, w)'
    BY <1>1, <1>4, <1>10, <2>1 DEF AreWritten
  <2> QED BY <2>2
<1>12. (UNION {PartOf(s) : s \in Sides})' = UNION {PartOf(s) : s \in Sides}
  <2>1. \A s : PartOf(s)' = PartOf(s)
    BY <1>1, <1>4 DEF PartOf
  <2> QED BY <1>6, <2>1
<1>13. "positive" \in Side /\ filled["positive"] \in Nat
  BY DEF Side, JoinsInv
<1>14. TableInv'
  BY <1>1, <1>2, <1>3, <1>4, <1>6, <1>11, <1>12, <1>13 DEF TableInv
<1>15. capacity' \in Nat /\ offset' \in Nat
  BY <1>1, <1>13 DEF JoinsInv
<1> QED
  BY <1>1, <1>3, <1>5, <1>9, <1>14, <1>15 DEF JoinsInv

(* Nothing has been written when a table is begun. *)
LEMMA NothingPast ==
  CallInv /\ IsLiteral /\ joins \in {OnFacts(Side), BothSides, LastSide("positive"), OnFacts({"positive"})}
    /\ offset = 0
  => \A s \in Side : (\E i \in DOMAIN joins : s \in joins[i].into) => Past(s) = {}
<1> SUFFICES ASSUME CallInv, IsLiteral, offset = 0, NEW s \in Side, Left(s),
                    joins \in {OnFacts(Side), BothSides, LastSide("positive"), OnFacts({"positive"})}
             PROVE  Past(s) = {}
  BY DEF Left
<1>1. \A fb \in Matches(literal, s) : fb[1] \in Nat \ {0} /\ fb[2] \in Nat \ {0}
  BY MatchIs
<1>2. \A fb \in Matches(literal, s) : ~(ProbeAt(fb) <= 0)
  BY <1>1 DEF ProbeAt
<1> QED
  BY <1>2 DEF Past

(* A table that is begun: its joins, and nothing in the buffer. *)
LEMMA BegunTable ==
  ASSUME CallInv, CallInv', JoinsInv, pc = "done", kind = "none",
         NEW c \in DOMAIN given.candidates,
         NEW k \in {"label_aware", "resizable"}, NEW build \in HashLines, build # <<>>,
         Begin(c, k, build), AreJoins', capacity' \in Nat,
         joins' \in {OnFacts(Side), BothSides, LastSide("positive"), OnFacts({"positive"})},
         \A s \in IF k = "label_aware" THEN Side ELSE {"positive"} :
           \E i \in DOMAIN joins' : s \in joins'[i].into,
         k = "label_aware" =>
           capacity' = results[c].binding["positive"] + results[c].binding["negative"]
  PROVE  JoinsInv'
<1>1. /\ literal' = c /\ kind' = k /\ UNCHANGED vars /\ UNCHANGED <<rowsHashed, offset, filled, buffer>>
  BY Zenon DEF Begin
<1>2. /\ UNCHANGED <<given, results>> /\ pc' = "done"
  BY <1>1 DEF vars, countVars, callVars
<1>3. /\ toHash = <<>> /\ offset = 0 /\ filled = [s \in Side |-> 0] /\ buffer = <<>>
      /\ rowsHashed = 0
  <2>1. toHash = <<>> /\ offset = 0 /\ filled = [s \in Side |-> 0] /\ buffer = <<>>
    BY DEF JoinsInv
  <2>2. rowsHashed \in 0..0
    BY <2>1 DEF JoinsInv, JoinTablesInv
  <2> QED BY <2>1, <2>2
<1>4. JoinTablesInv'
  BY <1>3, BeginMakesTables
<1>5. IsLiteral'
  BY <1>4 DEF JoinTablesInv
<1>6. (/\ CallInv /\ IsLiteral
       /\ joins \in {OnFacts(Side), BothSides, LastSide("positive"), OnFacts({"positive"})}
       /\ offset = 0
       => \A s \in Side : (\E i \in DOMAIN joins : s \in joins[i].into) => Past(s) = {})'
  BY NothingPast, PTL
<1>7. Sides' = (IF k = "label_aware" THEN Side ELSE {"positive"}) /\ Sides' \subseteq Side
  BY <1>1 DEF Sides, Side
<1>8. ASSUME NEW s \in Sides'
      PROVE  (\E w : AreWritten(s, w))'
  <2>1. Past(s)' = {}
    <3>1. (joins \in {OnFacts(Side), BothSides, LastSide("positive"), OnFacts({"positive"})})'
      BY Zenon DEF OnFacts, BothSides, LastSide, JoinOn, Side
    <3>2. (offset = 0)'
      BY <1>1, <1>3
    <3>3. (\A s_1 \in Side : (\E i \in DOMAIN joins : s_1 \in joins[i].into) => Past(s_1) = {})'
      BY <1>5, <1>6, <3>1, <3>2
    <3> QED BY <1>7, <1>8, <3>3
  <2>2. <<>> \in Seq({}) /\ Len(<<>>) = 0 /\ \A j \in 1..0 : FALSE
    BY EmptySeq
  <2>3. Lists(<<>>, {})
    BY <2>2, Zenon DEF Lists
  <2>4. filled'[s] = 0
    BY <1>1, <1>3, <1>7, <1>8
  <2>5. AreWritten(s, <<>>)'
    BY <2>1, <2>2, <2>3, <2>4 DEF AreWritten
  <2> QED BY <2>5
<1>9. DOMAIN buffer' = (UNION {PartOf(s) : s \in Sides})'
  <2>1. DOMAIN buffer' = {}
    BY <1>1, <1>3
  <2>2. \A s \in Sides' : PartOf(s)' = {}
    BY <1>1, <1>3, <1>7 DEF PartOf
  <2> QED BY <2>1, <2>2
<1>10. TableInv'
  <2>1. k = "label_aware" => capacity' = (RoomOf("positive") + RoomOf("negative"))'
    BY <1>1, <1>2 DEF RoomOf
  <2>2. k = "resizable" => filled'["positive"] <= capacity'
    BY <1>1, <1>3 DEF Side
  <2>3. joins' # <<>>
    BY DEF OnFacts, BothSides, LastSide
  <2> QED BY <1>1, <1>2, <1>8, <1>9, <2>1, <2>2, <2>3 DEF TableInv
<1>11. offset' \in Nat /\ filled' \in [Side -> Nat]
  BY <1>1, <1>3
<1> QED
  BY <1>1, <1>4, <1>10, <1>11 DEF JoinsInv

(* The two ways to begin. *)
LEMMA MatchesCounted ==
  CallInv /\ IsLiteral => \A s \in Side : Cardinality(Matches(literal, s)) \in Nat
BY MatchesAreFinite

LEMMA CreateKeepsTable ==
  ASSUME CallInv, CallInv', CountsAreExact, JoinsInv,
         CreateLabelAwareBindingTables \/ CreateBindingTable
  PROVE  JoinsInv'
<1>1. /\ ToSet(<<"positive", "negative">>) = Side
      /\ ToSet(<<"facts">>) = {"facts"} /\ ToSet(<<"positive">>) = {"positive"}
  BY DEF ToSet, Side
<1>2. /\ <<"positive", "negative">> \in HashLines /\ <<"facts">> \in HashLines
      /\ <<"positive">> \in HashLines
      /\ <<"positive", "negative">> # <<>> /\ <<"facts">> # <<>> /\ <<"positive">> # <<>>
  BY DEF HashLines
<1>3. ASSUME kind = "none"
      PROVE  rowsHashed = 0
  BY <1>3 DEF JoinsInv, JoinTablesInv
<1>4. /\ OnFacts(Side) = <<[probe |-> "facts", into |-> Side]>>
      /\ BothSides = <<[probe |-> "positive", into |-> {"positive"}],
                       [probe |-> "negative", into |-> {"negative"}]>>
      /\ LastSide("positive") = <<[probe |-> "positive", into |-> {"positive"}]>>
      /\ OnFacts({"positive"}) = <<[probe |-> "facts", into |-> {"positive"}]>>
  BY Zenon DEF OnFacts, BothSides, LastSide, JoinOn
<1>5. CASE CreateLabelAwareBindingTables
  <2>1. /\ pc = "done" /\ kind = "none"
        /\ \E c \in DOMAIN given.candidates :
             /\ capacity' = results[c].binding["positive"] + results[c].binding["negative"]
             /\ \/ /\ Begin(c, "label_aware", <<"positive", "negative">>)
                   /\ joins' = OnFacts(Side)
                \/ /\ Begin(c, "label_aware", <<"facts">>)
                   /\ joins' = BothSides
    BY <1>4, <1>5, Zenon DEF CreateLabelAwareBindingTables
  <2>2. PICK c \in DOMAIN given.candidates :
             /\ capacity' = results[c].binding["positive"] + results[c].binding["negative"]
             /\ \/ /\ Begin(c, "label_aware", <<"positive", "negative">>)
                   /\ joins' = OnFacts(Side)
                \/ /\ Begin(c, "label_aware", <<"facts">>)
                   /\ joins' = BothSides
    BY <2>1
  <2>3. capacity' \in Nat
    <3>1. \A s \in Side : results[c].binding[s] = Cardinality(Matches(c, s))
      BY <2>1 DEF CountsAreExact
    <3>2. \A s \in Side : Cardinality(Matches(c, s)) \in Nat
      <4>1. literal' = c /\ UNCHANGED vars
        BY <2>2, Zenon DEF Begin
      <4>2. given' = given
        BY <4>1 DEF vars, countVars, callVars
      <4>3. IsLiteral'
        BY <4>1, <4>2 DEF IsLiteral
      <4>4. (CallInv /\ IsLiteral => \A s \in Side : Cardinality(Matches(literal, s)) \in Nat)'
        BY MatchesCounted, PTL
      <4>5. \A s \in Side : Matches(literal, s)' = Matches(c, s)
        BY <4>1, <4>2 DEF Matches
      <4> QED BY <4>3, <4>4, <4>5
    <3>3. "positive" \in Side /\ "negative" \in Side
      BY DEF Side
    <3> QED BY <2>2, <3>1, <3>2, <3>3
  <2>4. CASE Begin(c, "label_aware", <<"positive", "negative">>) /\ joins' = OnFacts(Side)
    <3>1. kind' = "label_aware"
      BY <2>4, Zenon DEF Begin
    <3>2. DOMAIN joinTables' = Side
      BY <1>1, <1>2, <1>3, <2>1, <2>4, BeginMakesTables
    <3>3. AreJoins'
      BY <2>4, <3>1, <3>2 DEF AreJoins
    <3>4. \A s \in Side : \E i \in DOMAIN OnFacts(Side) : s \in OnFacts(Side)[i].into
      BY DEF OnFacts, JoinOn
    <3> QED BY <1>2, <2>1, <2>2, <2>3, <2>4, <3>3, <3>4, BegunTable
  <2>5. CASE Begin(c, "label_aware", <<"facts">>) /\ joins' = BothSides
    <3>1. kind' = "label_aware"
      BY <2>5, Zenon DEF Begin
    <3>2. DOMAIN joinTables' = {"facts"}
      BY <1>1, <1>2, <1>3, <2>1, <2>5, BeginMakesTables
    <3>3. AreJoins'
      BY <2>5, <3>1, <3>2 DEF AreJoins
    <3>4. \A s \in Side : \E i \in DOMAIN BothSides : s \in BothSides[i].into
      <4>1. DOMAIN BothSides = 1..2 /\ BothSides[1].into = {"positive"} /\ BothSides[2].into = {"negative"}
        BY DEF BothSides, JoinOn
      <4> QED BY <4>1 DEF Side
    <3> QED BY <1>2, <2>1, <2>2, <2>3, <2>5, <3>3, <3>4, BegunTable
  <2> QED BY <2>2, <2>4, <2>5
<1>6. CASE CreateBindingTable
  <2>1. /\ pc = "done" /\ kind = "none"
        /\ \E c \in DOMAIN given.candidates :
             /\ capacity' = Len(given.bindings["positive"])
             /\ \/ /\ Begin(c, "resizable", <<"facts">>)
                   /\ joins' = LastSide("positive")
                \/ /\ Begin(c, "resizable", <<"positive">>)
                   /\ joins' = OnFacts({"positive"})
    BY <1>4, <1>6, Zenon DEF CreateBindingTable
  <2>2. PICK c \in DOMAIN given.candidates :
             /\ capacity' = Len(given.bindings["positive"])
             /\ \/ /\ Begin(c, "resizable", <<"facts">>)
                   /\ joins' = LastSide("positive")
                \/ /\ Begin(c, "resizable", <<"positive">>)
                   /\ joins' = OnFacts({"positive"})
    BY <2>1
  <2>3. capacity' \in Nat
    <3>1. IsLiteral /\ "positive" \in TableNames /\ "positive" # "facts"
      BY DEF JoinsInv, JoinTablesInv, TableNames, Side
    <3>2. Len(TableRows("positive")) \in Nat
      BY <3>1, LengthOfRows
    <3> QED BY <2>2, <3>1, <3>2 DEF TableRows, RowsFor
  <2>4. \A p : \A s \in {"positive"} : \E i \in DOMAIN <<JoinOn(p, {"positive"})>> :
                 s \in <<JoinOn(p, {"positive"})>>[i].into
    BY DEF JoinOn
  <2>5. CASE Begin(c, "resizable", <<"facts">>) /\ joins' = LastSide("positive")
    <3>1. kind' = "resizable"
      BY <2>5, Zenon DEF Begin
    <3>2. DOMAIN joinTables' = {"facts"}
      BY <1>1, <1>2, <1>3, <2>1, <2>5, BeginMakesTables
    <3>3. AreJoins'
      BY <2>5, <3>1, <3>2 DEF AreJoins
    <3>4. \A s \in {"positive"} : \E i \in DOMAIN joins' : s \in joins'[i].into
      BY <2>4, <2>5 DEF LastSide
    <3> QED BY <1>2, <2>1, <2>2, <2>3, <2>5, <3>3, <3>4, BegunTable
  <2>6. CASE Begin(c, "resizable", <<"positive">>) /\ joins' = OnFacts({"positive"})
    <3>1. kind' = "resizable"
      BY <2>6, Zenon DEF Begin
    <3>2. DOMAIN joinTables' = {"positive"}
      BY <1>1, <1>2, <1>3, <2>1, <2>6, BeginMakesTables
    <3>3. AreJoins'
      BY <2>6, <3>1, <3>2 DEF AreJoins
    <3>4. \A s \in {"positive"} : \E i \in DOMAIN joins' : s \in joins'[i].into
      BY <2>4, <2>6 DEF OnFacts
    <3> QED BY <1>2, <2>1, <2>2, <2>3, <2>6, <3>3, <3>4, BegunTable
  <2> QED BY <2>2, <2>5, <2>6
<1> QED
  BY <1>5, <1>6
(* What neither joins nor begins a table keeps what has been written. *)
LEMMA TableStays ==
  ASSUME TableInv, UNCHANGED <<vars, kind, literal, joins, offset, capacity, filled, buffer>>
  PROVE  TableInv'
<1>1. UNCHANGED <<given, results, pc>>
  BY DEF vars, countVars, callVars
<1>2. /\ \A s : Matches(literal, s)' = Matches(literal, s)
      /\ \A fb, s : BindingRow(fb, s)' = BindingRow(fb, s)
      /\ \A s : FirstOutputSlot(s)' = FirstOutputSlot(s) /\ RoomOf(s)' = RoomOf(s)
  BY <1>1, TableDataStay
<1>3. Sides' = Sides
  BY DEF Sides
<1>4. /\ \A s : Left(s)' <=> Left(s)
      /\ \A fb : ProbeAt(fb)' = ProbeAt(fb)
  BY DEF Left, ProbeAt, Probe
<1>5. \A s : Past(s)' = Past(s)
  BY <1>2, <1>4 DEF Past
<1>6. \A s, w : AreWritten(s, w) => AreWritten(s, w)'
  BY <1>2, <1>5 DEF AreWritten
<1>7. \A s \in Sides' : (\E w : AreWritten(s, w))'
  BY <1>3, <1>6 DEF TableInv
<1>8. \A s : PartOf(s)' = PartOf(s)
  BY <1>2 DEF PartOf
<1>9. DOMAIN buffer' = UNION {PartOf(s)' : s \in Sides'}
  BY <1>3, <1>8 DEF TableInv
<1> QED
  BY <1>1, <1>2, <1>7, <1>9 DEF TableInv

LEMMA HashingKeepsTable ==
  ASSUME CallInv, JoinsInv, HashRow \/ EndHashTable
  PROVE  JoinsInv'
<1>1. /\ toHash # <<>>
      /\ UNCHANGED <<vars, kind, literal, joins, offset, capacity, filled, buffer>>
  <2>1. CASE HashRow
    BY <2>1, Zenon DEF HashRow
  <2>2. CASE EndHashTable
    BY <2>2, Zenon DEF EndHashTable
  <2> QED BY <2>1, <2>2
<1>2. JoinTablesInv'
  BY HashRowKeepsTables, EndHashTableKeepsTables DEF JoinsInv
<1>3. DOMAIN joinTables' = DOMAIN joinTables
  <2>1. CASE HashRow
    <3>1. \E x, y : joinTables' = [joinTables EXCEPT ![x] = y]
      BY <2>1, Zenon DEF HashRow
    <3> QED BY <3>1
  <2>2. CASE EndHashTable
    BY <2>2, Zenon DEF EndHashTable
  <2> QED BY <2>1, <2>2
<1>4. kind # "none" /\ TableInv
  BY <1>1 DEF JoinsInv
<1>5. TableInv'
  BY <1>1, <1>4, TableStays
<1>6. AreJoins'
  <2>1. AreJoins
    BY DEF JoinsInv
  <2> QED BY <1>1, <1>3, <2>1 DEF AreJoins, OnFacts, BothSides, LastSide, JoinOn
<1> QED
  BY <1>1, <1>2, <1>4, <1>5, <1>6 DEF JoinsInv

(* While the candidates are counted no table is there. *)
LEMMA CountingIsBefore ==
  ASSUME Next
  PROVE  pc # "done" /\ given' = given
<1>1. NextVariable => pc = "next" /\ given' = given
  BY Zenon DEF NextVariable
<1>2. AllCounted => pc = "next" /\ UNCHANGED callVars
  BY Zenon DEF AllCounted
<1>3. GeneratePlan => pc = "plan" /\ UNCHANGED countVars
  BY Zenon DEF GeneratePlan
<1>4. MergeNodes => pc = "plan" /\ UNCHANGED callVars
  BY Zenon DEF MergeNodes
<1>5. KeepPlan => pc = "plan" /\ given' = given
  BY Zenon DEF KeepPlan
<1>6. StartPass => pc = "start" /\ UNCHANGED callVars
  BY Zenon DEF StartPass
<1>7. PartitionBindings => pc = "partition" /\ UNCHANGED countVars
  BY Zenon DEF PartitionBindings
<1>8. MakeHashTables => pc = "partition" /\ UNCHANGED callVars
  BY Zenon DEF MakeHashTables
<1>9. InsertRow => pc = "build" /\ UNCHANGED callVars
  BY Zenon DEF InsertRow
<1>10. StartCounting => pc = "build" /\ UNCHANGED callVars
  BY Zenon DEF StartCounting
<1>11. MoveToNextJoinGroup => pc = "count" /\ UNCHANGED callVars
  BY Zenon DEF MoveToNextJoinGroup
<1>12. TakeChunk => pc = "count" /\ UNCHANGED callVars
  BY Zenon DEF TakeChunk
<1>13. EndPass => pc = "count" /\ given' = given
  BY Zenon DEF EndPass
<1>14. UNCHANGED countVars \/ UNCHANGED callVars => given' = given
  BY DEF countVars, callVars
<1>15. pc \in {"next", "plan", "start", "partition", "build", "count"} /\ given' = given
  BY <1>1, <1>2, <1>3, <1>4, <1>5, <1>6, <1>7, <1>8, <1>9, <1>10, <1>11, <1>12, <1>13, <1>14,
     Zenon DEF Next
<1> QED BY <1>15
LEMMA OthersKeepTables ==
  ASSUME JoinsInv, given' = given, UNCHANGED tableVars, kind # "none" => UNCHANGED vars
  PROVE  JoinsInv'
<1>1. /\ UNCHANGED hashVars
      /\ UNCHANGED <<kind, literal, joins, offset, capacity, filled, buffer>>
  BY DEF tableVars
<1>2. JoinTablesInv'
  BY <1>1, JoinTablesKept DEF JoinsInv
<1>3. kind # "none" => TableInv'
  BY <1>1, TableStays DEF JoinsInv
<1>4. joinTables' = joinTables /\ toHash' = toHash
  BY <1>1 DEF hashVars
<1>5. AreJoins'
  <2>1. AreJoins
    BY DEF JoinsInv
  <2> QED BY <1>1, <1>4, <2>1 DEF AreJoins, OnFacts, BothSides, LastSide, JoinOn
<1> QED
  BY <1>1, <1>2, <1>3, <1>4, <1>5 DEF JoinsInv

LEMMA JoinsInit == BindingInit => JoinsInv
<1> SUFFICES ASSUME BindingInit PROVE JoinsInv
  OBVIOUS
<1>1. /\ given \in Input /\ kind = "none" /\ literal = 1
      /\ toHash = <<>> /\ rowsHashed = 0 /\ joinTables = <<>>
      /\ joins = <<>> /\ offset = 0
      /\ capacity = 0 /\ filled = [s \in Side |-> 0] /\ buffer = <<>>
  BY Zenon DEF BindingInit, Init
<1>2. IsLiteral
  <2>1. given.candidates \in
          Seq([relation : DOMAIN given.relations, variables : Seq(Nat)]) \ {<<>>}
    BY <1>1, InputAssumption, Zenon
  <2>2. PICK R : R = [relation : DOMAIN given.relations, variables : Seq(Nat)]
    OBVIOUS
  <2>3. given.candidates \in Seq(R) /\ given.candidates # <<>>
    BY <2>1, <2>2
  <2> QED BY <1>1, <2>3 DEF IsLiteral
<1>3. JoinTablesInv
  <2>1. DOMAIN joinTables = {} /\ toHash = <<>>
    BY <1>1
  <2> QED BY <1>1, <1>2, <2>1 DEF JoinTablesInv, HashLines
<1>4. AreJoins
  BY <1>1 DEF AreJoins
<1> QED
  BY <1>1, <1>3, <1>4 DEF JoinsInv

LEMMA JoinsNext ==
  ASSUME AllCountingInv, AllCountingInv', JoinsInv, [BindingNext]_<<vars, tableVars>>
  PROVE  JoinsInv'
<1>1. CallInv /\ ResultsInv
  BY DEF AllCountingInv, PlanningInv, CountingInv
<1>2. CallInv'
  BY DEF AllCountingInv, PlanningInv, CountingInv
<1>3. CountsAreExact
  BY <1>1, ResultsAreExact
<1>4. CASE UNCHANGED <<vars, tableVars>>
  <2>1. UNCHANGED vars /\ UNCHANGED tableVars
    BY <1>4
  <2>2. given' = given
    BY <2>1 DEF vars, countVars, callVars
  <2> QED BY <2>1, <2>2, OthersKeepTables
<1>5. CASE Next /\ UNCHANGED tableVars
  <2>1. pc # "done" /\ given' = given
    BY <1>5, CountingIsBefore
  <2>2. kind = "none"
    BY <2>1 DEF JoinsInv, TableInv
  <2> QED BY <1>5, <2>1, <2>2, OthersKeepTables
<1>6. CASE CreateLabelAwareBindingTables \/ CreateBindingTable
  BY <1>1, <1>2, <1>3, <1>6, CreateKeepsTable
<1>7. CASE HashRow \/ EndHashTable
  BY <1>1, <1>7, HashingKeepsTable
<1>8. CASE JoinBlock
  BY <1>1, <1>3, <1>8, BlockKeepsTable
<1>9. CASE EndJoin
  BY <1>1, <1>3, <1>9, EndJoinKeepsTable
<1> QED
  BY <1>4, <1>5, <1>6, <1>7, <1>8, <1>9, Zenon DEF BindingNext

LEMMA JoinsHold == BindingSpec => [](AllCountingInv /\ JoinsInv)
<1>1. BindingInit => JoinsInv
  BY JoinsInit
<1>2. AllCountingInv /\ AllCountingInv' /\ JoinsInv /\ [BindingNext]_<<vars, tableVars>> => JoinsInv'
  BY JoinsNext
<1> QED
  BY <1>1, <1>2, AllCountingHolds, PTL DEF BindingSpec

-----------------------------------------------------------------------------
(* A row of the table is a row of the clause's bindings with values behind it. *)
LEMMA BindingRowType ==
  ASSUME CallInv, IsLiteral, NEW s \in Side, NEW fb \in Matches(literal, s)
  PROVE  BindingRow(fb, s) \in Seq(Value)
<1>1. /\ FactsOf(literal) \in Seq(Seq(Value)) /\ given.bindings[s] \in Seq(Seq(Value))
  BY JoinRowsAre DEF AreRowsWith
<1>2. fb[1] \in DOMAIN FactsOf(literal) /\ fb[2] \in DOMAIN given.bindings[s]
  <2>1. TableRows("facts") = FactsOf(literal) /\ TableRows(s) = given.bindings[s]
    BY DEF TableRows, RowsFor, Side
  <2> QED BY <2>1, MatchIs
<1>3. PICK fact : fact = FactsOf(literal)[fb[1]]
  OBVIOUS
<1>4. PICK unbound : unbound = UnboundArguments(fact)
  OBVIOUS
<1>5. PICK row : row = given.bindings[s][fb[2]]
  OBVIOUS
<1>6. fact \in Seq(Value) /\ row \in Seq(Value)
  BY <1>1, <1>2, <1>3, <1>5
<1>7. PICK n \in Nat : DOMAIN fact = 1..n
  BY <1>6
<1>8. PICK S : S = {a \in DOMAIN fact : given.candidates[literal].variables[a] = 0}
  OBVIOUS
<1>9. unbound \in Seq(S)
  <2>1. S \in SUBSET (1..n)
    BY <1>7, <1>8
  <2>2. 1 \in Int /\ n \in Int
    BY <1>7
  <2>3. IsFiniteSet(1..n)
    BY <2>2, FS_Interval, Zenon
  <2>4. IsFiniteSet(S)
    BY <2>1, <2>3, FS_Subset
  <2>5. S \in SUBSET Int
    BY <2>1
  <2>6. Lists(InOrder(S), S)
    BY <2>4, <2>5, InOrderLists
  <2> QED BY <1>4, <1>8, <2>6 DEF UnboundArguments, Lists
<1>10. [k \in DOMAIN unbound |-> fact[unbound[k]]] \in Seq(Value)
  <2>1. PICK m \in Nat : m = Len(unbound) /\ DOMAIN unbound = 1..m
    BY <1>9
  <2>2. \A k \in 1..m : fact[unbound[k]] \in Value
    BY <1>6, <1>8, <1>9, <2>1
  <2> QED BY <2>1, <2>2
<1>11. BindingRow(fb, s) = row \o [k \in DOMAIN unbound |-> fact[unbound[k]]]
  BY <1>3, <1>4, <1>5 DEF BindingRow
<1> QED
  BY <1>6, <1>10, <1>11

(* The part of a side is in the room it has been given. *)
LEMMA PartsHaveRoom ==
  ASSUME CallInv, CountsAreExact, JoinsInv, kind # "none", NEW s \in Sides
  PROVE  PartOf(s) \subseteq 1..capacity
<1>1. TableInv /\ capacity \in Nat /\ s \in Side /\ filled[s] \in Nat
  BY DEF JoinsInv, Sides, Side
<1>2. CASE kind = "label_aware"
  <2>1. PICK w : AreWritten(s, w)
    BY <1>1 DEF TableInv
  <2>2. Lists(w, Past(s)) /\ Past(s) \subseteq Matches(literal, s) /\ Len(w) = filled[s]
    BY <2>1 DEF AreWritten, Past
  <2>3. filled[s] <= RoomOf(s)
    BY <1>1, <2>2, CountsGiveRoom
  <2>4. PICK p, q : p = RoomOf("positive") /\ q = RoomOf("negative")
    OBVIOUS
  <2>5. p \in Nat /\ q \in Nat /\ capacity = p + q
    BY <1>1, <1>2, <2>4, CountsGiveRoom DEF Side, TableInv
  <2>6. FirstOutputSlot("positive") = 0 /\ FirstOutputSlot("negative") = p
    BY <2>4 DEF FirstOutputSlot, RoomOf
  <2>7. CASE s = "positive"
    BY <1>1, <2>3, <2>4, <2>5, <2>6, <2>7 DEF PartOf
  <2>8. CASE s = "negative"
    BY <1>1, <2>3, <2>4, <2>5, <2>6, <2>8 DEF PartOf
  <2> QED BY <1>1, <2>7, <2>8 DEF Side
<1>3. CASE kind # "label_aware"
  <2>1. s = "positive" /\ kind = "resizable"
    BY <1>3 DEF Sides, JoinsInv
  <2>2. filled["positive"] <= capacity
    BY <1>1, <2>1 DEF TableInv
  <2>3. FirstOutputSlot(s) = 0
    BY <2>1 DEF FirstOutputSlot
  <2> QED BY <1>1, <2>1, <2>2, <2>3 DEF PartOf
<1> QED
  BY <1>2, <1>3

(* Every variable of the binding tables keeps its type, and nothing is written
   behind the room that the counts of the evaluator, or the last growth of the
   buffer, have given: for every literal, every size of a block and every hash
   of the keys (MultiColumnHashJoin).                                      *)
THEOREM TablesTypeCorrect == BindingSpec => []TablesTypeOK
<1>1. AllCountingInv /\ JoinsInv => TablesTypeOK
  <2> SUFFICES ASSUME AllCountingInv, JoinsInv PROVE TablesTypeOK
    OBVIOUS
  <2>1. CallInv /\ CountsAreExact /\ IsLiteral
    BY ResultsAreExact DEF AllCountingInv, PlanningInv, CountingInv, JoinsInv, JoinTablesInv
  <2>2. DOMAIN buffer \subseteq 1..capacity
    <3>1. CASE kind = "none"
      <4>1. DOMAIN buffer = {}
        BY <3>1 DEF JoinsInv
      <4> QED BY <4>1
    <3>2. CASE kind # "none"
      <4>1. DOMAIN buffer = UNION {PartOf(s) : s \in Sides}
        BY <3>2 DEF JoinsInv, TableInv
      <4> QED BY <2>1, <3>2, <4>1, PartsHaveRoom
    <3> QED BY <3>1, <3>2
  <2>3. ASSUME NEW i \in DOMAIN buffer
        PROVE  buffer[i] \in Seq(Value)
    <3>1. kind # "none"
      <4>1. kind = "none" => DOMAIN buffer = {}
        BY DEF JoinsInv
      <4> QED BY <2>3, <4>1
    <3>2. PICK s \in Sides : i \in PartOf(s)
      BY <3>1 DEF JoinsInv, TableInv
    <3>3. PICK w : AreWritten(s, w)
      BY <3>1 DEF JoinsInv, TableInv
    <3>4. PICK k \in 1..Len(w) : i = FirstOutputSlot(s) + k
      BY <3>2, <3>3 DEF PartOf, AreWritten
    <3>5. buffer[i] = BindingRow(w[k], s)
      BY <3>3, <3>4 DEF AreWritten
    <3>6. w[k] \in Matches(literal, s)
      BY <3>3, <3>4 DEF AreWritten, Lists, Past
    <3>7. s \in Side
      BY DEF Sides, Side
    <3> QED BY <2>1, <3>5, <3>6, <3>7, BindingRowType
  <2> QED BY <2>1, <2>2, <2>3 DEF TablesTypeOK, JoinsInv, IsLiteral
<1> QED
  BY <1>1, JoinsHold, PTL

(* A row that was written stays: for every literal and every size of a block, no
   later block and no join of the other side takes its place
   (MultiColumnHashJoin::Project).                                         *)
THEOREM RowsKeptCorrect == BindingSpec => RowsAreKept
<1>1. AllCountingInv /\ JoinsInv /\ [BindingNext]_<<vars, tableVars>> =>
        [\A i \in DOMAIN buffer : i \in DOMAIN buffer' /\ buffer'[i] = buffer[i]]_tableVars
  <2> SUFFICES ASSUME AllCountingInv, JoinsInv, [BindingNext]_<<vars, tableVars>>
               PROVE  UNCHANGED tableVars
                      \/ \A i \in DOMAIN buffer : i \in DOMAIN buffer' /\ buffer'[i] = buffer[i]
    OBVIOUS
  <2>1. CallInv /\ CountsAreExact
    BY ResultsAreExact DEF AllCountingInv, PlanningInv, CountingInv
  <2>2. CASE JoinBlock
    BY <2>1, <2>2, BlockIsWritten DEF IsWithBlock
  <2>3. CASE CreateLabelAwareBindingTables \/ CreateBindingTable
    <3>1. buffer' = buffer
      BY <2>3, Zenon DEF CreateLabelAwareBindingTables, CreateBindingTable, Begin
    <3> QED BY <3>1
  <2>4. CASE HashRow \/ EndHashTable \/ EndJoin
    <3>1. buffer' = buffer
      BY <2>4, Zenon DEF HashRow, EndHashTable, EndJoin
    <3> QED BY <3>1
  <2>5. CASE UNCHANGED tableVars
    BY <2>5
  <2> QED BY <2>2, <2>3, <2>4, <2>5, Zenon DEF BindingNext
<1> QED
  BY <1>1, JoinsHold, PTL DEF BindingSpec, RowsAreKept

(* A part of the buffer that lists the matches has their rows, each as often as
   it has matches.                                                         *)
HoldsTheRows(buf, P, M, row) ==
  /\ {buf[i] : i \in P} = {row[x] : x \in M}
  /\ \A r \in {row[x] : x \in M} :
       Cardinality({i \in P : buf[i] = r}) = Cardinality({x \in M : row[x] = r})

IsListedAt(buf, at, w, row) == \A k \in 1..Len(w) : buf[at + k] = row[w[k]]

LEMMA ListedRows ==
  ASSUME NEW at \in Nat, NEW M, NEW w, Lists(w, M), NEW buf, NEW row,
         IsListedAt(buf, at, w, row)
  PROVE  HoldsTheRows(buf, at + 1..at + Len(w), M, row)
<1> DEFINE n == Len(w)
           P == at + 1..at + n
<1>1. n \in Nat /\ (\A k \in 1..n : w[k] \in M) /\ \A k \in 1..n : buf[at + k] = row[w[k]]
  <2>1. w \in Seq(M)
    BY DEF Lists
  <2>2. n \in Nat /\ \A k \in 1..n : w[k] \in M
    BY <2>1
  <2> QED BY <2>2 DEF IsListedAt
<1>2. /\ \A x \in M : \E k \in 1..n : w[k] = x
      /\ \A k \in 1..n : \A l \in 1..n : w[k] = w[l] => k = l
  BY DEF Lists
<1> HIDE DEF n
<1>3. /\ \A i \in P : i - at \in 1..n /\ at + (i - at) = i
      /\ \A k \in 1..n : at + k \in P /\ (at + k) - at = k
      /\ \A i, j \in P : i - at = j - at => i = j
      /\ P \subseteq Nat
  BY <1>1
<1>4. IsFiniteSet(P)
  <2>1. at + 1 \in Int /\ at + n \in Int
    BY <1>1
  <2> QED BY <2>1, FS_Interval, Zenon
<1> HIDE DEF P
<1>5. \A i \in P : buf[i] = row[w[i - at]] /\ w[i - at] \in M
  BY <1>1, <1>3
<1>6. \A x \in M : \E i \in P : w[i - at] = x
  <2> TAKE x \in M
  <2>1. PICK k \in 1..n : w[k] = x
    BY <1>2
  <2> QED BY <1>3, <2>1
<1>7. {buf[i] : i \in P} = {row[x] : x \in M}
  BY <1>5, <1>6
<1>8. ASSUME NEW r
      PROVE  Cardinality({i \in P : buf[i] = r}) = Cardinality({x \in M : row[x] = r})
  <2> DEFINE S == {i \in P : buf[i] = r}
             T == {x \in M : row[x] = r}
             f == [i \in S |-> w[i - at]]
  <2>1. IsFiniteSet(S)
    <3>1. S \in SUBSET P
      OBVIOUS
    <3> HIDE DEF S
    <3> QED BY <1>4, <3>1, FS_Subset
  <2>2. \A i \in S : i \in P /\ w[i - at] \in T /\ f[i] = w[i - at]
    BY <1>5
  <2>3. \A z \in T : \E i \in S : w[i - at] = z
    BY <1>5, <1>6
  <2>4. f \in [S -> T]
    BY <2>2
  <2> HIDE DEF S, T, f
  <2>5. \A x, y \in S : f[x] = f[y] => x = y
    <3> TAKE x, y \in S
    <3>1. PICK k, l : k = x - at /\ l = y - at
      OBVIOUS
    <3>2. k \in 1..n /\ l \in 1..n /\ f[x] = w[k] /\ f[y] = w[l] /\ (k = l => x = y)
      BY <1>3, <2>2, <3>1
    <3> QED BY <1>2, <3>2
  <2>6. \A z \in T : \E x \in S : f[x] = z
    BY <2>2, <2>3
  <2>7. Cardinality(T) = Cardinality(S)
    BY <2>1, <2>4, <2>5, <2>6, OneToOne
  <2> QED BY <2>7 DEF S, T
<1> QED
  BY <1>7, <1>8 DEF HoldsTheRows, P, n

(* What has been written when the joins are done. *)
LEMMA DoneParts ==
  ASSUME CallInv, CountsAreExact, JoinsInv, kind # "none", joins = <<>>, NEW s \in Sides
  PROVE  /\ FirstOutputSlot(s) \in Nat /\ filled[s] \in Nat
         /\ PartOf(s) = FirstOutputSlot(s) + 1..FirstOutputSlot(s) + filled[s]
         /\ kind = "label_aware" => filled[s] = RoomOf(s)
         /\ \E w : /\ Lists(w, Matches(literal, s)) /\ filled[s] = Len(w)
                   /\ \A k \in 1..Len(w) : buffer[FirstOutputSlot(s) + k] = BindingRow(w[k], s)
<1>1. TableInv /\ s \in Side /\ filled[s] \in Nat /\ IsLiteral
  BY DEF JoinsInv, JoinTablesInv, Sides, Side
<1>2. PICK w : AreWritten(s, w)
  BY <1>1 DEF TableInv
<1>3. ~Left(s)
  BY DEF Left
<1>4. Lists(w, Matches(literal, s)) /\ filled[s] = Len(w)
  BY <1>2, <1>3 DEF AreWritten, Past
<1>5. RoomOf(s) = Cardinality(Matches(literal, s))
  BY <1>1 DEF CountsAreExact, RoomOf, IsLiteral, TableInv
<1>6. filled[s] = RoomOf(s)
  BY <1>4, <1>5, ListedIsCounted
<1>7. FirstOutputSlot(s) \in Nat
  <2>1. RoomOf("positive") \in Nat
    BY <1>1, CountsGiveRoom DEF Side
  <2> QED BY <2>1 DEF FirstOutputSlot, RoomOf
<1>8. PartOf(s) = FirstOutputSlot(s) + 1..FirstOutputSlot(s) + filled[s]
  <2>1. PICK a, n : a = FirstOutputSlot(s) /\ n = filled[s]
    OBVIOUS
  <2>2. {a + k : k \in 1..n} = a + 1..a + n
    <3>1. \A k \in 1..n : a + k \in a + 1..a + n
      BY <1>1, <1>7, <2>1
    <3>2. \A i \in a + 1..a + n : i - a \in 1..n /\ i = a + (i - a)
      BY <1>1, <1>7, <2>1
    <3> QED BY <3>1, <3>2
  <2> QED BY <2>1, <2>2 DEF PartOf
<1> QED
  BY <1>1, <1>2, <1>4, <1>6, <1>7, <1>8 DEF AreWritten

(* The slots of all sides are those of the buffer. *)
LEMMA DoneSlots ==
  ASSUME CallInv, CountsAreExact, JoinsInv, kind # "none", joins = <<>>
  PROVE  DOMAIN buffer = 1..capacity
<1>1. TableInv /\ DOMAIN buffer = UNION {PartOf(s) : s \in Sides}
  BY DEF JoinsInv, TableInv
<1>2. CASE kind = "label_aware"
  <2>1. Sides = {"positive", "negative"}
    BY <1>2 DEF Sides, Side
  <2>2. PICK p, q : p = RoomOf("positive") /\ q = RoomOf("negative")
    OBVIOUS
  <2>3. FirstOutputSlot("positive") = 0 /\ FirstOutputSlot("negative") = p
    BY <2>2 DEF FirstOutputSlot, RoomOf
  <2>4. PartOf("positive") = 1..p /\ PartOf("negative") = p + 1..p + q /\ p \in Nat /\ q \in Nat
    <3>1. /\ filled["positive"] \in Nat /\ filled["positive"] = p
          /\ PartOf("positive") = 0 + 1..0 + filled["positive"]
      BY <1>2, <2>1, <2>2, <2>3, DoneParts
    <3>2. /\ filled["negative"] \in Nat /\ filled["negative"] = q
          /\ PartOf("negative") = p + 1..p + filled["negative"]
      BY <1>2, <2>1, <2>2, <2>3, DoneParts
    <3> QED BY <3>1, <3>2
  <2>5. capacity = p + q
    BY <1>1, <1>2, <2>2 DEF TableInv
  <2>6. 1..p + q = 1..p \cup p + 1..p + q
    BY <2>4
  <2> QED BY <1>1, <2>1, <2>4, <2>5, <2>6
<1>3. CASE kind # "label_aware"
  <2>1. Sides = {"positive"} /\ kind = "resizable"
    BY <1>3 DEF Sides, JoinsInv
  <2>2. capacity = filled["positive"]
    BY <1>1, <2>1 DEF TableInv
  <2>3. FirstOutputSlot("positive") = 0
    BY DEF FirstOutputSlot
  <2>4. PartOf("positive") = 0 + 1..0 + capacity /\ capacity \in Nat
    BY <2>1, <2>2, <2>3, DoneParts
  <2> QED BY <1>1, <2>1, <2>4
<1> QED
  BY <1>2, <1>3

(* The table of an extended clause has exactly the bindings of the clause, as
   often as there are facts for them, the positive ones in the first part, and
   every slot the counts made room for is written: for every data set, every
   literal, every size of a block and every hash of the keys, and for the
   buffer that grows too (MultiColumnHashJoin).                            *)
THEOREM BindingTableCorrect == BindingSpec => []BindingTableIsExact
<1>1. AllCountingInv /\ JoinsInv => BindingTableIsExact
  <2> SUFFICES ASSUME AllCountingInv, JoinsInv, kind # "none", joins = <<>>
               PROVE  BindingTableIsExact
    BY DEF BindingTableIsExact
  <2> DEFINE sides == IF kind = "label_aware" THEN Side ELSE {"positive"}
             Part(s) == FirstOutputSlot(s) + 1..FirstOutputSlot(s) + filled[s]
             RowOf(fb, s) ==
               LET fact == FactsOf(literal)[fb[1]]
                   unbound == UnboundArguments(fact)
               IN  given.bindings[s][fb[2]] \o [k \in DOMAIN unbound |-> fact[unbound[k]]]
  <2>1. CallInv /\ CountsAreExact
    BY ResultsAreExact DEF AllCountingInv, PlanningInv, CountingInv
  <2>2. sides = Sides
    BY DEF Sides
  <2>3. DOMAIN buffer = 1..capacity
    BY <2>1, DoneSlots
  <2>4. \A fb, s : RowOf(fb, s) = BindingRow(fb, s)
    BY DEF BindingRow
  <2>5. ASSUME NEW s \in sides
        PROVE  LET rows == {RowOf(fb, s) : fb \in Matches(literal, s)}
               IN  /\ {buffer[i] : i \in Part(s)} = rows
                   /\ \A r \in rows :
                        Cardinality({i \in Part(s) : buffer[i] = r})
                          = Cardinality({fb \in Matches(literal, s) : RowOf(fb, s) = r})
    <3>1. PICK M, buf, at : M = Matches(literal, s) /\ buf = buffer /\ at = FirstOutputSlot(s)
      OBVIOUS
    <3>2. PICK row : row = [fb \in M |-> BindingRow(fb, s)]
      OBVIOUS
    <3>3. PICK w : /\ Lists(w, M) /\ filled[s] = Len(w) /\ at \in Nat
                   /\ \A k \in 1..Len(w) : buf[at + k] = BindingRow(w[k], s)
      BY <2>1, <2>2, <3>1, DoneParts
    <3>4. IsListedAt(buf, at, w, row)
      BY <3>2, <3>3 DEF IsListedAt, Lists
    <3>5. HoldsTheRows(buf, at + 1..at + Len(w), M, row)
      BY <3>3, <3>4, ListedRows
    <3>6. Part(s) = at + 1..at + Len(w)
      BY <3>1, <3>3
    <3>7. \A fb \in M : row[fb] = RowOf(fb, s)
      BY <2>4, <3>2
    <3> HIDE DEF Part, RowOf
    <3>8. {RowOf(fb, s) : fb \in M} = {row[x] : x \in M}
      BY <3>7
    <3>9. \A r : {fb \in M : RowOf(fb, s) = r} = {x \in M : row[x] = r}
      BY <3>7
    <3>10. /\ {buf[i] : i \in Part(s)} = {RowOf(fb, s) : fb \in M}
           /\ \A r \in {RowOf(fb, s) : fb \in M} :
                Cardinality({i \in Part(s) : buf[i] = r})
                  = Cardinality({fb \in M : RowOf(fb, s) = r})
      BY <3>5, <3>6, <3>8, <3>9 DEF HoldsTheRows
    <3> QED BY <3>1, <3>10, Zenon
  <2> HIDE DEF RowOf
  <2> QED BY <2>3, <2>5, Zenon DEF BindingTableIsExact, RowOf
<1> QED
  BY <1>1, JoinsHold, PTL
=============================================================================
