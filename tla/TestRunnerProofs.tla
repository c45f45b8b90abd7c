-------------------------- MODULE TestRunnerProofs --------------------------
(***************************************************************************)
(* The evaluation of learnt rules, from the file to the report, for every  *)
(* file, every initial capacity of the buffer, all rules, every size of a  *)
(* chunk and every hash.  First the rows of the file: no more than one is  *)
(* ever written behind the end of the buffer, and the slots have the rows  *)
(* in their order, as the capacity is compared with the rows before each   *)
(* line, so the buffer grows, by one row at least, as soon as one is       *)
(* behind its end.                                                         *)
(***************************************************************************)
EXTENDS TestRunner, CoverageProofs

(* The inductive invariant: what is read is a part of the file, rows are written
   one behind the other, and while the file is read the buffer lacks a row at
   most.                                                                   *)
LoadInv ==
  /\ file \in Seq(Nat)
  /\ read \in 0..Len(file)
  /\ capacity \in Nat /\ numLines \in Nat
  /\ destination = numLines
  /\ loading \in {"reading", "loaded", "dead"}
  /\ loading # "loaded" => capacity >= InitialCapacity /\ numLines <= capacity + 1
  /\ loading = "loaded" => numLines = capacity /\ read = Len(file)
  /\ RowsAreLoaded

-----------------------------------------------------------------------------
(* There are finitely many rows up to a line. *)
LEMMA RowsAreFinite ==
  ASSUME NEW f, NEW n \in Nat
  PROVE  IsFiniteSet({m \in 1..n : IsRow(f, m)})
<1>1. IsFiniteSet(1..n)
  BY FS_Interval
<1> QED
  BY <1>1, FS_Subset

(* Another line is another row or it is not. *)
LEMMA RowNumberGrows ==
  ASSUME NEW f, NEW n \in Nat
  PROVE  /\ RowNumber(f, n) \in Nat
         /\ IsRow(f, n + 1) => RowNumber(f, n + 1) = RowNumber(f, n) + 1
         /\ ~IsRow(f, n + 1) => RowNumber(f, n + 1) = RowNumber(f, n)
<1> DEFINE Lower(k) == {m \in 1..k : IsRow(f, m)}
<1>1. IsFiniteSet(Lower(n))
  BY RowsAreFinite
<1>2. n + 1 \notin Lower(n)
  OBVIOUS
<1>3. Lower(n + 1) = IF IsRow(f, n + 1) THEN Lower(n) \cup {n + 1} ELSE Lower(n)
  OBVIOUS
<1>4. RowNumber(f, n) = Cardinality(Lower(n)) /\ RowNumber(f, n + 1) = Cardinality(Lower(n + 1))
  BY DEF RowNumber
<1> HIDE DEF Lower
<1>5. Cardinality(Lower(n)) \in Nat
  BY <1>1, FS_CardinalityType
<1>6. Cardinality(Lower(n) \cup {n + 1}) = Cardinality(Lower(n)) + 1
  BY <1>1, <1>2, FS_AddElement
<1> QED
  BY <1>3, <1>4, <1>5, <1>6

(* A buffer that grows has room for another row: the capacity is two or more. *)
LEMMA GrownHasRoom ==
  ASSUME NEW room \in Nat, room >= 2
  PROVE  Grown(room) \in Nat /\ Grown(room) >= room + 1
BY DEF Grown

-----------------------------------------------------------------------------
LEMMA LoadInvInit == LoadInit => LoadInv
<1> SUFFICES ASSUME LoadInit
             PROVE  LoadInv
  OBVIOUS
<1>1. file \in Seq(Nat) /\ InitialCapacity \in Nat
  BY LoadAssumption DEF LoadInit
<1>2. RowNumber(file, 0) = 0
  <2>1. {m \in 1..0 : IsRow(file, m)} = {}
    OBVIOUS
  <2> QED
    BY <2>1, FS_EmptySet DEF RowNumber
<1>3. DOMAIN buffer = 1..0
  BY DEF LoadInit
<1>4. RowsAreLoaded
  BY <1>2, <1>3 DEF LoadInit, RowsAreLoaded
<1> QED
  BY <1>1, <1>4 DEF LoadInit, LoadInv

LEMMA LoadInvReadLine ==
  ASSUME LoadInv, ReadLine
  PROVE  LoadInv'
<1> DEFINE grows == capacity < numLines
           room == IF grows THEN Grown(capacity) ELSE capacity
           next == IF grows THEN AfterRealloc(numLines, capacity) ELSE destination
           line == read + 1
<1>1. /\ loading = "reading" /\ read < Len(file)
      /\ read' = read + 1 /\ file' = file /\ loading' = loading /\ capacity' = room
  BY DEF ReadLine
<1>2. InitialCapacity \in Nat /\ InitialCapacity >= 2
  BY LoadAssumption
<1>3. /\ file \in Seq(Nat) /\ read \in Nat /\ Len(file) \in Nat /\ capacity \in Nat
      /\ numLines \in Nat /\ capacity >= InitialCapacity /\ numLines <= capacity + 1
      /\ destination = numLines
  BY <1>1 DEF LoadInv
<1>4. next = numLines
  BY <1>3 DEF AfterRealloc
<1>5. room \in Nat /\ room >= InitialCapacity /\ numLines <= room
  BY <1>2, <1>3, GrownHasRoom
<1>6. /\ RowNumber(file, read) \in Nat
      /\ IsRow(file, line) => RowNumber(file, line) = RowNumber(file, read) + 1
      /\ ~IsRow(file, line) => RowNumber(file, line) = RowNumber(file, read)
  BY <1>3, RowNumberGrows
<1>7. RowsAreLoaded
  BY DEF LoadInv
<1> HIDE DEF room, next
<1>8. /\ numLines' \in Nat /\ numLines' <= capacity' + 1 /\ destination' = numLines'
      /\ RowsAreLoaded'
  <2>1. CASE IsRow(file, line)
    <3>1. /\ destination' = numLines + 1 /\ numLines' = numLines + 1
          /\ \E stored \in Stored(line, numLines + 1, room) :
               buffer' = [i \in DOMAIN buffer \cup {numLines + 1} |->
                            IF i = numLines + 1 THEN stored ELSE buffer[i]]
      BY <1>4, <2>1 DEF ReadLine, room, next
    <3>2. PICK stored \in Stored(line, numLines + 1, room) :
            buffer' = [i \in DOMAIN buffer \cup {numLines + 1} |->
                         IF i = numLines + 1 THEN stored ELSE buffer[i]]
      BY <3>1
    <3>3. numLines' = RowNumber(file, read')
      BY <1>1, <1>6, <1>7, <2>1, <3>1 DEF RowsAreLoaded
    <3>4. DOMAIN buffer' = 1..numLines'
      BY <1>3, <1>7, <3>1, <3>2 DEF RowsAreLoaded
    <3>5. ASSUME NEW i \in DOMAIN buffer'
          PROVE  \/ /\ buffer'[i] \in 1..read' /\ IsRow(file, buffer'[i])
                    /\ RowNumber(file, buffer'[i]) = i
                 \/ buffer'[i] = Lost /\ i > InitialCapacity
      <4>1. CASE i = numLines + 1
        <5>1. stored = line \/ (stored = Lost /\ numLines + 1 > room)
          BY <1>3, <1>5 DEF Stored
        <5>2. buffer'[i] = stored
          BY <3>2, <4>1
        <5>3. line \in 1..read' /\ RowNumber(file, line) = i
          BY <1>1, <1>3, <1>6, <1>7, <2>1, <4>1 DEF RowsAreLoaded
        <5> QED
          BY <1>2, <1>3, <1>5, <2>1, <4>1, <5>1, <5>2, <5>3
      <4>2. CASE i # numLines + 1
        <5>1. i \in DOMAIN buffer /\ buffer'[i] = buffer[i]
          BY <3>2, <4>2
        <5> QED
          BY <1>1, <1>3, <1>7, <5>1 DEF RowsAreLoaded
      <4> QED
        BY <4>1, <4>2
    <3>6. RowsAreLoaded'
      BY <1>1, <3>3, <3>4, <3>5 DEF RowsAreLoaded
    <3>7. numLines' \in Nat /\ numLines' <= capacity' + 1 /\ destination' = numLines'
      BY <1>1, <1>3, <1>5, <3>1
    <3> QED
      BY <3>6, <3>7
  <2>2. CASE ~IsRow(file, line)
    <3>1. destination' = numLines /\ numLines' = numLines /\ buffer' = buffer
      BY <1>4, <2>2 DEF ReadLine, room, next
    <3>2. numLines' = RowNumber(file, read')
      BY <1>1, <1>6, <1>7, <2>2, <3>1 DEF RowsAreLoaded
    <3>3. RowsAreLoaded'
      BY <1>1, <1>3, <1>7, <3>1, <3>2 DEF RowsAreLoaded
    <3> QED
      BY <1>1, <1>3, <1>5, <3>1, <3>3
  <2> QED
    BY <2>1, <2>2
<1> QED
  BY <1>1, <1>3, <1>5, <1>8 DEF LoadInv

LEMMA LoadInvNext == LoadInv /\ [LoadNext]_loadVars => LoadInv'
<1> SUFFICES ASSUME LoadInv, [LoadNext]_loadVars
             PROVE  LoadInv'
  OBVIOUS
<1>1. CASE ReadLine
  BY <1>1, LoadInvReadLine
<1>2. CASE DieInAllocator
  BY <1>2 DEF DieInAllocator, LoadInv, RowsAreLoaded
<1>3. CASE EndOfFile
  BY <1>3 DEF EndOfFile, LoadInv, RowsAreLoaded
<1>4. CASE UNCHANGED loadVars
  BY <1>4 DEF loadVars, LoadInv, RowsAreLoaded
<1> QED
  BY <1>1, <1>2, <1>3, <1>4 DEF LoadNext

LEMMA LoadInvHolds == LoadSpec => []LoadInv
<1> QED
  BY LoadInvInit, LoadInvNext, PTL DEF LoadSpec

(* LoadData, the buffers of main.cpp: a row behind the end is the only one. *)
THEOREM OneRowBehindTheEnd == LoadSpec => []OverrunIsOneRow
<1>1. LoadInv => OverrunIsOneRow
  BY DEF LoadInv, RowsAreLoaded, OverrunIsOneRow
<1> QED
  BY <1>1, LoadInvHolds, PTL

(* LoadData, the buffers of main.cpp: rows stay in the order of the file. *)
THEOREM RowsLoadInOrder == LoadSpec => []RowsAreLoaded
<1>1. LoadInv => RowsAreLoaded
  BY DEF LoadInv
<1> QED
  BY <1>1, LoadInvHolds, PTL

-----------------------------------------------------------------------------
(* The members of a set from the last one to the first. *)
FromTheLast(S, i) == Nth(S, Cardinality(S) - i + 1)

LEMMA MatchesFromTheLast ==
  ASSUME NEW T, NEW rows \in Seq(T), NEW S \in SUBSET (1..Len(rows))
  PROVE  LET t == Reverse(RowsIn(rows, S))
             c == Cardinality(S)
         IN  /\ c \in Nat /\ t \in Seq(T) /\ Len(t) = c /\ DOMAIN t = 1..c
             /\ \A i \in 1..c : FromTheLast(S, i) \in S /\ t[i] = rows[FromTheLast(S, i)]
             /\ \A i \in 1..c : \A j \in 1..c : FromTheLast(S, i) = FromTheLast(S, j) => i = j
             /\ \A x \in S : \E i \in 1..c : FromTheLast(S, i) = x
<1> DEFINE c == Cardinality(S)
           u == RowsIn(rows, S)
           t == Reverse(u)
<1>1. /\ IsFiniteSet(S) /\ c \in Nat /\ u \in Seq(T) /\ Len(u) = c
      /\ \A k \in 1..c : u[k] = rows[Nth(S, k)]
  BY RowsInType
<1>2. S \in SUBSET Int
  OBVIOUS
<1>3. \A k \in 1..c : Nth(S, k) \in S /\ Rank(S, Nth(S, k)) = k
  BY <1>1, <1>2, NthIsRanked
<1> HIDE DEF c, u
<1>4. \A i \in 1..c : c - i + 1 \in 1..c
  BY <1>1
<1>5. t \in Seq(T) /\ Len(t) = c /\ DOMAIN t = 1..c /\ \A i \in 1..c : t[i] = u[c - i + 1]
  <2>1. t = [i \in 1..c |-> u[c - i + 1]]
    BY <1>1 DEF Reverse
  <2>2. \A i \in 1..c : u[c - i + 1] \in T
    BY <1>1, <1>4, ElementOfSeq
  <2> QED BY <1>1, <2>1, <2>2
<1> HIDE DEF t
<1>6. \A i \in 1..c : FromTheLast(S, i) \in S /\ t[i] = rows[FromTheLast(S, i)]
  BY <1>1, <1>3, <1>4, <1>5 DEF FromTheLast, c
<1>7. ASSUME NEW i \in 1..c, NEW j \in 1..c, FromTheLast(S, i) = FromTheLast(S, j)
      PROVE  i = j
  <2>1. c - i + 1 = c - j + 1
    BY <1>3, <1>4, <1>7, Zenon DEF FromTheLast, c
  <2> QED BY <1>1, <2>1
<1>8. ASSUME NEW x \in S
      PROVE  \E i \in 1..c : FromTheLast(S, i) = x
  <2>1. Rank(S, x) \in 1..c /\ Nth(S, Rank(S, x)) = x
    BY <1>1, <1>2, RankBounds, NthOfRank DEF c
  <2>2. c - Rank(S, x) + 1 \in 1..c /\ c - (c - Rank(S, x) + 1) + 1 = Rank(S, x)
    BY <1>1, <2>1
  <2>3. FromTheLast(S, c - Rank(S, x) + 1) = x
    BY <2>1, <2>2 DEF FromTheLast, c
  <2> QED BY <2>2, <2>3
<1> QED
  BY <1>1, <1>5, <1>6, <1>7, <1>8 DEF c, u, t

(* A binding and a fact that extends it, by their positions. *)
Matching(rows, facts) ==
  {p \in Nat \X Nat : /\ p[1] \in 1..Len(rows) /\ p[2] \in 1..Len(facts)
                      /\ facts[p[2]].from = rows[p[1]].key}

IsJoined(t, rows, facts) ==
  /\ t \in Seq(Binding)
  /\ \E w : /\ Lists(w, Matching(rows, facts)) /\ Len(w) = Len(t)
            /\ \A b \in 1..Len(t) : t[b] = Extend(rows[w[b][1]], facts[w[b][2]])

(* The join has each pair that matches once, whichever table is hashed. *)
LEMMA JoinedIsJoined ==
  ASSUME NEW rows \in Seq(Binding), NEW facts \in Seq(Fact)
  PROVE  IsJoined(Joined(rows, facts), rows, facts)
<1> DEFINE m == Len(rows)
           n == Len(facts)
           M == Matching(rows, facts)
<1>1. /\ m \in Nat /\ n \in Nat /\ DOMAIN rows = 1..m /\ DOMAIN facts = 1..n
      /\ \A r \in 1..m : rows[r].head \in Value
      /\ \A f \in 1..n : facts[f].to \in Value
  <2>1. \A r \in 1..m : rows[r] \in Binding
    OBVIOUS
  <2>2. \A f \in 1..n : facts[f] \in Fact
    OBVIOUS
  <2> QED BY <2>1, <2>2 DEF Binding, Fact
<1>2. \A r \in 1..m : \A f \in 1..n : Extend(rows[r], facts[f]) \in Binding
  BY <1>1 DEF Extend, Binding
<1>3. CASE n < m
  <2> DEFINE S(r) == {f \in 1..n : facts[f].from = rows[r].key}
             c(r) == Cardinality(S(r))
             ss == [r \in 1..m |-> [i \in 1..c(r) |-> Extend(rows[r], facts[FromTheLast(S(r), i)])]]
             t == FlattenSeq(ss)
             g == [p \in PlacesUpTo(ss, m) |-> <<p[1], FromTheLast(S(p[1]), p[2])>>]
  <2>1. ASSUME NEW r \in 1..m
        PROVE  LET u == FactsOf(rows[r], facts)
               IN  /\ c(r) \in Nat /\ DOMAIN u = 1..c(r)
                   /\ \A i \in 1..c(r) : FromTheLast(S(r), i) \in S(r) /\ u[i] = facts[FromTheLast(S(r), i)]
                   /\ \A i \in 1..c(r) : \A j \in 1..c(r) : FromTheLast(S(r), i) = FromTheLast(S(r), j) => i = j
                   /\ \A x \in S(r) : \E i \in 1..c(r) : FromTheLast(S(r), i) = x
    <3>1. S(r) \in SUBSET (1..Len(facts))
      OBVIOUS
    <3>2. FactsOf(rows[r], facts) = Reverse(RowsIn(facts, S(r)))
      BY <1>1 DEF FactsOf
    <3> HIDE DEF S
    <3> QED BY <3>1, <3>2, MatchesFromTheLast
  <2>2. \A r \in 1..m : S(r) \subseteq 1..n /\ \A f \in S(r) : facts[f].from = rows[r].key
    OBVIOUS
  <2>3. \A r \in 1..m : \A f \in 1..n : facts[f].from = rows[r].key => f \in S(r)
    OBVIOUS
  <2> HIDE DEF S, m, n
  <2>4. Joined(rows, facts) = t
    <3>1. Joined(rows, facts)
            = FlattenSeq([r \in 1..m |-> [i \in DOMAIN FactsOf(rows[r], facts) |->
                Extend(rows[r], FactsOf(rows[r], facts)[i])]])
      BY <1>1, <1>3, Zenon DEF Joined, m, n
    <3>2. ASSUME NEW r \in 1..m
          PROVE  [i \in DOMAIN FactsOf(rows[r], facts) |-> Extend(rows[r], FactsOf(rows[r], facts)[i])]
                   = [i \in 1..c(r) |-> Extend(rows[r], facts[FromTheLast(S(r), i)])]
      BY <2>1
    <3>3. [r \in 1..m |-> [i \in DOMAIN FactsOf(rows[r], facts) |->
                Extend(rows[r], FactsOf(rows[r], facts)[i])]] = ss
      BY <3>2, Zenon
    <3> QED BY <3>1, <3>3, Zenon
  <2>5. ss \in Seq(Seq(Binding)) /\ Len(ss) = m /\ \A r \in 1..m : Len(ss[r]) = c(r)
    <3> DEFINE matches(r) == [i \in 1..c(r) |-> Extend(rows[r], facts[FromTheLast(S(r), i)])]
    <3>1. ASSUME NEW r \in 1..m
          PROVE  matches(r) \in Seq(Binding) /\ Len(matches(r)) = c(r)
      <4>1. c(r) \in Nat /\ \A i \in 1..c(r) : Extend(rows[r], facts[FromTheLast(S(r), i)]) \in Binding
        BY <1>2, <2>1, <2>2
      <4> HIDE DEF c
      <4> QED BY <4>1
    <3>2. ss = [r \in 1..m |-> matches(r)]
      OBVIOUS
    <3> HIDE DEF matches, c, ss
    <3>3. ss \in Seq(Seq(Binding)) /\ Len(ss) = m
      BY <1>1, <3>1, <3>2
    <3>4. \A r \in 1..m : Len(ss[r]) = c(r)
      BY <3>1, <3>2
    <3> QED BY <3>3, <3>4
  <2>6. \A r \in 1..m : \A i \in 1..c(r) : ss[r][i] = Extend(rows[r], facts[FromTheLast(S(r), i)])
    OBVIOUS
  <2> HIDE DEF ss, c
  <2>7. IsFlat(Binding, t, ss, m)
    BY <2>5, FlattenIsFlat
  <2>8. PICK w : /\ Lists(w, PlacesUpTo(ss, m)) /\ Len(w) = Len(t)
                 /\ \A b \in 1..Len(t) : t[b] = ss[w[b][1]][w[b][2]]
    BY <2>7 DEF IsFlat
  <2> DEFINE P == PlacesUpTo(ss, m)
  <2>9. \A p : p \in P <=> p \in Nat \X Nat /\ p[1] \in 1..m /\ p[2] \in 1..c(p[1])
    BY <2>5 DEF PlacesUpTo
  <2>10. \A p : p \in M <=> p \in Nat \X Nat /\ p[1] \in 1..m /\ p[2] \in S(p[1])
    BY <2>2, <2>3 DEF Matching, m, n
  <2> HIDE DEF M, P, t
  <2>11. g \in [P -> M] /\ \A p \in P : g[p] = <<p[1], FromTheLast(S(p[1]), p[2])>>
    <3>1. ASSUME NEW p \in P
          PROVE  <<p[1], FromTheLast(S(p[1]), p[2])>> \in M
      <4>1. p[1] \in 1..m /\ FromTheLast(S(p[1]), p[2]) \in S(p[1])
        BY <2>1, <2>9 DEF c
      <4>2. p[1] \in Nat /\ FromTheLast(S(p[1]), p[2]) \in Nat
        BY <1>1, <2>2, <4>1
      <4> QED BY <2>10, <4>1, <4>2
    <3> QED BY <3>1 DEF P
  <2>12. ASSUME NEW p \in P, NEW q \in P, g[p] = g[q]
         PROVE  p = q
    <3>1. p[1] = q[1] /\ FromTheLast(S(p[1]), p[2]) = FromTheLast(S(q[1]), q[2])
      BY <2>11, <2>12
    <3>2. p \in Nat \X Nat /\ q \in Nat \X Nat /\ p[1] \in 1..m /\ p[2] \in 1..c(p[1]) /\ q[2] \in 1..c(p[1])
      BY <2>9, <3>1
    <3>3. p[2] = q[2]
      BY <2>1, <3>1, <3>2 DEF c
    <3> QED BY <3>1, <3>2, <3>3
  <2>13. ASSUME NEW z \in M
         PROVE  \E p \in P : g[p] = z
    <3>1. z \in Nat \X Nat /\ z[1] \in 1..m /\ z[2] \in S(z[1])
      BY <2>10
    <3>2. PICK i \in 1..c(z[1]) : FromTheLast(S(z[1]), i) = z[2]
      BY <2>1, <3>1 DEF c
    <3>3. i \in Nat
      BY <2>1, <3>1 DEF c
    <3>4. <<z[1], i>> \in P
      BY <2>9, <3>1, <3>2, <3>3
    <3>5. g[<<z[1], i>>] = z
      BY <2>11, <3>1, <3>2, <3>4
    <3> QED BY <3>4, <3>5
  <2> DEFINE v == Mapped(w, g)
  <2>14. Lists(v, M)
    <3>1. Lists(w, P)
      BY <2>8 DEF P
    <3>2. \A p \in P : \A q \in P : g[p] = g[q] => p = q
      BY <2>12, Zenon
    <3>3. \A p \in P : g[p] \in M
      BY <2>11
    <3>4. \A z \in M : \E p \in P : g[p] = z
      BY <2>13, Zenon
    <3> HIDE DEF g
    <3>5. IsOneToOne(g, P, M)
      BY <3>2, <3>3, <3>4, Zenon DEF IsOneToOne
    <3> QED BY <3>1, <3>5, ListsMapped, Zenon
  <2>15. t \in Seq(Binding) /\ Len(w) \in Nat /\ Len(w) = Len(t) /\ \A b \in 1..Len(w) : w[b] \in P
    BY <2>7, <2>8 DEF IsFlat, Lists, P
  <2>16. ASSUME NEW b \in 1..Len(t)
         PROVE  t[b] = Extend(rows[v[b][1]], facts[v[b][2]])
    <3>1. w[b] \in P /\ w[b][1] \in 1..m /\ w[b][2] \in 1..c(w[b][1])
      BY <2>9, <2>15
    <3>2. v[b] = <<w[b][1], FromTheLast(S(w[b][1]), w[b][2])>>
      BY <2>11, <2>15, <3>1 DEF Mapped
    <3>3. t[b] = Extend(rows[w[b][1]], facts[FromTheLast(S(w[b][1]), w[b][2])])
      BY <2>6, <2>8, <3>1
    <3> HIDE DEF v
    <3> QED BY <3>2, <3>3
  <2>17. Len(v) = Len(t)
    BY <2>15 DEF Mapped
  <2> HIDE DEF v
  <2> QED
    BY <2>4, <2>14, <2>15, <2>16, <2>17, Zenon DEF IsJoined, M
<1>4. CASE ~(n < m)
  <2> DEFINE S(f) == {r \in 1..m : rows[r].key = facts[f].from}
             c(f) == Cardinality(S(f))
             ss == [f \in 1..n |-> [i \in 1..c(f) |-> Extend(rows[FromTheLast(S(f), i)], facts[f])]]
             t == FlattenSeq(ss)
             g == [p \in PlacesUpTo(ss, n) |-> <<FromTheLast(S(p[1]), p[2]), p[1]>>]
  <2>1. ASSUME NEW f \in 1..n
        PROVE  LET u == RowsOf(facts[f], rows)
               IN  /\ c(f) \in Nat /\ DOMAIN u = 1..c(f)
                   /\ \A i \in 1..c(f) : FromTheLast(S(f), i) \in S(f) /\ u[i] = rows[FromTheLast(S(f), i)]
                   /\ \A i \in 1..c(f) : \A j \in 1..c(f) : FromTheLast(S(f), i) = FromTheLast(S(f), j) => i = j
                   /\ \A x \in S(f) : \E i \in 1..c(f) : FromTheLast(S(f), i) = x
    <3>1. S(f) \in SUBSET (1..Len(rows))
      OBVIOUS
    <3>2. RowsOf(facts[f], rows) = Reverse(RowsIn(rows, S(f)))
      BY <1>1 DEF RowsOf
    <3> HIDE DEF S
    <3> QED BY <3>1, <3>2, MatchesFromTheLast
  <2>2. \A f \in 1..n : S(f) \subseteq 1..m /\ \A r \in S(f) : rows[r].key = facts[f].from
    OBVIOUS
  <2>3. \A f \in 1..n : \A r \in 1..m : facts[f].from = rows[r].key => r \in S(f)
    OBVIOUS
  <2> HIDE DEF S, m, n
  <2>4. Joined(rows, facts) = t
    <3>1. Joined(rows, facts)
            = FlattenSeq([f \in 1..n |-> [i \in DOMAIN RowsOf(facts[f], rows) |->
                Extend(RowsOf(facts[f], rows)[i], facts[f])]])
      BY <1>1, <1>4, Zenon DEF Joined, m, n
    <3>2. ASSUME NEW f \in 1..n
          PROVE  [i \in DOMAIN RowsOf(facts[f], rows) |-> Extend(RowsOf(facts[f], rows)[i], facts[f])]
                   = [i \in 1..c(f) |-> Extend(rows[FromTheLast(S(f), i)], facts[f])]
      BY <2>1
    <3>3. [f \in 1..n |-> [i \in DOMAIN RowsOf(facts[f], rows) |->
                Extend(RowsOf(facts[f], rows)[i], facts[f])]] = ss
      BY <3>2, Zenon
    <3> QED BY <3>1, <3>3, Zenon
  <2>5. ss \in Seq(Seq(Binding)) /\ Len(ss) = n /\ \A f \in 1..n : Len(ss[f]) = c(f)
    <3> DEFINE matches(f) == [i \in 1..c(f) |-> Extend(rows[FromTheLast(S(f), i)], facts[f])]
    <3>1. ASSUME NEW f \in 1..n
          PROVE  matches(f) \in Seq(Binding) /\ Len(matches(f)) = c(f)
      <4>1. c(f) \in Nat /\ \A i \in 1..c(f) : Extend(rows[FromTheLast(S(f), i)], facts[f]) \in Binding
        BY <1>2, <2>1, <2>2
      <4> HIDE DEF c
      <4> QED BY <4>1
    <3>2. ss = [f \in 1..n |-> matches(f)]
      OBVIOUS
    <3> HIDE DEF matches, c, ss
    <3>3. ss \in Seq(Seq(Binding)) /\ Len(ss) = n
      BY <1>1, <3>1, <3>2
    <3>4. \A f \in 1..n : Len(ss[f]) = c(f)
      BY <3>1, <3>2
    <3> QED BY <3>3, <3>4
  <2>6. \A f \in 1..n : \A i \in 1..c(f) : ss[f][i] = Extend(rows[FromTheLast(S(f), i)], facts[f])
    OBVIOUS
  <2> HIDE DEF ss, c
  <2>7. IsFlat(Binding, t, ss, n)
    BY <2>5, FlattenIsFlat
  <2>8. PICK w : /\ Lists(w, PlacesUpTo(ss, n)) /\ Len(w) = Len(t)
                 /\ \A b \in 1..Len(t) : t[b] = ss[w[b][1]][w[b][2]]
    BY <2>7 DEF IsFlat
  <2> DEFINE P == PlacesUpTo(ss, n)
  <2>9. \A p : p \in P <=> p \in Nat \X Nat /\ p[1] \in 1..n /\ p[2] \in 1..c(p[1])
    BY <2>5 DEF PlacesUpTo
  <2>10. \A p : p \in M <=> p \in Nat \X Nat /\ p[2] \in 1..n /\ p[1] \in S(p[2])
    BY <2>2, <2>3 DEF Matching, m, n
  <2> HIDE DEF M, P, t
  <2>11. g \in [P -> M] /\ \A p \in P : g[p] = <<FromTheLast(S(p[1]), p[2]), p[1]>>
    <3>1. ASSUME NEW p \in P
          PROVE  <<FromTheLast(S(p[1]), p[2]), p[1]>> \in M
      <4>1. p[1] \in 1..n /\ FromTheLast(S(p[1]), p[2]) \in S(p[1])
        BY <2>1, <2>9 DEF c
      <4>2. p[1] \in Nat /\ FromTheLast(S(p[1]), p[2]) \in Nat
        BY <1>1, <2>2, <4>1
      <4> QED BY <2>10, <4>1, <4>2
    <3> QED BY <3>1 DEF P
  <2>12. ASSUME NEW p \in P, NEW q \in P, g[p] = g[q]
         PROVE  p = q
    <3>1. p[1] = q[1] /\ FromTheLast(S(p[1]), p[2]) = FromTheLast(S(q[1]), q[2])
      BY <2>11, <2>12
    <3>2. p \in Nat \X Nat /\ q \in Nat \X Nat /\ p[1] \in 1..n /\ p[2] \in 1..c(p[1]) /\ q[2] \in 1..c(p[1])
      BY <2>9, <3>1
    <3>3. p[2] = q[2]
      BY <2>1, <3>1, <3>2 DEF c
    <3> QED BY <3>1, <3>2, <3>3
  <2>13. ASSUME NEW z \in M
         PROVE  \E p \in P : g[p] = z
    <3>1. z \in Nat \X Nat /\ z[2] \in 1..n /\ z[1] \in S(z[2])
      BY <2>10
    <3>2. PICK i \in 1..c(z[2]) : FromTheLast(S(z[2]), i) = z[1]
      BY <2>1, <3>1 DEF c
    <3>3. i \in Nat
      BY <2>1, <3>1 DEF c
    <3>4. <<z[2], i>> \in P
      BY <2>9, <3>1, <3>2, <3>3
    <3>5. g[<<z[2], i>>] = z
      BY <2>11, <3>1, <3>2, <3>4
    <3> QED BY <3>4, <3>5
  <2> DEFINE v == Mapped(w, g)
  <2>14. Lists(v, M)
    <3>1. Lists(w, P)
      BY <2>8 DEF P
    <3>2. \A p \in P : \A q \in P : g[p] = g[q] => p = q
      BY <2>12, Zenon
    <3>3. \A p \in P : g[p] \in M
      BY <2>11
    <3>4. \A z \in M : \E p \in P : g[p] = z
      BY <2>13, Zenon
    <3> HIDE DEF g
    <3>5. IsOneToOne(g, P, M)
      BY <3>2, <3>3, <3>4, Zenon DEF IsOneToOne
    <3> QED BY <3>1, <3>5, ListsMapped, Zenon
  <2>15. t \in Seq(Binding) /\ Len(w) \in Nat /\ Len(w) = Len(t) /\ \A b \in 1..Len(w) : w[b] \in P
    BY <2>7, <2>8 DEF IsFlat, Lists, P
  <2>16. ASSUME NEW b \in 1..Len(t)
         PROVE  t[b] = Extend(rows[v[b][1]], facts[v[b][2]])
    <3>1. w[b] \in P /\ w[b][1] \in 1..n /\ w[b][2] \in 1..c(w[b][1])
      BY <2>9, <2>15
    <3>2. v[b] = <<FromTheLast(S(w[b][1]), w[b][2]), w[b][1]>>
      BY <2>11, <2>15, <3>1 DEF Mapped
    <3>3. t[b] = Extend(rows[FromTheLast(S(w[b][1]), w[b][2])], facts[w[b][1]])
      BY <2>6, <2>8, <3>1
    <3> HIDE DEF v
    <3> QED BY <3>2, <3>3
  <2>17. Len(v) = Len(t)
    BY <2>15 DEF Mapped
  <2> HIDE DEF v
  <2> QED
    BY <2>4, <2>14, <2>15, <2>16, <2>17, Zenon DEF IsJoined, M
<1> QED
  BY <1>3, <1>4

-----------------------------------------------------------------------------
IsRule(c) ==
  /\ c.prefix \in Seq(Seq(Fact) \ {<<>>})
  /\ c.last \in Seq(Value) \ {<<>>}

(* The ways through the first l literals of a rule from a test, and where they
   end.                                                                    *)
EndTo(c, l, head, p) == IF l = 0 THEN head ELSE c.prefix[l][p[l]].to

WaysTo(c, l, head) ==
  {p \in [1..l -> Nat] :
     \A k \in 1..l : /\ p[k] \in 1..Len(c.prefix[k])
                     /\ c.prefix[k][p[k]].from = EndTo(c, k - 1, head, p)}

Onward(l, p, f) == [k \in 1..l + 1 |-> IF k <= l THEN p[k] ELSE f]
Back(l, p) == [k \in 1..l |-> p[k]]

LEMMA RuleTypes ==
  ASSUME NEW c, IsRule(c)
  PROVE  /\ Len(c.prefix) \in Nat /\ DOMAIN c.prefix = 1..Len(c.prefix)
         /\ \A k \in 1..Len(c.prefix) :
              /\ c.prefix[k] \in Seq(Fact) /\ c.prefix[k] # <<>> /\ Len(c.prefix[k]) \in Nat
              /\ DOMAIN c.prefix[k] = 1..Len(c.prefix[k])
              /\ \A f \in 1..Len(c.prefix[k]) : /\ c.prefix[k][f].from \in Value
                                                /\ c.prefix[k][f].to \in Value
         /\ c.last \in Seq(Value) /\ c.last # <<>> /\ Len(c.last) \in Nat \ {0}
         /\ DOMAIN c.last = 1..Len(c.last)
<1>1. /\ Len(c.prefix) \in Nat /\ DOMAIN c.prefix = 1..Len(c.prefix)
      /\ c.last \in Seq(Value) /\ c.last # <<>> /\ Len(c.last) \in Nat \ {0}
      /\ DOMAIN c.last = 1..Len(c.last)
  BY DEF IsRule
<1>2. ASSUME NEW k \in 1..Len(c.prefix)
      PROVE  /\ c.prefix[k] \in Seq(Fact) /\ c.prefix[k] # <<>> /\ Len(c.prefix[k]) \in Nat
             /\ DOMAIN c.prefix[k] = 1..Len(c.prefix[k])
             /\ \A f \in 1..Len(c.prefix[k]) : /\ c.prefix[k][f].from \in Value
                                               /\ c.prefix[k][f].to \in Value
  <2>1. c.prefix[k] \in Seq(Fact) /\ c.prefix[k] # <<>>
    BY DEF IsRule
  <2>2. \A f \in 1..Len(c.prefix[k]) : c.prefix[k][f] \in Fact
    BY <2>1
  <2> QED
    BY <2>1, <2>2 DEF Fact
<1> QED
  BY <1>1, <1>2

(* A way that has come further has passed the literals before. *)
LEMMA WayBack ==
  ASSUME NEW c, NEW l \in Nat, NEW m \in Nat, l <= m, NEW head, NEW p \in WaysTo(c, m, head)
  PROVE  Back(l, p) \in WaysTo(c, l, head)
<1> DEFINE q == Back(l, p)
<1>1. /\ p \in [1..m -> Nat]
      /\ \A k \in 1..m : p[k] \in 1..Len(c.prefix[k]) /\ c.prefix[k][p[k]].from = EndTo(c, k - 1, head, p)
  BY DEF WaysTo
<1>2. q \in [1..l -> Nat] /\ \A k \in 1..l : q[k] = p[k]
  BY <1>1 DEF Back
<1> HIDE DEF q
<1>3. ASSUME NEW k \in 1..l
      PROVE  q[k] \in 1..Len(c.prefix[k]) /\ c.prefix[k][q[k]].from = EndTo(c, k - 1, head, q)
  <2>1. k \in 1..m /\ q[k] = p[k]
    BY <1>2
  <2>2. EndTo(c, k - 1, head, q) = EndTo(c, k - 1, head, p)
    BY <1>2 DEF EndTo
  <2> QED
    BY <1>1, <2>1, <2>2
<1> QED
  BY <1>2, <1>3 DEF WaysTo, q

(* A way and what it becomes, and a way and what it came from. *)
GoesOn(c, l, head, p, f) ==
  /\ Onward(l, p, f) \in WaysTo(c, l + 1, head)
  /\ EndTo(c, l + 1, head, Onward(l, p, f)) = c.prefix[l + 1][f].to
  /\ Back(l, Onward(l, p, f)) = p /\ Onward(l, p, f)[l + 1] = f

CameFrom(c, l, head, q) ==
  /\ Back(l, q) \in WaysTo(c, l, head)
  /\ q[l + 1] \in Nat /\ q[l + 1] \in 1..Len(c.prefix[l + 1])
  /\ c.prefix[l + 1][q[l + 1]].from = EndTo(c, l, head, Back(l, q))
  /\ Onward(l, Back(l, q), q[l + 1]) = q

(* A way goes on by a fact of the next literal that begins where it ends. *)
LEMMA WayOn ==
  ASSUME NEW c, NEW l \in Nat, NEW head, NEW p \in WaysTo(c, l, head),
         NEW f \in Nat, f \in 1..Len(c.prefix[l + 1]),
         c.prefix[l + 1][f].from = EndTo(c, l, head, p)
  PROVE  GoesOn(c, l, head, p, f)
<1> DEFINE q == Onward(l, p, f)
<1>1. /\ p \in [1..l -> Nat]
      /\ \A k \in 1..l : p[k] \in 1..Len(c.prefix[k]) /\ c.prefix[k][p[k]].from = EndTo(c, k - 1, head, p)
  BY DEF WaysTo
<1>2. q \in [1..l + 1 -> Nat] /\ (\A k \in 1..l : q[k] = p[k]) /\ q[l + 1] = f
  BY <1>1 DEF Onward
<1>3. Back(l, q) = p
  BY <1>1, <1>2 DEF Back
<1> HIDE DEF q
<1>4. ASSUME NEW k \in 1..l + 1
      PROVE  q[k] \in 1..Len(c.prefix[k]) /\ c.prefix[k][q[k]].from = EndTo(c, k - 1, head, q)
  <2>1. EndTo(c, k - 1, head, q) = EndTo(c, k - 1, head, p)
    BY <1>2 DEF EndTo
  <2>2. CASE k \in 1..l
    BY <1>1, <1>2, <2>1, <2>2
  <2>3. CASE k = l + 1
    <3>1. k - 1 = l
      BY <2>3
    <3> QED BY <1>2, <2>1, <2>3, <3>1
  <2> QED BY <2>2, <2>3
<1>5. EndTo(c, l + 1, head, q) = c.prefix[l + 1][f].to
  BY <1>2 DEF EndTo
<1>6. q \in WaysTo(c, l + 1, head)
  BY <1>2, <1>4 DEF WaysTo
<1> QED
  BY <1>2, <1>3, <1>5, <1>6 DEF q, GoesOn

(* And so does every longer way. *)
LEMMA WayCameFrom ==
  ASSUME NEW c, NEW l \in Nat, NEW head, NEW q \in WaysTo(c, l + 1, head)
  PROVE  CameFrom(c, l, head, q)
<1>1. /\ q \in [1..l + 1 -> Nat]
      /\ \A k \in 1..l + 1 : q[k] \in 1..Len(c.prefix[k]) /\ c.prefix[k][q[k]].from = EndTo(c, k - 1, head, q)
  BY DEF WaysTo
<1>2. Back(l, q) \in WaysTo(c, l, head)
  BY WayBack
<1>3. l + 1 \in 1..l + 1 /\ (l + 1) - 1 = l
  OBVIOUS
<1>4. EndTo(c, l, head, Back(l, q)) = EndTo(c, l, head, q)
  BY DEF EndTo, Back
<1>5. Onward(l, Back(l, q), q[l + 1]) = q
  BY <1>1 DEF Onward, Back
<1> QED
  BY <1>1, <1>2, <1>3, <1>4, <1>5 DEF CameFrom

(* The bindings of the first l literals: a test and a way from it, each of them
   once.                                                                   *)
Paths(c, l, rows) ==
  {x \in Nat \X [1..l -> Nat] : x[1] \in 1..Len(rows) /\ x[2] \in WaysTo(c, l, rows[x[1]])}

BindingOf(c, l, rows, x) == [head |-> rows[x[1]], key |-> EndTo(c, l, rows[x[1]], x[2])]

Binds(w, c, l, rows, bs) ==
  /\ Lists(w, Paths(c, l, rows)) /\ Len(w) = Len(bs)
  /\ \A b \in 1..Len(bs) : bs[b] = BindingOf(c, l, rows, w[b])

Bound(c, l, rows, bs) == bs \in Seq(Binding) /\ \E w : Binds(w, c, l, rows, bs)

(* Before a literal is joined the tests are bound. *)
LEMMA BoundFirst ==
  ASSUME NEW c, NEW rows \in Seq(Value)
  PROVE  Bound(c, 0, rows, AsBindings(rows))
<1> DEFINE n == Len(rows)
           e == [k \in 1..0 |-> 0]
           w == [b \in 1..n |-> <<b, e>>]
           bs == AsBindings(rows)
           P == Paths(c, 0, rows)
<1>1. n \in Nat /\ DOMAIN rows = 1..n /\ \A b \in 1..n : rows[b] \in Value
  OBVIOUS
<1>2. bs = [i \in 1..n |-> [head |-> rows[i], key |-> rows[i]]]
  BY <1>1, Zenon DEF AsBindings
<1>3. bs \in Seq(Binding) /\ Len(bs) = n
  <2>1. \A i \in 1..n : [head |-> rows[i], key |-> rows[i]] \in Binding
    BY <1>1 DEF Binding
  <2> HIDE DEF n, bs
  <2> QED BY <1>1, <1>2, <2>1
<1>4. \A p \in [1..0 -> Nat] : p = e
  OBVIOUS
<1>5. \A head : e \in WaysTo(c, 0, head)
  BY DEF WaysTo
<1> HIDE DEF e, n
<1>6. ASSUME NEW b \in 1..n
      PROVE  <<b, e>> \in P
  <2>1. b \in Nat /\ e \in WaysTo(c, 0, rows[b]) /\ e \in [1..0 -> Nat]
    BY <1>1, <1>5 DEF e
  <2> QED BY <2>1 DEF Paths, n
<1>7. ASSUME NEW x \in P
      PROVE  x[1] \in 1..n /\ x = <<x[1], e>>
  BY <1>4 DEF Paths, n
<1> HIDE DEF P, bs
<1>8. w \in Seq(P) /\ Len(w) = n /\ \A b \in 1..n : w[b] = <<b, e>>
  BY <1>1, <1>6
<1> HIDE DEF w
<1>9. Lists(w, P)
  <2>1. ASSUME NEW x \in P
        PROVE  \E k \in 1..n : w[k] = x
    BY <1>7, <1>8
  <2>2. ASSUME NEW k \in 1..n, NEW l \in 1..n, w[k] = w[l]
        PROVE  k = l
    BY <1>8, <2>2
  <2> QED BY <1>8, <2>1, <2>2, Zenon DEF Lists
<1>10. ASSUME NEW b \in 1..n
       PROVE  bs[b] = BindingOf(c, 0, rows, w[b])
  BY <1>2, <1>8 DEF BindingOf, EndTo
<1>11. Binds(w, c, 0, rows, bs)
  BY <1>3, <1>8, <1>9, <1>10, Zenon DEF Binds, P
<1> QED
  BY <1>3, <1>11, Zenon DEF Bound, bs

(* The join with the facts of the next literal takes each of them a fact further. *)
LEMMA BoundNext ==
  ASSUME NEW c, IsRule(c), NEW l \in Nat, l + 1 <= Len(c.prefix),
         NEW rows \in Seq(Value), NEW bs, Bound(c, l, rows, bs)
  PROVE  Bound(c, l + 1, rows, Joined(bs, c.prefix[l + 1]))
<1> DEFINE facts == c.prefix[l + 1]
           P == Paths(c, l, rows)
           Q == Paths(c, l + 1, rows)
           M == Matching(bs, facts)
           t == Joined(bs, facts)
<1>1. facts \in Seq(Fact) /\ bs \in Seq(Binding)
  BY RuleTypes DEF Bound
<1>2. PICK w : Binds(w, c, l, rows, bs)
  BY DEF Bound
<1>3. /\ Lists(w, P) /\ Len(w) = Len(bs) /\ Len(bs) \in Nat
      /\ \A b \in 1..Len(bs) : /\ bs[b] = BindingOf(c, l, rows, w[b]) /\ w[b] \in P
      /\ \A x \in P : \E b \in 1..Len(bs) : w[b] = x
      /\ \A a \in 1..Len(bs) : \A b \in 1..Len(bs) : w[a] = w[b] => a = b
  BY <1>1, <1>2 DEF Binds, Lists
<1>4. IsJoined(t, bs, facts)
  BY <1>1, JoinedIsJoined
<1>5. t \in Seq(Binding)
  BY <1>4 DEF IsJoined
<1>6. PICK v : /\ Lists(v, M) /\ Len(v) = Len(t)
               /\ \A b \in 1..Len(t) : t[b] = Extend(bs[v[b][1]], facts[v[b][2]])
  BY <1>4 DEF IsJoined
<1> DEFINE g == [z \in M |-> <<w[z[1]][1], Onward(l, w[z[1]][2], z[2])>>]
<1>7. \A z : z \in M <=> /\ z \in Nat \X Nat /\ z[1] \in 1..Len(bs) /\ z[2] \in 1..Len(facts)
                         /\ facts[z[2]].from = bs[z[1]].key
  BY DEF Matching
<1>8. \A x : x \in P <=> /\ x \in Nat \X [1..l -> Nat] /\ x[1] \in 1..Len(rows)
                         /\ x[2] \in WaysTo(c, l, rows[x[1]])
  BY DEF Paths
<1>9. \A x : x \in Q <=> /\ x \in Nat \X [1..l + 1 -> Nat] /\ x[1] \in 1..Len(rows)
                         /\ x[2] \in WaysTo(c, l + 1, rows[x[1]])
  BY DEF Paths
<1>10. \A h : WaysTo(c, l + 1, h) \subseteq [1..l + 1 -> Nat] /\ WaysTo(c, l, h) \subseteq [1..l -> Nat]
  BY DEF WaysTo
<1> HIDE DEF P, Q, M, t, facts
<1>11. ASSUME NEW z \in M
       PROVE  LET x == w[z[1]]
                  q == Onward(l, x[2], z[2])
              IN  /\ z[1] \in 1..Len(bs) /\ x \in P /\ g[z] = <<x[1], q>> /\ g[z] \in Q
                  /\ Back(l, q) = x[2] /\ q[l + 1] = z[2]
                  /\ Extend(bs[z[1]], facts[z[2]]) = BindingOf(c, l + 1, rows, g[z])
  <2> DEFINE x == w[z[1]]
             q == Onward(l, x[2], z[2])
  <2>1. z \in Nat \X Nat /\ z[1] \in 1..Len(bs) /\ z[2] \in 1..Len(facts) /\ z[2] \in Nat
        /\ facts[z[2]].from = bs[z[1]].key
    BY <1>7
  <2>2. x \in P /\ bs[z[1]] = BindingOf(c, l, rows, x)
    BY <1>3, <2>1
  <2>3. x \in Nat \X [1..l -> Nat] /\ x[1] \in 1..Len(rows) /\ x[2] \in WaysTo(c, l, rows[x[1]])
        /\ x[1] \in Nat
    BY <1>8, <2>2
  <2>4. g[z] = <<x[1], q>>
    OBVIOUS
  <2> HIDE DEF x
  <2>5. bs[z[1]].head = rows[x[1]] /\ bs[z[1]].key = EndTo(c, l, rows[x[1]], x[2])
    BY <2>2 DEF BindingOf
  <2>6. /\ q \in WaysTo(c, l + 1, rows[x[1]])
        /\ EndTo(c, l + 1, rows[x[1]], q) = facts[z[2]].to
        /\ Back(l, q) = x[2] /\ q[l + 1] = z[2]
    <3>1. z[2] \in 1..Len(c.prefix[l + 1]) /\ c.prefix[l + 1][z[2]].from = EndTo(c, l, rows[x[1]], x[2])
      BY <2>1, <2>5 DEF facts
    <3>2. l \in Nat /\ x[2] \in WaysTo(c, l, rows[x[1]]) /\ z[2] \in Nat
      BY <2>1, <2>3
    <3>3. facts[z[2]] = c.prefix[l + 1][z[2]]
      BY DEF facts
    <3> HIDE DEF facts
    <3>4. GoesOn(c, l, rows[x[1]], x[2], z[2])
      BY <3>1, <3>2, WayOn
    <3> QED BY <3>3, <3>4, Zenon DEF q, GoesOn
  <2> HIDE DEF q, g
  <2>7. <<x[1], q>> \in Q
    <3>1. q \in [1..l + 1 -> Nat]
      BY <1>10, <2>6
    <3> DEFINE y == <<x[1], q>>
    <3>2. y[1] = x[1] /\ y[2] = q /\ y \in Nat \X [1..l + 1 -> Nat]
      BY <2>3, <3>1
    <3> HIDE DEF y
    <3>3. y \in Q
      BY <1>9, <2>3, <2>6, <3>2
    <3> QED BY <3>3 DEF y
  <2>8. Extend(bs[z[1]], facts[z[2]]) = BindingOf(c, l + 1, rows, <<x[1], q>>)
    BY <2>5, <2>6 DEF Extend, BindingOf
  <2> QED
    BY <2>1, <2>2, <2>4, <2>6, <2>7, <2>8 DEF q, x
<1>12. ASSUME NEW y \in M, NEW z \in M, g[y] = g[z]
       PROVE  y = z
  <2> DEFINE x == w[y[1]]
             u == w[z[1]]
             q == Onward(l, x[2], y[2])
             r == Onward(l, u[2], z[2])
  <2>1. /\ y[1] \in 1..Len(bs) /\ x \in P /\ g[y] = <<x[1], q>>
        /\ Back(l, q) = x[2] /\ q[l + 1] = y[2]
    BY <1>11
  <2>2. /\ z[1] \in 1..Len(bs) /\ u \in P /\ g[z] = <<u[1], r>>
        /\ Back(l, r) = u[2] /\ r[l + 1] = z[2]
    BY <1>11
  <2> HIDE DEF q, r, g, x, u
  <2>3. x[1] = u[1] /\ q = r
    <3>1. <<x[1], q>> = <<u[1], r>>
      BY <1>12, <2>1, <2>2, Zenon
    <3> QED BY <3>1
  <2>4. x[2] = u[2] /\ y[2] = z[2]
    BY <2>1, <2>2, <2>3
  <2>5. x = u
    <3>1. x \in Nat \X [1..l -> Nat] /\ u \in Nat \X [1..l -> Nat]
      BY <1>8, <2>1, <2>2, Zenon
    <3>2. x = <<x[1], x[2]>> /\ u = <<u[1], u[2]>>
      BY <3>1
    <3> QED BY <2>3, <2>4, <3>2, Zenon
  <2>6. y[1] = z[1]
    BY <1>3, <2>1, <2>2, <2>5 DEF x, u
  <2> QED BY <1>7, <2>4, <2>6
<1>13. ASSUME NEW y \in Q
       PROVE  \E z \in M : g[z] = y
  <2> DEFINE h == rows[y[1]]
             p == Back(l, y[2])
             f == y[2][l + 1]
  <2>1. y \in Nat \X [1..l + 1 -> Nat] /\ y[1] \in 1..Len(rows) /\ y[2] \in WaysTo(c, l + 1, h)
    BY <1>9
  <2>2. /\ p \in WaysTo(c, l, h) /\ f \in Nat /\ f \in 1..Len(facts)
        /\ facts[f].from = EndTo(c, l, h, p) /\ Onward(l, p, f) = y[2]
    <3>1. l \in Nat /\ y[2] \in WaysTo(c, l + 1, h)
      BY <2>1
    <3> HIDE DEF h
    <3>2. CameFrom(c, l, h, y[2])
      BY <3>1, WayCameFrom
    <3> QED BY <3>2, Zenon DEF p, f, facts, CameFrom
  <2> HIDE DEF p, f, h
  <2>3. <<y[1], p>> \in P
    <3> DEFINE x == <<y[1], p>>
    <3>1. p \in [1..l -> Nat]
      BY <1>10, <2>2
    <3>2. x \in Nat \X [1..l -> Nat] /\ x[1] = y[1] /\ x[2] = p
      BY <2>1, <3>1
    <3> HIDE DEF x
    <3>3. x \in P
      BY <1>8, <2>1, <2>2, <3>2 DEF h
    <3> QED BY <3>3 DEF x
  <2>4. PICK b \in 1..Len(bs) : w[b] = <<y[1], p>>
    BY <1>3, <2>3
  <2>5. bs[b].key = EndTo(c, l, h, p)
    <3> DEFINE x == <<y[1], p>>
    <3>1. bs[b] = BindingOf(c, l, rows, x) /\ x[1] = y[1] /\ x[2] = p
      BY <1>3, <2>4, Zenon
    <3> HIDE DEF x
    <3>2. bs[b].key = EndTo(c, l, rows[x[1]], x[2])
      BY <3>1 DEF BindingOf
    <3> QED BY <3>1, <3>2, Zenon DEF h
  <2>6. <<b, f>> \in M
    <3> DEFINE z == <<b, f>>
    <3>1. z \in Nat \X Nat /\ z[1] = b /\ z[2] = f
      BY <1>3, <2>2
    <3> HIDE DEF z
    <3>2. facts[z[2]].from = bs[z[1]].key
      BY <2>2, <2>5, <3>1, Zenon
    <3>3. z \in M
      BY <1>7, <2>2, <3>1, <3>2
    <3> QED BY <3>3 DEF z
  <2>7. g[<<b, f>>] = <<y[1], Onward(l, p, f)>>
    BY <2>4, <2>6
  <2>8. g[<<b, f>>] = y
    <3>1. y = <<y[1], y[2]>>
      BY <2>1
    <3> HIDE DEF g
    <3> QED BY <2>2, <2>7, <3>1, Zenon
  <2> QED BY <2>6, <2>8
<1> DEFINE u == Mapped(v, g)
<1>14. Lists(u, Q)
  <2>1. \A z \in M : g[z] \in Q
    BY <1>11, Zenon
  <2>2. \A y \in M : \A z \in M : g[y] = g[z] => y = z
    BY <1>12, Zenon
  <2>3. \A y \in Q : \E z \in M : g[z] = y
    BY <1>13, Zenon
  <2> HIDE DEF g
  <2>4. IsOneToOne(g, M, Q)
    BY <2>1, <2>2, <2>3, Zenon DEF IsOneToOne
  <2> QED BY <1>6, <2>4, ListsMapped, Zenon
<1>15. Len(t) \in Nat /\ Len(v) = Len(t) /\ \A b \in 1..Len(t) : v[b] \in M
  BY <1>5, <1>6 DEF Lists
<1>16. Len(u) = Len(t) /\ \A b \in 1..Len(t) : u[b] = g[v[b]]
  <2> HIDE DEF g
  <2> QED BY <1>15 DEF Mapped
<1>17. ASSUME NEW b \in 1..Len(t)
       PROVE  t[b] = BindingOf(c, l + 1, rows, u[b])
  <2>1. v[b] \in M /\ t[b] = Extend(bs[v[b][1]], facts[v[b][2]]) /\ u[b] = g[v[b]]
    BY <1>6, <1>15, <1>16
  <2>2. Extend(bs[v[b][1]], facts[v[b][2]]) = BindingOf(c, l + 1, rows, g[v[b]])
    BY <1>11, <2>1, Zenon
  <2> QED BY <2>1, <2>2, Zenon
<1> HIDE DEF u
<1>18. Binds(u, c, l + 1, rows, t)
  BY <1>14, <1>16, <1>17, Zenon DEF Binds, Q
<1> QED
  BY <1>5, <1>18, Zenon DEF Bound, t, facts

(* The ways of the reference are the ways through all literals but the last. *)
LEMMA WaysAreWaysTo ==
  ASSUME NEW c, IsRule(c), NEW head
  PROVE  /\ Ways(c, head) = WaysTo(c, Len(c.prefix), head)
         /\ \A p \in Ways(c, head) : EndOf(c, head, p) = EndTo(c, Len(c.prefix), head, p)
<1> DEFINE n == Len(c.prefix)
           most == UNION {DOMAIN c.prefix[k] : k \in DOMAIN c.prefix}
           from(p, k) == IF k = 1 THEN head ELSE c.prefix[k - 1][p[k - 1]].to
<1>1. /\ n \in Nat /\ DOMAIN c.prefix = 1..n
      /\ \A k \in 1..n : DOMAIN c.prefix[k] = 1..Len(c.prefix[k]) /\ Len(c.prefix[k]) \in Nat
  BY RuleTypes
<1>2. Ways(c, head) = {p \in [1..n -> most] :
         \A k \in DOMAIN p : p[k] \in DOMAIN c.prefix[k] /\ c.prefix[k][p[k]].from = from(p, k)}
  BY <1>1, Zenon DEF Ways
<1>3. \A p : \A k \in 1..n : from(p, k) = EndTo(c, k - 1, head, p)
  BY DEF EndTo
<1>4. most \subseteq Nat /\ \A k \in 1..n : DOMAIN c.prefix[k] \subseteq most
  BY <1>1
<1> HIDE DEF from, most, n
<1>5. ASSUME NEW p
      PROVE  p \in Ways(c, head) <=> p \in WaysTo(c, n, head)
  <2>1. CASE p \in Ways(c, head)
    <3>1. p \in [1..n -> most] /\ \A k \in 1..n : p[k] \in DOMAIN c.prefix[k]
                                   /\ c.prefix[k][p[k]].from = from(p, k)
      BY <1>2, <2>1
    <3>2. p \in [1..n -> Nat]
      BY <1>4, <3>1
    <3>3. \A k \in 1..n : p[k] \in 1..Len(c.prefix[k]) /\ c.prefix[k][p[k]].from = EndTo(c, k - 1, head, p)
      BY <1>1, <1>3, <3>1
    <3> QED BY <2>1, <3>2, <3>3 DEF WaysTo
  <2>2. CASE p \in WaysTo(c, n, head)
    <3>1. /\ p \in [1..n -> Nat]
          /\ \A k \in 1..n : p[k] \in 1..Len(c.prefix[k]) /\ c.prefix[k][p[k]].from = EndTo(c, k - 1, head, p)
      BY <2>2 DEF WaysTo
    <3>2. \A k \in 1..n : p[k] \in DOMAIN c.prefix[k] /\ c.prefix[k][p[k]].from = from(p, k)
      BY <1>1, <1>3, <3>1
    <3>3. DOMAIN p = 1..n /\ p \in [1..n -> most]
      BY <1>4, <3>1, <3>2
    <3>4. p \in Ways(c, head)
      BY <1>2, <3>2, <3>3, Zenon
    <3> QED BY <2>2, <3>4
  <2> QED BY <2>1, <2>2
<1>6. ASSUME NEW p \in Ways(c, head)
      PROVE  EndOf(c, head, p) = EndTo(c, n, head, p)
  <2>1. p \in [1..n -> Nat]
    BY <1>5 DEF WaysTo
  <2>2. Len(p) = n /\ (p = <<>> <=> n = 0)
    BY <1>1, <2>1
  <2> QED BY <2>2, Zenon DEF EndOf, EndTo
<1>7. Ways(c, head) = WaysTo(c, n, head)
  BY <1>5, Zenon
<1> QED
  BY <1>6, <1>7, Zenon DEF n

LEMMA CoversByWay ==
  ASSUME NEW c, IsRule(c), NEW head
  PROVE  CoversTest(c, head)
           <=> \E p \in WaysTo(c, Len(c.prefix), head) : \E q \in 1..Len(c.last) :
                 c.last[q] = EndTo(c, Len(c.prefix), head, p)
<1>1. DOMAIN c.last = 1..Len(c.last)
  BY RuleTypes
<1>2. /\ Ways(c, head) = WaysTo(c, Len(c.prefix), head)
      /\ \A p \in Ways(c, head) : EndOf(c, head, p) = EndTo(c, Len(c.prefix), head, p)
  BY WaysAreWaysTo
<1> QED
  BY <1>1, <1>2, Zenon DEF CoversTest

(* What the semi-joins ask of the bindings is whether the rule covers a test. *)
LEMMA BoundCovers ==
  ASSUME NEW c, IsRule(c), NEW rows \in Seq(Value), NEW bs,
         Bound(c, Len(c.prefix), rows, bs), NEW i \in 1..Len(rows)
  PROVE  CoversTest(c, rows[i])
           <=> \E b \in 1..Len(bs) : \E q \in 1..Len(c.last) :
                 bs[b].head = rows[i] /\ bs[b].key = c.last[q]
<1> DEFINE n == Len(c.prefix)
           P == Paths(c, n, rows)
<1>1. PICK w : Binds(w, c, n, rows, bs)
  BY DEF Bound
<1>2. /\ \A b \in 1..Len(bs) : /\ w[b] \in P
                               /\ bs[b].head = rows[w[b][1]]
                               /\ bs[b].key = EndTo(c, n, rows[w[b][1]], w[b][2])
      /\ \A x \in P : \E b \in 1..Len(bs) : w[b] = x
  <2>1. /\ w \in Seq(P) /\ Len(w) = Len(bs)
        /\ \A b \in 1..Len(bs) : bs[b] = BindingOf(c, n, rows, w[b])
        /\ \A x \in P : \E b \in 1..Len(bs) : w[b] = x
    BY <1>1 DEF Binds, Lists
  <2>2. \A b \in 1..Len(bs) : w[b] \in P
    <3> HIDE DEF P
    <3> QED BY <2>1
  <2>3. ASSUME NEW b \in 1..Len(bs)
        PROVE  bs[b].head = rows[w[b][1]] /\ bs[b].key = EndTo(c, n, rows[w[b][1]], w[b][2])
    <3> DEFINE h == rows[w[b][1]]
               k == EndTo(c, n, rows[w[b][1]], w[b][2])
    <3>1. bs[b] = [head |-> h, key |-> k]
      BY <2>1, Zenon DEF BindingOf
    <3> HIDE DEF h, k
    <3>2. bs[b].head = h /\ bs[b].key = k
      BY <3>1
    <3> QED BY <3>2 DEF h, k
  <2> QED BY <2>1, <2>2, <2>3
<1>3. \A x : x \in P <=> /\ x \in Nat \X [1..n -> Nat] /\ x[1] \in 1..Len(rows)
                         /\ x[2] \in WaysTo(c, n, rows[x[1]])
  BY DEF Paths
<1>4. CoversTest(c, rows[i])
        <=> \E p \in WaysTo(c, n, rows[i]) : \E q \in 1..Len(c.last) : c.last[q] = EndTo(c, n, rows[i], p)
  BY CoversByWay
<1>5. WaysTo(c, n, rows[i]) \subseteq [1..n -> Nat]
  BY DEF WaysTo
<1> HIDE DEF P, n
<1>6. ASSUME NEW p \in WaysTo(c, n, rows[i]), NEW q \in 1..Len(c.last),
             c.last[q] = EndTo(c, n, rows[i], p)
      PROVE  \E b \in 1..Len(bs) : bs[b].head = rows[i] /\ bs[b].key = c.last[q]
  <2> DEFINE x == <<i, p>>
  <2>1. x[1] = i /\ x[2] = p /\ x \in Nat \X [1..n -> Nat]
    BY <1>5
  <2> HIDE DEF x
  <2>2. x \in P
    BY <1>3, <2>1
  <2>3. PICK b \in 1..Len(bs) : w[b] = x
    BY <1>2, <2>2
  <2>4. bs[b].head = rows[i] /\ bs[b].key = EndTo(c, n, rows[i], p)
    BY <1>2, <2>1, <2>3, Zenon
  <2> QED BY <1>6, <2>4
<1>7. ASSUME NEW b \in 1..Len(bs), NEW q \in 1..Len(c.last),
             bs[b].head = rows[i], bs[b].key = c.last[q]
      PROVE  \E p \in WaysTo(c, n, rows[i]) : c.last[q] = EndTo(c, n, rows[i], p)
  <2>1. /\ w[b][2] \in WaysTo(c, n, rows[w[b][1]]) /\ rows[w[b][1]] = rows[i]
        /\ bs[b].key = EndTo(c, n, rows[w[b][1]], w[b][2])
    BY <1>2, <1>3, <1>7
  <2>2. w[b][2] \in WaysTo(c, n, rows[i]) /\ c.last[q] = EndTo(c, n, rows[i], w[b][2])
    BY <1>7, <2>1, Zenon
  <2> QED BY <2>2, Zenon
<1> QED
  BY <1>4, <1>6, <1>7, Zenon

(* When no binding is left, on the way to the last literal, nothing is covered. *)
LEMMA BoundNothing ==
  ASSUME NEW c, IsRule(c), NEW l \in Nat, l <= Len(c.prefix), NEW rows \in Seq(Value),
         Bound(c, l, rows, <<>>), NEW i \in 1..Len(rows)
  PROVE  ~CoversTest(c, rows[i])
<1> DEFINE P == Paths(c, l, rows)
<1>1. PICK w : Binds(w, c, l, rows, <<>>)
  BY DEF Bound
<1>2. Len(<<>>) = 0 /\ \A b \in 1..0 : FALSE
  OBVIOUS
<1>3. \A x \in P : FALSE
  BY <1>1, <1>2 DEF Binds, Lists
<1>4. Len(c.prefix) \in Nat
  BY RuleTypes
<1>5. ASSUME NEW p \in WaysTo(c, Len(c.prefix), rows[i])
      PROVE  FALSE
  <2>1. Back(l, p) \in WaysTo(c, l, rows[i])
    BY <1>4, WayBack
  <2>2. Back(l, p) \in [1..l -> Nat]
    BY <2>1 DEF WaysTo
  <2> DEFINE x == <<i, Back(l, p)>>
  <2>3. x[1] = i /\ x[2] = Back(l, p) /\ x \in Nat \X [1..l -> Nat]
    BY <2>2
  <2> HIDE DEF x
  <2>4. x \in P
    BY <2>1, <2>3 DEF Paths
  <2> QED BY <1>3, <2>4
<1> QED
  BY <1>5, CoversByWay, Zenon

(* There are as many bindings as ways, the number the reference counts. *)
LEMMA BoundCount ==
  ASSUME NEW c, NEW l, NEW rows, NEW bs, Bound(c, l, rows, bs)
  PROVE  Cardinality(Paths(c, l, rows)) = Len(bs)
BY ListedIsCounted, Zenon DEF Bound, Binds

IsInOneChunk(c, rows) ==
  \/ Cardinality(Paths(c, Len(c.prefix), rows)) <= ChunkSize
  \/ Cardinality(Paths(c, Len(c.prefix), rows)) < Len(c.last)

LEMMA TestedInOneChunk ==
  ASSUME NEW c, IsRule(c), NEW s, tests[s] \in Seq(Value), IsTestedInOneChunk(c, s)
  PROVE  IsInOneChunk(c, tests[s])
<1> DEFINE n == Len(c.prefix)
           rows == tests[s]
           P == Paths(c, n, rows)
           bindings == UNION {{<<i, way>> : way \in Ways(c, rows[i])} : i \in DOMAIN rows}
<1>3. DOMAIN rows = 1..Len(rows) /\ Len(rows) \in Nat
  OBVIOUS
<1>4. \A i : Ways(c, rows[i]) = WaysTo(c, n, rows[i]) /\ WaysTo(c, n, rows[i]) \subseteq [1..n -> Nat]
  <2>1. \A i : Ways(c, rows[i]) = WaysTo(c, n, rows[i])
    BY WaysAreWaysTo, Zenon
  <2> QED BY <2>1 DEF WaysTo
<1>5. ASSUME NEW x
      PROVE  x \in bindings <=> x \in P
  <2>1. ASSUME x \in bindings
        PROVE  x \in P
    <3>1. PICK i \in DOMAIN rows : x \in {<<i, way>> : way \in Ways(c, rows[i])}
      BY <2>1
    <3>2. PICK way \in Ways(c, rows[i]) : x = <<i, way>>
      BY <3>1
    <3>3. way \in WaysTo(c, n, rows[i]) /\ way \in [1..n -> Nat]
      BY <1>4
    <3>4. x[1] = i /\ x[2] = way /\ x \in Nat \X [1..n -> Nat] /\ i \in 1..Len(rows)
      BY <1>3, <3>2, <3>3
    <3> HIDE DEF n, rows
    <3> QED BY <3>3, <3>4 DEF Paths
  <2>2. ASSUME x \in P
        PROVE  x \in bindings
    <3>1. x \in Nat \X [1..n -> Nat] /\ x[1] \in 1..Len(rows) /\ x[2] \in WaysTo(c, n, rows[x[1]])
      BY <2>2 DEF Paths
    <3>2. x = <<x[1], x[2]>>
      BY <3>1
    <3>3. x[1] \in DOMAIN rows /\ x[2] \in Ways(c, rows[x[1]])
      BY <1>3, <1>4, <3>1
    <3> HIDE DEF n, rows
    <3>4. <<x[1], x[2]>> \in {<<x[1], way>> : way \in Ways(c, rows[x[1]])}
      BY <3>3, Zenon
    <3>5. \E i \in DOMAIN rows : x \in {<<i, way>> : way \in Ways(c, rows[i])}
      BY <3>2, <3>3, <3>4, Zenon
    <3> QED BY <3>5
  <2> QED BY <2>1, <2>2
<1> HIDE DEF P
<1>6. bindings = P
  BY <1>5, Zenon
<1>7. Cardinality(bindings) <= ChunkSize \/ Cardinality(bindings) < Len(c.last)
  BY Zenon DEF IsTestedInOneChunk
<1> QED
  BY <1>6, <1>7, Zenon DEF IsInOneChunk, P, n, rows

-----------------------------------------------------------------------------
LEMMA SameSize ==
  ASSUME NEW A, NEW B, IsFiniteSet(A), NEW g \in [A -> B], IsOneToOne(g, A, B)
  PROVE  IsFiniteSet(B) /\ Cardinality(B) = Cardinality(A)
<1>1. g \in Bijection(A, B)
  BY Zenon DEF IsOneToOne, Bijection, Injection, Surjection, IsInjective
<1>2. ExistsBijection(A, B)
  BY <1>1 DEF ExistsBijection
<1> QED
  BY <1>2, FS_Bijection

(* Positions in a set that are positions of the set's members in another one. *)
LEMMA PositionsOfPart ==
  ASSUME NEW K \in SUBSET Int, IsFiniteSet(K), NEW L \in SUBSET K
  PROVE  LET J == {j \in 1..Cardinality(K) : Nth(K, j) \in L}
         IN  /\ IsFiniteSet(J) /\ IsFiniteSet(L) /\ Cardinality(J) = Cardinality(L)
             /\ \A k \in 1..Cardinality(J) :
                  Nth(J, k) \in 1..Cardinality(K) /\ Nth(K, Nth(J, k)) = Nth(L, k)
<1> DEFINE c == Cardinality(K)
           J == {j \in 1..c : Nth(K, j) \in L}
<1>1. IsFiniteSet(L) /\ L \in SUBSET Int
  BY FS_Subset
<1>2. c \in Nat
  BY FS_CardinalityType
<1>3. IsFiniteSet(1..c) /\ J \subseteq 1..c /\ \A j \in J : Nth(K, j) \in L
  BY <1>2, FS_Interval
<1>4. IsFiniteSet(J) /\ J \in SUBSET Int
  <2>1. J \in SUBSET (1..c)
    BY <1>3
  <2>2. J \in SUBSET Int
    BY <1>2, <2>1
  <2> HIDE DEF J, c
  <2> QED BY <1>3, <2>1, <2>2, FS_Subset, Zenon
<1>5. \A j \in 1..c : Nth(K, j) \in K /\ Rank(K, Nth(K, j)) = j
  BY NthIsRanked
<1>6. \A i \in K : Rank(K, i) \in 1..c /\ Nth(K, Rank(K, i)) = i
  BY RankBounds, NthOfRank
<1>7. \A i \in L : Rank(K, i) \in J
  BY <1>6
<1>8. \A i \in 1..c : \A j \in 1..c : i <= j <=> Nth(K, i) <= Nth(K, j)
  <2>1. ASSUME NEW i \in 1..c, NEW j \in 1..c
        PROVE  i <= j <=> Nth(K, i) <= Nth(K, j)
    <3>1. Nth(K, i) \in Int /\ Nth(K, j) \in Int /\ i \in Int /\ j \in Int
      <4>1. Nth(K, i) \in K /\ Nth(K, j) \in K
        BY <1>5
      <4>2. \A x \in K : x \in Int
        BY Zenon
      <4>3. Nth(K, i) \in Int /\ Nth(K, j) \in Int
        BY <4>1, <4>2, Zenon
      <4> HIDE DEF c
      <4>4. i \in Int /\ j \in Int
        BY <1>2
      <4> QED BY <4>3, <4>4, Zenon
    <3>2. i < j => Nth(K, i) < Nth(K, j)
      BY NthInOrder
    <3>3. j < i => Nth(K, j) < Nth(K, i)
      BY NthInOrder
    <3>4. i = j => Nth(K, i) = Nth(K, j)
      OBVIOUS
    <3> HIDE DEF c
    <3> QED BY <3>1, <3>2, <3>3, <3>4
  <2> QED BY <2>1
<1> HIDE DEF J, c
<1>9. Cardinality(J) = Cardinality(L)
  <2> DEFINE g == [j \in J |-> Nth(K, j)]
  <2>1. \A j \in J : g[j] \in L
    BY <1>3
  <2>2. \A i \in J : \A j \in J : g[i] = g[j] => i = j
    BY <1>3, <1>5
  <2>3. \A x \in L : \E j \in J : g[j] = x
    BY <1>6, <1>7
  <2>4. g \in [J -> L]
    BY <2>1
  <2> HIDE DEF g
  <2>5. IsOneToOne(g, J, L)
    BY <2>1, <2>2, <2>3, Zenon DEF IsOneToOne
  <2> QED BY <1>4, <2>4, <2>5, SameSize
<1>10. ASSUME NEW j \in J
       PROVE  Nth(L, Rank(J, j)) = Nth(K, j)
  <2> DEFINE A == {i \in J : i <= j}
             B == {i \in L : i <= Nth(K, j)}
             g == [i \in A |-> Nth(K, i)]
  <2>1. \A i \in A : i \in 1..c /\ i \in J
    BY <1>3
  <2>2. \A i \in A : g[i] \in B
    BY <1>3, <1>8
  <2>3. \A i \in A : \A k \in A : g[i] = g[k] => i = k
    BY <1>5, <2>1
  <2>4. ASSUME NEW x \in B
        PROVE  \E i \in A : g[i] = x
    <3>1. Rank(K, x) \in J /\ Nth(K, Rank(K, x)) = x
      BY <1>6, <1>7
    <3>2. Rank(K, x) \in A
      BY <1>3, <1>8, <3>1
    <3> QED BY <3>1, <3>2
  <2>5. IsFiniteSet(A)
    <3>1. A \subseteq J
      OBVIOUS
    <3> HIDE DEF A
    <3> QED BY <1>4, <3>1, FS_Subset
  <2>6. g \in [A -> B]
    BY <2>2
  <2>7. Rank(J, j) = Cardinality(A) /\ Rank(L, Nth(K, j)) = Cardinality(B)
    BY DEF Rank
  <2> HIDE DEF A, B, g
  <2>8. IsOneToOne(g, A, B)
    BY <2>2, <2>3, <2>4, Zenon DEF IsOneToOne
  <2>9. Rank(L, Nth(K, j)) = Rank(J, j)
    BY <2>5, <2>6, <2>7, <2>8, SameSize
  <2>10. Nth(K, j) \in L
    BY <1>3
  <2> QED BY <1>1, <2>9, <2>10, NthOfRank
<1>11. ASSUME NEW k \in 1..Cardinality(J)
       PROVE  Nth(J, k) \in 1..c /\ Nth(K, Nth(J, k)) = Nth(L, k)
  <2>1. Nth(J, k) \in J /\ Rank(J, Nth(J, k)) = k
    BY <1>4, NthIsRanked
  <2> QED BY <1>3, <1>10, <2>1
<1> QED
  BY <1>1, <1>4, <1>9, <1>11, Zenon DEF J, c

(* Rows of a selection are a selection of the rows. *)
LEMMA SelectedTwice ==
  ASSUME NEW T, NEW rows \in Seq(T), NEW K \in SUBSET (1..Len(rows)), NEW L \in SUBSET K
  PROVE  RowsIn(RowsIn(rows, K), {j \in 1..Cardinality(K) : Nth(K, j) \in L}) = RowsIn(rows, L)
<1> DEFINE J == {j \in 1..Cardinality(K) : Nth(K, j) \in L}
           r == RowsIn(rows, K)
<1>1. /\ IsFiniteSet(K) /\ r \in Seq(T) /\ Len(r) = Cardinality(K)
      /\ \A k \in 1..Cardinality(K) : r[k] = rows[Nth(K, k)]
  BY RowsInType
<1>2. K \in SUBSET Int
  OBVIOUS
<1>3. /\ Cardinality(J) = Cardinality(L)
      /\ \A k \in 1..Cardinality(J) :
           Nth(J, k) \in 1..Cardinality(K) /\ Nth(K, Nth(J, k)) = Nth(L, k)
  BY <1>1, <1>2, PositionsOfPart
<1> HIDE DEF J, r
<1>4. ASSUME NEW k \in 1..Cardinality(L)
      PROVE  r[Nth(J, k)] = rows[Nth(L, k)]
  BY <1>1, <1>3
<1>5. [k \in 1..Cardinality(L) |-> r[Nth(J, k)]] = [k \in 1..Cardinality(L) |-> rows[Nth(L, k)]]
  BY <1>4
<1>6. RowsIn(r, J) = RowsIn(rows, L)
  BY <1>3, <1>5, Zenon DEF RowsIn
<1> QED
  BY <1>6 DEF J, r

-----------------------------------------------------------------------------
(* The run of the tests.  The inductive invariant says which variable has which
   type when; that the rule that is tested is joined as far as the bindings say;
   that the semi-joins were called with these bindings, the last literal and the
   tests left; and that the tests that are left again are those looked up so far
   that were not found.                                                    *)
RunTypes ==
  /\ test \in Test /\ file = test.file
  /\ pc \in {"load", "clause", "extend", "reported", "dead"} \cup Joining
  /\ side \in Side /\ tests \in [Side -> Seq(Value)]
  /\ clause \in 0..Len(test.clauses) /\ literal \in Nat
  /\ bindingSet \in Seq(Binding) /\ uncovered \in Seq(Value)
  /\ numCovered \in [Side -> Nat] /\ \A s \in Side : numCovered[s] <= Len(tests[s])
  /\ pc = "load" => tests = NoTests /\ side = "positive"
  /\ pc \notin {"load", "dead"} => loading = "loaded"

RunRule ==
  /\ pc = "extend" \/ pc \in Joining => clause \in 1..Len(test.clauses)
  /\ pc = "extend" => literal <= Len(Clause.prefix)
  /\ pc = "extend" /\ tests[side] # <<>> =>
       bindingSet # <<>> /\ Bound(Clause, literal, tests[side], bindingSet)
  /\ pc \in Joining =>
       bindingSet # <<>> /\ given = CallFor(Clause.last, bindingSet, given.global)
  /\ pc \in Joining /\ tests[side] # <<>> =>
       Bound(Clause, Len(Clause.prefix), tests[side], bindingSet)

NotFoundUpTo(t, rows, heads, o) == {i \in 1..Len(heads) : i <= o /\ ~IsFound(t, rows, heads[i])}

RunLeft ==
  /\ pc \in {"clause", "extend"} => Len(uncovered) <= Len(tests[side])
  /\ pc \in Joining => /\ given.global \in Seq(Value)
                       /\ Len(given.global) <= Len(tests[side])
  /\ pc \in Joining /\ pc # "cover" => uncovered = <<>>
  /\ pc = "cover" => uncovered = RowsIn(Examples, NotFoundUpTo(coverageTable, Rows, Examples, offset))

RunInv == JoinInv /\ HeadsInv /\ RunTypes /\ RunRule /\ RunLeft

(* The tests of a side that none of the first rules covers. *)
NotCovered(clauses, rows, k) ==
  {i \in 1..Len(rows) : \A c \in 1..k : ~CoversTest(clauses[c], rows[i])}
Left(clauses, rows, k) == RowsIn(rows, NotCovered(clauses, rows, k))

InOneChunk(clauses, rows) == \A c \in 1..Len(clauses) : IsInOneChunk(clauses[c], rows)

LeftExact ==
  InOneChunk(test.clauses, tests[side]) =>
    /\ pc = "clause" => uncovered = Left(test.clauses, tests[side], clause)
    /\ pc = "extend" => uncovered = Left(test.clauses, tests[side], clause - 1)
    /\ pc \in Joining => given.global = Left(test.clauses, tests[side], clause - 1)

CountedExact ==
  \A s \in Side :
    /\ pc = "reported" \/ (side = "negative" /\ s = "positive")
    /\ InOneChunk(test.clauses, tests[s])
    => numCovered[s] = Len(tests[s]) - Len(Left(test.clauses, tests[s], Len(test.clauses)))

NoRowLost == \A i \in DOMAIN buffer : buffer[i] # Lost

(* Which row of the file a test is. *)
RowOf(s, i) == IF s = "positive" THEN i ELSE test.numTestPositive + i

TestsAreRows ==
  pc \notin {"load", "dead"} /\ NoRowLost =>
    \A s \in Side :
      /\ \A i \in 1..Len(tests[s]) : /\ RowOf(s, i) \in 1..numLines
                                     /\ tests[s][i] = file[buffer[RowOf(s, i)]]
      /\ \A r \in 1..numLines :
           (s = "positive" <=> r <= test.numTestPositive) => \E i \in 1..Len(tests[s]) : RowOf(s, i) = r
      /\ s = "positive" => Len(tests[s]) <= test.numTestPositive

-----------------------------------------------------------------------------
LEMMA TestTypes ==
  ASSUME NEW t \in Test
  PROVE  /\ t.file \in File /\ t.file \in Seq(Nat) /\ Len(t.file) \in Nat
         /\ \A n \in 1..Len(t.file) : t.file[n] \in Nat /\ (t.file[n] # 0 => t.file[n] \in Value)
         /\ t.numTestPositive \in Nat \ {0}
         /\ t.numTestPositive <= RowNumber(t.file, Len(t.file))
         /\ Len(t.clauses) \in Nat /\ DOMAIN t.clauses = 1..Len(t.clauses)
         /\ \A c \in 1..Len(t.clauses) : IsRule(t.clauses[c])
<1>1. /\ t.file \in File /\ \A n \in DOMAIN t.file : t.file[n] \in Value \cup {0}
      /\ t.numTestPositive \in 1..Cardinality({n \in DOMAIN t.file : t.file[n] # 0})
      /\ t.clauses \in Seq([prefix : Seq(Seq(Fact) \ {<<>>}), last : Seq(Value) \ {<<>>}])
  BY TestAssumption
<1>2. t.file \in Seq(Nat)
  BY <1>1, LoadAssumption
<1>3. DOMAIN t.file = 1..Len(t.file) /\ Len(t.file) \in Nat /\ \A n \in 1..Len(t.file) : t.file[n] \in Nat
  BY <1>2
<1>4. RowNumber(t.file, Len(t.file)) = Cardinality({n \in DOMAIN t.file : t.file[n] # 0})
  BY <1>3, Zenon DEF RowNumber, IsRow
<1>5. RowNumber(t.file, Len(t.file)) \in Nat
  BY <1>3, RowNumberGrows
<1>6. t.numTestPositive \in Nat \ {0} /\ t.numTestPositive <= RowNumber(t.file, Len(t.file))
  BY <1>1, <1>4, <1>5
<1>7. Len(t.clauses) \in Nat /\ DOMAIN t.clauses = 1..Len(t.clauses)
  BY <1>1
<1>8. ASSUME NEW c \in 1..Len(t.clauses)
      PROVE  IsRule(t.clauses[c])
  <2> DEFINE R == [prefix : Seq(Seq(Fact) \ {<<>>}), last : Seq(Value) \ {<<>>}]
             cs == t.clauses
  <2>1. cs \in Seq(R) /\ c \in 1..Len(cs)
    BY <1>1
  <2>2. cs[c] \in R
    <3> HIDE DEF R, cs
    <3> QED BY <2>1, ElementOfSeq, Zenon
  <2> QED BY <2>2 DEF IsRule
<1> QED
  BY <1>1, <1>2, <1>3, <1>6, <1>7, <1>8

(* Where no semi-join goes on afterwards there is nothing to say of its tables. *)
LEMMA Quiet ==
  ASSUME JoinInv, pc # "insert", pc' \notin Joining, offset' \in Nat,
         UNCHANGED <<backgroundTable, clauseTable, coverageTable, positiveTable, chunk>>
  PROVE  JoinInv' /\ HeadsInv'
<1>1. pc' \notin {"bind", "insert", "cover"}
  BY DEF Joining
<1> QED
  BY <1>1, NotJoining DEF HeadsInv

LEMMA RunInit ==
  ASSUME TestsInit, LoadInit,
         tests = NoTests, clause = 0, literal = 0, bindingSet = <<>>,
         numCovered = [s \in Side |-> 0]
  PROVE  RunInv
<1>1. /\ test \in Test /\ file = test.file /\ pc = "load" /\ side = "positive"
      /\ backgroundTable = NoTable /\ clauseTable = NoTable
      /\ coverageTable = NoTable /\ positiveTable = NoTable
      /\ offset = 0 /\ chunk = NoChunk /\ uncovered = <<>>
  BY DEF TestsInit
<1>2. Len(test.clauses) \in Nat
  BY <1>1, TestTypes
<1>3. RunTypes
  BY <1>1, <1>2 DEF RunTypes, NoTests, Side
<1>4. pc \notin Joining
  BY <1>1 DEF Joining
<1>5. RunRule /\ RunLeft
  BY <1>1, <1>4 DEF RunRule, RunLeft
<1>6. JoinInv
  <2>1. TypeInv /\ AllSound
    BY <1>1, <1>4 DEF TypeInv, AllSound, IsSound
  <2>2. BackgroundInv /\ ClauseInv /\ CoverageTableInv
    BY <1>1, <1>4 DEF BackgroundInv, ClauseInv, CoverageTableInv
  <2>3. ChunkInv
    BY <1>1, NoChunkIsChunk DEF ChunkInv
  <2> QED BY <2>1, <2>2, <2>3 DEF JoinInv
<1>7. HeadsInv
  BY <1>1 DEF HeadsInv
<1> QED
  BY <1>3, <1>5, <1>6, <1>7 DEF RunInv

LEMMA RunLoadTests ==
  ASSUME RunInv, LoadTests
  PROVE  RunInv'
<1>1. /\ pc = "load" /\ pc' \in {"load", "dead"} /\ file' = file
      /\ UNCHANGED <<given, side, backgroundTable, clauseTable, coverageTable, positiveTable,
                     offset, chunk, covered, uncovered>>
      /\ UNCHANGED <<caller, test, tests, clause, literal, bindingSet, numCovered>>
  BY DEF LoadTests, LoadNext, ReadLine, DieInAllocator, EndOfFile, semiJoinVars, testVars
<1>2. pc \notin Joining /\ pc' \notin Joining
  BY <1>1 DEF Joining
<1>3. JoinInv' /\ HeadsInv'
  <2>1. offset' \in Nat
    BY <1>1 DEF RunInv, JoinInv, TypeInv
  <2> QED BY <1>1, <1>2, <2>1, Quiet DEF RunInv
<1>4. RunTypes'
  BY <1>1 DEF RunInv, RunTypes
<1>5. RunRule' /\ RunLeft'
  BY <1>1, <1>2 DEF RunRule, RunLeft
<1> QED
  BY <1>3, <1>4, <1>5 DEF RunInv

(* main divides the rows: the first p are the positive tests. *)
IsDivided(ts, rows, p, n) ==
  /\ ts \in [Side -> Seq(Value)]
  /\ Len(ts["positive"]) = p /\ Len(ts["negative"]) = n - p
  /\ \A i \in 1..p : ts["positive"][i] = rows[i]
  /\ \A i \in 1 .. n - p : ts["negative"][i] = rows[p + i]

LEMMA RowsAreDivided ==
  ASSUME NEW rows \in Seq(Value), NEW p \in Nat \ {0}, p <= Len(rows),
         NEW ts, ts = [s \in Side |-> IF s = "positive" THEN SubSeq(rows, 1, p)
                                      ELSE SubSeq(rows, p + 1, Len(rows))]
  PROVE  IsDivided(ts, rows, p, Len(rows))
<1> DEFINE n == Len(rows)
<1>1. n \in Nat /\ p + 1 \in Int /\ n \in Int /\ p \in Int /\ 1 \in Int /\ p <= n
  OBVIOUS
<1>2. \A i \in 1..n : rows[i] \in Value
  OBVIOUS
<1>3. (\A i \in 1..p : i \in 1..n) /\ (\A i \in p + 1 .. n : i \in 1..n)
  BY <1>1
<1> HIDE DEF n
<1>4. /\ SubSeq(rows, 1, p) \in Seq(Value)
      /\ Len(SubSeq(rows, 1, p)) = IF 1 <= p THEN p - 1 + 1 ELSE 0
      /\ \A i \in 1 .. p - 1 + 1 : SubSeq(rows, 1, p)[i] = rows[1 + i - 1]
  BY <1>1, <1>2, <1>3, SubSeqProperties
<1>5. /\ SubSeq(rows, p + 1, n) \in Seq(Value)
      /\ Len(SubSeq(rows, p + 1, n)) = IF p + 1 <= n THEN n - (p + 1) + 1 ELSE 0
      /\ \A i \in 1 .. n - (p + 1) + 1 : SubSeq(rows, p + 1, n)[i] = rows[p + 1 + i - 1]
  BY <1>1, <1>2, <1>3, SubSeqProperties
<1>6. /\ p - 1 + 1 = p /\ n - (p + 1) + 1 = n - p
      /\ (IF 1 <= p THEN p - 1 + 1 ELSE 0) = p
      /\ (IF p + 1 <= n THEN n - (p + 1) + 1 ELSE 0) = n - p
      /\ \A i \in Int : 1 + i - 1 = i /\ p + 1 + i - 1 = p + i
  BY <1>1
<1>7. ts["positive"] = SubSeq(rows, 1, p) /\ ts["negative"] = SubSeq(rows, p + 1, n)
      /\ ts \in [Side -> {SubSeq(rows, 1, p), SubSeq(rows, p + 1, n)}]
  BY DEF Side, n
<1>8. ts \in [Side -> Seq(Value)]
  <2>1. \A s \in Side : ts[s] \in Seq(Value)
    BY <1>4, <1>5, <1>7
  <2> QED BY <1>7, <2>1
<1>9. \A i \in 1..p : ts["positive"][i] = rows[i]
  <2> TAKE i \in 1..p
  <2>1. i \in Int /\ i \in 1 .. p - 1 + 1
    BY <1>1
  <2> QED BY <1>4, <1>6, <1>7, <2>1, Zenon
<1>10. \A i \in 1 .. n - p : ts["negative"][i] = rows[p + i]
  <2> TAKE i \in 1 .. n - p
  <2>1. i \in Int /\ i \in 1 .. n - (p + 1) + 1
    BY <1>1
  <2> QED BY <1>5, <1>6, <1>7, <2>1, Zenon
<1> QED
  BY <1>4, <1>5, <1>6, <1>7, <1>8, <1>9, <1>10, Zenon DEF IsDivided, n

LEMMA ViewsAreRows ==
  ASSUME LoadInv, test \in Test, file = test.file, CreateTestTableViews
  PROVE  \E rows : /\ IsDivided(tests', rows, test.numTestPositive, numLines)
                   /\ NoRowLost => \A i \in 1..numLines : rows[i] = file[buffer[i]]
<1> DEFINE missing == {i \in DOMAIN buffer : buffer[i] = Lost}
           AsRows(lost) == [i \in 1..numLines |-> IF buffer[i] = Lost THEN lost[i] ELSE file[buffer[i]]]
<1>1. PICK lost \in [missing -> Value] :
        tests' = [s \in Side |->
          IF s = "positive" THEN SubSeq(AsRows(lost), 1, test.numTestPositive)
          ELSE SubSeq(AsRows(lost), test.numTestPositive + 1, numLines)]
  BY Zenon DEF CreateTestTableViews
<1>2. /\ loading = "loaded" /\ read = Len(file) /\ numLines \in Nat
      /\ numLines = RowNumber(file, read) /\ DOMAIN buffer = 1..numLines
      /\ \A i \in 1..numLines : buffer[i] = Lost \/ (buffer[i] \in 1..read /\ file[buffer[i]] # 0)
  BY DEF CreateTestTableViews, LoadInv, RowsAreLoaded, IsRow
<1>3. /\ test.numTestPositive \in Nat \ {0} /\ test.numTestPositive <= numLines
      /\ \A n \in 1..Len(file) : file[n] # 0 => file[n] \in Value
  BY <1>2, TestTypes
<1> DEFINE rows == AsRows(lost)
<1>4. \A i \in 1..numLines : rows[i] \in Value
  <2> TAKE i \in 1..numLines
  <2>1. CASE buffer[i] = Lost
    <3>1. i \in missing /\ rows[i] = lost[i]
      BY <1>2, <2>1
    <3> QED BY <3>1
  <2>2. CASE buffer[i] # Lost
    BY <1>2, <1>3, <2>2
  <2> QED BY <2>1, <2>2
<1>5. rows \in Seq(Value) /\ Len(rows) = numLines
  BY <1>2, <1>4
<1>6. NoRowLost => \A i \in 1..numLines : rows[i] = file[buffer[i]]
  BY <1>2 DEF NoRowLost
<1> HIDE DEF AsRows
<1>7. IsDivided(tests', rows, test.numTestPositive, numLines)
  BY <1>1, <1>3, <1>5, RowsAreDivided
<1> QED
  BY <1>6, <1>7

LEMMA RunViews ==
  ASSUME LoadInv, RunInv, CreateTestTableViews
  PROVE  RunInv'
<1>1. /\ pc = "load" /\ pc' = "clause" /\ side' = "positive" /\ clause' = 0
      /\ uncovered' = tests'["positive"] /\ loading = "loaded"
      /\ UNCHANGED <<given, backgroundTable, clauseTable, coverageTable, positiveTable, offset,
                     chunk, file, loading, test, literal, bindingSet, numCovered>>
  BY DEF CreateTestTableViews, BeginSide, loadVars
<1>2. pc \notin Joining /\ pc' \notin Joining
  BY <1>1 DEF Joining
<1>3. JoinInv' /\ HeadsInv'
  <2>1. offset' \in Nat
    BY <1>1 DEF RunInv, JoinInv, TypeInv
  <2> QED BY <1>1, <1>2, <2>1, Quiet DEF RunInv
<1>4. /\ test \in Test /\ file = test.file /\ tests = NoTests
      /\ numCovered \in [Side -> Nat] /\ \A s \in Side : numCovered[s] <= Len(tests[s])
      /\ bindingSet \in Seq(Binding) /\ literal \in Nat
  BY <1>1 DEF RunInv, RunTypes
<1>5. PICK rows : IsDivided(tests', rows, test.numTestPositive, numLines)
  BY <1>4, ViewsAreRows
<1>6. tests' \in [Side -> Seq(Value)] /\ "positive" \in Side
  BY <1>5 DEF IsDivided, Side
<1>7. uncovered' \in Seq(Value) /\ Len(uncovered') <= Len(tests'[side'])
  BY <1>1, <1>6
<1>8. \A s \in Side : numCovered'[s] <= Len(tests'[s])
  <2> TAKE s \in Side
  <2>1. numCovered[s] = 0
    BY <1>4 DEF NoTests
  <2>2. tests'[s] \in Seq(Value)
    BY <1>6
  <2>3. Len(tests'[s]) \in Nat
    BY <2>2
  <2> QED BY <1>1, <2>1, <2>3
<1>9. Len(test.clauses) \in Nat
  BY <1>4, TestTypes
<1>10. RunTypes'
  BY <1>1, <1>4, <1>6, <1>7, <1>8, <1>9 DEF RunTypes
<1>11. RunRule' /\ RunLeft'
  BY <1>1, <1>2, <1>7 DEF RunRule, RunLeft
<1> QED
  BY <1>3, <1>10, <1>11 DEF RunInv

(* A step between the semi-joins leaves them and the tests alone. *)
LEMMA BetweenSemiJoins ==
  ASSUME RunInv, pc # "insert", pc \notin {"load", "dead"},
         pc' \in {"clause", "extend", "reported", "dead"},
         UNCHANGED <<semiJoinVars, loadVars, caller, test, tests, numCovered>>,
         clause' \in 0..Len(test.clauses), literal' \in Nat,
         bindingSet' \in Seq(Binding), uncovered' \in Seq(Value)
  PROVE  JoinInv' /\ HeadsInv' /\ RunTypes'
<1>1. /\ UNCHANGED <<given, side, backgroundTable, clauseTable, coverageTable, positiveTable,
                     offset, chunk, covered>>
      /\ UNCHANGED <<test, tests, numCovered, file, loading>>
  BY DEF semiJoinVars, loadVars
<1>2. pc' \notin Joining
  BY DEF Joining
<1>3. JoinInv' /\ HeadsInv'
  <2>1. offset' \in Nat
    BY <1>1 DEF RunInv, JoinInv, TypeInv
  <2> QED BY <1>1, <1>2, <2>1, Quiet DEF RunInv
<1>4. RunTypes'
  BY <1>1 DEF RunInv, RunTypes
<1> QED
  BY <1>3, <1>4

LEMMA TakenTests ==
  ASSUME NEW rows \in Seq(Value), rows # <<>>
  PROVE  AsBindings(rows) # <<>>
<1>1. DOMAIN rows # {}
  <2>1. DOMAIN rows = 1..Len(rows) /\ Len(rows) \in Nat /\ Len(rows) # 0
    BY EmptySeq
  <2>2. 1 \in DOMAIN rows
    BY <2>1
  <2> QED BY <2>2
<1>2. DOMAIN AsBindings(rows) = DOMAIN rows
  BY DEF AsBindings
<1>3. DOMAIN <<>> = {}
  OBVIOUS
<1> QED
  BY <1>1, <1>2, <1>3, Zenon

LEMMA RunTakeClause ==
  ASSUME RunInv, TakeClause
  PROVE  RunInv'
<1>1. /\ pc = "clause" /\ pc' = "extend" /\ clause < Len(test.clauses) /\ clause' = clause + 1
      /\ literal' = 0 /\ bindingSet' = AsBindings(tests[side])
      /\ UNCHANGED <<semiJoinVars, uncovered, loadVars, caller, test, tests, numCovered>>
      /\ UNCHANGED side
  BY DEF TakeClause, semiJoinVars
<1>2. /\ test \in Test /\ side \in Side /\ tests[side] \in Seq(Value) /\ uncovered \in Seq(Value)
      /\ clause \in 0..Len(test.clauses) /\ Len(uncovered) <= Len(tests[side])
  BY <1>1 DEF RunInv, RunTypes, RunLeft
<1>3. clause' \in 1..Len(test.clauses) /\ IsRule(test.clauses[clause'])
  BY <1>1, <1>2, TestTypes
<1>4. 0 <= Len(test.clauses[clause'].prefix)
  BY <1>3, RuleTypes
<1>5. Bound(test.clauses[clause'], 0, tests[side], bindingSet')
  BY <1>1, <1>2, BoundFirst
<1>6. bindingSet' \in Seq(Binding)
  BY <1>5 DEF Bound
<1>7. tests[side] # <<>> => bindingSet' # <<>>
  BY <1>1, <1>2, TakenTests
<1>8. JoinInv' /\ HeadsInv' /\ RunTypes'
  <2>1. pc # "insert" /\ pc \notin {"load", "dead"} /\ clause' \in 0..Len(test.clauses)
    BY <1>1, <1>3
  <2> QED BY <1>1, <1>2, <1>6, <2>1, BetweenSemiJoins
<1>9. Clause' = test.clauses[clause'] /\ tests'[side'] = tests[side] /\ test' = test
  BY <1>1 DEF Clause
<1>10. pc' \notin Joining
  BY <1>1 DEF Joining
<1>11. RunRule'
  BY <1>1, <1>3, <1>4, <1>5, <1>7, <1>9, <1>10 DEF RunRule
<1>12. RunLeft'
  BY <1>1, <1>2, <1>9, <1>10 DEF RunLeft
<1> QED
  BY <1>8, <1>11, <1>12 DEF RunInv

(* What a join may give. *)
LEMMA ExtendedBy ==
  ASSUME NEW rows \in Seq(Binding), NEW facts \in Seq(Fact), NEW t \in Extended(rows, facts)
  PROVE  t \in Seq(Binding) /\ (rows # <<>> => t = Joined(rows, facts))
<1>1. ASSUME rows # <<>>
      PROVE  t = Joined(rows, facts)
  <2>1. t \in {Joined(rows, facts)}
    BY <1>1 DEF Extended
  <2> QED BY <2>1, Zenon
<1>2. Joined(rows, facts) \in Seq(Binding)
  BY JoinedIsJoined, Zenon DEF IsJoined
<1>3. ASSUME rows = <<>>
      PROVE  t \in Seq(Binding)
  <2> DEFINE Some(v, f) == [head |-> v, key |-> facts[f].to]
  <2>1. t \in {<<>>} \cup {<<Some(v, f)>> : v \in Value, f \in DOMAIN facts}
    BY <1>3 DEF Extended
  <2>2. \A v \in Value : \A f \in DOMAIN facts : Some(v, f) \in Binding
    <3>1. \A f \in DOMAIN facts : facts[f] \in Fact
      OBVIOUS
    <3> QED BY <3>1 DEF Binding, Fact
  <2> HIDE DEF Some
  <2>3. t = <<>> \/ \E v \in Value : \E f \in DOMAIN facts : t = <<Some(v, f)>>
    BY <2>1
  <2>4. <<>> \in Seq(Binding) /\ \A b \in Binding : <<b>> \in Seq(Binding)
    OBVIOUS
  <2> QED BY <2>2, <2>3, <2>4, Zenon
<1> QED
  BY <1>1, <1>2, <1>3, Zenon

LEMMA RunCreateBindingTable ==
  ASSUME RunInv, CreateBindingTable
  PROVE  /\ RunInv' /\ IsRule(Clause) /\ literal' \in Nat /\ literal' <= Len(Clause.prefix)
         /\ tests[side] # <<>> => Bound(Clause, literal', tests[side], bindingSet')
<1>1. /\ pc = "extend" /\ pc' \in {"clause", "extend"} /\ literal < Len(Clause.prefix)
      /\ literal' = literal + 1
      /\ bindingSet' \in Extended(bindingSet, Clause.prefix[literal + 1])
      /\ pc' = "extend" <=> bindingSet' # <<>>
      /\ UNCHANGED <<semiJoinVars, uncovered, loadVars, caller, test, tests, clause, numCovered>>
      /\ UNCHANGED <<side, test, clause>>
  BY DEF CreateBindingTable, semiJoinVars, NothingLeft
<1>2. /\ test \in Test /\ side \in Side /\ tests[side] \in Seq(Value) /\ uncovered \in Seq(Value)
      /\ clause \in 0..Len(test.clauses) /\ clause \in 1..Len(test.clauses) /\ literal \in Nat
      /\ bindingSet \in Seq(Binding) /\ Len(uncovered) <= Len(tests[side])
      /\ tests[side] # <<>> => bindingSet # <<>> /\ Bound(Clause, literal, tests[side], bindingSet)
  BY <1>1 DEF RunInv, RunTypes, RunRule, RunLeft
<1>3. IsRule(Clause) /\ Clause' = Clause
  BY <1>1, <1>2, TestTypes DEF Clause
<1> DEFINE facts == Clause.prefix[literal + 1]
<1>4. /\ literal + 1 \in 1..Len(Clause.prefix) /\ literal + 1 <= Len(Clause.prefix)
      /\ facts \in Seq(Fact)
  <2>1. Len(Clause.prefix) \in Nat
    BY <1>3, RuleTypes
  <2>2. literal + 1 \in 1..Len(Clause.prefix)
    BY <1>1, <1>2, <2>1
  <2>3. literal + 1 <= Len(Clause.prefix)
    BY <2>1, <2>2
  <2>4. facts \in Seq(Fact)
    BY <1>3, <2>2, RuleTypes, Zenon
  <2> QED BY <2>2, <2>3, <2>4
<1>5. bindingSet' \in Seq(Binding) /\ (bindingSet # <<>> => bindingSet' = Joined(bindingSet, facts))
  BY <1>1, <1>2, <1>4, ExtendedBy, Zenon
<1>6. tests[side] # <<>> =>
        /\ bindingSet' = Joined(bindingSet, facts)
        /\ Bound(Clause, literal', tests[side], bindingSet')
  <2>1. SUFFICES ASSUME tests[side] # <<>>
                 PROVE  /\ bindingSet' = Joined(bindingSet, facts)
                        /\ Bound(Clause, literal', tests[side], bindingSet')
    OBVIOUS
  <2>2. bindingSet' = Joined(bindingSet, facts)
    BY <1>2, <1>5, <2>1, Zenon
  <2>3. Bound(Clause, literal, tests[side], bindingSet)
    BY <1>2, <2>1
  <2>4. Bound(Clause, literal + 1, tests[side], Joined(bindingSet, facts))
    BY <1>2, <1>3, <1>4, <2>3, BoundNext
  <2> QED BY <1>1, <2>2, <2>4, Zenon
<1>7. JoinInv' /\ HeadsInv' /\ RunTypes'
  <2>1. /\ pc # "insert" /\ pc \notin {"load", "dead"} /\ pc' \in {"clause", "extend", "reported", "dead"}
        /\ clause' \in 0..Len(test.clauses) /\ literal' \in Nat /\ uncovered' \in Seq(Value)
    BY <1>1, <1>2
  <2> QED BY <1>1, <1>5, <2>1, BetweenSemiJoins
<1>8. tests'[side'] = tests[side] /\ pc' \notin Joining
  BY <1>1 DEF Joining
<1>9. RunRule'
  <2>1. clause' \in 1..Len(test'.clauses) /\ literal' <= Len(Clause'.prefix)
    BY <1>1, <1>2, <1>3, <1>4
  <2>2. pc' = "extend" /\ tests'[side'] # <<>> =>
          bindingSet' # <<>> /\ Bound(Clause', literal', tests'[side'], bindingSet')
    BY <1>1, <1>3, <1>6, <1>8
  <2> QED BY <1>8, <2>1, <2>2 DEF RunRule
<1>10. RunLeft'
  BY <1>1, <1>2, <1>8 DEF RunLeft
<1>11. literal' \in Nat /\ literal' <= Len(Clause.prefix)
  BY <1>1, <1>2, <1>4
<1>12. RunInv'
  BY <1>7, <1>9, <1>10 DEF RunInv
<1> QED
  BY <1>3, <1>6, <1>11, <1>12

LEMMA RunDieInJoin ==
  ASSUME RunInv, DieInJoin
  PROVE  RunInv'
<1>1. /\ pc = "extend" /\ pc' = "dead"
      /\ UNCHANGED <<semiJoinVars, uncovered, loadVars, caller, test, tests, clause, literal, bindingSet, numCovered>>
  BY DEF DieInJoin, testVars
<1>2. /\ clause \in 0..Len(test.clauses) /\ literal \in Nat
      /\ bindingSet \in Seq(Binding) /\ uncovered \in Seq(Value)
  BY DEF RunInv, RunTypes
<1>3. JoinInv' /\ HeadsInv' /\ RunTypes'
  BY <1>1, <1>2, BetweenSemiJoins
<1>4. RunRule' /\ RunLeft'
  BY <1>1 DEF RunRule, RunLeft, Joining
<1> QED
  BY <1>3, <1>4 DEF RunInv

LEMMA RunSkipClause ==
  ASSUME RunInv, SkipClause
  PROVE  RunInv'
<1>1. /\ pc = "extend" /\ pc' = "clause"
      /\ UNCHANGED <<semiJoinVars, uncovered, loadVars, caller, test, tests, clause, literal, bindingSet, numCovered>>
      /\ UNCHANGED side
  BY DEF SkipClause, testVars, semiJoinVars
<1>2. /\ clause \in 0..Len(test.clauses) /\ literal \in Nat
      /\ bindingSet \in Seq(Binding) /\ uncovered \in Seq(Value)
      /\ Len(uncovered) <= Len(tests[side])
  BY <1>1 DEF RunInv, RunTypes, RunLeft
<1>3. JoinInv' /\ HeadsInv' /\ RunTypes'
  BY <1>1, <1>2, BetweenSemiJoins
<1>4. RunRule' /\ RunLeft'
  BY <1>1, <1>2 DEF RunRule, RunLeft, Joining
<1> QED
  BY <1>3, <1>4 DEF RunInv

LEMMA RunComputeUnCoveredData ==
  ASSUME RunInv, ComputeUnCoveredData
  PROVE  RunInv' /\ given'.global = uncovered
<1>1. /\ pc = "extend" /\ pc' = "select" /\ literal = Len(Clause.prefix) /\ bindingSet # <<>>
      /\ given' = CallFor(Clause.last, bindingSet, uncovered)
      /\ backgroundTable' = NoTable /\ clauseTable' = NoTable /\ coverageTable' = NoTable
      /\ offset' = 0 /\ chunk' = NoChunk /\ uncovered' = <<>>
      /\ UNCHANGED <<side, positiveTable, file, loading, test, tests, clause, literal, bindingSet, numCovered>>
  BY DEF ComputeUnCoveredData, TestsLeft, NothingLeft, loadVars, testVars
<1>2. /\ test \in Test /\ side \in Side /\ uncovered \in Seq(Value) /\ clause \in 1..Len(test.clauses)
      /\ bindingSet \in Seq(Binding) /\ Len(uncovered) <= Len(tests[side])
      /\ tests[side] # <<>> => Bound(Clause, literal, tests[side], bindingSet)
  BY <1>1 DEF RunInv, RunTypes, RunRule, RunLeft
<1>3. Clause.last \in Seq(Value) \ {<<>>}
  <2>1. IsRule(Clause)
    BY <1>2, TestTypes DEF Clause
  <2> QED BY <2>1 DEF IsRule
<1>4. /\ given'.bindings = [s \in Side |-> bindingSet] /\ given'.background = Clause.last
      /\ given'.examples = [s \in Side |-> uncovered] /\ given'.global = uncovered
  BY <1>1 DEF CallFor
<1>5. JoinInv'
  <2>1. IsCall(given')
    <3>1. [s \in Side |-> bindingSet] \in [Side -> Seq(Binding) \ {<<>>}]
      BY <1>1, <1>2
    <3>2. [s \in Side |-> uncovered] \in [Side -> Seq(Value)]
      BY <1>2
    <3> QED BY <1>3, <1>4, <3>1, <3>2, Zenon DEF IsCall
  <2>2. TypeInv'
    BY <1>1, <1>2, <2>1 DEF TypeInv
  <2>3. AllSound'
    BY <1>1 DEF RunInv, JoinInv, AllSound, IsSound
  <2>4. BackgroundInv' /\ ClauseInv' /\ CoverageTableInv'
    BY <1>1 DEF BackgroundInv, ClauseInv, CoverageTableInv
  <2>5. ChunkInv'
    BY <1>1, NoChunkIsChunk DEF ChunkInv
  <2> QED BY <2>2, <2>3, <2>4, <2>5 DEF JoinInv
<1>6. HeadsInv'
  BY <1>1 DEF HeadsInv
<1>7. RunTypes'
  BY <1>1, <1>2 DEF RunInv, RunTypes, Joining
<1>8. Clause' = Clause /\ tests'[side'] = tests[side] /\ test' = test
  BY <1>1 DEF Clause
<1>9. RunRule'
  <2>1. given' = CallFor(Clause'.last, bindingSet', given'.global)
    BY <1>1, <1>4, <1>8
  <2>2. tests'[side'] # <<>> => Bound(Clause', Len(Clause'.prefix), tests'[side'], bindingSet')
    BY <1>1, <1>2, <1>8
  <2> QED BY <1>1, <1>2, <2>1, <2>2 DEF RunRule
<1>10. RunLeft'
  BY <1>1, <1>2, <1>4, <1>8 DEF RunLeft
<1> QED
  BY <1>4, <1>5, <1>6, <1>7, <1>9, <1>10 DEF RunInv

LEMMA NoRowsIn == \A rows : RowsIn(rows, {}) = <<>>
<1> TAKE rows
<1>1. Cardinality({}) = 0
  BY FS_EmptySet
<1>2. RowsIn(rows, {}) = [k \in 1..0 |-> rows[Nth({}, k)]]
  BY <1>1, Zenon DEF RowsIn
<1> QED
  BY <1>2

LEMMA RunBindingStep ==
  ASSUME RunInv, BindingStep, UNCHANGED <<loadVars, testVars>>
  PROVE  RunInv'
<1>1. /\ JoinInv' /\ HeadsInv' /\ pc \in Joining /\ pc' \in Joining /\ pc # "cover"
      /\ given' = given /\ side' = side /\ uncovered' = uncovered
      /\ pc' = "cover" => offset' = 0
  BY BindingStepHeads DEF RunInv
<1>2. UNCHANGED <<file, loading, test, tests, clause, literal, bindingSet, numCovered>>
  BY DEF loadVars, testVars
<1>3. pc \notin {"load", "dead", "extend", "clause"} /\ pc' \notin {"load", "dead", "extend", "clause"}
  BY <1>1 DEF Joining
<1>4. RunTypes'
  BY <1>1, <1>2, <1>3 DEF RunInv, RunTypes
<1>5. RunRule'
  <2>1. Clause' = Clause /\ tests'[side'] = tests[side]
    BY <1>1, <1>2 DEF Clause
  <2> QED BY <1>1, <1>2, <1>3, <2>1 DEF RunInv, RunRule
<1>6. RunLeft'
  <2>1. /\ uncovered' = <<>> /\ given'.global \in Seq(Value)
        /\ Len(given'.global) <= Len(tests'[side'])
    BY <1>1, <1>2 DEF RunInv, RunLeft
  <2>2. \A t, rows, heads : NotFoundUpTo(t, rows, heads, 0) = {}
    BY DEF NotFoundUpTo
  <2>3. pc' = "cover" => uncovered' = RowsIn(Examples', NotFoundUpTo(coverageTable', Rows', Examples', offset'))
    BY <1>1, <2>1, <2>2, NoRowsIn, Zenon
  <2> QED BY <1>3, <2>1, <2>3 DEF RunLeft
<1> QED
  BY <1>1, <1>4, <1>5, <1>6 DEF RunInv

LEMMA RunNextUncoveredChunk ==
  ASSUME RunInv, NextUncoveredChunk
  PROVE  RunInv'
<1> DEFINE n == Len(Examples)
           width == SmallerOf(ChunkSize, n - offset)
           rows == NextRows(Examples, offset, width)
           F == {i \in 0 .. width - 1 : IsFound(coverageTable, Rows, rows[i + 1])}
           S == {i \in 1..n : ~IsFound(coverageTable, Rows, Examples[i])}
<1>1. /\ pc = "cover" /\ pc' = "cover" /\ offset < n /\ offset' = offset + ChunkSize
      /\ uncovered' = uncovered \o RowsNotFound(rows, BitVector(width, F))
      /\ UNCHANGED <<given, pc, side, backgroundTable, clauseTable, coverageTable, positiveTable, chunk>>
      /\ UNCHANGED <<file, loading, test, tests, clause, literal, bindingSet, numCovered>>
  BY DEF NextUncoveredChunk, NextRows, loadVars, testVars
<1>2. JoinInv /\ HeadsInv /\ RunTypes /\ RunRule /\ RunLeft /\ TypeInv /\ pc \in Joining /\ pc' \in Joining
  BY <1>1 DEF RunInv, JoinInv, Joining
<1>3. Rows' = Rows /\ Background' = Background /\ Examples' = Examples
  BY <1>1, SameCall
<1>4. JoinInv'
  BY <1>1, <1>2, CoverageChunkStep
<1>5. HeadsInv'
  <2>1. IsOneChunk(side)' <=> IsOneChunk(side)
    BY <1>1, SameCovers
  <2> QED BY <1>1, <1>2, <1>3, <2>1 DEF HeadsInv
<1>6. Examples \in Seq(Value) /\ n \in Nat /\ offset \in Nat
  BY <1>2, CallTypes DEF TypeInv
<1>7. /\ width \in Nat /\ offset + width <= n
      /\ \A i \in 0 .. width - 1 : offset + i + 1 \in 1..n /\ i + 1 \in 1..width
  BY <1>1, <1>6, FlagAssumption DEF SmallerOf
<1>8. \A i \in 1..width : rows[i] = Examples[offset + i]
  <2> DEFINE a == offset + 1
             b == offset + width
  <2>1. a \in Int /\ b \in Int /\ \A i \in a..b : Examples[i] \in Value
    BY <1>6, <1>7
  <2>2. b - a + 1 = width /\ \A i \in 1..width : a + i - 1 = offset + i
    BY <1>6, <1>7
  <2> HIDE DEF a, b
  <2>3. /\ SubSeq(Examples, a, b) \in Seq(Value)
        /\ Len(SubSeq(Examples, a, b)) = IF a <= b THEN b - a + 1 ELSE 0
        /\ \A i \in 1 .. b - a + 1 : SubSeq(Examples, a, b)[i] = Examples[a + i - 1]
    BY <2>1, SubSeqProperties
  <2> QED BY <2>2, <2>3, Zenon DEF NextRows, a, b
<1>9. F = {i \in 0 .. width - 1 : offset + i + 1 \notin S}
  <2>1. ASSUME NEW i \in 0 .. width - 1
        PROVE  IsFound(coverageTable, Rows, rows[i + 1]) <=> offset + i + 1 \notin S
    <3>1. rows[i + 1] = Examples[offset + (i + 1)] /\ offset + (i + 1) = offset + i + 1
      BY <1>6, <1>7, <1>8
    <3>2. rows[i + 1] = Examples[offset + i + 1] /\ offset + i + 1 \in 1..n
      BY <1>7, <3>1
    <3> HIDE DEF rows, n, width
    <3> QED BY <3>2
  <2> HIDE DEF S, width, rows
  <2> QED BY <2>1
<1>10. \A o : UpTo(S, o) = NotFoundUpTo(coverageTable, Rows, Examples, o)
  BY DEF UpTo, NotFoundUpTo
<1>11. S \in SUBSET (1..n) /\ UpTo(S, offset + ChunkSize) \in SUBSET (1..n)
  BY DEF UpTo
<1>12. uncovered = RowsIn(Examples, UpTo(S, offset))
  BY <1>1, <1>2, <1>10 DEF RunLeft
<1> HIDE DEF S, F, rows
<1>13. uncovered' = RowsIn(Examples, UpTo(S, offset + ChunkSize))
  <2>1. RowsIn(Examples, UpTo(S, offset + ChunkSize))
          = RowsIn(Examples, UpTo(S, offset)) \o RowsNotFound(NextRows(Examples, offset, width), BitVector(width, F))
    BY <1>1, <1>6, <1>9, <1>11, RestOfNextRows, Zenon
  <2> QED BY <1>1, <1>12, <2>1, Zenon DEF rows
<1>14. uncovered' \in Seq(Value)
  BY <1>6, <1>11, <1>13, RowsInType
<1>15. RunLeft'
  <2>1. uncovered' = RowsIn(Examples', NotFoundUpTo(coverageTable', Rows', Examples', offset'))
    BY <1>1, <1>3, <1>10, <1>13, Zenon
  <2>2. given'.global \in Seq(Value) /\ Len(given'.global) <= Len(tests'[side'])
    BY <1>1, <1>2 DEF RunLeft
  <2> QED BY <1>1, <2>1, <2>2 DEF RunLeft
<1>16. RunTypes'
  BY <1>1, <1>2, <1>14 DEF RunTypes
<1>17. RunRule'
  <2>1. Clause' = Clause /\ tests'[side'] = tests[side]
    BY <1>1 DEF Clause
  <2> QED BY <1>1, <1>2, <2>1 DEF RunRule
<1> QED
  BY <1>4, <1>5, <1>15, <1>16, <1>17 DEF RunInv

(* A rule is done: the tests that were not found are as many as there were, or less. *)
LEMMA FoundNoMore ==
  ASSUME RunInv, pc = "cover"
  PROVE  /\ Examples = given.global /\ Rows = bindingSet /\ Background = Clause.last
         /\ Examples \in Seq(Value) /\ Len(Examples) \in Nat
         /\ uncovered \in Seq(Value)
         /\ Len(uncovered) <= Len(Examples) /\ Len(uncovered) <= offset
         /\ Len(Examples) <= Len(tests[side])
<1>1. /\ given = CallFor(Clause.last, bindingSet, given.global) /\ side \in Side
      /\ given.global \in Seq(Value) /\ Len(given.global) <= Len(tests[side])
      /\ uncovered = RowsIn(Examples, NotFoundUpTo(coverageTable, Rows, Examples, offset))
      /\ offset \in Nat /\ tests[side] \in Seq(Value)
  BY DEF RunInv, RunTypes, RunRule, RunLeft, JoinInv, TypeInv, Joining
<1>2. /\ given.examples = [s \in Side |-> given.global]
      /\ given.bindings = [s \in Side |-> bindingSet]
      /\ given.background = Clause.last
  <2> DEFINE g == given.global
  <2>1. given = CallFor(Clause.last, bindingSet, g)
    BY <1>1
  <2> HIDE DEF g
  <2> QED BY <2>1 DEF CallFor, g
<1>3. Examples = given.global /\ Rows = bindingSet /\ Background = Clause.last
  BY <1>1, <1>2 DEF Examples, Rows, Background
<1>4. Examples \in Seq(Value)
  BY <1>1, <1>3
<1> DEFINE S == NotFoundUpTo(coverageTable, Rows, Examples, offset)
           n == Len(Examples)
<1>5. n \in Nat /\ Len(tests[side]) \in Nat
  BY <1>1, <1>4
<1>6. S \in SUBSET (1..n) /\ S \subseteq 1..offset
  BY <1>1, <1>5 DEF NotFoundUpTo
<1> HIDE DEF S
<1>7. /\ uncovered \in Seq(Value) /\ Len(uncovered) = Cardinality(S)
  BY <1>1, <1>4, <1>6, RowsInType DEF S
<1>8. \A k \in Nat : IsFiniteSet(1..k) /\ Cardinality(1..k) = k
  <2> TAKE k \in Nat
  <2>1. 1 \in Int /\ k \in Int
    OBVIOUS
  <2>2. IsFiniteSet(1..k) /\ Cardinality(1..k) = IF 1 > k THEN 0 ELSE k - 1 + 1
    BY <2>1, FS_Interval, Zenon
  <2> QED BY <2>2
<1>9. Cardinality(S) <= n /\ Cardinality(S) <= offset
  <2> HIDE DEF n
  <2>1. /\ Cardinality(S) <= Cardinality(1..n) /\ Cardinality(S) <= Cardinality(1..offset)
    BY <1>1, <1>5, <1>6, <1>8, FS_Subset
  <2> QED BY <1>1, <1>5, <1>8, <2>1
<1> QED
  BY <1>1, <1>3, <1>4, <1>5, <1>7, <1>9

LEMMA RunEndClause ==
  ASSUME RunInv, EndClause
  PROVE  RunInv'
<1>1. /\ pc = "cover" /\ pc' = "clause"
      /\ UNCHANGED <<semiJoinVars, uncovered, loadVars, caller, test, tests, clause, literal, bindingSet, numCovered>>
      /\ UNCHANGED side
  BY DEF EndClause, testVars, semiJoinVars
<1>2. /\ clause \in 0..Len(test.clauses) /\ literal \in Nat /\ bindingSet \in Seq(Binding)
      /\ side \in Side /\ tests[side] \in Seq(Value)
  BY DEF RunInv, RunTypes
<1>3. uncovered \in Seq(Value) /\ Len(uncovered) <= Len(tests[side])
  <2>1. /\ uncovered \in Seq(Value) /\ Len(Examples) \in Nat /\ Len(uncovered) <= Len(Examples)
        /\ Len(Examples) <= Len(tests[side])
    BY <1>1, FoundNoMore
  <2>2. Len(uncovered) \in Nat /\ Len(tests[side]) \in Nat
    BY <1>2, <2>1
  <2> QED BY <2>1, <2>2
<1>4. JoinInv' /\ HeadsInv' /\ RunTypes'
  <2>1. pc # "insert" /\ pc \notin {"load", "dead"} /\ pc' \in {"clause", "extend", "reported", "dead"}
    BY <1>1
  <2> QED BY <1>1, <1>2, <1>3, <2>1, BetweenSemiJoins
<1>5. RunRule' /\ RunLeft'
  BY <1>1, <1>3 DEF RunRule, RunLeft, Joining
<1> QED
  BY <1>4, <1>5 DEF RunInv

LEMMA RunEndRunTest ==
  ASSUME RunInv, EndRunTest
  PROVE  RunInv'
<1>1. /\ pc = "clause" /\ pc' \in {"clause", "reported"} /\ clause = Len(test.clauses)
      /\ numCovered' = [numCovered EXCEPT ![side] = Len(tests[side]) - Len(uncovered)]
      /\ \/ pc' = "clause" /\ side' = "negative" /\ uncovered' = tests["negative"] /\ clause' = 0
         \/ pc' = "reported" /\ UNCHANGED <<side, uncovered, clause>>
      /\ UNCHANGED <<given, backgroundTable, clauseTable, coverageTable, positiveTable, offset,
                     chunk, file, loading, test, tests, literal, bindingSet>>
  BY DEF EndRunTest, BeginSide, loadVars
<1>2. /\ test \in Test /\ file = test.file /\ side \in Side /\ tests \in [Side -> Seq(Value)]
      /\ clause \in 0..Len(test.clauses) /\ literal \in Nat /\ bindingSet \in Seq(Binding)
      /\ uncovered \in Seq(Value) /\ Len(uncovered) <= Len(tests[side]) /\ loading = "loaded"
      /\ numCovered \in [Side -> Nat] /\ \A s \in Side : numCovered[s] <= Len(tests[s])
  BY <1>1 DEF RunInv, RunTypes, RunLeft
<1>3. pc \notin Joining /\ pc' \notin Joining
  BY <1>1 DEF Joining
<1>4. JoinInv' /\ HeadsInv'
  <2>1. offset' \in Nat
    BY <1>1 DEF RunInv, JoinInv, TypeInv
  <2> QED BY <1>1, <1>3, <2>1, Quiet DEF RunInv
<1>5. numCovered' \in [Side -> Nat] /\ \A s \in Side : numCovered'[s] <= Len(tests[s])
  <2> DEFINE lost == Len(tests[side]) - Len(uncovered)
  <2>1. Len(tests[side]) \in Nat /\ Len(uncovered) \in Nat
    BY <1>2
  <2>2. lost \in Nat /\ lost <= Len(tests[side])
    BY <1>2, <2>1
  <2> HIDE DEF lost
  <2>3. numCovered' = [numCovered EXCEPT ![side] = lost]
    BY <1>1 DEF lost
  <2> QED BY <1>2, <2>2, <2>3
<1>6. "negative" \in Side /\ Len(test.clauses) \in Nat /\ tests["negative"] \in Seq(Value)
  BY <1>2, TestTypes DEF Side
<1>7. uncovered' \in Seq(Value) /\ (pc' = "clause" => Len(uncovered') <= Len(tests[side']))
  BY <1>1, <1>2, <1>6
<1>8. side' \in Side /\ clause' \in 0..Len(test.clauses)
  BY <1>1, <1>2, <1>6
<1>9. RunTypes'
  BY <1>1, <1>2, <1>5, <1>7, <1>8 DEF RunTypes
<1>10. RunRule' /\ RunLeft'
  BY <1>1, <1>3, <1>7 DEF RunRule, RunLeft
<1> QED
  BY <1>4, <1>9, <1>10 DEF RunInv

LEMMA RunStep ==
  ASSUME LoadInv, RunInv, TestStep
  PROVE  RunInv'
<1>1. CASE LoadTests
  BY <1>1, RunLoadTests
<1>2. CASE CreateTestTableViews
  BY <1>2, RunViews
<1>3. CASE TakeClause
  BY <1>3, RunTakeClause
<1>4. CASE CreateBindingTable
  BY <1>4, RunCreateBindingTable, Zenon
<1>5. CASE DieInJoin
  BY <1>5, RunDieInJoin
<1>6. CASE SkipClause
  BY <1>6, RunSkipClause
<1>7. CASE ComputeUnCoveredData
  BY <1>7, RunComputeUnCoveredData
<1>8. CASE SemiJoinStep /\ UNCHANGED <<loadVars, testVars>>
  <2>1. BindingStep
    BY <1>8, Zenon DEF SemiJoinStep, BindingStep
  <2> QED BY <1>8, <2>1, RunBindingStep
<1>9. CASE NextUncoveredChunk
  BY <1>9, RunNextUncoveredChunk
<1>10. CASE EndClause
  BY <1>10, RunEndClause
<1>11. CASE EndRunTest
  BY <1>11, RunEndRunTest
<1> QED
  BY <1>1, <1>2, <1>3, <1>4, <1>5, <1>6, <1>7, <1>8, <1>9, <1>10, <1>11, Zenon DEF TestStep

-----------------------------------------------------------------------------
(* A behaviour is a call of the learner or a run of the tests; the rows are loaded
   in either as if there were nothing else.                                *)
TestInv ==
  /\ caller \in {"learner", "tests"}
  /\ LoadInv
  /\ caller = "learner" => RulesInv /\ tests = NoTests /\ numCovered = [s \in Side |-> 0]
  /\ caller = "tests" => RunInv

LEMMA TestInvInit ==
  ASSUME TestInit
  PROVE  TestInv
<1>1. LoadInv
  BY LoadInvInit DEF TestInit
<1>2. tests = NoTests /\ numCovered = [s \in Side |-> 0]
  BY DEF TestInit
<1>3. CASE LearnerInit
  <2>1. caller = "learner" /\ RulesInv
    BY <1>3, RulesInit DEF LearnerInit
  <2> QED BY <1>1, <1>2, <2>1 DEF TestInv
<1>4. CASE TestsInit
  <2>1. caller = "tests" /\ RunInv
    BY <1>4, RunInit DEF TestsInit, TestInit
  <2> QED BY <1>1, <2>1 DEF TestInv
<1> QED
  BY <1>3, <1>4 DEF TestInit

LEMMA TestStepLoads ==
  ASSUME TestStep
  PROVE  [LoadNext]_loadVars /\ caller = "tests" /\ caller' = caller
<1>1. CASE LoadTests
  BY <1>1 DEF TestStep, LoadTests, testVars
<1>2. CASE CreateTestTableViews
  BY <1>2 DEF TestStep, CreateTestTableViews
<1>3. CASE TakeClause
  BY <1>3 DEF TestStep, TakeClause
<1>4. CASE CreateBindingTable
  BY <1>4 DEF TestStep, CreateBindingTable
<1>5. CASE DieInJoin
  BY <1>5 DEF TestStep, DieInJoin, testVars
<1>6. CASE SkipClause
  BY <1>6 DEF TestStep, SkipClause, testVars
<1>7. CASE ComputeUnCoveredData
  BY <1>7 DEF TestStep, ComputeUnCoveredData, testVars
<1>8. CASE SemiJoinStep /\ UNCHANGED <<loadVars, testVars>>
  BY <1>8 DEF TestStep, testVars
<1>9. CASE NextUncoveredChunk
  BY <1>9 DEF TestStep, NextUncoveredChunk, testVars
<1>10. CASE EndClause
  BY <1>10 DEF TestStep, EndClause, testVars
<1>11. CASE EndRunTest
  BY <1>11 DEF TestStep, EndRunTest
<1> QED
  BY <1>1, <1>2, <1>3, <1>4, <1>5, <1>6, <1>7, <1>8, <1>9, <1>10, <1>11, Zenon DEF TestStep

LEMMA RunStutters ==
  ASSUME RunInv, UNCHANGED <<vars, loadVars, testVars>>
  PROVE  RunInv'
<1>1. /\ UNCHANGED <<given, pc, side, backgroundTable, clauseTable, coverageTable, positiveTable,
                     offset, chunk, covered, uncovered>>
      /\ UNCHANGED <<file, loading, test, tests, clause, literal, bindingSet, numCovered>>
  BY DEF vars, loadVars, testVars
<1>2. Rows' = Rows /\ Background' = Background /\ Examples' = Examples
  BY <1>1, SameCall
<1>3. JoinInv'
  <2>1. [Next]_vars
    BY DEF vars
  <2> QED BY <2>1, JoinNext DEF RunInv
<1>4. HeadsInv'
  <2>1. IsOneChunk(side)' <=> IsOneChunk(side)
    BY <1>1, SameCovers
  <2> QED BY <1>1, <1>2, <2>1 DEF RunInv, HeadsInv
<1>5. RunTypes'
  BY <1>1 DEF RunInv, RunTypes
<1>6. Clause' = Clause /\ tests'[side'] = tests[side]
  BY <1>1 DEF Clause
<1>7. RunRule'
  BY <1>1, <1>6 DEF RunInv, RunRule
<1>8. RunLeft'
  BY <1>1, <1>2, <1>6 DEF RunInv, RunLeft
<1> QED
  BY <1>3, <1>4, <1>5, <1>7, <1>8 DEF RunInv

LEMMA TestInvNext ==
  ASSUME TestInv, [TestNext]_<<vars, loadVars, testVars>>
  PROVE  TestInv'
<1>1. CASE TestStep
  <2>1. [LoadNext]_loadVars /\ caller = "tests" /\ caller' = "tests"
    BY <1>1, TestStepLoads
  <2>2. LoadInv'
    BY <2>1, LoadInvNext DEF TestInv
  <2>3. RunInv'
    BY <1>1, <2>1, RunStep DEF TestInv
  <2> QED BY <2>1, <2>2, <2>3 DEF TestInv
<1>2. CASE LearnerStep
  <2>1. /\ caller = "learner" /\ caller' = "learner" /\ Next
        /\ tests' = tests /\ numCovered' = numCovered /\ UNCHANGED loadVars
    BY <1>2 DEF LearnerStep, testVars
  <2>2. LoadInv'
    BY <2>1, LoadInvNext DEF TestInv
  <2>3. RulesInv'
    BY <2>1, RulesNext DEF TestInv
  <2> QED BY <2>1, <2>2, <2>3 DEF TestInv, NoTests
<1>3. CASE UNCHANGED <<vars, loadVars, testVars>>
  <2>1. LoadInv'
    BY <1>3, LoadInvNext DEF TestInv
  <2>2. UNCHANGED <<caller, tests, numCovered>> /\ UNCHANGED vars
    BY <1>3 DEF testVars
  <2>3. CASE caller = "learner"
    <3>1. RulesInv'
      BY <2>2, <2>3, RulesNext DEF TestInv
    <3> QED BY <2>1, <2>2, <2>3, <3>1 DEF TestInv, NoTests
  <2>4. CASE caller = "tests"
    <3>1. RunInv'
      BY <1>3, <2>4, RunStutters DEF TestInv
    <3> QED BY <2>1, <2>2, <2>4, <3>1 DEF TestInv
  <2> QED BY <2>3, <2>4 DEF TestInv
<1> QED
  BY <1>1, <1>2, <1>3 DEF TestNext

LEMMA TestInvHolds == TestSpec => []TestInv
<1>1. TestInit => TestInv
  BY TestInvInit
<1>2. TestInv /\ [TestNext]_<<vars, loadVars, testVars>> => TestInv'
  BY TestInvNext
<1> QED
  BY <1>1, <1>2, PTL DEF TestSpec

(* What the invariant says of a state of the tests. *)
LEMMA RunTyped ==
  ASSUME RunInv
  PROVE  /\ pc \in {"load", "clause", "extend", "select", "build", "bind", "insert", "cover",
                    "reported", "dead"}
         /\ chunk.left > 0 => chunk.base + Position(chunk.at) < Len(Rows)
         /\ pc = "cover" => Len(uncovered) <= SmallerOf(offset, Len(Examples))
         /\ bindingSet \in Seq(Binding) /\ uncovered \in Seq(Value)
         /\ \A s \in Side : numCovered[s] \in 0..Len(tests[s])
<1>1. /\ pc \in {"load", "clause", "extend", "reported", "dead"} \cup Joining
      /\ bindingSet \in Seq(Binding) /\ uncovered \in Seq(Value)
      /\ numCovered \in [Side -> Nat] /\ tests \in [Side -> Seq(Value)]
      /\ \A s \in Side : numCovered[s] <= Len(tests[s])
  BY DEF RunInv, RunTypes
<1>2. chunk.left > 0 => chunk.base + Position(chunk.at) < Len(Rows)
  <2>1. ChunkInv
    BY DEF RunInv, JoinInv
  <2>2. chunk.left > 0 => pc = "insert" /\ Position(chunk.at) \in Ones(chunk.bits)
    BY <2>1, OnesAreSetBits DEF ChunkInv, IsChunk
  <2> QED
    BY <2>1, <2>2 DEF ChunkInv
<1>3. pc = "cover" => Len(uncovered) <= SmallerOf(offset, Len(Examples))
  BY FoundNoMore DEF SmallerOf
<1>4. \A s \in Side : numCovered[s] \in 0..Len(tests[s])
  <2> TAKE s \in Side
  <2>1. numCovered[s] \in Nat /\ numCovered[s] <= Len(tests[s]) /\ Len(tests[s]) \in Nat
    BY <1>1
  <2> QED BY <2>1
<1> QED
  BY <1>1, <1>2, <1>3, <1>4 DEF Joining

(* Whatever the rules join and in which order, no position in a chunk lies outside
   its table, the tests that are left fit the buffer made for as many as there
   were, and no more tests are reported than there are.                    *)
THEOREM TestTypeCorrect == TestSpec => []TestTypeOK
<1>1. TestInv => TestTypeOK
  <2> SUFFICES ASSUME TestInv PROVE TestTypeOK
    OBVIOUS
  <2>1. CASE caller = "learner"
    <3>1. TypeOK /\ tests = NoTests /\ numCovered = [s \in Side |-> 0]
      BY <2>1, RulesType DEF TestInv
    <3>2. \A s \in Side : numCovered[s] \in 0..Len(tests[s])
      BY <3>1 DEF NoTests
    <3> QED BY <2>1, <3>1, <3>2 DEF TestTypeOK
  <2>2. CASE caller = "tests"
    <3>1. RunInv
      BY <2>2 DEF TestInv
    <3> QED BY <2>2, <3>1, RunTyped DEF TestTypeOK
  <2> QED BY <2>1, <2>2 DEF TestInv
<1> QED
  BY <1>1, TestInvHolds, PTL

(* The tests use the semi-joins of the learner, several times and on tables that
   shrink, and the chains of the tables still end and the iterators still stand
   on the next row of their chunk.                                         *)
THEOREM TestTablesCorrect == TestSpec => [](ChainsEnd /\ CountMatchesBits)
<1>1. TestInv => ChainsEnd /\ CountMatchesBits
  <2> SUFFICES ASSUME TestInv PROVE ChainsEnd /\ CountMatchesBits
    OBVIOUS
  <2>1. JoinInv
    BY DEF TestInv, RulesInv, ExactInv, RunInv
  <2> QED BY <2>1, SoundTablesEnd, ChunksCount DEF JoinInv, ChunkInv
<1> QED
  BY <1>1, TestInvHolds, PTL

(* The learner's calls, in the system with the tests. *)
THEOREM LearnerCallsCorrect ==
  TestSpec => [](CoverageIsExact /\ OutputFits /\ LearntRuleTakesItsExamples)
<1>1. TestInv => CoverageIsExact /\ OutputFits /\ LearntRuleTakesItsExamples
  <2> SUFFICES ASSUME TestInv PROVE CoverageIsExact /\ OutputFits /\ LearntRuleTakesItsExamples
    OBVIOUS
  <2>1. CASE caller = "learner"
    <3>1. RulesInv
      BY <2>1 DEF TestInv
    <3>2. CoverageIsExact
      BY <3>1 DEF RulesInv, ExactInv, CoveredInv, CoverageIsExact, Joining
    <3>3. LearntRuleTakesItsExamples
      BY <3>1, RulesTake DEF LearntRuleTakesItsExamples
    <3> QED BY <3>1, <3>2, <3>3, RulesOutput
  <2>2. CASE caller = "tests"
    <3>1. pc \notin {"collect", "learnt", "rejected"}
      BY <2>2 DEF TestInv, RunInv, RunTypes, Joining
    <3> QED BY <3>1 DEF CoverageIsExact, OutputFits, LearntRuleTakesItsExamples
  <2> QED BY <2>1, <2>2 DEF TestInv
<1> QED
  BY <1>1, TestInvHolds, PTL

(* The rows of the test file, in the system that goes on with them. *)
THEOREM TestRowsCorrect == TestSpec => [](OverrunIsOneRow /\ RowsAreLoaded)
<1>1. TestInv => OverrunIsOneRow /\ RowsAreLoaded
  BY DEF TestInv, LoadInv, RowsAreLoaded, OverrunIsOneRow
<1> QED
  BY <1>1, TestInvHolds, PTL

-----------------------------------------------------------------------------
(* What is reported.  The tests that are left before, after and between the rules. *)
LEMMA AllAreLeft ==
  ASSUME NEW clauses, NEW rows \in Seq(Value)
  PROVE  Left(clauses, rows, 0) = rows
<1>1. NotCovered(clauses, rows, 0) = 1..Len(rows)
  BY DEF NotCovered
<1> QED
  BY <1>1, AllRowsAreIn DEF Left

LEMMA LeftOfOneRule ==
  ASSUME NEW clauses, NEW rows \in Seq(Value), NEW k \in Nat \ {0}
  PROVE  /\ NotCovered(clauses, rows, k - 1) \in SUBSET (1..Len(rows))
         /\ NotCovered(clauses, rows, k)
              = {i \in NotCovered(clauses, rows, k - 1) : ~CoversTest(clauses[k], rows[i])}
<1>1. \A c \in 1..k : c \in 1..k - 1 \/ c = k
  OBVIOUS
<1>2. k \in 1..k /\ \A c \in 1..k - 1 : c \in 1..k
  OBVIOUS
<1>3. ASSUME NEW i \in 1..Len(rows)
      PROVE  (\A c \in 1..k : ~CoversTest(clauses[c], rows[i]))
               <=> /\ \A c \in 1..k - 1 : ~CoversTest(clauses[c], rows[i])
                   /\ ~CoversTest(clauses[k], rows[i])
  BY <1>1, <1>2, Zenon
<1> QED
  BY <1>3, Zenon DEF NotCovered

(* A rule without a binding, or a side without a test: as many are left. *)
LEMMA NothingIsCovered ==
  ASSUME NEW clauses, NEW rows \in Seq(Value), NEW k \in Nat \ {0},
         \A i \in 1..Len(rows) : ~CoversTest(clauses[k], rows[i])
  PROVE  Left(clauses, rows, k) = Left(clauses, rows, k - 1)
<1>1. NotCovered(clauses, rows, k) = NotCovered(clauses, rows, k - 1)
  <2> DEFINE K == NotCovered(clauses, rows, k - 1)
  <2>1. K \in SUBSET (1..Len(rows)) /\ NotCovered(clauses, rows, k) = {i \in K : ~CoversTest(clauses[k], rows[i])}
    BY LeftOfOneRule
  <2> HIDE DEF K
  <2>2. {i \in K : ~CoversTest(clauses[k], rows[i])} = K
    BY <2>1
  <2> QED BY <2>1, <2>2 DEF K
<1> QED
  BY <1>1 DEF Left

(* The semi-joins take off the tests that are left those the rule covers. *)
LEMMA RuleTakesItsTests ==
  ASSUME RunInv, LeftExact, EndClause, InOneChunk(test.clauses, tests[side])
  PROVE  uncovered = Left(test.clauses, tests[side], clause)
<1> DEFINE rows == tests[side]
           c == test.clauses[clause]
           K == NotCovered(test.clauses, rows, clause - 1)
           L == NotCovered(test.clauses, rows, clause)
           J == {j \in 1..Cardinality(K) : Nth(K, j) \in L}
           N == NotFoundUpTo(coverageTable, Rows, Examples, offset)
<1>1. /\ pc = "cover" /\ offset >= Len(Examples) /\ pc \in Joining
  BY DEF EndClause, Joining
<1>2. /\ JoinInv /\ HeadsInv /\ test \in Test /\ side \in Side /\ rows \in Seq(Value)
      /\ clause \in 1..Len(test.clauses) /\ bindingSet \in Seq(Binding) /\ offset \in Nat
      /\ uncovered = RowsIn(Examples, N)
      /\ rows # <<>> => Bound(c, Len(c.prefix), rows, bindingSet)
  BY <1>1 DEF RunInv, RunTypes, RunRule, RunLeft, Clause, JoinInv, TypeInv
<1>3. IsRule(c) /\ Len(test.clauses) \in Nat
  BY <1>2, TestTypes
<1>4. /\ Examples = given.global /\ Rows = bindingSet /\ Background = c.last
      /\ Examples \in Seq(Value) /\ Len(Examples) \in Nat
  BY <1>1, FoundNoMore DEF Clause
<1>5. Examples = RowsIn(rows, K)
  BY <1>1, <1>4 DEF LeftExact, Left
<1>6. /\ clause \in Nat \ {0} /\ K \in SUBSET (1..Len(rows))
      /\ L = {i \in K : ~CoversTest(c, rows[i])}
  <2>1. clause \in Nat \ {0}
    BY <1>2, <1>3
  <2> DEFINE cs == test.clauses
             k == clause
  <2>2. rows \in Seq(Value) /\ k \in Nat \ {0}
    BY <1>2, <2>1
  <2> HIDE DEF rows, cs, k
  <2>3. /\ NotCovered(cs, rows, k - 1) \in SUBSET (1..Len(rows))
        /\ NotCovered(cs, rows, k)
             = {i \in NotCovered(cs, rows, k - 1) : ~CoversTest(cs[k], rows[i])}
    BY <2>2, LeftOfOneRule
  <2> QED BY <2>1, <2>3, Zenon DEF cs, k
<1> HIDE DEF K, L
<1>7. /\ Len(Examples) = Cardinality(K) /\ IsFiniteSet(K)
      /\ \A j \in 1..Cardinality(K) : Nth(K, j) \in K /\ Examples[j] = rows[Nth(K, j)]
  <2>1. /\ IsFiniteSet(K) /\ Len(RowsIn(rows, K)) = Cardinality(K)
        /\ \A j \in 1..Cardinality(K) : RowsIn(rows, K)[j] = rows[Nth(K, j)]
    BY <1>2, <1>6, RowsInType
  <2>2. K \in SUBSET Int
    BY <1>6
  <2>3. \A j \in 1..Cardinality(K) : Nth(K, j) \in K
    BY <2>1, <2>2, NthIsRanked
  <2> QED BY <1>5, <2>1, <2>3
<1>8. ASSUME NEW j \in 1..Len(Examples)
      PROVE  IsFound(coverageTable, Rows, Examples[j]) <=> Nth(K, j) \notin L
  <2>1. Nth(K, j) \in K /\ Nth(K, j) \in 1..Len(rows) /\ Examples[j] = rows[Nth(K, j)]
    BY <1>6, <1>7
  <2>2. rows # <<>>
    <3>1. Len(rows) \in Nat /\ Len(rows) # 0
      BY <1>2, <2>1
    <3> QED BY <1>2, <3>1, EmptySeq
  <2>3. Bound(c, Len(c.prefix), rows, bindingSet)
    BY <1>2, <2>2
  <2>4. IsOneChunk(side)
    <3>1. IsInOneChunk(c, rows)
      BY <1>2 DEF InOneChunk
    <3>2. Cardinality(Paths(c, Len(c.prefix), rows)) = Len(bindingSet)
      BY <2>3, BoundCount
    <3> QED BY <1>4, <3>1, <3>2 DEF IsOneChunk, IsInOneChunk, Rows
  <2>5. IsFound(coverageTable, Rows, Examples[j]) <=> Covers(side, Examples[j])
    BY <1>1, <1>2, <2>4, FoundIsCovered
  <2>6. CoversTest(c, rows[Nth(K, j)])
          <=> \E b \in 1..Len(bindingSet) : \E q \in 1..Len(c.last) :
                bindingSet[b].head = rows[Nth(K, j)] /\ bindingSet[b].key = c.last[q]
    <3> DEFINE i == Nth(K, j)
    <3>1. IsRule(c) /\ rows \in Seq(Value) /\ i \in 1..Len(rows)
      BY <1>2, <1>3, <2>1
    <3> HIDE DEF rows, c, i
    <3>2. CoversTest(c, rows[i])
            <=> \E b \in 1..Len(bindingSet) : \E q \in 1..Len(c.last) :
                  bindingSet[b].head = rows[i] /\ bindingSet[b].key = c.last[q]
      BY <2>3, <3>1, BoundCovers
    <3> QED BY <3>2 DEF i
  <2>7. Covers(side, Examples[j])
          <=> \E b \in 1..Len(bindingSet) : \E q \in 1..Len(c.last) :
                bindingSet[b].head = Examples[j] /\ bindingSet[b].key = c.last[q]
    BY <1>4 DEF Covers, Rows
  <2> QED BY <1>6, <2>1, <2>5, <2>6, <2>7
<1>9. N = J
  <2>1. ASSUME NEW j \in 1..Len(Examples)
        PROVE  j <= offset
    BY <1>1, <1>2, <1>4
  <2>2. \A j : j \in N <=> j \in 1..Len(Examples) /\ ~IsFound(coverageTable, Rows, Examples[j])
    BY <2>1 DEF NotFoundUpTo
  <2>3. \A j : j \in J <=> j \in 1..Len(Examples) /\ Nth(K, j) \in L
    BY <1>7
  <2> QED BY <1>8, <2>2, <2>3
<1> HIDE DEF N, J
<1>10. L \in SUBSET K
  BY <1>6
<1>11. RowsIn(RowsIn(rows, K), J) = RowsIn(rows, L)
  BY <1>2, <1>6, <1>10, SelectedTwice DEF J
<1> QED
  BY <1>2, <1>5, <1>9, <1>11 DEF Left, L

LEMMA LeftStep ==
  ASSUME LoadInv, RunInv, LeftExact, TestStep
  PROVE  LeftExact'
<1>0. /\ test \in Test /\ side \in Side /\ clause \in 0..Len(test.clauses)
      /\ tests \in [Side -> Seq(Value)] /\ tests[side] \in Seq(Value)
      /\ (pc = "extend" \/ pc \in Joining => clause \in 1..Len(test.clauses))
      /\ Len(test.clauses) \in Nat
  <2>1. /\ test \in Test /\ side \in Side /\ clause \in 0..Len(test.clauses)
        /\ tests \in [Side -> Seq(Value)]
        /\ (pc = "extend" \/ pc \in Joining => clause \in 1..Len(test.clauses))
    BY DEF RunInv, RunTypes, RunRule
  <2>2. tests[side] \in Seq(Value) /\ Len(test.clauses) \in Nat
    BY <2>1, TestTypes
  <2> QED BY <2>1, <2>2
<1>1. CASE LoadTests
  <2>1. pc' \in {"load", "dead"}
    BY <1>1 DEF LoadTests
  <2> QED BY <2>1 DEF LeftExact, Joining
<1>2. CASE CreateTestTableViews
  <2>1. /\ pc' = "clause" /\ clause' = 0 /\ side' = "positive" /\ uncovered' = tests'["positive"]
    BY <1>2 DEF CreateTestTableViews, BeginSide
  <2>2. tests'[side'] \in Seq(Value)
    <3>1. RunTypes'
      BY <1>2, RunViews DEF RunInv
    <3> QED BY <3>1 DEF RunTypes
  <2>3. uncovered' = Left(test'.clauses, tests'[side'], clause')
    BY <2>1, <2>2, AllAreLeft
  <2> QED BY <2>1, <2>3 DEF LeftExact, Joining
<1>3. CASE TakeClause
  <2>1. /\ pc = "clause" /\ pc' = "extend" /\ clause' = clause + 1
        /\ UNCHANGED <<test, tests, side, uncovered>>
    BY <1>3 DEF TakeClause, semiJoinVars
  <2>2. clause' - 1 = clause
    BY <1>0, <2>1
  <2> QED BY <2>1, <2>2 DEF LeftExact, Joining
<1>4. CASE CreateBindingTable
  <2>1. /\ pc = "extend" /\ pc' \in {"clause", "extend"} /\ (pc' = "clause" => bindingSet' = <<>>)
        /\ UNCHANGED <<test, tests, side, uncovered, clause>>
    BY <1>4 DEF CreateBindingTable, semiJoinVars, NothingLeft
  <2>2. ASSUME pc' = "clause"
        PROVE  Left(test.clauses, tests[side], clause) = Left(test.clauses, tests[side], clause - 1)
    <3>1. /\ IsRule(Clause) /\ literal' \in Nat /\ literal' <= Len(Clause.prefix)
          /\ tests[side] # <<>> => Bound(Clause, literal', tests[side], bindingSet')
      BY <1>4, RunCreateBindingTable
    <3>2. ASSUME NEW i \in 1..Len(tests[side])
          PROVE  ~CoversTest(test.clauses[clause], tests[side][i])
      <4>1. tests[side] # <<>>
        <5>1. Len(tests[side]) \in Nat /\ Len(tests[side]) # 0
          BY <1>0
        <5> QED BY <1>0, <5>1, EmptySeq
      <4>2. Bound(Clause, literal', tests[side], <<>>)
        BY <2>1, <2>2, <3>1, <4>1
      <4> DEFINE rows == tests[side]
                 c == Clause
                 l == literal'
      <4>3. IsRule(c) /\ l \in Nat /\ l <= Len(c.prefix) /\ rows \in Seq(Value) /\ Bound(c, l, rows, <<>>) /\ i \in 1..Len(rows)
        BY <1>0, <3>1, <4>2
      <4> HIDE DEF rows, c, l
      <4>4. ~CoversTest(c, rows[i])
        BY <4>3, BoundNothing
      <4> QED BY <4>4 DEF rows, c, Clause
    <3>3. clause \in Nat \ {0}
      BY <1>0, <2>1
    <3> QED BY <1>0, <3>2, <3>3, NothingIsCovered
  <2> QED BY <2>1, <2>2 DEF LeftExact, Joining
<1>5. CASE DieInJoin
  <2>1. pc' = "dead"
    BY <1>5 DEF DieInJoin
  <2> QED BY <2>1 DEF LeftExact, Joining
<1>6. CASE SkipClause
  <2>1. /\ pc = "extend" /\ pc' = "clause" /\ bindingSet = <<>>
        /\ UNCHANGED <<test, tests, side, uncovered, clause>>
    BY <1>6 DEF SkipClause, semiJoinVars, testVars, NothingLeft
  <2>2. tests[side] = <<>>
    BY <2>1 DEF RunInv, RunRule
  <2>3. \A i \in 1..Len(tests[side]) : FALSE
    BY <2>2
  <2>4. clause \in Nat \ {0}
    BY <1>0, <2>1
  <2>5. Left(test.clauses, tests[side], clause) = Left(test.clauses, tests[side], clause - 1)
    BY <1>0, <2>3, <2>4, NothingIsCovered
  <2> QED BY <2>1, <2>5 DEF LeftExact, Joining
<1>7. CASE ComputeUnCoveredData
  <2>1. /\ pc = "extend" /\ pc' = "select" /\ given'.global = uncovered
        /\ UNCHANGED <<test, tests, side, clause>>
    BY <1>7, RunComputeUnCoveredData DEF ComputeUnCoveredData, testVars
  <2> QED BY <2>1 DEF LeftExact, Joining
<1>8. CASE SemiJoinStep /\ UNCHANGED <<loadVars, testVars>>
  <2>1. /\ pc \in Joining /\ pc' \in Joining /\ given' = given /\ side' = side
        /\ UNCHANGED <<test, tests, clause>>
    <3>1. BindingStep
      BY <1>8, Zenon DEF SemiJoinStep, BindingStep
    <3> QED BY <1>8, <3>1, BindingStepHeads DEF RunInv, testVars
  <2>2. pc' # "clause" /\ pc' # "extend"
    BY <2>1 DEF Joining
  <2> QED BY <2>1, <2>2 DEF LeftExact
<1>9. CASE NextUncoveredChunk
  <2>1. /\ pc = "cover" /\ UNCHANGED <<pc, given, side, test, tests, clause>>
    BY <1>9 DEF NextUncoveredChunk, testVars
  <2> QED BY <2>1 DEF LeftExact, Joining
<1>10. CASE EndClause
  <2>1. /\ pc' = "clause" /\ UNCHANGED <<side, uncovered, test, tests, clause>>
    BY <1>10 DEF EndClause, semiJoinVars, testVars
  <2>2. InOneChunk(test.clauses, tests[side]) => uncovered = Left(test.clauses, tests[side], clause)
    BY <1>10, RuleTakesItsTests
  <2> QED BY <2>1, <2>2 DEF LeftExact, Joining
<1>11. CASE EndRunTest
  <2>1. \/ pc' = "clause" /\ side' = "negative" /\ uncovered' = tests["negative"] /\ clause' = 0
        \/ pc' = "reported"
    BY <1>11 DEF EndRunTest, BeginSide
  <2>2. UNCHANGED <<test, tests>>
    BY <1>11 DEF EndRunTest
  <2>3. tests["negative"] \in Seq(Value)
    BY <1>0 DEF Side
  <2>4. Left(test.clauses, tests["negative"], 0) = tests["negative"]
    BY <2>3, AllAreLeft
  <2> QED BY <2>1, <2>2, <2>4 DEF LeftExact, Joining
<1> QED
  BY <1>1, <1>2, <1>3, <1>4, <1>5, <1>6, <1>7, <1>8, <1>9, <1>10, <1>11, Zenon DEF TestStep

(* The tests of a side are counted when its rules are done, the positive ones first. *)
LEMMA CountedStep ==
  ASSUME RunInv, LeftExact, CountedExact, TestStep
  PROVE  CountedExact'
<1>1. CASE EndRunTest
  <2>1. /\ pc = "clause" /\ clause = Len(test.clauses) /\ UNCHANGED <<test, tests>>
        /\ numCovered' = [numCovered EXCEPT ![side] = Len(tests[side]) - Len(uncovered)]
        /\ \/ side = "positive" /\ side' = "negative" /\ pc' = "clause"
           \/ side = "negative" /\ side' = "negative" /\ pc' = "reported"
    BY <1>1 DEF EndRunTest, BeginSide
  <2>2. numCovered \in [Side -> Nat] /\ side \in Side
    BY DEF RunInv, RunTypes
  <2>3. /\ numCovered'[side] = Len(tests[side]) - Len(uncovered)
        /\ \A s \in Side : s # side => numCovered'[s] = numCovered[s]
    BY <2>1, <2>2
  <2>4. InOneChunk(test.clauses, tests[side]) =>
          numCovered'[side] = Len(tests[side]) - Len(Left(test.clauses, tests[side], Len(test.clauses)))
    BY <2>1, <2>3 DEF LeftExact
  <2>5. ASSUME NEW s \in Side, pc' = "reported" \/ (side' = "negative" /\ s = "positive"),
               InOneChunk(test.clauses, tests[s])
        PROVE  numCovered'[s] = Len(tests[s]) - Len(Left(test.clauses, tests[s], Len(test.clauses)))
    <3>1. CASE s = side
      BY <2>4, <2>5, <3>1
    <3>2. CASE s # side
      <4>1. s = "positive" /\ side = "negative"
        BY <2>1, <2>5, <3>2 DEF Side
      <4> QED BY <2>3, <2>5, <3>2, <4>1 DEF CountedExact
    <3> QED BY <3>1, <3>2
  <2> QED BY <2>1, <2>5 DEF CountedExact
<1>2. CASE CreateTestTableViews \/ LoadTests
  <2>1. side' # "negative" /\ pc' # "reported"
    BY <1>2 DEF CreateTestTableViews, LoadTests, BeginSide, semiJoinVars, RunInv, RunTypes
  <2> QED BY <2>1 DEF CountedExact
<1>3. ASSUME UNCHANGED <<test, tests, side, numCovered>>, pc' # "reported"
      PROVE  CountedExact'
  BY <1>3 DEF CountedExact
<1>4. CASE TakeClause \/ CreateBindingTable
  BY <1>3, <1>4 DEF TakeClause, CreateBindingTable, semiJoinVars
<1>5. CASE DieInJoin \/ SkipClause \/ EndClause
  BY <1>3, <1>5 DEF DieInJoin, SkipClause, EndClause, semiJoinVars, testVars
<1>6. CASE ComputeUnCoveredData \/ NextUncoveredChunk
  BY <1>3, <1>6 DEF ComputeUnCoveredData, NextUncoveredChunk, testVars
<1>7. CASE SemiJoinStep /\ UNCHANGED <<loadVars, testVars>>
  <2>1. /\ pc' \in Joining /\ side' = side
        /\ UNCHANGED <<test, tests, numCovered>>
    <3>1. BindingStep
      BY <1>7, Zenon DEF SemiJoinStep, BindingStep
    <3> QED BY <1>7, <3>1, BindingStepHeads DEF RunInv, testVars
  <2> QED BY <1>3, <2>1 DEF Joining
<1> QED
  BY <1>1, <1>2, <1>4, <1>5, <1>6, <1>7, Zenon DEF TestStep

(* The views are the rows of the file, each of them in one view. *)
LEMMA ViewsHaveAllRows ==
  ASSUME LoadInv, RunInv, CreateTestTableViews
  PROVE  TestsAreRows'
<1> DEFINE p == test.numTestPositive
           n == numLines
<1>1. UNCHANGED <<file, numLines, buffer, test>>
  BY DEF CreateTestTableViews, loadVars
<1>2. test \in Test /\ file = test.file
  BY DEF RunInv, RunTypes
<1>3. PICK rows : /\ IsDivided(tests', rows, p, n)
                  /\ NoRowLost => \A i \in 1..n : rows[i] = file[buffer[i]]
  BY <1>2, ViewsAreRows
<1>4. p \in Nat /\ n \in Nat /\ p <= n
  <2>1. /\ n \in Nat /\ n = RowNumber(file, read) /\ read = Len(file)
    BY DEF LoadInv, RowsAreLoaded, CreateTestTableViews
  <2>2. /\ p \in Nat \ {0} /\ p <= RowNumber(test.file, Len(test.file))
    BY <1>2, TestTypes
  <2> QED BY <1>2, <2>1, <2>2
<1>5. \A s : \A i : RowOf(s, i)' = RowOf(s, i)
  BY <1>1 DEF RowOf
<1> DEFINE ts == tests'
<1>6. IsDivided(ts, rows, p, n)
  BY <1>3
<1> HIDE DEF ts, p, n
<1>7. /\ Len(ts["positive"]) = p /\ Len(ts["negative"]) = n - p
      /\ \A i \in 1..p : ts["positive"][i] = rows[i]
      /\ \A i \in 1 .. n - p : ts["negative"][i] = rows[p + i]
  BY <1>6 DEF IsDivided
<1>8. \A i : RowOf("positive", i) = i /\ RowOf("negative", i) = p + i
  BY DEF RowOf, p
<1>9. ASSUME NoRowLost, NEW s \in Side
      PROVE  /\ \A i \in 1..Len(ts[s]) : /\ RowOf(s, i) \in 1..n
                                         /\ ts[s][i] = file[buffer[RowOf(s, i)]]
             /\ \A r \in 1..n : (s = "positive" <=> r <= p) =>
                  \E i \in 1..Len(ts[s]) : RowOf(s, i) = r
             /\ s = "positive" => Len(ts[s]) <= p
  <2>1. \A i \in 1..n : rows[i] = file[buffer[i]]
    BY <1>3, <1>9 DEF n
  <2>2. CASE s = "positive"
    BY <1>4, <1>7, <1>8, <2>1, <2>2
  <2>3. CASE s = "negative"
    <3>1. ASSUME NEW i \in 1 .. n - p
          PROVE  p + i \in 1..n
      BY <1>4
    <3>2. ASSUME NEW r \in 1..n, ~(r <= p)
          PROVE  r - p \in 1 .. n - p /\ p + (r - p) = r
      BY <1>4, <3>2
    <3> QED BY <1>7, <1>8, <2>1, <2>3, <3>1, <3>2
  <2> QED BY <2>2, <2>3 DEF Side
<1>10. NoRowLost' <=> NoRowLost
  BY <1>1 DEF NoRowLost
<1> QED
  BY <1>1, <1>5, <1>9, <1>10 DEF TestsAreRows, ts, n, p

LEMMA RowsStay ==
  ASSUME LoadInv, RunInv, TestsAreRows, TestStep
  PROVE  TestsAreRows'
<1>1. CASE CreateTestTableViews
  BY <1>1, ViewsHaveAllRows
<1>2. CASE LoadTests
  <2>1. pc' \in {"load", "dead"}
    BY <1>2 DEF LoadTests
  <2> QED BY <2>1 DEF TestsAreRows
<1>3. ASSUME UNCHANGED <<test, tests>>, UNCHANGED loadVars, pc \notin {"load", "dead"}
      PROVE  TestsAreRows'
  <2>1. UNCHANGED <<file, numLines, buffer, test, tests>>
    BY <1>3 DEF loadVars
  <2>2. /\ \A s : \A i : RowOf(s, i)' = RowOf(s, i)
        /\ NoRowLost' <=> NoRowLost
    BY <2>1 DEF RowOf, NoRowLost
  <2> QED BY <1>3, <2>1, <2>2 DEF TestsAreRows
<1>4. CASE TakeClause \/ CreateBindingTable \/ DieInJoin \/ SkipClause
  BY <1>3, <1>4 DEF TakeClause, CreateBindingTable, DieInJoin, SkipClause, testVars
<1>5. CASE ComputeUnCoveredData \/ NextUncoveredChunk \/ EndClause \/ EndRunTest
  BY <1>3, <1>5 DEF ComputeUnCoveredData, NextUncoveredChunk, EndClause, EndRunTest, testVars
<1>6. CASE SemiJoinStep /\ UNCHANGED <<loadVars, testVars>>
  <2>1. BindingStep
    BY <1>6, Zenon DEF SemiJoinStep, BindingStep
  <2>2. pc \in Joining /\ UNCHANGED <<test, tests>>
    BY <1>6, <2>1, BindingStepHeads DEF RunInv, testVars
  <2> QED BY <1>3, <1>6, <2>2 DEF Joining
<1> QED
  BY <1>1, <1>2, <1>4, <1>5, <1>6, Zenon DEF TestStep

-----------------------------------------------------------------------------
(* Rows of a file have different numbers, in their order. *)
LEMMA RowNumbersDiffer ==
  ASSUME NEW f, NEW m \in Nat, NEW n \in Nat, m < n, IsRow(f, n)
  PROVE  /\ RowNumber(f, m) \in Nat /\ RowNumber(f, n) \in Nat
         /\ RowNumber(f, m) < RowNumber(f, n)
<1> DEFINE A == {k \in 1..m : IsRow(f, k)}
           B == {k \in 1..n : IsRow(f, k)}
<1>1. IsFiniteSet(A) /\ IsFiniteSet(B)
  BY RowsAreFinite
<1>2. n \notin A /\ A \cup {n} \subseteq B
  OBVIOUS
<1>3. RowNumber(f, m) = Cardinality(A) /\ RowNumber(f, n) = Cardinality(B)
  BY DEF RowNumber
<1> HIDE DEF A, B
<1>4. Cardinality(A) \in Nat /\ Cardinality(B) \in Nat
  BY <1>1, FS_CardinalityType
<1>5. Cardinality(A \cup {n}) = Cardinality(A) + 1
  BY <1>1, <1>2, FS_AddElement
<1>6. Cardinality(A \cup {n}) <= Cardinality(B)
  BY <1>1, <1>2, FS_Subset
<1> QED
  BY <1>3, <1>4, <1>5, <1>6

LEMMA SameRowNumber ==
  ASSUME NEW f, NEW m \in Nat, NEW n \in Nat, IsRow(f, m), IsRow(f, n),
         RowNumber(f, m) = RowNumber(f, n)
  PROVE  m = n
<1>1. ~(m < n) /\ ~(n < m)
  <2>1. ASSUME m < n PROVE FALSE
    BY <2>1, RowNumbersDiffer
  <2>2. ASSUME n < m PROVE FALSE
    BY <2>2, RowNumbersDiffer
  <2> QED BY <2>1, <2>2
<1> QED
  BY <1>1

(* The tests a side has lost are its lines that some rule covers. *)
CoveredTests(clauses, rows) ==
  {i \in 1..Len(rows) : \E c \in 1..Len(clauses) : CoversTest(clauses[c], rows[i])}

LEMMA LostAreCovered ==
  ASSUME NEW clauses, NEW rows \in Seq(Value)
  PROVE  /\ IsFiniteSet(CoveredTests(clauses, rows))
         /\ Len(rows) - Len(Left(clauses, rows, Len(clauses))) = Cardinality(CoveredTests(clauses, rows))
<1> DEFINE n == Len(rows)
           K == 1..n
           N == NotCovered(clauses, rows, Len(clauses))
           C == CoveredTests(clauses, rows)
<1>1. n \in Nat /\ 1 \in Int /\ n \in Int
  OBVIOUS
<1>2. IsFiniteSet(K) /\ Cardinality(K) = n
  <2>1. IsFiniteSet(1..n) /\ Cardinality(1..n) = IF 1 > n THEN 0 ELSE n - 1 + 1
    BY <1>1, FS_Interval, Zenon
  <2> QED BY <1>1, <2>1
<1>3. N \subseteq K /\ C = K \ N
  BY DEF NotCovered, CoveredTests
<1>4. Left(clauses, rows, Len(clauses)) = RowsIn(rows, N)
  BY DEF Left
<1>5. N \in SUBSET (1..Len(rows))
  BY <1>3
<1> HIDE DEF N, C, n
<1>6. Len(RowsIn(rows, N)) = Cardinality(N)
  BY <1>5, RowsInType
<1> HIDE DEF K
<1>7. /\ IsFiniteSet(N) /\ IsFiniteSet(C) /\ Cardinality(N) \in Nat /\ Cardinality(C) \in Nat
  <2>1. C \subseteq K
    BY <1>3
  <2> QED BY <1>2, <1>3, <2>1, FS_Subset, FS_CardinalityType
<1>8. K = N \cup C /\ N \cap C = {}
  BY <1>3
<1>9. Cardinality(N \cup C) = Cardinality(N) + Cardinality(C) - Cardinality(N \cap C)
  BY <1>7, FS_Union
<1>10. Cardinality(N \cap C) = 0
  BY <1>8, FS_EmptySet
<1> QED
  BY <1>1, <1>2, <1>4, <1>6, <1>7, <1>8, <1>9, <1>10 DEF n, C

CoveredLines(s) ==
  {n \in LinesOf(s) : \E c \in DOMAIN test.clauses : CoversTest(test.clauses[c], file[n])}

(* Each test that is covered has a line of its own that is, and the other way round. *)
LEMMA LinesOfTests ==
  ASSUME LoadInv, RunInv, TestsAreRows, pc = "reported", NoRowLost, NEW s \in Side
  PROVE  Cardinality(CoveredLines(s)) = Cardinality(CoveredTests(test.clauses, tests[s]))
<1> DEFINE clauses == test.clauses
           rows == tests[s]
           p == test.numTestPositive
           A == CoveredTests(clauses, rows)
           B == CoveredLines(s)
           g == [i \in A |-> buffer[RowOf(s, i)]]
<1>1. /\ test \in Test /\ file = test.file /\ rows \in Seq(Value) /\ loading = "loaded"
  BY DEF RunInv, RunTypes
<1>2. /\ file \in Seq(Nat) /\ read = Len(file) /\ numLines \in Nat
      /\ numLines = RowNumber(file, Len(file)) /\ DOMAIN buffer = 1..numLines
      /\ \A r \in 1..numLines : /\ buffer[r] \in 1..Len(file) /\ IsRow(file, buffer[r])
                                /\ RowNumber(file, buffer[r]) = r
  BY <1>1 DEF LoadInv, RowsAreLoaded, NoRowLost
<1>3. /\ p \in Nat /\ Len(clauses) \in Nat /\ DOMAIN clauses = 1..Len(clauses)
      /\ Len(file) \in Nat /\ DOMAIN file = 1..Len(file) /\ Len(rows) \in Nat
  BY <1>1, <1>2, TestTypes
<1>4. /\ \A i \in 1..Len(rows) : /\ RowOf(s, i) \in 1..numLines
                                 /\ rows[i] = file[buffer[RowOf(s, i)]]
      /\ \A r \in 1..numLines : (s = "positive" <=> r <= p) => \E i \in 1..Len(rows) : RowOf(s, i) = r
      /\ s = "positive" => Len(rows) <= p
  BY DEF TestsAreRows
<1>5. \A i : RowOf(s, i) = IF s = "positive" THEN i ELSE p + i
  BY DEF RowOf
<1>6. \A i \in 1..Len(rows) : s = "positive" <=> RowOf(s, i) <= p
  BY <1>3, <1>4, <1>5 DEF Side
<1>7. \A i : i \in A <=> i \in 1..Len(rows) /\ \E c \in 1..Len(clauses) : CoversTest(clauses[c], rows[i])
  BY DEF CoveredTests
<1>8. \A n : n \in B <=> /\ n \in 1..Len(file) /\ IsRow(file, n)
                         /\ s = "positive" <=> RowNumber(file, n) <= p
                         /\ \E c \in 1..Len(clauses) : CoversTest(clauses[c], file[n])
  BY <1>3 DEF CoveredLines, LinesOf
<1> HIDE DEF A, B, clauses, p, rows
<1>9. \A i \in A : g[i] = buffer[RowOf(s, i)] /\ g[i] \in B
  <2> TAKE i \in A
  <2>1. i \in 1..Len(rows) /\ RowOf(s, i) \in 1..numLines /\ rows[i] = file[buffer[RowOf(s, i)]]
    BY <1>4, <1>7
  <2>2. /\ buffer[RowOf(s, i)] \in 1..Len(file) /\ IsRow(file, buffer[RowOf(s, i)])
        /\ RowNumber(file, buffer[RowOf(s, i)]) = RowOf(s, i)
    BY <1>2, <2>1
  <2>3. s = "positive" <=> RowNumber(file, buffer[RowOf(s, i)]) <= p
    BY <1>6, <2>1, <2>2
  <2>4. \E c \in 1..Len(clauses) : CoversTest(clauses[c], file[buffer[RowOf(s, i)]])
    BY <1>7, <2>1
  <2> QED BY <1>8, <2>2, <2>3, <2>4
<1>10. \A i \in A : \A j \in A : g[i] = g[j] => i = j
  <2> TAKE i \in A
  <2> TAKE j \in A
  <2> HAVE g[i] = g[j]
  <2>1. /\ i \in 1..Len(rows) /\ j \in 1..Len(rows)
        /\ RowOf(s, i) \in 1..numLines /\ RowOf(s, j) \in 1..numLines
    BY <1>4, <1>7
  <2>2. buffer[RowOf(s, i)] = buffer[RowOf(s, j)]
    BY <1>9
  <2>3. RowOf(s, i) = RowOf(s, j)
    BY <1>2, <2>1, <2>2, Zenon
  <2>4. i \in Nat /\ j \in Nat
    BY <1>3, <2>1
  <2> QED BY <1>3, <1>5, <2>3, <2>4
<1>11. \A n \in B : \E i \in A : g[i] = n
  <2> TAKE n \in B
  <2> DEFINE r == RowNumber(file, n)
  <2>1. /\ n \in 1..Len(file) /\ IsRow(file, n) /\ (s = "positive" <=> r <= p)
        /\ \E c \in 1..Len(clauses) : CoversTest(clauses[c], file[n])
    BY <1>8
  <2>2. r \in 1..numLines
    <3>1. n \in Nat /\ Len(file) \in Nat /\ 0 \in Nat /\ 0 < n /\ (n < Len(file) \/ n = Len(file))
      <4>1. n \in 1..Len(file) /\ Len(file) \in Nat
        BY <1>3, <2>1
      <4> QED BY <4>1
    <3>2. RowNumber(file, 0) \in Nat /\ r \in Nat /\ RowNumber(file, 0) < r
      BY <2>1, <3>1, RowNumbersDiffer
    <3>3. r <= numLines
      <4>1. {k \in 1..n : IsRow(file, k)} \subseteq {k \in 1..Len(file) : IsRow(file, k)}
        BY <3>1
      <4>2. IsFiniteSet({k \in 1..Len(file) : IsRow(file, k)})
        BY <3>1, RowsAreFinite
      <4>3. Cardinality({k \in 1..n : IsRow(file, k)}) <= Cardinality({k \in 1..Len(file) : IsRow(file, k)})
        BY <4>1, <4>2, FS_Subset, Zenon
      <4> QED BY <1>2, <4>3, Zenon DEF RowNumber
    <3> HIDE DEF r
    <3> QED BY <1>2, <3>2, <3>3
  <2>3. PICK i \in 1..Len(rows) : RowOf(s, i) = r
    BY <1>4, <2>1, <2>2
  <2>4. buffer[r] = n
    <3> DEFINE m == buffer[r]
    <3>1. /\ m \in 1..Len(file) /\ IsRow(file, m) /\ RowNumber(file, m) = r
      BY <1>2, <2>2
    <3>2. m \in Nat /\ n \in Nat
      BY <1>3, <2>1, <3>1
    <3> HIDE DEF m
    <3>3. m = n
      BY <2>1, <3>1, <3>2, SameRowNumber
    <3> QED BY <3>3 DEF m
  <2>5. rows[i] = file[n]
    BY <1>4, <2>3, <2>4
  <2>6. i \in A
    BY <1>7, <2>1, <2>5
  <2> QED BY <1>9, <2>3, <2>4, <2>6
<1>12. g \in [A -> B]
  BY <1>9
<1> HIDE DEF g
<1>13. IsOneToOne(g, A, B)
  BY <1>9, <1>10, <1>11, Zenon DEF IsOneToOne
<1>14. IsFiniteSet(A)
  BY <1>1, LostAreCovered DEF A, clauses, rows
<1>15. Cardinality(B) = Cardinality(A)
  BY <1>12, <1>13, <1>14, SameSize
<1> QED
  BY <1>15 DEF A, B, clauses, rows

LEMMA ReportedIsCounted ==
  ASSUME LoadInv, RunInv, CountedExact, TestsAreRows, pc = "reported", NoRowLost, NEW s \in Side,
         \A c \in DOMAIN test.clauses : IsTestedInOneChunk(test.clauses[c], s)
  PROVE  numCovered[s] = Cardinality(CoveredLines(s))
<1>1. test \in Test /\ tests[s] \in Seq(Value)
  BY DEF RunInv, RunTypes
<1>2. /\ DOMAIN test.clauses = 1..Len(test.clauses)
      /\ \A c \in 1..Len(test.clauses) : IsRule(test.clauses[c])
  BY <1>1, TestTypes
<1>3. ASSUME NEW c \in 1..Len(test.clauses)
      PROVE  IsInOneChunk(test.clauses[c], tests[s])
  <2>1. IsRule(test.clauses[c]) /\ IsTestedInOneChunk(test.clauses[c], s)
    BY <1>2
  <2> QED BY <1>1, <2>1, TestedInOneChunk
<1>4. InOneChunk(test.clauses, tests[s])
  BY <1>3 DEF InOneChunk
<1>5. numCovered[s] = Len(tests[s]) - Len(Left(test.clauses, tests[s], Len(test.clauses)))
  BY <1>4 DEF CountedExact
<1>6. Len(tests[s]) - Len(Left(test.clauses, tests[s], Len(test.clauses)))
        = Cardinality(CoveredTests(test.clauses, tests[s]))
  BY <1>1, LostAreCovered
<1>7. Cardinality(CoveredLines(s)) = Cardinality(CoveredTests(test.clauses, tests[s]))
  BY LinesOfTests
<1> QED
  BY <1>5, <1>6, <1>7

LEMMA CountedIsExact ==
  ASSUME TestInv, caller = "tests" => CountedExact /\ TestsAreRows
  PROVE  ReportIsExact
<1>1. CASE caller = "tests"
  <2>1. LoadInv /\ RunInv /\ CountedExact /\ TestsAreRows
    BY <1>1 DEF TestInv
  <2> SUFFICES ASSUME pc = "reported", NoRowLost, NEW s \in Side,
                      \A c \in DOMAIN test.clauses : IsTestedInOneChunk(test.clauses[c], s)
               PROVE  numCovered[s] = Cardinality(CoveredLines(s))
    BY DEF ReportIsExact, NoRowLost, CoveredLines
  <2> QED BY <2>1, ReportedIsCounted
<1>2. CASE caller = "learner"
  <2>1. pc # "reported"
    BY <1>2 DEF TestInv, RulesInv, CollectInv, Joining
  <2> QED BY <2>1 DEF ReportIsExact
<1> QED
  BY <1>1, <1>2 DEF TestInv

(* What is left of the tests, for the runs of the tests. *)
ReportInv == caller = "tests" => LeftExact /\ CountedExact /\ TestsAreRows

LEMMA ReportInvInit ==
  ASSUME TestInit
  PROVE  ReportInv
<1>1. CASE TestsInit
  <2>1. pc = "load" /\ side = "positive"
    BY <1>1 DEF TestsInit
  <2> QED BY <2>1 DEF ReportInv, LeftExact, CountedExact, TestsAreRows, Joining
<1>2. CASE LearnerInit
  BY <1>2 DEF LearnerInit, ReportInv
<1> QED
  BY <1>1, <1>2 DEF TestInit

LEMMA ReportInvNext ==
  ASSUME TestInv, ReportInv, [TestNext]_<<vars, loadVars, testVars>>
  PROVE  ReportInv'
<1>1. CASE TestStep
  <2>1. LoadInv /\ RunInv /\ LeftExact /\ CountedExact /\ TestsAreRows
    BY <1>1, TestStepLoads DEF TestInv, ReportInv
  <2> QED BY <1>1, <2>1, LeftStep, CountedStep, RowsStay DEF ReportInv
<1>2. CASE LearnerStep
  BY <1>2 DEF LearnerStep, testVars, ReportInv
<1>3. CASE UNCHANGED <<vars, loadVars, testVars>>
  <2>1. UNCHANGED <<pc, given, side, uncovered, caller, test, tests, clause, numCovered, file, numLines, buffer>>
    BY <1>3 DEF vars, loadVars, testVars
  <2>2. /\ \A s : \A i : RowOf(s, i)' = RowOf(s, i)
        /\ NoRowLost' <=> NoRowLost
    BY <2>1 DEF RowOf, NoRowLost
  <2>3. LeftExact => LeftExact'
    BY <2>1 DEF LeftExact
  <2>4. CountedExact => CountedExact'
    BY <2>1 DEF CountedExact
  <2>5. TestsAreRows => TestsAreRows'
    BY <2>1, <2>2 DEF TestsAreRows
  <2> QED BY <2>1, <2>3, <2>4, <2>5 DEF ReportInv
<1> QED
  BY <1>1, <1>2, <1>3 DEF TestNext

(* From the file to the report: when the run of the tests reports, a side's number
   is that of its lines some rule covers, for every file and all rules, whatever
   the order of the rules, the growth of the buffer, the table each join and each
   semi-join hashes and the chunks the tests are looked up in, unless a row was
   lost behind the buffer's end or the bindings of a rule fill several chunks
   (QuickFoilTestRunner::RunTest, main.cpp).                               *)
THEOREM ReportCorrect == TestSpec => []ReportIsExact
<1>1. TestInit => ReportInv
  BY ReportInvInit
<1>2. TestInv /\ ReportInv /\ [TestNext]_<<vars, loadVars, testVars>> => ReportInv'
  BY ReportInvNext
<1>3. TestInv /\ ReportInv => ReportIsExact
  BY CountedIsExact DEF ReportInv
<1> QED
  BY <1>1, <1>2, <1>3, TestInvHolds, PTL DEF TestSpec

=============================================================================
