--------------------------- MODULE QuickFoilProofs --------------------------
(***************************************************************************)
(* Proofs about the rule search, for every data set and every setting of   *)
(* the flags.                                                              *)
(***************************************************************************)
EXTENDS QuickFoil, FiniteSetTheorems, TLAPS

(* The turn of a literal search always has a building state. *)
HasBuilding == pc \in {"search", "take", "regrow", "commit"} => building # <<>>

(* A state is pushed on another one for a random literal only. *)
RandomOnTop == \A i \in DOMAIN building : i > 1 => LastIsRandom(building[i])

TypeInv == TypeOK /\ HasBuilding /\ RandomOnTop

-----------------------------------------------------------------------------
(* Sequences and states. *)

LEMMA EmptyType ==
  ASSUME NEW S
  PROVE  <<>> \in Seq(S)
OBVIOUS

LEMMA FinalElementType ==
  ASSUME NEW S, NEW q \in Seq(S), q # <<>>
  PROVE  FinalElement(q) \in S
BY DEF FinalElement

LEMMA AllButFinalType ==
  ASSUME NEW S, NEW q \in Seq(S), q # <<>>
  PROVE  /\ AllButFinal(q) \in Seq(S)
         /\ Len(AllButFinal(q)) = Len(q) - 1
         /\ \A i \in 1..Len(q) - 1 : AllButFinal(q)[i] = q[i]
BY DEF AllButFinal

LEMMA ReplaceFinalType ==
  ASSUME NEW S, NEW q \in Seq(S), q # <<>>, NEW x \in S
  PROVE  /\ ReplaceFinal(q, x) \in Seq(S)
         /\ Len(ReplaceFinal(q, x)) = Len(q)
         /\ FinalElement(ReplaceFinal(q, x)) = x
         /\ \A i \in 1..Len(q) - 1 : ReplaceFinal(q, x)[i] = q[i]
         /\ ReplaceFinal(q, x)[Len(q)] = x
BY DEF ReplaceFinal, FinalElement

LEMMA ElementType ==
  ASSUME NEW S, NEW q \in Seq(S)
  PROVE  /\ DOMAIN q = 1..Len(q) /\ Len(q) \in Nat
         /\ \A i \in DOMAIN q : q[i] \in S
OBVIOUS

LEMMA LiteralsOfType ==
  ASSUME NEW s \in State
  PROVE  LiteralsOf(s) \in Body
<1>. s.body \in Seq([lit : Literal, random : BOOLEAN])
  BY DEF State
<1>1. \A i \in DOMAIN s.body : s.body[i] \in [lit : Literal, random : BOOLEAN]
  BY ElementType
<1>2. \A i \in DOMAIN s.body : s.body[i].lit \in Literal
  BY <1>1
<1>. QED
  BY <1>2 DEF LiteralsOf, Body

LEMMA MostGeneralType ==
  ASSUME NEW S \in SUBSET Pos, NEW stats \in Body
  PROVE  MostGeneral(S, stats) \in State
BY DEF MostGeneral, State, Groups, Body

LEMMA ExtensionType ==
  ASSUME NEW s \in State, NEW l \in Literal, NEW random \in BOOLEAN,
         NEW fromTied \in BOOLEAN, NEW stats \in Body
  PROVE  Extension(s, l, random, fromTied, stats) \in State
<1>1. Append(s.body, [lit |-> l, random |-> random])
        \in Seq([lit : Literal, random : BOOLEAN])
  BY DEF State
<1>2. <<>> \in Groups
  BY DEF Groups
<1>. QED
  BY <1>1, <1>2 DEF Extension, State, Body

LEMMA RankingType ==
  ASSUME NEW S \in SUBSET Literal, NEW ranking \in Rankings(S)
  PROVE  /\ ranking \in Groups
         /\ ranking # <<>>
         /\ \A i \in 1..Len(ranking) : ranking[i] # {} /\ ranking[i] \subseteq S
<1>1. PICK H \in SUBSET S : ranking \in TieGroups(H)
  BY Zenon DEF Rankings
<1>2. PICK n \in 1..NumSavedLiterals :
        ranking \in {[i \in 1..n |-> {l \in H : r[l] = i}] : r \in Surjection(H, 1..n)}
  BY Zenon, <1>1 DEF TieGroups
<1>. PICK r \in Surjection(H, 1..n) : ranking = [i \in 1..n |-> {l \in H : r[l] = i}]
  BY Zenon, <1>2
<1>3. n \in Nat /\ n > 0
  BY FlagAssumption
<1>4. \A i \in 1..n : {l \in H : r[l] = i} # {}
  BY Zenon DEF Surjection
<1>. QED
  <2>1. ranking \in [1..n -> SUBSET Literal] /\ DOMAIN ranking = 1..n
    OBVIOUS
  <2>2. ranking \in Seq(SUBSET Literal) /\ Len(ranking) = n
    BY <1>3, <2>1
  <2>. QED
    BY <1>3, <1>4, <2>1, <2>2 DEF Groups

LEMMA TopType ==
  ASSUME TypeOK, building # <<>>
  PROVE  Top \in State /\ LiteralsOf(Top) \in Body
BY FinalElementType, LiteralsOfType DEF Top, TypeOK

LEMMA ScoredType ==
  ASSUME NEW s \in State
  PROVE  /\ Scored(s) \in SUBSET Literal
         /\ Hopeless(s) \in SUBSET Literal
BY DEF Scored, Hopeless, Candidates

LEMMA SelectorType ==
  ASSUME NEW s \in State, NEW selector \in Groups
  PROVE  /\ WithSelector(s, selector) \in State
         /\ WithSelector(s, selector).body = s.body
         /\ WithSelector(s, selector).local = s.local
BY DEF WithSelector, State

LEMMA NextGroupType ==
  ASSUME NEW s \in State
  PROVE  /\ NextGroupTaken(s) \in State
         /\ NextGroupTaken(s).body = s.body
         /\ NextGroupTaken(s).local = s.local
<1>1. s.saved \in Seq(SUBSET Literal)
  BY DEF State, Groups
<1>2. s.saved # <<>> => AllButFinal(s.saved) \in Groups
  BY <1>1, AllButFinalType DEF Groups
<1>. QED
  BY <1>2 DEF NextGroupTaken, State

LEMMA ReplaceKeepsRandom ==
  ASSUME NEW q \in Seq(State), q # <<>>, NEW s \in State,
         s.body = FinalElement(q).body,
         \A i \in DOMAIN q : i > 1 => LastIsRandom(q[i])
  PROVE  /\ ReplaceFinal(q, s) \in Seq(State) /\ ReplaceFinal(q, s) # <<>>
         /\ \A i \in DOMAIN ReplaceFinal(q, s) : i > 1 => LastIsRandom(ReplaceFinal(q, s)[i])
<1>. DEFINE w == ReplaceFinal(q, s)
<1>1. /\ w \in Seq(State) /\ Len(w) = Len(q)
      /\ \A i \in 1..Len(q) - 1 : w[i] = q[i]
      /\ w[Len(q)] = s
  BY ReplaceFinalType
<1>2. Len(q) \in Nat /\ Len(q) > 0 /\ q[Len(q)].body = s.body
  BY DEF FinalElement
<1>. HIDE DEF w
<1>3. \A i \in 1..Len(q) : i > 1 => LastIsRandom(w[i])
  BY <1>1, <1>2 DEF LastIsRandom
<1>4. w \in Seq(State) /\ w # <<>> /\ \A i \in DOMAIN w : i > 1 => LastIsRandom(w[i])
  BY <1>1, <1>2, <1>3
<1>. QED
  BY <1>4 DEF w

(* A state the search falls back to. *)
LEMMA FallenBackType ==
  ASSUME NEW s \in State, Top \in State, LastIsRandom(Top)
  PROVE  /\ FallenBack(s) \in State
         /\ FallenBack(s).body = s.body
         /\ FallenBack(s).local = s.local
<1>1. LastLiteral(Top) \in Literal
  <2>1. Top.body \in Seq([lit : Literal, random : BOOLEAN]) /\ Top.body # <<>>
    BY DEF State, LastIsRandom
  <2>2. FinalElement(Top.body) \in [lit : Literal, random : BOOLEAN]
    BY <2>1, FinalElementType
  <2>. QED
    BY <2>2 DEF LastLiteral, FinalElement
<1>2. /\ [s EXCEPT !.black = @ \cup {LastLiteral(Top)}] \in State
      /\ [s EXCEPT !.black = @ \cup {LastLiteral(Top)}].body = s.body
      /\ [s EXCEPT !.black = @ \cup {LastLiteral(Top)}].local = s.local
  BY <1>1 DEF State
<1>. QED
  BY <1>2, NextGroupType DEF FallenBack

-----------------------------------------------------------------------------
(* AddBestCandidateLiteral. *)

LEMMA FinishType ==
  ASSUME NEW chain \in Seq(State) \ {<<>>}, NEW l \in Literal, NEW random \in BOOLEAN,
         TypeOK, FinishClause(chain, l, random)
  PROVE  /\ building' = <<>> /\ firstPruned' = firstPruned
         /\ uncovered' \in SUBSET Pos /\ learnt' \in Seq(Body)
<1>1. LiteralsOf(FinalElement(chain)) \in Body
  BY FinalElementType, LiteralsOfType
<1>. QED
  BY <1>1 DEF FinishClause, TypeOK, Body

LEMMA GrowType ==
  ASSUME NEW chain \in Seq(State) \ {<<>>}, NEW l \in Literal, NEW random \in BOOLEAN,
         NEW fromTied \in BOOLEAN, NEW stats \in Body, NEW selector \in Groups,
         TypeOK, \A i \in DOMAIN chain : i > 1 => LastIsRandom(chain[i]),
         GrowClause(chain, l, random, fromTied, stats, selector)
  PROVE  /\ building' \in Seq(State) \ {<<>>}
         /\ \A i \in DOMAIN building' : i > 1 => LastIsRandom(building'[i])
         /\ firstPruned' \in Body
         /\ UNCHANGED <<uncovered, learnt>>
<1>. DEFINE s == FinalElement(chain)
            new == Extension(s, l, random, fromTied, stats)
            n == Len(chain)
            left == ReplaceFinal(chain, WithSelector(s, selector))
<1>1. s \in State /\ new \in State /\ WithSelector(s, selector) \in State
  BY FinalElementType, ExtensionType, SelectorType
<1>2. n \in Nat /\ n > 0 /\ chain[n] = s
  BY DEF FinalElement
<1>3. /\ left \in Seq(State) /\ Len(left) = n
      /\ \A i \in 1..n - 1 : left[i] = chain[i]
      /\ left[n] = WithSelector(s, selector)
  BY <1>1, ReplaceFinalType
<1>4. WithSelector(s, selector).body = s.body
  BY <1>1, SelectorType
<1>5. \A i \in 1..n : i > 1 => LastIsRandom(left[i])
  BY <1>2, <1>3, <1>4 DEF LastIsRandom
<1>6. random => LastIsRandom(new)
  <2>1. new.body = Append(s.body, [lit |-> l, random |-> random])
    BY <1>1 DEF Extension, State
  <2>2. s.body \in Seq([lit : Literal, random : BOOLEAN])
    BY <1>1 DEF State
  <2>. QED
    BY <2>1, <2>2 DEF LastIsRandom
<1>7. building' = IF random THEN Append(left, new) ELSE <<new>>
  BY DEF GrowClause
<1>8. firstPruned' \in Body /\ UNCHANGED <<uncovered, learnt>>
  BY DEF GrowClause, TypeOK
<1>. HIDE DEF s, new, left
<1>9. CASE random
  <2>1. /\ building' \in Seq(State) /\ Len(building') = n + 1
        /\ building'[n + 1] = new
        /\ \A i \in 1..n : building'[i] = left[i]
    BY <1>1, <1>2, <1>3, <1>7, <1>9
  <2>2. \A i \in 1..n : i > 1 => LastIsRandom(building'[i])
    BY <1>2, <1>5, <2>1
  <2>3. \A i \in 1..n + 1 : i > 1 => LastIsRandom(building'[i])
    BY <1>2, <1>6, <1>9, <2>1, <2>2
  <2>. QED
    BY <1>2, <1>8, <2>1, <2>3
<1>10. CASE ~random
  BY <1>1, <1>7, <1>8, <1>10
<1>. QED
  BY <1>9, <1>10

-----------------------------------------------------------------------------
(* Type correctness. *)

LEMMA TypeInit == Init => TypeInv
<1>. SUFFICES ASSUME Init PROVE TypeInv
  OBVIOUS
<1>1. MostGeneral(Pos, {}) \in State
  BY MostGeneralType DEF Body
<1>2. building \in Seq(State) /\ Len(building) = 1
  BY <1>1 DEF Init
<1>3. HasBuilding /\ RandomOnTop
  BY <1>2 DEF HasBuilding, RandomOnTop
<1>4. /\ learnt \in Seq(Body)
      /\ tied \in Seq([lit : Literal, chain : Seq(State) \ {<<>>}, pruned : Body])
      /\ saved \in Groups
  BY EmptyType DEF Init, Groups
<1>. QED
  BY <1>2, <1>3, <1>4 DEF Init, TypeInv, TypeOK, Body

LEMMA TypeSearchPick ==
  ASSUME TypeInv, SearchPicksRegular \/ SearchPicksRandom
  PROVE  TypeInv'
<1>1. pc = "search" /\ building # <<>> /\ Top \in State
  BY TopType DEF SearchPicksRegular, SearchPicksRandom, SearchRanks, TypeInv, HasBuilding
<1>2. Scored(Top) \in SUBSET Literal /\ Hopeless(Top) \in SUBSET Literal
  BY <1>1, ScoredType
<1>3. pruned' \in Body
  BY <1>1, <1>2 DEF SearchPicksRegular, SearchPicksRandom, SearchRanks, State, Body
<1>4. vec' \in Body /\ saved' \in Groups
  <2>1. CASE SearchPicksRegular
    <3>1. PICK ranking \in Rankings(Scored(Top)) :
            vec' = FinalElement(ranking) /\ saved' = AllButFinal(ranking)
      BY <2>1 DEF SearchPicksRegular
    <3>2. ranking \in Seq(SUBSET Literal) /\ ranking # <<>>
      BY <1>2, RankingType DEF Groups
    <3>. QED
      BY <3>1, <3>2, FinalElementType, AllButFinalType DEF Groups, Body
  <2>2. CASE SearchPicksRandom
    <3>1. PICK ranking \in Rankings(Scored(Top)) :
            saved' = ranking /\ \E r \in Scored(Top) : vec' = {r}
      BY <2>2 DEF SearchPicksRandom
    <3>2. ranking \in Groups
      BY <1>2, RankingType
    <3>. QED
      BY <1>2, <3>1, <3>2 DEF Body
  <2>. QED
    BY <2>1, <2>2
<1>. QED
  BY <1>1, <1>3, <1>4 DEF SearchPicksRegular, SearchPicksRandom, SearchRanks, TypeInv,
    TypeOK, HasBuilding, RandomOnTop, Ended, Crashed, Body

LEMMA TypeNextGroup ==
  ASSUME TypeInv, RegrowNextGroup
  PROVE  TypeInv'
<1>1. /\ pc = "regrow" /\ building \in Seq(State) /\ building # <<>>
      /\ saved \in Seq(SUBSET Literal) /\ RandomOnTop
  BY DEF RegrowNextGroup, TypeInv, TypeOK, HasBuilding, Groups
<1>2. /\ vec' \in Body /\ saved' \in Groups /\ building' \in Seq(State)
      /\ building' # <<>> /\ RandomOnTop'
  <2>1. CASE own /\ saved # <<>>
    BY <1>1, <2>1, FinalElementType, AllButFinalType
      DEF RegrowNextGroup, Groups, Body, RandomOnTop
  <2>2. CASE ~own /\ Top.saved # <<>>
    <3>1. Top \in State /\ Top = building[Len(building)]
      BY <1>1, FinalElementType DEF Top, FinalElement
    <3>2. Top.saved \in Seq(SUBSET Literal)
      BY <3>1 DEF State, Groups
    <3>3. building' = ReplaceFinal(building, NextGroupTaken(Top))
      BY <2>2 DEF RegrowNextGroup
    <3>4. NextGroupTaken(Top) \in State /\ NextGroupTaken(Top).body = Top.body
      BY <3>1, NextGroupType
    <3>. DEFINE x == NextGroupTaken(Top)
    <3>5. x \in State /\ x.body = FinalElement(building).body
      BY <3>4 DEF Top
    <3>. HIDE DEF x
    <3>6. building' \in Seq(State) /\ building' # <<>> /\ RandomOnTop'
      <4>1. building' = ReplaceFinal(building, x)
        BY <3>3 DEF x
      <4>. QED
        BY <1>1, <3>5, <4>1, ReplaceKeepsRandom DEF RandomOnTop
    <3>7. vec' \in Body /\ saved' \in Groups
      BY <1>1, <2>2, <3>2, FinalElementType DEF RegrowNextGroup, Groups, Body
    <3>. QED
      BY <3>6, <3>7
  <2>. QED
    BY <2>1, <2>2 DEF RegrowNextGroup
<1>. QED
  BY <1>1, <1>2 DEF RegrowNextGroup, TypeInv, TypeOK, HasBuilding

LEMMA TypeFallBack ==
  ASSUME TypeInv, RegrowFallsBack
  PROVE  TypeInv'
<1>. USE DEF TypeInv
<1>. DEFINE below == AllButFinal(building)
            previous == FinalElement(below)
<1>1. pc = "regrow" /\ building # <<>> /\ building \in Seq(State) /\ Top \in State
  BY TopType DEF RegrowFallsBack, HasBuilding, TypeOK
<1>2. CASE Len(building) > 1 /\ previous.kept
  <2>1. /\ below \in Seq(State) /\ Len(below) = Len(building) - 1
        /\ \A i \in 1..Len(below) : below[i] = building[i]
    BY <1>1, AllButFinalType
  <2>2. below # <<>> /\ previous \in State /\ previous = below[Len(below)]
    BY <1>2, <2>1, FinalElementType DEF FinalElement
  <2>3. LastIsRandom(Top)
    BY <1>1, <1>2 DEF RandomOnTop, Top, FinalElement
  <2>4. FallenBack(previous) \in State /\ FallenBack(previous).body = previous.body
    BY <1>1, <2>2, <2>3, FallenBackType
  <2>5. building' = ReplaceFinal(below, FallenBack(previous))
    BY <1>2 DEF RegrowFallsBack
  <2>6. \A i \in DOMAIN below : i > 1 => LastIsRandom(below[i])
    BY <1>1, <2>1 DEF RandomOnTop
  <2>7. building' \in Seq(State) /\ building' # <<>> /\ RandomOnTop'
    <3>. DEFINE x == FallenBack(previous)
    <3>1. x \in State /\ x.body = FinalElement(below).body
      BY <2>4
    <3>. HIDE DEF x, below
    <3>2. building' = ReplaceFinal(below, x)
      BY <2>5 DEF x
    <3>. QED
      BY <2>1, <2>2, <2>6, <3>1, <3>2, ReplaceKeepsRandom DEF RandomOnTop
  <2>8. vec' \in Body /\ pruned' \in Body
    <3>1. previous.saved \in Seq(SUBSET Literal)
      BY <2>2 DEF State, Groups
    <3>2. vec' = IF previous.saved = <<>> THEN {} ELSE FinalElement(previous.saved)
      BY <1>2 DEF RegrowFallsBack
    <3>3. pruned' = Top.pruned
      BY <1>2 DEF RegrowFallsBack
    <3>. QED
      BY <1>1, <3>1, <3>2, <3>3, FinalElementType DEF Body, State
  <2>. QED
    BY <1>1, <1>2, <2>7, <2>8 DEF RegrowFallsBack, TypeOK, HasBuilding
<1>3. CASE ~(Len(building) > 1 /\ previous.kept)
  BY <1>1, <1>3 DEF RegrowFallsBack, TypeOK, HasBuilding, RandomOnTop, Ended, Crashed
<1>. QED
  BY <1>2, <1>3

LEMMA NoBuildingType ==
  ASSUME building' = <<>>, pc' \in {"rule_end", "tied"}
  PROVE  building' \in Seq(State) /\ RandomOnTop' /\ HasBuilding'
BY DEF RandomOnTop, HasBuilding

LEMMA NewBuildingType ==
  ASSUME NEW s \in State, building' = <<s>>
  PROVE  building' \in Seq(State) /\ RandomOnTop' /\ HasBuilding'
<1>1. building' \in Seq(State) /\ building' # <<>> /\ DOMAIN building' = {1}
  <2>. HIDE DEF State
  <2>. QED  OBVIOUS
<1>. QED
  BY <1>1 DEF RandomOnTop, HasBuilding

LEMMA TypeCommit ==
  ASSUME TypeInv, Commit
  PROVE  TypeInv'
<1>. TypeOK /\ HasBuilding /\ RandomOnTop
  BY DEF TypeInv
<1>1. /\ pc = "commit" /\ building \in Seq(State) \ {<<>>} /\ pruned \in Body
      /\ saved \in Groups /\ vec \in Body /\ isRandom \in BOOLEAN
  BY DEF Commit, HasBuilding, TypeOK
<1>2. tied' \in Seq([lit : Literal, chain : Seq(State) \ {<<>>}, pruned : Body])
  <2>. DEFINE keep == {l \in vec : IsWorthKeeping(Top, l)}
              n == Cardinality(keep)
              T == [lit : Literal, chain : Seq(State) \ {<<>>}, pruned : Body]
  <2>1. PICK order \in Bijection(1..n, keep) :
          tied' = tied \o [i \in 1..n |->
                     [lit |-> order[i], chain |-> building, pruned |-> pruned]]
    BY DEF Commit, KeepTied
  <2>2. \A i \in 1..n : order[i] \in Literal
    BY <1>1 DEF Bijection, Injection, Body
  <2>3. [i \in 1..n |-> [lit |-> order[i], chain |-> building, pruned |-> pruned]]
          \in [1..n -> T]
    BY <1>1, <2>2
  <2>4. n \in Nat
    <3>1. IsFiniteSet(Literal)
      BY ExampleAssumption
    <3>2. keep \subseteq Literal
      BY <1>1 DEF Body
    <3>. QED
      BY <3>1, <3>2, FS_Subset, FS_CardinalityType
  <2>5. [i \in 1..n |-> [lit |-> order[i], chain |-> building, pruned |-> pruned]]
          \in Seq(T)
    <3>. HIDE DEF T, n
    <3>. QED  BY <2>3, <2>4
  <2>6. tied \in Seq(T)
    BY DEF TypeOK
  <2>. HIDE DEF T, n
  <2>7. tied' \in Seq(T)
    BY <2>1, <2>5, <2>6
  <2>. QED
    BY <2>7 DEF T
<1>3. /\ building' \in Seq(State) /\ uncovered' \in SUBSET Pos
      /\ learnt' \in Seq(Body) /\ firstPruned' \in Body
      /\ pc' \in {"rule_end", "search"}
      /\ RandomOnTop' /\ HasBuilding'
  <2>. PICK l \in best :
         \/ FinishClause(building, l, isRandom) /\ pc' = "rule_end"
         \/ DropClause(building, l, isRandom, FALSE) /\ pc' = "rule_end"
         \/ GrowClause(building, l, isRandom, FALSE, pruned, saved) /\ pc' = "search"
    BY DEF Commit
  <2>1. l \in Literal
    BY DEF TypeOK, Body
  <2>2. CASE FinishClause(building, l, isRandom) /\ pc' = "rule_end"
    BY <1>1, <2>1, <2>2, FinishType, NoBuildingType DEF TypeOK
  <2>3. CASE DropClause(building, l, isRandom, FALSE) /\ pc' = "rule_end"
    <3>1. building' = <<>> /\ UNCHANGED <<uncovered, learnt, firstPruned>>
      BY <2>3 DEF DropClause
    <3>. QED
      BY <2>3, <3>1, NoBuildingType DEF TypeOK
  <2>4. CASE GrowClause(building, l, isRandom, FALSE, pruned, saved) /\ pc' = "search"
    BY <1>1, <2>1, <2>4, GrowType DEF TypeOK, HasBuilding, RandomOnTop
  <2>. QED
    BY <2>2, <2>3, <2>4
<1>4. /\ saved' \in Groups /\ vec' \in Body /\ best' \in Body /\ pruned' \in Body
      /\ isRandom' \in BOOLEAN /\ own' \in BOOLEAN /\ iterations' \in Nat
  BY EmptyType DEF Commit, EndOfTurn, TypeOK, Groups, Body
<1>. QED
  BY <1>2, <1>3, <1>4 DEF TypeInv, TypeOK

LEMMA TypeTryTied ==
  ASSUME TypeInv, TryTied
  PROVE  TypeInv'
<1>. USE DEF TypeInv
<1>. DEFINE T == [lit : Literal, chain : Seq(State) \ {<<>>}, pruned : Body]
            t == FinalElement(tied)
<1>1. tied \in Seq(T) /\ tied # <<>> /\ pc = "tied"
  BY DEF TryTied, TypeOK
<1>2. tied' \in Seq(T)
  <2>. HIDE DEF T
  <2>. QED
    BY <1>1, AllButFinalType DEF TryTied
<1>3. t \in T
  <2>. HIDE DEF T
  <2>. QED
    BY <1>1, FinalElementType
<1>4. /\ t.lit \in Literal /\ t.chain \in Seq(State) \ {<<>>} /\ t.pruned \in Body
  BY <1>3
<1>5. <<>> \in Groups
  BY DEF Groups
<1>6. /\ building' \in Seq(State) /\ uncovered' \in SUBSET Pos
      /\ learnt' \in Seq(Body) /\ firstPruned' \in Body
      /\ pc' \in {"tied", "search"}
      /\ RandomOnTop' /\ HasBuilding'
  <2>1. CASE building' = <<>> /\ UNCHANGED <<pc, uncovered, learnt, firstPruned>>
    BY <1>1, <2>1, NoBuildingType DEF TypeOK
  <2>2. CASE FinishClause(t.chain, t.lit, FALSE) /\ UNCHANGED pc
    BY <1>1, <1>4, <2>2, FinishType, NoBuildingType DEF TypeOK
  <2>3. CASE DropClause(t.chain, t.lit, FALSE, TRUE) /\ UNCHANGED pc
    <3>1. building' = <<>> /\ UNCHANGED <<uncovered, learnt, firstPruned>>
      BY <2>3 DEF DropClause
    <3>. QED
      BY <1>1, <2>3, <3>1, NoBuildingType DEF TypeOK
  <2>4. CASE GrowClause(t.chain, t.lit, FALSE, TRUE, t.pruned, <<>>) /\ pc' = "search"
    <3>1. building' = <<Extension(FinalElement(t.chain), t.lit, FALSE, TRUE, t.pruned)>>
      BY <2>4 DEF GrowClause
    <3>2. Extension(FinalElement(t.chain), t.lit, FALSE, TRUE, t.pruned) \in State
      BY <1>4, FinalElementType, ExtensionType
    <3>3. firstPruned' \in Body /\ UNCHANGED <<uncovered, learnt>>
      BY <1>4, <2>4 DEF GrowClause, TypeOK
    <3>4. building' \in Seq(State) /\ RandomOnTop' /\ HasBuilding'
      BY <3>1, <3>2, NewBuildingType
    <3>. QED
      BY <2>4, <3>3, <3>4 DEF TypeOK
  <2>. HIDE DEF T
  <2>. QED
    BY <2>1, <2>2, <2>3, <2>4, Zenon DEF TryTied
<1>7. /\ saved' \in Groups /\ vec' \in Body /\ best' \in Body /\ pruned' \in Body
      /\ isRandom' \in BOOLEAN /\ own' \in BOOLEAN /\ iterations' \in Nat
  BY DEF TryTied, search, TypeOK
<1>. QED
  BY <1>2, <1>6, <1>7 DEF TypeOK

(* Every variable keeps its type, every turn of the literal search has a
   building state, and a state of the chain above the first ends in a
   random literal: the while loops of Learn never dereference a null
   building_state_.                                                        *)
THEOREM TypeCorrect == Spec => [](TypeOK /\ HasBuilding /\ RandomOnTop)
<1>1. Init => TypeInv
  BY TypeInit
<1>2. TypeInv /\ [Next]_vars => TypeInv'
  <2>. SUFFICES ASSUME TypeInv, [Next]_vars PROVE TypeInv'
    OBVIOUS
  <2>1. CASE SearchDividesByZero
    BY <2>1 DEF SearchDividesByZero, search, TypeInv, TypeOK, HasBuilding, RandomOnTop,
      Ended, Crashed
  <2>2. CASE SearchFindsNothing
    BY <2>2 DEF SearchFindsNothing, search, TypeInv, TypeOK, HasBuilding, RandomOnTop,
      Ended, Crashed
  <2>3. CASE SearchPicksRegular \/ SearchPicksRandom
    BY <2>3, TypeSearchPick
  <2>4. CASE TakeBest
    BY <2>4 DEF TakeBest, TypeInv, TypeOK, HasBuilding, RandomOnTop, Body
  <2>5. CASE RegrowTake
    BY <2>5 DEF RegrowTake, TypeInv, TypeOK, HasBuilding, RandomOnTop, Body
  <2>6. CASE RegrowNextGroup
    BY <2>6, TypeNextGroup
  <2>7. CASE RegrowFallsBack
    BY <2>7, TypeFallBack
  <2>8. CASE Commit
    BY <2>8, TypeCommit
  <2>9. CASE EndRule
    <3>1. \/ pc' = "tied" /\ building' = <<>>
          \/ pc' = "done" /\ UNCHANGED building
      BY <2>9 DEF EndRule
    <3>2. building' \in Seq(State) /\ RandomOnTop' /\ HasBuilding'
      BY <3>1, NoBuildingType DEF TypeInv, TypeOK, HasBuilding, RandomOnTop
    <3>. QED
      BY <2>9, <3>1, <3>2 DEF EndRule, search, TypeInv, TypeOK, Ended
  <2>10. CASE TryTied
    BY <2>10, TypeTryTied
  <2>11. CASE StartClause
    <3>1. MostGeneral(uncovered, firstPruned) \in State
      BY MostGeneralType DEF TypeInv, TypeOK
    <3>2. building' \in Seq(State) /\ RandomOnTop' /\ HasBuilding'
      BY <2>11, <3>1, NewBuildingType DEF StartClause
    <3>. QED
      BY <2>11, <3>2 DEF StartClause, search, TypeInv, TypeOK
  <2>12. CASE Stutter \/ UNCHANGED vars
    BY <2>12 DEF Stutter, vars, search, TypeInv, TypeOK, HasBuilding, RandomOnTop
  <2>. QED
    BY <2>1, <2>2, <2>3, <2>4, <2>5, <2>6, <2>7, <2>8, <2>9, <2>10, <2>11, <2>12
      DEF Next, Step
<1>3. TypeInv => TypeOK /\ HasBuilding /\ RandomOnTop
  BY DEF TypeInv
<1>. QED
  BY <1>1, <1>2, <1>3, PTL DEF Spec

-----------------------------------------------------------------------------
(* The uncovered examples. *)

(* No state of the chain q misses an example of S. *)
Contains(q, S) == \A i \in DOMAIN q : S \subseteq q[i].local

SnapshotInv ==
  /\ Contains(building, uncovered)
  /\ \A i \in DOMAIN tied : Contains(tied[i].chain, uncovered)

CoverInv == TypeInv /\ SnapshotInv /\ UncoveredIsExact

TiedInfo == [lit : Literal, chain : Seq(State) \ {<<>>}, pruned : Body]

LEMMA ContainsLess ==
  ASSUME NEW q, NEW S, NEW T \in SUBSET S, Contains(q, S)
  PROVE  Contains(q, T)
BY DEF Contains

LEMMA ContainsFinal ==
  ASSUME NEW q \in Seq(State), q # <<>>, NEW S, Contains(q, S)
  PROVE  S \subseteq FinalElement(q).local
BY DEF Contains, FinalElement

LEMMA ContainsAllButFinal ==
  ASSUME NEW q \in Seq(State), q # <<>>, NEW S, Contains(q, S)
  PROVE  Contains(AllButFinal(q), S)
<1>1. /\ AllButFinal(q) \in Seq(State) /\ Len(AllButFinal(q)) = Len(q) - 1
      /\ \A i \in 1..Len(q) - 1 : AllButFinal(q)[i] = q[i]
  BY AllButFinalType
<1>2. DOMAIN AllButFinal(q) = 1..Len(q) - 1 /\ DOMAIN q = 1..Len(q)
  BY <1>1
<1>. QED
  BY <1>1, <1>2 DEF Contains

LEMMA ContainsReplaceFinal ==
  ASSUME NEW q \in Seq(State), q # <<>>, NEW S, Contains(q, S),
         NEW s \in State, s.local = FinalElement(q).local
  PROVE  Contains(ReplaceFinal(q, s), S)
<1>1. /\ ReplaceFinal(q, s) \in Seq(State) /\ Len(ReplaceFinal(q, s)) = Len(q)
      /\ \A i \in 1..Len(q) - 1 : ReplaceFinal(q, s)[i] = q[i]
      /\ ReplaceFinal(q, s)[Len(q)] = s
  BY ReplaceFinalType
<1>2. DOMAIN ReplaceFinal(q, s) = 1..Len(q) /\ DOMAIN q = 1..Len(q) /\ Len(q) \in Nat
  BY <1>1
<1>3. S \subseteq s.local
  BY ContainsFinal
<1>. QED
  BY <1>1, <1>2, <1>3 DEF Contains

LEMMA ContainsNew ==
  ASSUME NEW q \in Seq(State), NEW S, Contains(q, S),
         NEW s \in State, S \subseteq s.local
  PROVE  Contains(Append(q, s), S) /\ Contains(<<s>>, S)
<1>1. /\ DOMAIN Append(q, s) = 1..Len(q) + 1 /\ DOMAIN q = 1..Len(q) /\ Len(q) \in Nat
      /\ \A i \in 1..Len(q) : Append(q, s)[i] = q[i]
      /\ Append(q, s)[Len(q) + 1] = s
  <2>. HIDE DEF State
  <2>. QED  OBVIOUS
<1>2. DOMAIN <<s>> = {1} /\ <<s>>[1] = s
  OBVIOUS
<1>. QED
  BY <1>1, <1>2 DEF Contains

(* What a body covers is split off the snapshot, exactly. *)
LEMMA SplitOff ==
  ASSUME NEW b \in Body, NEW L \in SUBSET Pos, NEW S \in SUBSET L
  PROVE  S \ CoveredBy(b, L) = {e \in S : Bindings[b][e] = 0}
<1>1. \A e \in S : Bindings[b][e] \in Nat
  <2>1. Bindings[b] \in [Example -> Nat]
    BY BindingsAssumption
  <2>. QED
    BY <2>1 DEF Example
<1>. QED
  BY <1>1 DEF CoveredBy

LEMMA FinishIsExact ==
  ASSUME NEW chain \in Seq(State) \ {<<>>}, NEW l \in Literal, NEW random \in BOOLEAN,
         CoverInv, Contains(chain, uncovered), FinishClause(chain, l, random)
  PROVE  /\ UncoveredIsExact'
         /\ uncovered' \subseteq uncovered
         /\ building' = <<>>
<1>. DEFINE s == FinalElement(chain)
            b == LiteralsOf(s) \cup {l}
<1>1. s \in State /\ b \in Body
  BY FinalElementType, LiteralsOfType DEF Body
<1>2. s.local \in SUBSET Pos /\ uncovered \subseteq s.local
  BY <1>1, ContainsFinal DEF State
<1>3. uncovered' = {e \in uncovered : Bindings[b][e] = 0}
  BY <1>1, <1>2, SplitOff DEF FinishClause
<1>4. learnt' = Append(learnt, b) /\ learnt \in Seq(Body) /\ building' = <<>>
  BY DEF FinishClause, CoverInv, TypeInv, TypeOK
<1>5. /\ DOMAIN learnt = 1..Len(learnt) /\ DOMAIN learnt' = 1..Len(learnt) + 1
      /\ Len(learnt) \in Nat
      /\ \A i \in 1..Len(learnt) : learnt'[i] = learnt[i]
      /\ learnt'[Len(learnt) + 1] = b
  BY <1>1, <1>4
<1>6. uncovered = {e \in Pos : \A i \in DOMAIN learnt : Bindings[learnt[i]][e] = 0}
  BY DEF CoverInv, UncoveredIsExact
<1>. HIDE DEF b
<1>7. ASSUME NEW e \in Pos
      PROVE  (\A i \in DOMAIN learnt' : Bindings[learnt'[i]][e] = 0) <=>
               /\ \A i \in DOMAIN learnt : Bindings[learnt[i]][e] = 0
               /\ Bindings[b][e] = 0
  BY <1>5
<1>. QED
  BY <1>3, <1>4, <1>6, <1>7 DEF UncoveredIsExact

(* A state an accepted or rejected literal grows out of hands its snapshot
   on.                                                                     *)
LEMMA GrowContains ==
  ASSUME NEW chain \in Seq(State) \ {<<>>}, NEW l \in Literal, NEW random \in BOOLEAN,
         NEW fromTied \in BOOLEAN, NEW stats \in Body, NEW selector \in Groups,
         Contains(chain, uncovered),
         GrowClause(chain, l, random, fromTied, stats, selector)
  PROVE  Contains(building', uncovered) /\ UNCHANGED <<uncovered, learnt>>
<1>. DEFINE s == FinalElement(chain)
            new == Extension(s, l, random, fromTied, stats)
            left == ReplaceFinal(chain, WithSelector(s, selector))
<1>1. s \in State /\ new \in State /\ WithSelector(s, selector) \in State
  BY FinalElementType, ExtensionType, SelectorType
<1>2. WithSelector(s, selector).local = s.local
  BY <1>1, SelectorType
<1>3. new.local = s.local
  BY <1>1 DEF Extension, State
<1>4. left \in Seq(State) /\ Contains(left, uncovered)
  BY <1>1, <1>2, ReplaceFinalType, ContainsReplaceFinal
<1>5. uncovered \subseteq new.local
  BY <1>3, ContainsFinal
<1>6. building' = (IF random THEN Append(left, new) ELSE <<new>>)
      /\ UNCHANGED <<uncovered, learnt>>
  BY DEF GrowClause
<1>. HIDE DEF s, new, left
<1>. QED
  BY <1>1, <1>4, <1>5, <1>6, ContainsNew

(* A literal is stacked for later with the chain and the statistics of this
   turn, and the stack changes in no other way but at its end.             *)
LEMMA TiedStep ==
  ASSUME TypeInv, [Next]_vars
  PROVE  \A i \in DOMAIN tied' :
           \/ i \in DOMAIN tied /\ tied'[i] = tied[i]
           \/ pc = "commit" /\ tied'[i].chain = building /\ tied'[i].pruned = pruned
<1>1. tied \in Seq(TiedInfo)
  BY DEF TypeInv, TypeOK, TiedInfo
<1>2. CASE Commit
  <2>. DEFINE keep == {l \in vec : IsWorthKeeping(Top, l)}
              n == Cardinality(keep)
  <2>1. PICK order \in Bijection(1..n, keep) :
          tied' = tied \o [i \in 1..n |->
                     [lit |-> order[i], chain |-> building, pruned |-> pruned]]
    BY <1>2 DEF Commit, KeepTied
  <2>2. n \in Nat
    <3>1. IsFiniteSet(Literal)
      BY ExampleAssumption
    <3>2. keep \subseteq Literal
      BY DEF TypeInv, TypeOK, Body
    <3>. QED
      BY <3>1, <3>2, FS_Subset, FS_CardinalityType
  <2>. DEFINE new == [i \in 1..n |-> [lit |-> order[i], chain |-> building, pruned |-> pruned]]
  <2>3. \A i \in 1..n : new[i].chain = building /\ new[i].pruned = pruned
    OBVIOUS
  <2>4. DOMAIN new = 1..n /\ tied' = tied \o new
    BY <2>1
  <2>. HIDE DEF new, n
  <2>5. Len(tied) \in Nat /\ DOMAIN tied = 1..Len(tied) /\ Len(new) = n
    BY <1>1, <2>2, <2>4
  <2>6. DOMAIN tied' = 1..Len(tied) + n
    BY <2>2, <2>4, <2>5
  <2>7. \A i \in 1..Len(tied) + n :
          tied'[i] = IF i <= Len(tied) THEN tied[i] ELSE new[i - Len(tied)]
    BY <2>2, <2>4, <2>5
  <2>8. \A i \in 1..Len(tied) + n : i > Len(tied) => i - Len(tied) \in 1..n
    BY <2>2, <2>5
  <2>9. pc = "commit"
    BY <1>2 DEF Commit
  <2>. QED
    BY <2>2, <2>3, <2>5, <2>6, <2>7, <2>8, <2>9
<1>3. CASE TryTied
  BY <1>1, <1>3, AllButFinalType DEF TryTied
<1>4. CASE UNCHANGED tied
  BY <1>4
<1>. QED
  BY <1>2, <1>3, <1>4, Zenon
    DEF Next, Step, Stutter, vars, SearchDividesByZero, SearchFindsNothing,
        SearchPicksRegular, SearchPicksRandom, SearchRanks, TakeBest, RegrowTake,
        RegrowNextGroup, RegrowFallsBack, EndRule, StartClause

LEMMA CommitKeepsTied ==
  ASSUME CoverInv, Commit
  PROVE  \A i \in DOMAIN tied' : Contains(tied'[i].chain, uncovered)
<1>1. /\ TypeInv /\ [Next]_vars /\ Contains(building, uncovered)
      /\ \A i \in DOMAIN tied : Contains(tied[i].chain, uncovered)
  BY Zenon DEF CoverInv, SnapshotInv, Next, Step
<1>. QED
  BY <1>1, TiedStep

LEMMA CoverCommit ==
  ASSUME CoverInv, Commit, TypeInv'
  PROVE  CoverInv'
<1>1. /\ pc = "commit" /\ building \in Seq(State) \ {<<>>} /\ pruned \in Body
      /\ saved \in Groups /\ isRandom \in BOOLEAN /\ best \in SUBSET Literal
      /\ Contains(building, uncovered)
  BY DEF Commit, CoverInv, SnapshotInv, TypeInv, HasBuilding, TypeOK, Body
<1>2. /\ UncoveredIsExact' /\ uncovered' \subseteq uncovered
      /\ Contains(building', uncovered')
  <2>. PICK l \in best :
         \/ FinishClause(building, l, isRandom) /\ pc' = "rule_end"
         \/ DropClause(building, l, isRandom, FALSE) /\ pc' = "rule_end"
         \/ GrowClause(building, l, isRandom, FALSE, pruned, saved) /\ pc' = "search"
    BY DEF Commit
  <2>1. l \in Literal
    BY <1>1
  <2>2. CASE FinishClause(building, l, isRandom)
    BY <1>1, <2>1, <2>2, FinishIsExact DEF Contains
  <2>3. CASE DropClause(building, l, isRandom, FALSE)
    BY <2>3 DEF DropClause, Contains, CoverInv, UncoveredIsExact
  <2>4. CASE GrowClause(building, l, isRandom, FALSE, pruned, saved)
    <3>1. Contains(building', uncovered) /\ UNCHANGED <<uncovered, learnt>>
      BY <1>1, <2>1, <2>4, GrowContains
    <3>. QED
      BY <3>1 DEF CoverInv, UncoveredIsExact
  <2>. QED
    BY <2>2, <2>3, <2>4
<1>3. \A i \in DOMAIN tied' : Contains(tied'[i].chain, uncovered')
  BY <1>2, CommitKeepsTied, ContainsLess
<1>. QED
  BY <1>2, <1>3 DEF CoverInv, SnapshotInv

LEMMA CoverTryTied ==
  ASSUME CoverInv, TryTied, TypeInv'
  PROVE  CoverInv'
<1>. DEFINE t == FinalElement(tied)
<1>1. tied \in Seq(TiedInfo) /\ tied # <<>>
  BY DEF TryTied, CoverInv, TypeInv, TypeOK, TiedInfo
<1>2. t \in TiedInfo /\ (\E i \in DOMAIN tied : t = tied[i])
  <2>1. Len(tied) \in DOMAIN tied
    BY <1>1
  <2>. QED
    BY <1>1, <2>1, FinalElementType DEF FinalElement
<1>3. /\ t.lit \in Literal /\ t.chain \in Seq(State) \ {<<>>} /\ t.pruned \in Body
      /\ Contains(t.chain, uncovered)
  BY <1>2 DEF TiedInfo, CoverInv, SnapshotInv
<1>4. <<>> \in Groups
  BY EmptyType DEF Groups
<1>5. /\ UncoveredIsExact' /\ uncovered' \subseteq uncovered
      /\ Contains(building', uncovered')
  <2>1. CASE building' = <<>> /\ UNCHANGED <<pc, uncovered, learnt, firstPruned>>
    BY <2>1 DEF Contains, CoverInv, UncoveredIsExact
  <2>2. CASE FinishClause(t.chain, t.lit, FALSE)
    <3>1. /\ UncoveredIsExact' /\ uncovered' \subseteq uncovered
          /\ building' = <<>>
      BY <1>3, <2>2, FinishIsExact
    <3>. QED
      BY <3>1 DEF Contains
  <2>3. CASE DropClause(t.chain, t.lit, FALSE, TRUE)
    BY <2>3 DEF DropClause, Contains, CoverInv, UncoveredIsExact
  <2>4. CASE GrowClause(t.chain, t.lit, FALSE, TRUE, t.pruned, <<>>)
    <3>1. Contains(building', uncovered) /\ UNCHANGED <<uncovered, learnt>>
      BY <1>3, <1>4, <2>4, GrowContains
    <3>. QED
      BY <3>1 DEF CoverInv, UncoveredIsExact
  <2>. QED
    BY <2>1, <2>2, <2>3, <2>4, Zenon DEF TryTied
<1>6. \A i \in DOMAIN tied' : i \in DOMAIN tied /\ tied'[i] = tied[i]
  BY <1>1, AllButFinalType DEF TryTied
<1>7. \A i \in DOMAIN tied' : Contains(tied'[i].chain, uncovered')
  BY <1>5, <1>6, ContainsLess DEF CoverInv, SnapshotInv
<1>. QED
  BY <1>5, <1>7 DEF CoverInv, SnapshotInv

(* Falling back and taking a kept selector's next group leave snapshots
   alone.                                                                  *)
LEMMA CoverRegrow ==
  ASSUME CoverInv, RegrowNextGroup \/ RegrowFallsBack, TypeInv'
  PROVE  CoverInv'
<1>1. UNCHANGED <<uncovered, learnt, tied>>
  BY DEF RegrowNextGroup, RegrowFallsBack
<1>2. building \in Seq(State) /\ building # <<>> /\ Contains(building, uncovered)
  BY DEF RegrowNextGroup, RegrowFallsBack, CoverInv, SnapshotInv, TypeInv, HasBuilding, TypeOK
<1>3. Contains(building', uncovered)
  <2>1. CASE UNCHANGED building
    BY <1>2, <2>1
  <2>2. CASE building' = ReplaceFinal(building, NextGroupTaken(Top))
    <3>. DEFINE x == NextGroupTaken(Top)
    <3>1. x \in State /\ x.local = FinalElement(building).local
      BY <1>2, FinalElementType, NextGroupType DEF Top
    <3>. HIDE DEF x
    <3>2. Contains(ReplaceFinal(building, x), uncovered)
      BY <1>2, <3>1, ContainsReplaceFinal
    <3>. QED
      BY <2>2, <3>2 DEF x
  <2>3. CASE /\ Len(building) > 1
             /\ building' = ReplaceFinal(AllButFinal(building),
                             FallenBack(FinalElement(AllButFinal(building))))
    <3>. DEFINE below == AllButFinal(building)
                x == FallenBack(FinalElement(below))
    <3>1. below \in Seq(State) /\ below # <<>> /\ Contains(below, uncovered)
      BY <1>2, <2>3, AllButFinalType, ContainsAllButFinal
    <3>2. FinalElement(below) \in State /\ Top \in State
      BY <1>2, <3>1, FinalElementType DEF Top
    <3>3. LastIsRandom(Top)
      BY <1>2, <2>3 DEF CoverInv, TypeInv, RandomOnTop, Top, FinalElement
    <3>4. x \in State /\ x.local = FinalElement(below).local
      BY <3>2, <3>3, FallenBackType
    <3>. HIDE DEF x, below
    <3>5. Contains(ReplaceFinal(below, x), uncovered)
      BY <3>1, <3>4, ContainsReplaceFinal
    <3>. QED
      BY <2>3, <3>5 DEF x, below
  <2>. QED
    BY <2>1, <2>2, <2>3, Zenon DEF RegrowNextGroup, RegrowFallsBack
<1>. QED
  BY <1>1, <1>3 DEF CoverInv, SnapshotInv, UncoveredIsExact

LEMMA CoverInit == Init => CoverInv
<1>. SUFFICES ASSUME Init PROVE CoverInv
  OBVIOUS
<1>1. TypeInv
  BY TypeInit
<1>2. building = <<MostGeneral(Pos, {})>> /\ MostGeneral(Pos, {}).local = Pos
  BY DEF Init, MostGeneral
<1>. DEFINE s == MostGeneral(Pos, {})
<1>. HIDE DEF s
<1>3. building = <<s>> /\ s.local = Pos
  BY <1>2 DEF s
<1>4. SnapshotInv
  BY <1>3 DEF SnapshotInv, Contains, Init
<1>5. UncoveredIsExact
  BY DEF UncoveredIsExact, Init
<1>. QED
  BY <1>1, <1>4, <1>5 DEF CoverInv

LEMMA CoverNext == CoverInv /\ TypeInv' /\ [Next]_vars => CoverInv'
<1>. SUFFICES ASSUME CoverInv, TypeInv', [Next]_vars PROVE CoverInv'
  OBVIOUS
<1>1. CASE UNCHANGED <<building, uncovered, learnt, tied>>
  BY <1>1 DEF CoverInv, SnapshotInv, UncoveredIsExact
<1>2. CASE RegrowNextGroup \/ RegrowFallsBack
  BY <1>2, CoverRegrow
<1>3. CASE Commit
  BY <1>3, CoverCommit
<1>4. CASE EndRule
  BY <1>4 DEF EndRule, CoverInv, SnapshotInv, UncoveredIsExact, Contains
<1>5. CASE TryTied
  BY <1>5, CoverTryTied
<1>6. CASE StartClause
  <2>. DEFINE s == MostGeneral(uncovered, firstPruned)
  <2>1. s.local = uncovered
    BY DEF MostGeneral
  <2>2. building' = <<s>> /\ UNCHANGED <<uncovered, learnt, tied>>
    BY <1>6 DEF StartClause
  <2>. HIDE DEF s
  <2>. QED
    BY <2>1, <2>2 DEF CoverInv, SnapshotInv, UncoveredIsExact, Contains
<1>. QED
  BY <1>1, <1>2, <1>3, <1>4, <1>5, <1>6
    DEF Next, Step, Stutter, vars, SearchDividesByZero, SearchFindsNothing,
        SearchPicksRegular, SearchPicksRandom, SearchRanks, TakeBest, RegrowTake

LEMMA CoverInvHolds == Spec => []CoverInv
<1>1. TypeOK /\ HasBuilding /\ RandomOnTop => TypeInv
  BY DEF TypeInv
<1>. QED
  BY <1>1, CoverInit, CoverNext, TypeCorrect, PTL DEF Spec

(* A clause may be grown on the snapshot of a state that many rules were learnt
   after, on tied literals too: the snapshot has every example that is still
   uncovered, so the table for what the clause leaves has room for all.    *)
THEOREM SnapshotsCorrect == Spec => []SnapshotsContainUncovered
<1>1. CoverInv => SnapshotsContainUncovered
  BY DEF CoverInv, SnapshotInv, SnapshotsContainUncovered, LiveStates, Contains
<1>. QED
  BY <1>1, CoverInvHolds, PTL

(* What an accepted clause covers is taken off the uncovered examples
   exactly, whatever snapshot the clause was grown on, because no snapshot
   something can still build on misses an uncovered example.               *)
THEOREM CoverCorrect == Spec => []UncoveredIsExact
<1>1. CoverInv => UncoveredIsExact
  BY DEF CoverInv
<1>. QED
  BY <1>1, CoverInvHolds, PTL

-----------------------------------------------------------------------------
(***************************************************************************)
(* What the literal search keeps true of the states it builds on: its      *)
(* budgets for random literals, the literals it leaves out, and that it    *)
(* always has something to fall back on.                                   *)
(***************************************************************************)
(* The literals that leave s without a positive example. *)
Barren(s) ==
  {l \in Literal : CoveredBy(LiteralsOf(s) \cup {l}, s.local) = {}}

(* A selector to fall back on: each of its groups is a non-empty one. *)
Usable(selector) ==
  selector # <<>> /\ \A i \in 1..Len(selector) : selector[i] # {}

(* y was stacked on x: for a random literal, within the budgets, with x's
   selector attached and with statistics that were collected for x.        *)
Link(x, y) ==
  /\ x.kept /\ Usable(x.saved)
  /\ RandomAllowed(x) /\ LastIsRandom(y)
  /\ y.pruned \subseteq Barren(x)

Linked(q) ==
  q # <<>> => /\ ~LastIsRandom(q[1])
              /\ \A i \in 1..Len(q) - 1 : Link(q[i], q[i + 1])

(* The locals of one turn. *)
TurnInv ==
  /\ isRandom =>
       /\ pc \in {"take", "commit"}
       /\ RandomAllowed(Top) /\ Usable(saved)
  /\ pc = "regrow" => LastIsRandom(Top) \/ vec # {}
  /\ pc = "commit" => \A l \in best : ~NeedRegrow(Top, l)
  /\ pc \notin {"take", "regrow", "commit"} => pruned = {}
  /\ pc # "null_dereference"

(* Statistics wait in three places for a clause to be grown further. *)
StatsInv ==
  /\ \A l \in firstPruned : CoveredBy({l}, uncovered) = {}
  /\ building # <<>> => pruned \subseteq Barren(Top)
  /\ \A i \in DOMAIN tied : tied[i].pruned \subseteq Barren(FinalElement(tied[i].chain))

WithinBudget(s) ==
  /\ Cardinality(RandomOf(s)) <= MaxRandomLiterals
  /\ Cardinality(s.black) <= MaxRandomTrials
  /\ Len(s.body) <= MaxClauseLength + Cardinality(RandomOf(s))

PaysOff(s) ==
  \A i \in RandomOf(s) \ {Len(s.body)} :
    \/ s.body[i].lit \in UsesOffKey[s.body[i + 1].lit]
    \/ CoveredBy({s.body[j].lit : j \in 1..i + 1}, Neg) = {}

StatesInv ==
  \A s \in LiveStates : WithinBudget(s) /\ PaysOff(s) /\ s.pruned \subseteq Barren(s)

(* Each state is built on one that is still live, and inherits from it. *)
Resumed(x, s) ==
  /\ s.body = x.body /\ s.local = x.local /\ s.pruned = x.pruned
  /\ \/ s.black = x.black
     \/ RandomAllowed(x) /\ \E l \in Literal : s.black = x.black \cup {l}

Extended(x, s, l, random) ==
  /\ s.body = Append(x.body, [lit |-> l, random |-> random])
  /\ s.local = x.local /\ s.black = x.black
  /\ s.pruned \subseteq Barren(x)
  /\ ~NeedRegrow(x, l)
  /\ IF random THEN RandomAllowed(x) ELSE Len(x.body) < MaxClauseLength

Derived(x, s) ==
  \/ Resumed(x, s)
  \/ \E l \in Literal, random \in BOOLEAN : Extended(x, s, l, random)

-----------------------------------------------------------------------------
(* Chains of states. *)

LEMMA LinkedAllButFinal ==
  ASSUME NEW q \in Seq(State), q # <<>>, Linked(q)
  PROVE  Linked(AllButFinal(q))
<1>1. /\ AllButFinal(q) \in Seq(State) /\ Len(AllButFinal(q)) = Len(q) - 1
      /\ \A i \in 1..Len(q) - 1 : AllButFinal(q)[i] = q[i]
  BY AllButFinalType
<1>2. Len(q) \in Nat
  OBVIOUS
<1>. HIDE DEF State
<1>3. \A i \in 1..Len(q) - 2 : i \in 1..Len(q) - 1 /\ i + 1 \in 1..Len(q) - 1
  BY <1>2
<1>4. AllButFinal(q) # <<>> => 1 \in 1..Len(q) - 1
  BY <1>1, <1>2
<1>. QED
  BY <1>1, <1>2, <1>3, <1>4 DEF Linked

LEMMA LinkedReplaceFinal ==
  ASSUME NEW q \in Seq(State), q # <<>>, Linked(q), NEW s \in State,
         s.body = FinalElement(q).body, s.pruned = FinalElement(q).pruned
  PROVE  Linked(ReplaceFinal(q, s))
<1>. DEFINE w == ReplaceFinal(q, s)
            n == Len(q)
<1>1. /\ w \in Seq(State) /\ Len(w) = n
      /\ \A i \in 1..n - 1 : w[i] = q[i]
      /\ w[n] = s
  BY ReplaceFinalType
<1>2. n \in Nat /\ n > 0 /\ q[n].body = s.body /\ q[n].pruned = s.pruned
  BY DEF FinalElement
<1>. HIDE DEF w, n
<1>3. ~LastIsRandom(w[1])
  <2>1. ~LastIsRandom(q[1])
    BY DEF Linked
  <2>2. CASE n = 1
    BY <1>1, <1>2, <2>1, <2>2 DEF LastIsRandom
  <2>3. CASE n > 1
    BY <1>1, <1>2, <2>1, <2>3
  <2>. QED
    BY <1>2, <2>2, <2>3
<1>4. ASSUME NEW i \in 1..n - 1
      PROVE  Link(w[i], w[i + 1])
  <2>1. Link(q[i], q[i + 1])
    BY DEF Linked, n
  <2>2. w[i] = q[i]
    BY <1>1
  <2>3. w[i + 1].body = q[i + 1].body /\ w[i + 1].pruned = q[i + 1].pruned
    <3>1. CASE i + 1 = n
      BY <1>1, <1>2, <3>1
    <3>2. CASE i + 1 # n
      <4>1. i + 1 \in 1..n - 1
        BY <1>2, <3>2
      <4>. QED
        BY <1>1, <4>1
    <3>. QED
      BY <3>1, <3>2
  <2>. QED
    BY <2>1, <2>2, <2>3 DEF Link, LastIsRandom
<1>5. Linked(w)
  BY <1>1, <1>3, <1>4 DEF Linked
<1>. QED
  BY <1>5 DEF w

LEMMA LinkedAppend ==
  ASSUME NEW q \in Seq(State), q # <<>>, Linked(q), NEW s \in State,
         Link(FinalElement(q), s)
  PROVE  Linked(Append(q, s))
<1>. DEFINE w == Append(q, s)
            n == Len(q)
<1>1. /\ w \in Seq(State) /\ Len(w) = n + 1 /\ n \in Nat /\ n > 0
      /\ \A i \in 1..n : w[i] = q[i]
      /\ w[n + 1] = s
  <2>. HIDE DEF State
  <2>. QED  OBVIOUS
<1>. HIDE DEF w
<1>2. ~LastIsRandom(w[1])
  BY <1>1 DEF Linked
<1>3. ASSUME NEW i \in 1..n
      PROVE  Link(w[i], w[i + 1])
  <2>1. CASE i = n
    BY <1>1, <2>1 DEF FinalElement
  <2>2. CASE i # n
    <3>1. i \in 1..n - 1 /\ i + 1 \in 1..n
      BY <1>1, <2>2
    <3>2. Link(q[i], q[i + 1])
      BY <3>1 DEF Linked
    <3>. QED
      BY <1>1, <3>1, <3>2
  <2>. QED
    BY <2>1, <2>2
<1>4. Linked(w)
  BY <1>1, <1>2, <1>3 DEF Linked
<1>. QED
  BY <1>4 DEF w

LEMMA LinkedOne ==
  ASSUME NEW s \in State, ~LastIsRandom(s)
  PROVE  Linked(<<s>>)
<1>1. Len(<<s>>) = 1 /\ <<s>>[1] = s
  OBVIOUS
<1>. QED
  BY <1>1 DEF Linked

-----------------------------------------------------------------------------
(* What the operators on states leave alone. *)

LEMMA BodyType ==
  ASSUME NEW s \in State
  PROVE  /\ s.body \in Seq([lit : Literal, random : BOOLEAN])
         /\ s.black \in SUBSET Literal /\ s.local \in SUBSET Pos
         /\ s.pruned \in SUBSET Literal /\ s.saved \in Seq(SUBSET Literal)
BY DEF State, Groups

LEMMA SelectorKeeps ==
  ASSUME NEW s \in State, NEW selector \in Groups
  PROVE  /\ Resumed(s, WithSelector(s, selector))
         /\ WithSelector(s, selector).kept
         /\ WithSelector(s, selector).saved = selector
         /\ WithSelector(s, selector).black = s.black
BY DEF WithSelector, State, Resumed

LEMMA NextGroupKeeps ==
  ASSUME NEW s \in State
  PROVE  /\ Resumed(s, NextGroupTaken(s))
         /\ NextGroupTaken(s).black = s.black
BY DEF NextGroupTaken, State, Resumed

LEMMA FallenBackKeeps ==
  ASSUME NEW s \in State, Top \in State, LastIsRandom(Top)
  PROVE  /\ FallenBack(s).body = s.body /\ FallenBack(s).local = s.local
         /\ FallenBack(s).pruned = s.pruned
         /\ LastLiteral(Top) \in Literal
         /\ FallenBack(s).black = s.black \cup {LastLiteral(Top)}
<1>1. LastLiteral(Top) \in Literal
  <2>1. Top.body \in Seq([lit : Literal, random : BOOLEAN]) /\ Top.body # <<>>
    BY BodyType DEF LastIsRandom
  <2>2. FinalElement(Top.body) \in [lit : Literal, random : BOOLEAN]
    BY <2>1, FinalElementType
  <2>. QED
    BY <2>2 DEF LastLiteral, FinalElement
<1>. DEFINE l == LastLiteral(Top)
            x == [s EXCEPT !.black = @ \cup {l}]
<1>. HIDE DEF l
<1>2. /\ x \in State /\ x.body = s.body /\ x.local = s.local /\ x.pruned = s.pruned
      /\ x.black = s.black \cup {l}
  BY <1>1 DEF State, l
<1>3. FallenBack(s) = NextGroupTaken(x)
  BY DEF FallenBack, l
<1>. HIDE DEF x
<1>4. FallenBack(s).black = x.black /\ Resumed(x, FallenBack(s))
  BY <1>2, <1>3, NextGroupKeeps
<1>. QED
  BY <1>1, <1>2, <1>4 DEF Resumed, l

LEMMA SameBody ==
  ASSUME NEW s, NEW t, s.body = t.body
  PROVE  /\ LiteralsOf(s) = LiteralsOf(t) /\ RandomOf(s) = RandomOf(t)
         /\ LastIsRandom(s) = LastIsRandom(t)
         /\ s.local = t.local => Barren(s) = Barren(t)
         /\ s.black = t.black => RandomAllowed(s) = RandomAllowed(t)
         /\ \A l : NeedRegrow(s, l) = NeedRegrow(t, l)
<1>1. LiteralsOf(s) = LiteralsOf(t) /\ RandomOf(s) = RandomOf(t)
      /\ LastIsRandom(s) = LastIsRandom(t) /\ LastLiteral(s) = LastLiteral(t)
  BY DEF LiteralsOf, RandomOf, LastIsRandom, LastLiteral
<1>. QED
  BY <1>1 DEF Barren, RandomAllowed, NeedRegrow

LEMMA AppendedBody ==
  ASSUME NEW s \in State, NEW t \in State, NEW l \in Literal, NEW random \in BOOLEAN,
         t.body = Append(s.body, [lit |-> l, random |-> random])
  PROVE  /\ Len(s.body) \in Nat /\ Len(t.body) = Len(s.body) + 1
         /\ DOMAIN s.body = 1..Len(s.body) /\ DOMAIN t.body = 1..Len(s.body) + 1
         /\ \A i \in 1..Len(s.body) : t.body[i] = s.body[i]
         /\ t.body[Len(s.body) + 1] = [lit |-> l, random |-> random]
         /\ LiteralsOf(t) = LiteralsOf(s) \cup {l}
         /\ RandomOf(t) = RandomOf(s) \cup (IF random THEN {Len(s.body) + 1} ELSE {})
<1>. DEFINE P == [lit : Literal, random : BOOLEAN]
            x == [lit |-> l, random |-> random]
            b == s.body
            c == t.body
            n == Len(b)
<1>1. b \in Seq(P) /\ x \in P /\ c = Append(b, x)
  BY BodyType
<1>2. x.lit = l /\ x.random = random
  OBVIOUS
<1>. HIDE DEF P, x, b, c
<1>3. /\ n \in Nat /\ Len(c) = n + 1 /\ DOMAIN b = 1..n /\ DOMAIN c = 1..n + 1
      /\ \A i \in 1..n : c[i] = b[i]
      /\ c[n + 1] = x
  BY <1>1
<1>4. {c[i].lit : i \in 1..n + 1} = {b[i].lit : i \in 1..n} \cup {l}
  BY <1>2, <1>3
<1>5. {i \in 1..n + 1 : c[i].random} =
        {i \in 1..n : b[i].random} \cup (IF random THEN {n + 1} ELSE {})
  <2>1. \A i \in 1..n + 1 : i \in 1..n \/ i = n + 1
    BY <1>3
  <2>2. ~(n + 1 \in 1..n) /\ n + 1 \in 1..n + 1
    BY <1>3
  <2>. QED
    BY <1>2, <1>3, <2>1, <2>2
<1>. QED
  BY <1>3, <1>4, <1>5 DEF LiteralsOf, RandomOf, b, c, x

LEMMA ExtensionFields ==
  ASSUME NEW s \in State, NEW l \in Literal, NEW random \in BOOLEAN,
         NEW fromTied \in BOOLEAN, NEW stats \in Body
  PROVE  LET t == Extension(s, l, random, fromTied, stats)
         IN  /\ t \in State /\ t.body = Append(s.body, [lit |-> l, random |-> random])
             /\ t.local = s.local /\ t.black = s.black /\ t.pruned = stats
             /\ LastIsRandom(t) = random
<1>. DEFINE t == Extension(s, l, random, fromTied, stats)
<1>1. t \in State
  BY ExtensionType
<1>2. /\ t.body = Append(s.body, [lit |-> l, random |-> random])
      /\ t.local = s.local /\ t.black = s.black /\ t.pruned = stats
  BY DEF Extension, State
<1>. HIDE DEF t
<1>3. t.body # <<>> /\ t.body[Len(t.body)] = [lit |-> l, random |-> random]
  <2>1. Len(t.body) \in Nat /\ Len(t.body) > 0
    BY <1>1, <1>2, AppendedBody
  <2>2. t.body[Len(t.body)] = [lit |-> l, random |-> random]
    BY <1>1, <1>2, AppendedBody
  <2>. QED
    BY <2>1, <2>2
<1>4. LastIsRandom(t) = random
  BY <1>3 DEF LastIsRandom
<1>. QED
  BY <1>1, <1>2, <1>4 DEF t

(* What a longer body covers, a shorter one does. *)
LEMMA CoversLess ==
  ASSUME NEW b \in Body, NEW l \in Literal, NEW S \in SUBSET Example
  PROVE  CoveredBy(b \cup {l}, S) \subseteq CoveredBy(b, S)
<1>1. b \cup {l} \in Body
  BY DEF Body
<1>2. /\ Bindings[b] \in [Example -> Nat] /\ Bindings[b \cup {l}] \in [Example -> Nat]
      /\ \A e \in Example : Bindings[b][e] = 0 => Bindings[b \cup {l}][e] = 0
  BY <1>1, BindingsAssumption
<1>. DEFINE f == Bindings[b]
            g == Bindings[b \cup {l}]
<1>. HIDE DEF f, g
<1>3. /\ f \in [Example -> Nat] /\ g \in [Example -> Nat]
      /\ \A e \in Example : f[e] = 0 => g[e] = 0
  BY <1>2 DEF f, g
<1>4. {e \in S : g[e] > 0} \subseteq {e \in S : f[e] > 0}
  BY <1>3
<1>. QED
  BY <1>4 DEF CoveredBy, f, g

LEMMA BarrenGrows ==
  ASSUME NEW s \in State, NEW t \in State, NEW l \in Literal, NEW random \in BOOLEAN,
         t.body = Append(s.body, [lit |-> l, random |-> random]), t.local = s.local
  PROVE  Barren(s) \subseteq Barren(t)
<1>1. LiteralsOf(t) = LiteralsOf(s) \cup {l} /\ LiteralsOf(s) \in Body
  BY AppendedBody, LiteralsOfType
<1>2. s.local \in SUBSET Example
  BY BodyType DEF Example
<1>3. ASSUME NEW m \in Literal
      PROVE  CoveredBy(LiteralsOf(t) \cup {m}, s.local)
               \subseteq CoveredBy(LiteralsOf(s) \cup {m}, s.local)
  <2>1. LiteralsOf(s) \cup {m} \in Body
    BY <1>1 DEF Body
  <2>2. LiteralsOf(t) \cup {m} = (LiteralsOf(s) \cup {m}) \cup {l}
    BY <1>1
  <2>. QED
    BY <1>2, <2>1, <2>2, CoversLess
<1>. QED
  BY <1>3 DEF Barren

-----------------------------------------------------------------------------
(* What a state passes on to the ones built on it. *)

LEMMA DerivedBudget ==
  ASSUME NEW x \in State, NEW s \in State, Derived(x, s), WithinBudget(x)
  PROVE  WithinBudget(s)
<1>1. IsFiniteSet(x.black)
  BY BodyType, ExampleAssumption, FS_Subset
<1>2. MaxRandomTrials \in Nat /\ MaxRandomLiterals \in Nat /\ MaxClauseLength \in Nat
  BY FlagAssumption
<1>3. CASE Resumed(x, s)
  <2>1. RandomOf(s) = RandomOf(x) /\ s.body = x.body
    BY <1>3, SameBody DEF Resumed
  <2>2. Cardinality(s.black) <= MaxRandomTrials
    <3>1. CASE s.black = x.black
      BY <3>1 DEF WithinBudget
    <3>2. CASE RandomAllowed(x) /\ \E l \in Literal : s.black = x.black \cup {l}
      <4>1. PICK l \in Literal : s.black = x.black \cup {l}
        BY <3>2
      <4>2. /\ Cardinality(x.black) \in Nat
            /\ Cardinality(s.black) \in {Cardinality(x.black), Cardinality(x.black) + 1}
        BY <1>1, <4>1, FS_AddElement, FS_CardinalityType
      <4>. QED
        BY <1>2, <3>2, <4>2 DEF RandomAllowed
    <3>. QED
      BY <1>3, <3>1, <3>2 DEF Resumed
  <2>. QED
    BY <2>1, <2>2 DEF WithinBudget
<1>4. ASSUME NEW l \in Literal, NEW random \in BOOLEAN, Extended(x, s, l, random)
      PROVE  WithinBudget(s)
  <2>. DEFINE n == Len(x.body)
              R == RandomOf(x)
              Q == RandomOf(s)
  <2>1. /\ n \in Nat /\ Len(s.body) = n + 1 /\ DOMAIN x.body = 1..n
        /\ Q = R \cup (IF random THEN {n + 1} ELSE {})
    BY <1>4, AppendedBody DEF Extended
  <2>2. R \subseteq 1..n
    BY <2>1 DEF RandomOf
  <2>3. /\ Cardinality(R) <= MaxRandomLiterals /\ Cardinality(x.black) <= MaxRandomTrials
        /\ n <= MaxClauseLength + Cardinality(R)
    BY DEF WithinBudget
  <2>4. s.black = x.black
    BY <1>4 DEF Extended
  <2>. HIDE DEF n, R, Q
  <2>5. IsFiniteSet(R) /\ Cardinality(R) \in Nat /\ n \in Nat
    <3>1. n \in Nat
      BY <2>1
    <3>2. IsFiniteSet(1..n)
      BY <3>1, FS_Interval
    <3>. QED
      BY <2>2, <3>1, <3>2, FS_Subset, FS_CardinalityType
  <2>6. CASE random
    <3>1. n + 1 \notin R /\ Q = R \cup {n + 1}
      BY <2>1, <2>2, <2>6
    <3>2. Cardinality(Q) = Cardinality(R) + 1
      BY <2>5, <3>1, FS_AddElement
    <3>3. Cardinality(R) < MaxRandomLiterals
      BY <1>4, <2>6 DEF Extended, RandomAllowed, R
    <3>4. /\ Cardinality(Q) <= MaxRandomLiterals
          /\ n + 1 <= MaxClauseLength + Cardinality(Q)
      BY <1>2, <2>1, <2>3, <2>5, <3>2, <3>3
    <3>. QED
      BY <2>1, <2>3, <2>4, <3>4 DEF WithinBudget, Q
  <2>7. CASE ~random
    <3>1. Q = R
      BY <2>1, <2>7
    <3>2. n < MaxClauseLength
      BY <1>4, <2>7 DEF Extended, n
    <3>3. n + 1 <= MaxClauseLength + Cardinality(Q)
      BY <1>2, <2>5, <3>1, <3>2
    <3>. QED
      BY <2>1, <2>3, <2>4, <3>1, <3>3 DEF WithinBudget, Q
  <2>. QED
    BY <2>6, <2>7
<1>. QED
  BY <1>3, <1>4 DEF Derived

LEMMA DerivedPaysOff ==
  ASSUME NEW x \in State, NEW s \in State, Derived(x, s), PaysOff(x)
  PROVE  PaysOff(s)
<1>1. CASE Resumed(x, s)
  <2>1. RandomOf(s) = RandomOf(x) /\ s.body = x.body
    BY <1>1, SameBody DEF Resumed
  <2>. QED
    BY <2>1 DEF PaysOff
<1>2. ASSUME NEW l \in Literal, NEW random \in BOOLEAN, Extended(x, s, l, random)
      PROVE  PaysOff(s)
  <2>. DEFINE n == Len(x.body)
              R == RandomOf(x)
              Q == RandomOf(s)
              p == s.body
              q == x.body
  <2>1. /\ n \in Nat /\ Len(p) = n + 1 /\ DOMAIN q = 1..n /\ DOMAIN p = 1..n + 1
        /\ \A i \in 1..n : p[i] = q[i]
        /\ p[n + 1] = [lit |-> l, random |-> random]
        /\ LiteralsOf(s) = LiteralsOf(x) \cup {l}
        /\ Q = R \cup (IF random THEN {n + 1} ELSE {})
    BY <1>2, AppendedBody DEF Extended
  <2>2. LiteralsOf(s) = {p[j].lit : j \in 1..n + 1}
    BY <2>1 DEF LiteralsOf
  <2>3. R \subseteq 1..n
    BY <2>1 DEF RandomOf
  <2>4. p[n + 1].lit = l
    BY <2>1
  <2>. SUFFICES ASSUME NEW i \in Q \ {n + 1}
                PROVE  \/ p[i].lit \in UsesOffKey[p[i + 1].lit]
                       \/ CoveredBy({p[j].lit : j \in 1..i + 1}, Neg) = {}
    BY <2>1 DEF PaysOff
  <2>5. i \in R /\ i \in 1..n
    BY <2>1, <2>3
  <2>6. CASE i = n
    <3>1. q # <<>> /\ q[n].random
      <4>1. q[i].random
        BY <2>5 DEF RandomOf
      <4>2. q \in Seq([lit : Literal, random : BOOLEAN])
        BY BodyType
      <4>. HIDE DEF q
      <4>3. q # <<>>
        BY <2>1, <2>5, <4>2
      <4>. QED
        BY <2>6, <4>1, <4>3
    <3>2. LastIsRandom(x) /\ LastLiteral(x) = q[n].lit
      BY <3>1 DEF LastIsRandom, LastLiteral
    <3>3. \/ q[n].lit \in UsesOffKey[l]
          \/ CoveredBy(LiteralsOf(x) \cup {l}, Neg) = {}
      BY <1>2, <3>2 DEF Extended, NeedRegrow
    <3>4. p[i] = q[n] /\ p[i + 1].lit = l
      BY <2>1, <2>4, <2>5, <2>6
    <3>5. CoveredBy({p[j].lit : j \in 1..i + 1}, Neg) = CoveredBy(LiteralsOf(x) \cup {l}, Neg)
      BY <2>1, <2>2, <2>6
    <3>. QED
      BY <3>3, <3>4, <3>5
  <2>7. CASE i # n
    <3>1. i \in R \ {n} /\ i + 1 \in 1..n /\ \A j \in 1..i + 1 : j \in 1..n
      BY <2>1, <2>5, <2>7
    <3>2. p[i] = q[i] /\ p[i + 1] = q[i + 1]
      BY <2>1, <2>5, <3>1
    <3>3. {p[j].lit : j \in 1..i + 1} = {q[j].lit : j \in 1..i + 1}
      BY <2>1, <3>1
    <3>4. \/ q[i].lit \in UsesOffKey[q[i + 1].lit]
          \/ CoveredBy({q[j].lit : j \in 1..i + 1}, Neg) = {}
      BY <3>1 DEF PaysOff
    <3>. HIDE DEF p, q
    <3>. QED
      BY <3>2, <3>3, <3>4
  <2>. QED
    BY <2>6, <2>7
<1>. QED
  BY <1>1, <1>2 DEF Derived

LEMMA DerivedBarren ==
  ASSUME NEW x \in State, NEW s \in State, Derived(x, s), x.pruned \subseteq Barren(x)
  PROVE  s.pruned \subseteq Barren(s)
<1>1. CASE Resumed(x, s)
  BY <1>1, SameBody DEF Resumed
<1>2. ASSUME NEW l \in Literal, NEW random \in BOOLEAN, Extended(x, s, l, random)
      PROVE  s.pruned \subseteq Barren(s)
  BY <1>2, BarrenGrows DEF Extended
<1>. QED
  BY <1>1, <1>2 DEF Derived

-----------------------------------------------------------------------------
(* The building states after a step. *)

SearchInv == CoverInv /\ Linked(building) /\ TurnInv /\ StatsInv /\ StatesInv

LEMMA SearchInvTypes ==
  ASSUME SearchInv
  PROVE  /\ TypeInv /\ TypeOK /\ HasBuilding /\ building \in Seq(State)
         /\ uncovered \in SUBSET Pos /\ tied \in Seq(TiedInfo)
         /\ Linked(building) /\ TurnInv /\ StatsInv /\ StatesInv
BY DEF SearchInv, CoverInv, TypeInv, TypeOK, TiedInfo

LEMMA DerivedSelf ==
  ASSUME NEW s
  PROVE  Derived(s, s)
BY DEF Derived, Resumed

LEMMA DerivedReplace ==
  ASSUME NEW q \in Seq(State), q # <<>>, NEW s \in State, Derived(FinalElement(q), s)
  PROVE  \A i \in DOMAIN ReplaceFinal(q, s) :
           i \in DOMAIN q /\ \E j \in DOMAIN q : Derived(q[j], ReplaceFinal(q, s)[i])
<1>. DEFINE w == ReplaceFinal(q, s)
<1>0. /\ w \in Seq(State) /\ Len(w) = Len(q)
      /\ \A i \in 1..Len(q) - 1 : w[i] = q[i]
      /\ w[Len(q)] = s
  BY ReplaceFinalType
<1>. HIDE DEF w, State
<1>1. /\ Len(q) \in Nat /\ Len(q) > 0 /\ DOMAIN q = 1..Len(q) /\ DOMAIN w = 1..Len(q)
      /\ \A i \in 1..Len(q) - 1 : w[i] = q[i]
      /\ w[Len(q)] = s
  BY <1>0
<1>2. ASSUME NEW i \in 1..Len(q)
      PROVE  \E j \in DOMAIN q : Derived(q[j], w[i])
  <2>1. CASE i = Len(q)
    BY <1>1, <2>1 DEF FinalElement
  <2>2. CASE i # Len(q)
    <3>1. Len(q) \in Nat
      BY <1>1
    <3>2. i \in 1..Len(q) - 1
      BY <2>2, <3>1
    <3>3. w[i] = q[i]
      BY <1>1, <3>2
    <3>. QED
      BY <1>1, <3>3, DerivedSelf
  <2>. QED
    BY <2>1, <2>2
<1>3. \A i \in DOMAIN w : i \in DOMAIN q /\ \E j \in DOMAIN q : Derived(q[j], w[i])
  BY <1>1, <1>2
<1>. QED
  BY <1>3 DEF w

(* A literal that is not the last of its clause: what the new building
   state, and the one below it, have from the chain.                       *)
LEMMA GrowDerives ==
  ASSUME NEW chain \in Seq(State) \ {<<>>}, NEW l \in Literal, NEW random \in BOOLEAN,
         NEW fromTied \in BOOLEAN, NEW stats \in Body, NEW selector \in Groups,
         GrowClause(chain, l, random, fromTied, stats, selector),
         ~NeedRegrow(FinalElement(chain), l),
         stats \subseteq Barren(FinalElement(chain)),
         random => /\ Linked(chain) /\ Usable(selector)
                   /\ RandomAllowed(FinalElement(chain))
  PROVE  /\ Linked(building')
         /\ \A i \in DOMAIN building' : \E j \in DOMAIN chain : Derived(chain[j], building'[i])
<1>. DEFINE s == FinalElement(chain)
            new == Extension(s, l, random, fromTied, stats)
            under == WithSelector(s, selector)
            left == ReplaceFinal(chain, under)
<1>1. s \in State /\ under \in State
  BY FinalElementType, SelectorType
<1>2. /\ Resumed(s, under) /\ under.kept /\ under.saved = selector
      /\ under.black = s.black
  BY <1>1, SelectorKeeps
<1>3. /\ new \in State /\ new.body = Append(s.body, [lit |-> l, random |-> random])
      /\ new.local = s.local /\ new.black = s.black /\ new.pruned = stats
      /\ LastIsRandom(new) = random
  BY <1>1, ExtensionFields
<1>4. building' = IF random THEN Append(left, new) ELSE <<new>>
  BY DEF GrowClause
<1>5. Extended(s, new, l, random)
  <2>1. CASE random
    BY <1>3, <2>1 DEF Extended
  <2>2. CASE ~random
    <3>1. s.body \in Seq([lit : Literal, random : BOOLEAN])
      BY <1>1, BodyType
    <3>2. Len(s.body) \in Nat /\ MaxClauseLength \in Nat
      BY <3>1, FlagAssumption
    <3>3. ~(Len(s.body) >= MaxClauseLength)
      <4>1. ShouldConsiderAsLast(s, l) => ~NoSecondChance(chain, fromTied)
        BY <2>2 DEF GrowClause, Considered
      <4>2. Len(s.body) >= MaxClauseLength => ShouldConsiderAsLast(s, l)
        BY DEF ShouldConsiderAsLast
      <4>. QED
        BY <4>1, <4>2 DEF NoSecondChance
    <3>. QED
      BY <1>3, <2>2, <3>2, <3>3 DEF Extended
  <2>. QED
    BY <2>1, <2>2
<1>6. Derived(s, new) /\ Derived(s, under)
  BY <1>2, <1>5 DEF Derived
<1>7. Len(chain) \in DOMAIN chain /\ chain[Len(chain)] = s
  BY DEF FinalElement
<1>8. CASE random
  <2>1. left \in Seq(State) /\ left # <<>> /\ FinalElement(left) = under
        /\ Len(left) = Len(chain)
    BY <1>1, ReplaceFinalType
  <2>2. \A i \in DOMAIN left : \E j \in DOMAIN chain : Derived(chain[j], left[i])
    BY <1>1, <1>6, DerivedReplace
  <2>3. Linked(left)
    BY <1>1, <1>2, <1>8, LinkedReplaceFinal DEF Resumed
  <2>4. Link(under, new)
    <3>1. RandomAllowed(under) /\ Barren(under) = Barren(s)
      BY <1>2, <1>8, SameBody DEF Resumed
    <3>. QED
      BY <1>2, <1>3, <1>8, <3>1 DEF Link
  <2>5. building' = Append(left, new)
    BY <1>4, <1>8
  <2>. HIDE DEF left, new, under, s
  <2>6. Linked(building')
    BY <1>3, <2>1, <2>3, <2>4, <2>5, LinkedAppend
  <2>7. ASSUME NEW i \in DOMAIN building'
        PROVE  \E j \in DOMAIN chain : Derived(chain[j], building'[i])
    <3>1. (i \in DOMAIN left /\ building'[i] = left[i]) \/ building'[i] = new
      <4>. HIDE DEF State
      <4>. QED
        BY <1>3, <2>1, <2>5
    <3>. QED
      BY <1>6, <1>7, <2>2, <3>1
  <2>. QED
    BY <2>6, <2>7
<1>9. CASE ~random
  <2>1. building' = <<new>> /\ ~LastIsRandom(new)
    BY <1>3, <1>4, <1>9
  <2>. HIDE DEF new, s
  <2>2. DOMAIN building' = {1} /\ building'[1] = new
    BY <2>1
  <2>. QED
    BY <1>3, <1>6, <1>7, <2>1, <2>2, LinkedOne
<1>. QED
  BY <1>8, <1>9

(* The statistics for the first literal of a later clause. *)
LEMMA GrowFirstPruned ==
  ASSUME NEW chain \in Seq(State) \ {<<>>}, NEW l \in Literal, NEW random \in BOOLEAN,
         NEW fromTied \in BOOLEAN, NEW stats \in Body, NEW selector \in Groups,
         GrowClause(chain, l, random, fromTied, stats, selector),
         stats \subseteq Barren(FinalElement(chain)), Contains(chain, uncovered),
         \A m \in firstPruned : CoveredBy({m}, uncovered) = {}
  PROVE  \A m \in firstPruned' : CoveredBy({m}, uncovered) = {}
<1>. DEFINE s == FinalElement(chain)
<1>1. firstPruned' = IF s.body = <<>> THEN stats ELSE firstPruned
  BY DEF GrowClause
<1>2. CASE s.body = <<>>
  <2>1. LiteralsOf(s) = {} /\ uncovered \subseteq s.local
    BY <1>2, ContainsFinal DEF LiteralsOf
  <2>2. \A m \in stats : CoveredBy({m}, s.local) = {}
    <3>1. \A m : LiteralsOf(s) \cup {m} = {m}
      BY <2>1
    <3>. QED
      BY <3>1 DEF Barren
  <2>. QED
    BY <1>1, <1>2, <2>1, <2>2 DEF CoveredBy
<1>3. CASE s.body # <<>>
  BY <1>1, <1>3
<1>. QED
  BY <1>2, <1>3

(* Every building state after the step is one of before, or has its clause,
   its examples and its budgets from one.                                  *)
BuildingDerives ==
  \A i \in DOMAIN building' : \E x \in LiveStates : Derived(x, building'[i])

LEMMA LiveMembers ==
  ASSUME TypeOK
  PROVE  /\ LiveStates \subseteq State
         /\ \A i \in DOMAIN building : building[i] \in LiveStates
         /\ \A i \in DOMAIN tied : /\ tied[i].chain \in Seq(State) \ {<<>>}
                                   /\ tied[i].lit \in Literal /\ tied[i].pruned \in Body
         /\ \A i \in DOMAIN tied : \A j \in DOMAIN tied[i].chain :
              tied[i].chain[j] \in LiveStates
<1>1. \A i \in DOMAIN building : building[i] \in State
  BY ElementType DEF TypeOK
<1>2. \A i \in DOMAIN tied : tied[i] \in TiedInfo
  <2>1. tied \in Seq(TiedInfo)
    BY DEF TypeOK, TiedInfo
  <2>. QED
    BY <2>1, ElementType
<1>3. \A i \in DOMAIN tied : /\ tied[i].chain \in Seq(State) \ {<<>>}
                             /\ tied[i].lit \in Literal /\ tied[i].pruned \in Body
  BY <1>2 DEF TiedInfo
<1>4. \A i \in DOMAIN tied : \A j \in DOMAIN tied[i].chain : tied[i].chain[j] \in State
  BY <1>3, ElementType
<1>. HIDE DEF State
<1>. QED
  BY <1>1, <1>3, <1>4 DEF LiveStates

LEMMA NextGroupDerives ==
  ASSUME SearchInv, RegrowNextGroup
  PROVE  Linked(building') /\ BuildingDerives
<1>1. /\ building \in Seq(State) /\ building # <<>> /\ Linked(building)
      /\ \A i \in DOMAIN building : building[i] \in LiveStates
  BY SearchInvTypes, LiveMembers DEF RegrowNextGroup, HasBuilding
<1>2. CASE building' = building
  BY <1>1, <1>2, DerivedSelf DEF BuildingDerives
<1>3. CASE building' = ReplaceFinal(building, NextGroupTaken(Top))
  <2>. DEFINE x == NextGroupTaken(Top)
  <2>1. Top \in State /\ Top = FinalElement(building)
    BY <1>1, FinalElementType DEF Top
  <2>2. x \in State /\ Resumed(Top, x)
    BY <2>1, NextGroupType, NextGroupKeeps
  <2>. HIDE DEF x
  <2>3. building' = ReplaceFinal(building, x) /\ Derived(Top, x)
    BY <1>3, <2>2 DEF x, Derived
  <2>4. Linked(building')
    BY <1>1, <2>1, <2>2, <2>3, LinkedReplaceFinal DEF Resumed
  <2>5. \A i \in DOMAIN building' :
          i \in DOMAIN building /\ \E j \in DOMAIN building : Derived(building[j], building'[i])
    BY <1>1, <2>1, <2>2, <2>3, DerivedReplace
  <2>. QED
    BY <1>1, <2>4, <2>5 DEF BuildingDerives
<1>. QED
  BY <1>2, <1>3, Zenon DEF RegrowNextGroup

(* Running out of a selector's groups, the search has a previous state with a
   usable selector: the clause ends in a random literal.                   *)
LEMMA FallBackDerives ==
  ASSUME SearchInv, RegrowFallsBack
  PROVE  /\ Linked(building') /\ BuildingDerives
         /\ pc' = "regrow" /\ vec' # {}
         /\ building' # <<>> /\ pruned' \subseteq Barren(FinalElement(building'))
<1>. DEFINE n == Len(building)
            below == AllButFinal(building)
            previous == FinalElement(below)
            x == FallenBack(previous)
<1>1. /\ pc = "regrow" /\ vec = {} /\ TurnInv
      /\ building \in Seq(State) /\ building # <<>> /\ Linked(building)
      /\ \A i \in DOMAIN building : building[i] \in LiveStates
  BY SearchInvTypes, LiveMembers DEF RegrowFallsBack, HasBuilding
<1>2. Top \in State /\ LastIsRandom(Top) /\ Top = building[n]
  BY <1>1, FinalElementType DEF TurnInv, Top, FinalElement
<1>3. n \in Nat /\ n > 1
  <2>1. n \in Nat /\ n > 0
    BY <1>1
  <2>2. n # 1
    BY <1>1, <1>2 DEF Linked
  <2>. HIDE DEF n
  <2>. QED
    BY <2>1, <2>2
<1>4. /\ below \in Seq(State) /\ Len(below) = n - 1
      /\ \A i \in 1..n - 1 : below[i] = building[i]
  BY <1>1, AllButFinalType
<1>5. below # <<>> /\ previous \in State /\ previous = building[n - 1]
  <2>1. below # <<>>
    BY <1>3, <1>4
  <2>2. n - 1 \in 1..n - 1
    BY <1>3
  <2>. QED
    BY <1>4, <2>1, <2>2, FinalElementType DEF FinalElement
<1>6. Link(previous, Top)
  <2>1. n - 1 \in 1..n - 1 /\ (n - 1) + 1 = n
    BY <1>3
  <2>2. Link(building[n - 1], building[(n - 1) + 1])
    BY <1>1, <2>1 DEF Linked
  <2>. QED
    BY <1>2, <1>5, <2>1, <2>2
<1>7. /\ building' = ReplaceFinal(below, x) /\ pc' = pc /\ pruned' = Top.pruned
      /\ vec' = IF previous.saved = <<>> THEN {} ELSE FinalElement(previous.saved)
  <2>1. previous.kept
    BY <1>6 DEF Link
  <2>. QED
    BY <1>3, <2>1 DEF RegrowFallsBack
<1>8. vec' # {}
  <2>1. previous.saved \in Seq(SUBSET Literal) /\ Usable(previous.saved)
    BY <1>5, <1>6, BodyType DEF Link
  <2>2. Len(previous.saved) \in 1..Len(previous.saved)
    BY <2>1 DEF Usable
  <2>. QED
    BY <1>7, <2>1, <2>2 DEF Usable, FinalElement
<1>9. /\ x \in State /\ x.body = previous.body /\ x.pruned = previous.pruned
      /\ x.local = previous.local /\ Derived(previous, x)
  <2>1. x \in State
    BY <1>2, <1>5, FallenBackType
  <2>2. /\ x.body = previous.body /\ x.local = previous.local /\ x.pruned = previous.pruned
        /\ LastLiteral(Top) \in Literal
        /\ x.black = previous.black \cup {LastLiteral(Top)}
    BY <1>2, <1>5, FallenBackKeeps
  <2>3. RandomAllowed(previous)
    BY <1>6 DEF Link
  <2>. HIDE DEF x, previous
  <2>. QED
    BY <2>1, <2>2, <2>3 DEF Derived, Resumed
<1>. HIDE DEF x
<1>10. building' # <<>> /\ FinalElement(building') = x
  BY <1>4, <1>5, <1>7, <1>9, ReplaceFinalType
<1>11. pruned' \subseteq Barren(FinalElement(building'))
  BY <1>6, <1>7, <1>9, <1>10, SameBody DEF Link
<1>12. Linked(building')
  <2>1. Linked(below)
    BY <1>1, LinkedAllButFinal
  <2>. HIDE DEF below
  <2>. QED
    BY <1>4, <1>5, <1>7, <1>9, <2>1, LinkedReplaceFinal
<1>13. BuildingDerives
  <2>1. \A i \in DOMAIN building' :
          i \in DOMAIN below /\ \E j \in DOMAIN below : Derived(below[j], building'[i])
    <3>. HIDE DEF below
    <3>1. below \in Seq(State) /\ below # <<>> /\ x \in State
          /\ Derived(FinalElement(below), x) /\ building' = ReplaceFinal(below, x)
      BY <1>4, <1>5, <1>7, <1>9
    <3>. QED
      BY <3>1, DerivedReplace
  <2>2. \A j \in DOMAIN below : below[j] \in LiveStates
    <3>1. DOMAIN below = 1..n - 1 /\ DOMAIN building = 1..n
      BY <1>1, <1>3, <1>4
    <3>2. \A j \in 1..n - 1 : j \in 1..n
      BY <1>3
    <3>. QED
      BY <1>1, <1>4, <3>1, <3>2
  <2>. QED
    BY <2>1, <2>2 DEF BuildingDerives
<1>. QED
  BY <1>1, <1>7, <1>8, <1>10, <1>11, <1>12, <1>13

(* AddBestCandidateLiteral, with a literal of this turn or a tied one. *)
LEMMA AddLiteralDerives ==
  ASSUME SearchInv,
         NEW chain \in Seq(State) \ {<<>>}, NEW l \in Literal, NEW random \in BOOLEAN,
         NEW fromTied \in BOOLEAN, NEW stats \in Body, NEW selector \in Groups,
         \/ FinishClause(chain, l, random)
         \/ DropClause(chain, l, random, fromTied)
         \/ GrowClause(chain, l, random, fromTied, stats, selector),
         \A j \in DOMAIN chain : chain[j] \in LiveStates,
         Contains(chain, uncovered),
         ~NeedRegrow(FinalElement(chain), l),
         stats \subseteq Barren(FinalElement(chain)),
         random => /\ Linked(chain) /\ Usable(selector)
                   /\ RandomAllowed(FinalElement(chain))
  PROVE  /\ Linked(building') /\ BuildingDerives
         /\ \A m \in firstPruned' : CoveredBy({m}, uncovered') = {}
<1>1. \A m \in firstPruned : CoveredBy({m}, uncovered) = {}
  BY DEF SearchInv, StatsInv
<1>2. CASE FinishClause(chain, l, random) \/ DropClause(chain, l, random, fromTied)
  <2>1. /\ building' = <<>> /\ firstPruned' = firstPruned
        /\ uncovered' \subseteq uncovered
    BY <1>2 DEF FinishClause, DropClause
  <2>2. Linked(building') /\ BuildingDerives
    BY <2>1 DEF Linked, BuildingDerives
  <2>3. \A m \in firstPruned' : CoveredBy({m}, uncovered') = {}
    BY <1>1, <2>1 DEF CoveredBy
  <2>. QED
    BY <2>2, <2>3
<1>3. CASE GrowClause(chain, l, random, fromTied, stats, selector)
  <2>1. /\ Linked(building')
        /\ \A i \in DOMAIN building' : \E j \in DOMAIN chain : Derived(chain[j], building'[i])
    BY <1>3, GrowDerives
  <2>2. \A m \in firstPruned' : CoveredBy({m}, uncovered) = {}
    BY <1>1, <1>3, GrowFirstPruned
  <2>3. uncovered' = uncovered
    BY <1>3 DEF GrowClause
  <2>. QED
    BY <2>1, <2>2, <2>3 DEF BuildingDerives
<1>. QED
  BY <1>2, <1>3

LEMMA CommitDerives ==
  ASSUME SearchInv, Commit
  PROVE  /\ Linked(building') /\ BuildingDerives
         /\ \A m \in firstPruned' : CoveredBy({m}, uncovered') = {}
<1>1. /\ pc = "commit" /\ building \in Seq(State) \ {<<>>} /\ pruned \in Body
      /\ saved \in Groups /\ isRandom \in BOOLEAN /\ best \in SUBSET Literal
      /\ Contains(building, uncovered)
      /\ \A i \in DOMAIN building : building[i] \in LiveStates
  <2>1. pc = "commit" /\ CoverInv
    BY DEF Commit, SearchInv
  <2>. QED
    BY <2>1, LiveMembers DEF CoverInv, SnapshotInv, TypeInv, HasBuilding, TypeOK, Body
<1>2. /\ pruned \subseteq Barren(FinalElement(building))
      /\ \A l \in best : ~NeedRegrow(FinalElement(building), l)
      /\ isRandom => /\ Linked(building) /\ Usable(saved)
                     /\ RandomAllowed(FinalElement(building))
  BY <1>1 DEF SearchInv, StatsInv, TurnInv, Top
<1>. PICK l \in best :
       \/ FinishClause(building, l, isRandom)
       \/ DropClause(building, l, isRandom, FALSE)
       \/ GrowClause(building, l, isRandom, FALSE, pruned, saved)
  BY DEF Commit
<1>3. l \in Literal /\ ~NeedRegrow(FinalElement(building), l)
  BY <1>1, <1>2
<1>. QED
  BY <1>1, <1>2, <1>3, AddLiteralDerives

(* The tied literal that is tried is the last one of the stack. *)
LEMMA LastTied ==
  ASSUME SearchInv, tied # <<>>
  PROVE  /\ FinalElement(tied).lit \in Literal
         /\ FinalElement(tied).chain \in Seq(State) \ {<<>>}
         /\ FinalElement(tied).pruned \in Body
         /\ Contains(FinalElement(tied).chain, uncovered)
         /\ \A j \in DOMAIN FinalElement(tied).chain :
              FinalElement(tied).chain[j] \in LiveStates
         /\ FinalElement(tied).pruned
              \subseteq Barren(FinalElement(FinalElement(tied).chain))
<1>1. tied \in Seq(TiedInfo) /\ TypeOK
  BY SearchInvTypes
<1>2. PICK i \in DOMAIN tied : FinalElement(tied) = tied[i]
  <2>1. Len(tied) \in DOMAIN tied
    BY <1>1
  <2>. QED
    BY <2>1 DEF FinalElement
<1>3. /\ tied[i].lit \in Literal /\ tied[i].chain \in Seq(State) \ {<<>>}
      /\ tied[i].pruned \in Body
      /\ \A j \in DOMAIN tied[i].chain : tied[i].chain[j] \in LiveStates
  BY <1>1, LiveMembers
<1>4. /\ Contains(tied[i].chain, uncovered)
      /\ tied[i].pruned \subseteq Barren(FinalElement(tied[i].chain))
  BY DEF SearchInv, CoverInv, SnapshotInv, StatsInv
<1>. QED
  BY <1>2, <1>3, <1>4

LEMMA TryTiedDerives ==
  ASSUME SearchInv, TryTied
  PROVE  /\ Linked(building') /\ BuildingDerives
         /\ \A m \in firstPruned' : CoveredBy({m}, uncovered') = {}
<1>. DEFINE t == FinalElement(tied)
<1>1. /\ t.lit \in Literal /\ t.chain \in Seq(State) \ {<<>>} /\ t.pruned \in Body
      /\ Contains(t.chain, uncovered)
      /\ \A j \in DOMAIN t.chain : t.chain[j] \in LiveStates
      /\ t.pruned \subseteq Barren(FinalElement(t.chain))
  BY LastTied DEF TryTied
<1>2. <<>> \in Groups
  BY EmptyType DEF Groups
<1>3. \/ building' = <<>> /\ UNCHANGED <<uncovered, firstPruned>>
      \/ /\ ~NeedRegrow(FinalElement(t.chain), t.lit)
         /\ \/ FinishClause(t.chain, t.lit, FALSE)
            \/ DropClause(t.chain, t.lit, FALSE, TRUE)
            \/ GrowClause(t.chain, t.lit, FALSE, TRUE, t.pruned, <<>>)
  BY Zenon DEF TryTied
<1>. HIDE DEF t
<1>4. CASE building' = <<>> /\ UNCHANGED <<uncovered, firstPruned>>
  BY <1>4 DEF Linked, BuildingDerives, SearchInv, StatsInv
<1>5. CASE /\ ~NeedRegrow(FinalElement(t.chain), t.lit)
           /\ \/ FinishClause(t.chain, t.lit, FALSE)
              \/ DropClause(t.chain, t.lit, FALSE, TRUE)
              \/ GrowClause(t.chain, t.lit, FALSE, TRUE, t.pruned, <<>>)
  BY <1>1, <1>2, <1>5, AddLiteralDerives
<1>. QED
  BY <1>3, <1>4, <1>5, Zenon

-----------------------------------------------------------------------------
(* The invariant of the search. *)

LEMMA TopIsLive ==
  ASSUME TypeOK, building # <<>>
  PROVE  Top \in State /\ Top \in LiveStates
<1>1. building \in Seq(State)
  BY DEF TypeOK
<1>2. Len(building) \in DOMAIN building
  BY <1>1
<1>. QED
  BY <1>1, <1>2, LiveMembers, FinalElementType DEF Top, FinalElement

LEMMA NextGroupTop ==
  ASSUME SearchInv, RegrowNextGroup
  PROVE  /\ pc = "regrow" /\ building' # <<>>
         /\ Top'.body = Top.body /\ Top'.local = Top.local
<1>1. pc = "regrow" /\ building \in Seq(State) /\ building # <<>>
  BY SearchInvTypes DEF RegrowNextGroup, HasBuilding
<1>2. Top \in State
  BY <1>1, FinalElementType DEF Top
<1>3. CASE building' = building
  BY <1>1, <1>3 DEF Top
<1>4. CASE building' = ReplaceFinal(building, NextGroupTaken(Top))
  <2>. DEFINE x == NextGroupTaken(Top)
  <2>1. x \in State /\ x.body = Top.body /\ x.local = Top.local
    BY <1>2, NextGroupType
  <2>. HIDE DEF x
  <2>2. building' # <<>> /\ FinalElement(building') = x
    BY <1>1, <1>4, <2>1, ReplaceFinalType DEF x
  <2>. QED
    BY <1>1, <2>1, <2>2 DEF Top
<1>. QED
  BY <1>3, <1>4, Zenon DEF RegrowNextGroup

LEMMA TurnStep ==
  ASSUME SearchInv, [Next]_vars
  PROVE  TurnInv'
<1>1. TypeOK /\ HasBuilding /\ TurnInv
  BY SearchInvTypes
<1>2. isRandom \in BOOLEAN
  BY <1>1 DEF TypeOK
<1>3. CASE SearchDividesByZero \/ SearchFindsNothing \/ EndRule \/ TryTied \/ StartClause
  <2>1. /\ pc \in {"search", "rule_end", "tied"}
        /\ pc' \notin {"take", "regrow", "commit", "null_dereference"}
        /\ UNCHANGED search
    BY <1>3 DEF SearchDividesByZero, SearchFindsNothing, EndRule, TryTied, StartClause
  <2>. QED
    BY <1>1, <1>2, <2>1 DEF TurnInv, search
<1>4. CASE SearchPicksRegular
  BY <1>4 DEF SearchPicksRegular, SearchRanks, TurnInv
<1>5. CASE SearchPicksRandom
  <2>1. Scored(Top) \in SUBSET Literal
    BY <1>1, <1>5, TopIsLive, ScoredType DEF SearchPicksRandom, SearchRanks, HasBuilding
  <2>2. PICK ranking \in Rankings(Scored(Top)) : saved' = ranking
    BY <1>5 DEF SearchPicksRandom
  <2>3. Usable(saved')
    BY <2>1, <2>2, RankingType DEF Usable
  <2>4. pc' = "take" /\ RandomAllowed(Top) /\ building' = building
    BY <1>5 DEF SearchPicksRandom, SearchRanks
  <2>. QED
    BY <2>3, <2>4 DEF TurnInv, Top
<1>6. CASE TakeBest
  <2>1. PICK l \in vec : IF NeedRegrow(Top, l)
                         THEN pc' = "regrow" /\ isRandom' = FALSE /\ best' = {}
                         ELSE pc' = "commit" /\ best' = {l} /\ UNCHANGED isRandom
    BY <1>6 DEF TakeBest
  <2>2. /\ pc = "take" /\ building' = building /\ saved' = saved /\ pruned' = pruned
        /\ Top' = Top
    BY <1>6 DEF TakeBest, Top
  <2>3. CASE NeedRegrow(Top, l)
    <3>1. LastIsRandom(Top)
      BY <2>3 DEF NeedRegrow
    <3>. QED
      BY <2>1, <2>2, <2>3, <3>1 DEF TurnInv
  <2>4. CASE ~NeedRegrow(Top, l)
    BY <1>1, <1>2, <2>1, <2>2, <2>4 DEF TurnInv
  <2>. QED
    BY <2>3, <2>4
<1>7. CASE RegrowTake
  <2>1. PICK l \in vec : IF NeedRegrow(Top, l)
                         THEN UNCHANGED <<pc, best>>
                         ELSE pc' = "commit" /\ best' = {l}
    BY <1>7 DEF RegrowTake
  <2>2. /\ pc = "regrow" /\ building' = building /\ isRandom' = isRandom
        /\ Top' = Top
    BY <1>7 DEF RegrowTake, Top
  <2>3. isRandom = FALSE
    BY <1>1, <1>2, <2>2 DEF TurnInv
  <2>4. CASE NeedRegrow(Top, l)
    <3>1. LastIsRandom(Top)
      BY <2>4 DEF NeedRegrow
    <3>. QED
      BY <2>1, <2>2, <2>3, <2>4, <3>1 DEF TurnInv
  <2>5. CASE ~NeedRegrow(Top, l)
    BY <2>1, <2>2, <2>3, <2>5 DEF TurnInv
  <2>. QED
    BY <2>4, <2>5
<1>8. CASE RegrowNextGroup
  <2>1. /\ pc = "regrow" /\ pc' = pc /\ isRandom' = isRandom /\ LastIsRandom(Top)
        /\ Top'.body = Top.body
    BY <1>1, <1>8, NextGroupTop DEF RegrowNextGroup, TurnInv
  <2>2. LastIsRandom(Top')
    BY <2>1, SameBody
  <2>. QED
    BY <1>1, <1>2, <2>1, <2>2 DEF TurnInv
<1>9. CASE RegrowFallsBack
  <2>1. pc = "regrow" /\ pc' = "regrow" /\ vec' # {} /\ isRandom' = isRandom
    BY <1>9, FallBackDerives DEF RegrowFallsBack
  <2>. QED
    BY <1>1, <1>2, <2>1 DEF TurnInv
<1>10. CASE Commit
  BY <1>10 DEF Commit, EndOfTurn, TurnInv
<1>11. CASE UNCHANGED vars
  BY <1>1, <1>11 DEF vars, search, TurnInv, Top
<1>. QED
  BY <1>3, <1>4, <1>5, <1>6, <1>7, <1>8, <1>9, <1>10, <1>11, Zenon DEF Next, Step, Stutter

(* The building state of a new clause has no literal yet. *)
LEMMA MostGeneralFields ==
  LET s == MostGeneral(uncovered, firstPruned)
  IN  /\ s.body = <<>> /\ s.black = {} /\ s.local = uncovered /\ s.pruned = firstPruned
      /\ ~LastIsRandom(s) /\ LiteralsOf(s) = {} /\ RandomOf(s) = {}
BY DEF MostGeneral, LastIsRandom, LiteralsOf, RandomOf

LEMMA LinkStep ==
  ASSUME SearchInv, TypeInv', [Next]_vars
  PROVE  /\ Linked(building')
         /\ \/ BuildingDerives
            \/ building' = <<MostGeneral(uncovered, firstPruned)>>
         /\ \A m \in firstPruned' : CoveredBy({m}, uncovered') = {}
<1>1. TypeOK /\ Linked(building)
  BY SearchInvTypes
<1>2. \A m \in firstPruned : CoveredBy({m}, uncovered) = {}
  BY DEF SearchInv, StatsInv
<1>3. CASE RegrowNextGroup
  BY <1>2, <1>3, NextGroupDerives DEF RegrowNextGroup
<1>4. CASE RegrowFallsBack
  BY <1>2, <1>4, FallBackDerives DEF RegrowFallsBack
<1>5. CASE Commit
  BY <1>5, CommitDerives
<1>6. CASE TryTied
  BY <1>6, TryTiedDerives
<1>7. CASE StartClause
  <2>. DEFINE s == MostGeneral(uncovered, firstPruned)
  <2>1. building' = <<s>> /\ UNCHANGED <<uncovered, firstPruned>>
    BY <1>7 DEF StartClause
  <2>2. s \in State /\ ~LastIsRandom(s)
    BY <1>1, MostGeneralType, MostGeneralFields DEF TypeOK
  <2>. HIDE DEF s
  <2>3. Linked(building')
    BY <2>1, <2>2, LinkedOne
  <2>. QED
    BY <1>2, <2>1, <2>3 DEF s
<1>8. CASE UNCHANGED <<uncovered, firstPruned>> /\ (building' = <<>> \/ UNCHANGED building)
  BY <1>1, <1>2, <1>8, LiveMembers, DerivedSelf DEF BuildingDerives, Linked
<1>. QED
  BY <1>3, <1>4, <1>5, <1>6, <1>7, <1>8, Zenon
    DEF Next, Step, Stutter, vars, SearchDividesByZero, SearchFindsNothing,
        SearchPicksRegular, SearchPicksRandom, SearchRanks, TakeBest, RegrowTake, EndRule

LEMMA PickedStats ==
  ASSUME SearchInv, SearchRanks
  PROVE  pruned' \subseteq Barren(Top)
<1>1. TypeOK /\ building # <<>>
  BY SearchInvTypes DEF SearchRanks, HasBuilding
<1>2. Top \in State /\ Top.pruned \subseteq Barren(Top)
  BY <1>1, TopIsLive DEF SearchInv, StatesInv
<1>3. Hopeless(Top) \subseteq Barren(Top)
  BY DEF Hopeless, Candidates, Barren
<1>. QED
  BY <1>2, <1>3 DEF SearchRanks

LEMMA StatsStep ==
  ASSUME SearchInv, TypeInv', TurnInv', [Next]_vars
  PROVE  StatsInv'
<1>1. /\ TypeInv /\ TypeOK /\ StatsInv
  BY SearchInvTypes
<1>2. \A m \in firstPruned' : CoveredBy({m}, uncovered') = {}
  BY LinkStep
<1>3. ASSUME building' # <<>>
      PROVE  pruned' \subseteq Barren(Top')
  <2>1. CASE pc' \notin {"take", "regrow", "commit"}
    BY <2>1 DEF TurnInv
  <2>2. CASE SearchPicksRegular \/ SearchPicksRandom
    <3>1. SearchRanks
      BY <2>2 DEF SearchPicksRegular, SearchPicksRandom
    <3>. QED
      BY <3>1, PickedStats DEF SearchRanks, Top
  <2>3. CASE RegrowNextGroup
    <3>1. Barren(Top') = Barren(Top) /\ pruned' = pruned /\ building # <<>>
      BY <1>1, <2>3, NextGroupTop, SameBody DEF RegrowNextGroup, TypeInv, HasBuilding
    <3>. QED
      BY <1>1, <3>1 DEF StatsInv
  <2>4. CASE RegrowFallsBack
    BY <2>4, FallBackDerives DEF Top
  <2>5. CASE UNCHANGED <<building, pruned>>
    BY <1>1, <1>3, <2>5 DEF StatsInv, Top
  <2>6. CASE Commit \/ EndRule \/ TryTied \/ StartClause
    BY <2>1, <2>6 DEF Commit, EndRule, TryTied, StartClause
  <2>. QED
    BY <2>1, <2>2, <2>3, <2>4, <2>5, <2>6, Zenon
      DEF Next, Step, Stutter, vars, search, SearchDividesByZero, SearchFindsNothing,
          TakeBest, RegrowTake
<1>4. ASSUME NEW i \in DOMAIN tied'
      PROVE  tied'[i].pruned \subseteq Barren(FinalElement(tied'[i].chain))
  <2>1. CASE i \in DOMAIN tied /\ tied'[i] = tied[i]
    BY <1>1, <2>1 DEF StatsInv
  <2>2. CASE pc = "commit" /\ tied'[i].chain = building /\ tied'[i].pruned = pruned
    BY <1>1, <2>2 DEF StatsInv, Top, TypeInv, HasBuilding
  <2>. QED
    BY <1>1, <2>1, <2>2, TiedStep
<1>. QED
  BY <1>2, <1>3, <1>4 DEF StatsInv

(* Where the states something may build on come from. *)
LEMMA LiveStep ==
  ASSUME SearchInv, TypeInv', [Next]_vars
  PROVE  \A s \in LiveStates' :
           \/ \E x \in LiveStates : Derived(x, s)
           \/ s = MostGeneral(uncovered, firstPruned)
<1>1. TypeInv /\ TypeOK
  BY SearchInvTypes
<1>2. ASSUME NEW i \in DOMAIN building'
      PROVE  \/ \E x \in LiveStates : Derived(x, building'[i])
             \/ building'[i] = MostGeneral(uncovered, firstPruned)
  <2>1. CASE BuildingDerives
    BY <2>1 DEF BuildingDerives
  <2>2. CASE building' = <<MostGeneral(uncovered, firstPruned)>>
    <3>. DEFINE s == MostGeneral(uncovered, firstPruned)
    <3>. HIDE DEF s
    <3>1. building' = <<s>>
      BY <2>2 DEF s
    <3>2. building'[i] = s
      BY <3>1
    <3>. QED
      BY <3>2 DEF s
  <2>. QED
    BY <2>1, <2>2, LinkStep
<1>3. ASSUME NEW i \in DOMAIN tied', NEW j \in DOMAIN tied'[i].chain
      PROVE  tied'[i].chain[j] \in LiveStates
  <2>1. CASE i \in DOMAIN tied /\ tied'[i] = tied[i]
    BY <1>1, <1>3, <2>1, LiveMembers
  <2>2. CASE pc = "commit" /\ tied'[i].chain = building /\ tied'[i].pruned = pruned
    BY <1>1, <1>3, <2>2, LiveMembers
  <2>. QED
    BY <1>1, <2>1, <2>2, TiedStep
<1>. SUFFICES ASSUME NEW s \in LiveStates'
              PROVE  \/ \E x \in LiveStates : Derived(x, s)
                     \/ s = MostGeneral(uncovered, firstPruned)
  OBVIOUS
<1>4. \/ \E i \in DOMAIN building' : s = building'[i]
      \/ \E i \in DOMAIN tied' : \E j \in DOMAIN tied'[i].chain : s = tied'[i].chain[j]
  BY DEF LiveStates
<1>. QED
  BY <1>2, <1>3, <1>4, DerivedSelf

LEMMA NewStateGood ==
  ASSUME TypeOK, StatsInv
  PROVE  LET s == MostGeneral(uncovered, firstPruned)
         IN  WithinBudget(s) /\ PaysOff(s) /\ s.pruned \subseteq Barren(s)
<1>. DEFINE s == MostGeneral(uncovered, firstPruned)
<1>1. /\ s.body = <<>> /\ s.black = {} /\ s.local = uncovered /\ s.pruned = firstPruned
      /\ LiteralsOf(s) = {} /\ RandomOf(s) = {}
  BY MostGeneralFields
<1>. HIDE DEF s
<1>2. WithinBudget(s)
  BY <1>1, FS_EmptySet, FlagAssumption DEF WithinBudget
<1>3. PaysOff(s)
  BY <1>1 DEF PaysOff
<1>4. s.pruned \subseteq Barren(s)
  <2>1. firstPruned \subseteq Literal /\ \A m \in firstPruned : CoveredBy({m}, uncovered) = {}
    BY DEF TypeOK, Body, StatsInv
  <2>2. \A m : {} \cup {m} = {m}
    OBVIOUS
  <2>. QED
    BY <1>1, <2>1, <2>2 DEF Barren
<1>. QED
  BY <1>2, <1>3, <1>4 DEF s

LEMMA StatesStep ==
  ASSUME SearchInv, TypeInv', [Next]_vars
  PROVE  StatesInv'
<1>1. TypeOK /\ StatsInv /\ StatesInv /\ TypeOK'
  BY SearchInvTypes DEF TypeInv
<1>2. LiveStates \subseteq State
  BY <1>1, LiveMembers
<1>3. LiveStates' \subseteq State
  <2>1. /\ \A i \in DOMAIN building' : building'[i] \in State
        /\ \A i \in DOMAIN tied' : tied'[i].chain \in Seq(State) \ {<<>>}
    <3>1. building' \in Seq(State) /\ tied' \in Seq(TiedInfo)
      BY <1>1 DEF TypeOK, TiedInfo
    <3>2. /\ \A i \in DOMAIN building' : building'[i] \in State
          /\ \A i \in DOMAIN tied' : tied'[i] \in TiedInfo
      BY <3>1, ElementType
    <3>. QED
      BY <3>2 DEF TiedInfo
  <2>2. \A i \in DOMAIN tied' : \A j \in DOMAIN tied'[i].chain : tied'[i].chain[j] \in State
    BY <2>1, ElementType
  <2>. HIDE DEF State
  <2>. QED
    BY <2>1, <2>2 DEF LiveStates
<1>. SUFFICES ASSUME NEW s \in LiveStates'
              PROVE  WithinBudget(s) /\ PaysOff(s) /\ s.pruned \subseteq Barren(s)
  BY DEF StatesInv
<1>4. CASE s = MostGeneral(uncovered, firstPruned)
  BY <1>1, <1>4, NewStateGood
<1>5. ASSUME NEW x \in LiveStates, Derived(x, s)
      PROVE  WithinBudget(s) /\ PaysOff(s) /\ s.pruned \subseteq Barren(s)
  <2>1. x \in State /\ s \in State
    BY <1>2, <1>3
  <2>2. WithinBudget(x) /\ PaysOff(x) /\ x.pruned \subseteq Barren(x)
    BY <1>1 DEF StatesInv
  <2>. QED
    BY <1>5, <2>1, <2>2, DerivedBudget, DerivedPaysOff, DerivedBarren
<1>. QED
  BY <1>4, <1>5, LiveStep

LEMMA SearchInvInit == Init => SearchInv
<1>. SUFFICES ASSUME Init PROVE SearchInv
  OBVIOUS
<1>. DEFINE s == MostGeneral(uncovered, firstPruned)
<1>1. CoverInv /\ TypeOK
  BY CoverInit, TypeInit DEF TypeInv
<1>2. /\ building = <<s>> /\ s \in State /\ ~LastIsRandom(s)
      /\ pc = "search" /\ isRandom = FALSE /\ pruned = {} /\ tied = <<>> /\ firstPruned = {}
  BY <1>1, MostGeneralType, MostGeneralFields DEF Init, TypeOK
<1>3. TurnInv /\ StatsInv
  BY <1>2 DEF TurnInv, StatsInv
<1>4. Linked(building)
  <2>. HIDE DEF s
  <2>. QED
    BY <1>2, LinkedOne
<1>5. StatesInv
  <2>1. WithinBudget(s) /\ PaysOff(s) /\ s.pruned \subseteq Barren(s)
    BY <1>1, <1>3, NewStateGood
  <2>2. LiveStates = {s}
    <3>. HIDE DEF s
    <3>. QED
      BY <1>2 DEF LiveStates
  <2>. HIDE DEF s
  <2>. QED
    BY <2>1, <2>2 DEF StatesInv
<1>. QED
  BY <1>1, <1>3, <1>4, <1>5 DEF SearchInv

LEMMA SearchInvNext == SearchInv /\ TypeInv' /\ [Next]_vars => SearchInv'
<1>. SUFFICES ASSUME SearchInv, TypeInv', [Next]_vars PROVE SearchInv'
  OBVIOUS
<1>1. CoverInv'
  BY CoverNext DEF SearchInv
<1>2. TurnInv'
  BY TurnStep
<1>3. Linked(building') /\ StatsInv' /\ StatesInv'
  BY <1>2, LinkStep, StatsStep, StatesStep
<1>. QED
  BY <1>1, <1>2, <1>3 DEF SearchInv

(* The invariant the theorems below are parts of. *)
LEMMA SearchInvHolds == Spec => []SearchInv
<1>1. TypeOK /\ HasBuilding /\ RandomOnTop => TypeInv
  BY DEF TypeInv
<1>. QED
  BY <1>1, SearchInvInit, SearchInvNext, TypeCorrect, PTL DEF Spec

(* A literal that statistics leave out of candidate generation would not have
   found a positive example, wherever the statistics were collected: for a
   tied literal's clause, for the first literal of a later clause, or for a
   clause that has since lost its random literal again.                    *)
THEOREM PruningCorrect == Spec => []PruningIsSound
<1>1. SearchInv => PruningIsSound
  <2>. SUFFICES ASSUME SearchInv PROVE PruningIsSound
    OBVIOUS
  <2>1. /\ \A l \in firstPruned : CoveredBy({} \cup {l}, uncovered) = {}
        /\ building # <<>> =>
             \A l \in pruned : CoveredBy(LiteralsOf(Top) \cup {l}, Top.local) = {}
    <3>1. \A l : {} \cup {l} = {l}
      OBVIOUS
    <3>. QED
      BY <3>1 DEF SearchInv, StatsInv, Barren
  <2>2. \A s \in LiveStates : \A l \in s.pruned :
          CoveredBy(LiteralsOf(s) \cup {l}, s.local) = {}
    BY DEF SearchInv, StatesInv, Barren
  <2>3. \A i \in DOMAIN tied : \A l \in tied[i].pruned :
          CoveredBy(LiteralsOf(FinalElement(tied[i].chain)) \cup {l},
                    FinalElement(tied[i].chain).local) = {}
    BY DEF SearchInv, StatsInv, Barren
  <2>. QED
    BY <2>1, <2>2, <2>3 DEF PruningIsSound
<1>. QED
  BY <1>1, SearchInvHolds, PTL

(* The budgets hold on every path, with the trials that falling back adds to
   the state below and the random literals tied literals bring along.      *)
THEOREM BudgetCorrect == Spec => []RandomBudget
<1>1. SearchInv => RandomBudget
  BY DEF SearchInv, StatesInv, WithinBudget, RandomBudget
<1>. QED
  BY <1>1, SearchInvHolds, PTL

(* A random literal inside a clause is read by the next one, or that one rules
   out every negative example: the search undoes it otherwise.             *)
THEOREM RandomLiteralsCorrect == Spec => []RandomLiteralsPayOff
<1>1. SearchInv => RandomLiteralsPayOff
  BY DEF SearchInv, StatesInv, PaysOff, RandomLiteralsPayOff
<1>. QED
  BY <1>1, SearchInvHolds, PTL

(* Regrowing never runs out of previous states or selectors. *)
THEOREM RegrowCorrect == Spec => []RegrowIsSafe
<1>1. SearchInv => RegrowIsSafe
  BY DEF SearchInv, TurnInv, RegrowIsSafe
<1>. QED
  BY <1>1, SearchInvHolds, PTL

-----------------------------------------------------------------------------
(* The refinement of SetCover. *)

(* The examples a live state started from are those that some prefix of the
   accepted rules left.                                                    *)
OriginInv ==
  \A s \in LiveStates : \E i \in 0..Len(learnt) : s.local = Abstract!Remaining(learnt, i)

LEMMA CoverOf ==
  ASSUME NEW b \in Body, NEW e \in Pos
  PROVE  e \in [r \in Body |-> CoveredBy(r, Pos)][b] <=> Bindings[b][e] # 0
<1>1. Bindings[b][e] \in Nat
  <2>1. Bindings[b] \in [Example -> Nat] /\ e \in Example
    BY BindingsAssumption DEF Example
  <2>. QED
    BY <2>1
<1>2. [r \in Body |-> CoveredBy(r, Pos)][b] = CoveredBy(b, Pos)
  OBVIOUS
<1>. QED
  BY <1>1, <1>2 DEF CoveredBy

LEMMA RemainingOfAll ==
  ASSUME TypeOK, UncoveredIsExact
  PROVE  Len(learnt) \in 0..Len(learnt) /\ uncovered = Abstract!Remaining(learnt, Len(learnt))
<1>1. learnt \in Seq(Body) /\ uncovered \in SUBSET Pos
  BY DEF TypeOK
<1>2. DOMAIN learnt = 1..Len(learnt) /\ Len(learnt) \in Nat
      /\ \A i \in 1..Len(learnt) : learnt[i] \in Body
  BY <1>1, ElementType
<1>3. \A e \in Pos : (\A i \in DOMAIN learnt : Bindings[learnt[i]][e] = 0) <=>
        \A i \in 1..Len(learnt) : e \notin [r \in Body |-> CoveredBy(r, Pos)][learnt[i]]
  BY <1>2, CoverOf
<1>. DEFINE Covered == [r \in Body |-> CoveredBy(r, Pos)]
<1>4. Abstract!Remaining(learnt, Len(learnt)) =
        {e \in Pos : \A i \in 1..Len(learnt) : e \notin Covered[learnt[i]]}
  BY DEF Abstract!Remaining
<1>. HIDE DEF Covered
<1>5. uncovered = {e \in Pos : \A i \in 1..Len(learnt) : e \notin Covered[learnt[i]]}
  BY <1>3 DEF UncoveredIsExact, Covered
<1>. QED
  BY <1>2, <1>4, <1>5

LEMMA RemainingOfLonger ==
  ASSUME NEW q \in Seq(Body), NEW b \in Body, NEW i \in 0..Len(q)
  PROVE  /\ i \in 0..Len(Append(q, b))
         /\ Abstract!Remaining(Append(q, b), i) = Abstract!Remaining(q, i)
<1>1. /\ Len(q) \in Nat /\ Len(Append(q, b)) = Len(q) + 1
      /\ \A j \in 1..i : Append(q, b)[j] = q[j]
  OBVIOUS
<1>. QED
  BY <1>1 DEF Abstract!Remaining

(* What a step may do to the learnt clauses. *)
AcceptsRule(b, s) ==
  /\ pc \notin Ended /\ pc' \notin Ended
  /\ Accepts(b, s.local)
  /\ learnt' = Append(learnt, b)
  /\ uncovered' = uncovered \ CoveredBy(b, s.local)

LEMMA FinishAccepts ==
  ASSUME NEW chain \in Seq(State) \ {<<>>}, NEW l \in Literal, NEW random \in BOOLEAN,
         FinishClause(chain, l, random), pc \notin Ended, pc' \notin Ended,
         \A j \in DOMAIN chain : chain[j] \in LiveStates
  PROVE  \E b \in Body, s \in LiveStates : AcceptsRule(b, s)
<1>. DEFINE s == FinalElement(chain)
            b == LiteralsOf(s) \cup {l}
<1>1. s \in State /\ s \in LiveStates
  <2>1. Len(chain) \in DOMAIN chain
    OBVIOUS
  <2>. QED
    BY <2>1, FinalElementType DEF FinalElement
<1>2. b \in Body
  BY <1>1, LiteralsOfType DEF Body
<1>3. AcceptsRule(b, s)
  BY DEF FinishClause, Accepted, AcceptsRule
<1>. QED
  BY <1>1, <1>2, <1>3

LEMMA LearntStep ==
  ASSUME SearchInv, [Next]_vars
  PROVE  \/ UNCHANGED <<uncovered, learnt>> /\ (pc \in Ended => pc' \in Ended)
         \/ \E b \in Body, s \in LiveStates : AcceptsRule(b, s)
<1>1. TypeOK /\ HasBuilding
  BY SearchInvTypes
<1>2. CASE Commit
  <2>1. /\ building \in Seq(State) \ {<<>>} /\ isRandom \in BOOLEAN
        /\ best \in SUBSET Literal /\ pc \notin Ended
        /\ \A j \in DOMAIN building : building[j] \in LiveStates
    BY <1>1, <1>2, LiveMembers DEF Commit, HasBuilding, TypeOK, Body, Ended, Crashed
  <2>. PICK l \in best :
         \/ FinishClause(building, l, isRandom) /\ pc' = "rule_end"
         \/ DropClause(building, l, isRandom, FALSE) /\ pc' = "rule_end"
         \/ GrowClause(building, l, isRandom, FALSE, pruned, saved) /\ pc' = "search"
    BY <1>2 DEF Commit
  <2>2. CASE FinishClause(building, l, isRandom) /\ pc' = "rule_end"
    <3>1. pc' \notin Ended
      BY <2>2 DEF Ended, Crashed
    <3>. QED
      BY <2>1, <2>2, <3>1, FinishAccepts
  <2>3. CASE DropClause(building, l, isRandom, FALSE)
             \/ GrowClause(building, l, isRandom, FALSE, pruned, saved)
    BY <2>1, <2>3 DEF DropClause, GrowClause
  <2>. QED
    BY <2>2, <2>3
<1>3. CASE TryTied
  <2>. DEFINE t == FinalElement(tied)
  <2>1. /\ t.lit \in Literal /\ t.chain \in Seq(State) \ {<<>>}
        /\ \A j \in DOMAIN t.chain : t.chain[j] \in LiveStates
    BY <1>3, LastTied DEF TryTied
  <2>2. pc = "tied" /\ pc \notin Ended
    BY <1>3 DEF TryTied, Ended, Crashed
  <2>3. \/ UNCHANGED <<uncovered, learnt>>
        \/ FinishClause(t.chain, t.lit, FALSE) /\ UNCHANGED pc
    BY <1>3, Zenon DEF TryTied, DropClause, GrowClause
  <2>. HIDE DEF t
  <2>4. CASE FinishClause(t.chain, t.lit, FALSE) /\ UNCHANGED pc
    BY <2>1, <2>2, <2>4, FinishAccepts
  <2>. QED
    BY <2>2, <2>3, <2>4
<1>4. CASE UNCHANGED <<uncovered, learnt>> /\ (pc \notin Ended \/ pc' = pc)
  BY <1>4
<1>5. ASSUME SearchDividesByZero \/ SearchFindsNothing \/ SearchPicksRegular
               \/ SearchPicksRandom \/ TakeBest
               \/ RegrowTake \/ RegrowNextGroup \/ RegrowFallsBack \/ EndRule \/ StartClause
      PROVE  UNCHANGED <<uncovered, learnt>> /\ pc \notin Ended
  BY <1>5 DEF SearchDividesByZero, SearchFindsNothing, SearchPicksRegular,
    SearchPicksRandom, SearchRanks, TakeBest, RegrowTake, RegrowNextGroup,
    RegrowFallsBack, EndRule, StartClause, Ended, Crashed
<1>6. ASSUME Stutter \/ UNCHANGED vars
      PROVE  UNCHANGED <<uncovered, learnt>> /\ pc' = pc
  BY <1>6 DEF Stutter, vars
<1>. QED
  BY <1>2, <1>3, <1>4, <1>5, <1>6, Zenon DEF Next, Step

LEMMA OriginInit == Init => OriginInv
<1>. SUFFICES ASSUME Init PROVE OriginInv
  OBVIOUS
<1>. DEFINE s == MostGeneral(Pos, {})
<1>1. /\ building = <<s>> /\ tied = <<>> /\ s.local = uncovered
  BY DEF Init, MostGeneral
<1>. HIDE DEF s
<1>2. LiveStates = {s}
  BY <1>1 DEF LiveStates
<1>3. TypeOK /\ UncoveredIsExact
  BY CoverInit, TypeInit DEF TypeInv, CoverInv
<1>. QED
  BY <1>1, <1>2, <1>3, RemainingOfAll DEF OriginInv

LEMMA OriginStep ==
  ASSUME SearchInv, OriginInv, TypeInv', [Next]_vars
  PROVE  OriginInv'
<1>1. TypeOK /\ learnt \in Seq(Body) /\ UncoveredIsExact
  BY SearchInvTypes DEF TypeOK, SearchInv, CoverInv
<1>2. learnt' = learnt \/ \E b \in Body : learnt' = Append(learnt, b)
  BY LearntStep DEF AcceptsRule
<1>3. ASSUME NEW i \in 0..Len(learnt)
      PROVE  /\ i \in 0..Len(learnt')
             /\ Abstract!Remaining(learnt', i) = Abstract!Remaining(learnt, i)
  BY <1>1, <1>2, RemainingOfLonger
<1>. SUFFICES ASSUME NEW s \in LiveStates'
              PROVE  \E i \in 0..Len(learnt') : s.local = Abstract!Remaining(learnt', i)
  BY DEF OriginInv
<1>4. ASSUME NEW x \in LiveStates, Derived(x, s)
      PROVE  \E i \in 0..Len(learnt) : s.local = Abstract!Remaining(learnt, i)
  <2>1. s.local = x.local
    BY <1>4 DEF Derived, Resumed, Extended
  <2>. QED
    BY <2>1 DEF OriginInv
<1>5. CASE s = MostGeneral(uncovered, firstPruned)
  <2>1. s.local = uncovered
    BY <1>5, MostGeneralFields
  <2>. QED
    BY <1>1, <1>3, <2>1, RemainingOfAll
<1>. QED
  BY <1>3, <1>4, <1>5, LiveStep

(* The learner implements SetCover: whatever order clauses are finished in, on
   whatever snapshot, each accepted one is good on what some prefix of the
   learnt clauses left, and takes away exactly what it covers.             *)
THEOREM LearnerImplementsSetCover == Spec => ImplementsSetCover
<1>1. Init => Abstract!Init
  BY DEF Init, Abstract!Init, Ended, Crashed
<1>2. SearchInv /\ OriginInv /\ [Next]_vars => [Abstract!Next]_(Abstract!vars)
  <2>. SUFFICES ASSUME SearchInv, OriginInv, [Next]_vars
                PROVE  [Abstract!Next]_(Abstract!vars)
    OBVIOUS
  <2>1. CASE UNCHANGED <<uncovered, learnt>> /\ (pc \in Ended => pc' \in Ended)
    BY <2>1 DEF Abstract!Next, Abstract!Stop, Abstract!vars
  <2>2. ASSUME NEW b \in Body, NEW s \in LiveStates, AcceptsRule(b, s)
        PROVE  Abstract!AddRule
    <3>1. uncovered \in SUBSET Pos /\ uncovered \subseteq s.local /\ s.local \subseteq Pos
      <4>1. SnapshotsContainUncovered /\ TypeOK
        BY SearchInvTypes DEF SearchInv, CoverInv, SnapshotInv,
          SnapshotsContainUncovered, LiveStates, Contains
      <4>2. s \in State
        BY <4>1, LiveMembers
      <4>. QED
        BY <4>1, <4>2, BodyType DEF SnapshotsContainUncovered, TypeOK
    <3>2. uncovered' = uncovered \ [r \in Body |-> CoveredBy(r, Pos)][b]
      BY <2>2, <3>1 DEF AcceptsRule, CoveredBy
    <3>3. \E i \in 0..Len(learnt) : Accepts(b, Abstract!Remaining(learnt, i))
      BY <2>2 DEF OriginInv, AcceptsRule
    <3>. QED
      BY <2>2, <3>2, <3>3 DEF AcceptsRule, Abstract!AddRule
  <2>. QED
    BY <2>1, <2>2, LearntStep DEF Abstract!Next
<1>3. TypeOK /\ HasBuilding /\ RandomOnTop => TypeInv
  BY DEF TypeInv
<1>4. SearchInv /\ OriginInv /\ TypeInv' /\ [Next]_vars => OriginInv'
  BY OriginStep
<1>. QED
  BY <1>1, <1>2, <1>3, <1>4, OriginInit, SearchInvHolds, TypeCorrect, PTL
    DEF Spec, ImplementsSetCover, Abstract!Spec
=============================================================================
