------------------------ MODULE LiteralSelectorProofs -----------------------
(***************************************************************************)
(* Whatever the candidates are and in whatever order they arrive, the      *)
(* selector keeps what it promises to keep and hands it out best first.    *)
(*                                                                         *)
(* The four properties are inductive together once two facts are added:    *)
(* every ranked literal is matched by one of the heap, and everything that *)
(* was handed out is better than all that is still saved.                  *)
(***************************************************************************)
EXTENDS LiteralSelector, FiniteSetTheorems, WellFoundedInduction, TLAPS

(* Nothing that is ranked is better than the whole heap. *)
HeapInv ==
  /\ heap \subseteq Ranked
  /\ \A c \in Ranked : \E h \in heap : Score(h) >= Score(c)

(* What was handed out is better than what is saved. *)
OfferInv ==
  \A i \in RegularGroups : \A c \in offered[i], d \in saved : Score(c) > Score(d)

(* Literals are saved only when the first group is handed out. *)
SavedInv == offered = <<>> => saved = {}

SelectorInv ==
  /\ TypeOK /\ HeapInv /\ OfferInv /\ SavedInv
  /\ KeptUnlessOutranked /\ RandomIsBest /\ OffersRankTheHeap

-----------------------------------------------------------------------------
(* Scores. *)

LEMMA ScoreType ==
  ASSUME TypeOK
  PROVE  \A c \in Candidate : /\ info[c] \in Info
                              /\ Score(c) \in Nat /\ info[c].fScore \in Nat
                              /\ info[c].isRandom \in BOOLEAN
BY InfoAssumption DEF TypeOK, Score

LEMMA LowestNumber ==
  ASSUME NEW T \in SUBSET Nat, T # {}
  PROVE  \E x \in T : \A y \in T : x <= y
<1>. DEFINE R == OpToRel(<, Nat)
<1>1. IsWellFoundedOn(R, Nat)
  BY NatLessThanWellFounded
<1>2. \A x, y \in Nat : y < x => <<y, x>> \in R
  BY DEF OpToRel
<1>. HIDE DEF R
<1>3. PICK x \in T : \A y \in T : ~(<<y, x>> \in R)
  BY <1>1, WFMin
<1>4. ASSUME NEW y \in T PROVE x <= y
  <2>1. ~(<<y, x>> \in R)
    BY <1>3
  <2>2. x \in Nat /\ y \in Nat
    OBVIOUS
  <2>3. ~(y < x)
    BY <1>2, <2>1, <2>2
  <2>. QED
    BY <2>2, <2>3
<1>. QED
  BY <1>4

LEMMA MinScoreType ==
  ASSUME TypeOK, NEW S \in SUBSET Candidate, S # {}
  PROVE  /\ MinScore(S) \in Nat
         /\ \A c \in S : MinScore(S) <= Score(c)
         /\ \E c \in S : Score(c) = MinScore(S)
<1>. DEFINE T == {Score(c) : c \in S}
<1>1. T \in SUBSET Nat /\ T # {}
  BY ScoreType
<1>2. \E m \in T : \A n \in T : m <= n
  BY <1>1, LowestNumber
<1>3. \E m \in T : \A c \in S : m <= Score(c)
  BY <1>2
<1>4. MinScore(S) \in T /\ \A c \in S : MinScore(S) <= Score(c)
  BY <1>3 DEF MinScore
<1>. QED
  BY <1>1, <1>4

(* A literal that fewest others surpass is surpassed by none. *)
LEMMA HighestScore ==
  ASSUME TypeOK, NEW S \in SUBSET Candidate, S # {}
  PROVE  \E c \in S : \A d \in S : Score(c) >= Score(d)
<1>. DEFINE Above(c) == {d \in S : Score(d) > Score(c)}
            T == {Cardinality(Above(c)) : c \in S}
<1>1. IsFiniteSet(S)
  BY SelectorAssumption, FS_Subset
<1>2. \A c \in S : IsFiniteSet(Above(c)) /\ Cardinality(Above(c)) \in Nat
  <2>. SUFFICES ASSUME NEW c \in S PROVE IsFiniteSet(Above(c)) /\ Cardinality(Above(c)) \in Nat
    OBVIOUS
  <2>1. Above(c) \in SUBSET S
    OBVIOUS
  <2>. HIDE DEF Above
  <2>. QED
    BY <1>1, <2>1, FS_Subset, FS_CardinalityType
<1>3. T \in SUBSET Nat /\ T # {}
  BY <1>2
<1>4. PICK n \in T : \A m \in T : n <= m
  BY <1>3, LowestNumber
<1>5. PICK c \in S : n = Cardinality(Above(c))
  BY <1>4
<1>6. \A d \in S : Cardinality(Above(c)) <= Cardinality(Above(d))
  BY <1>4, <1>5
<1>7. ASSUME NEW d \in S, Score(d) > Score(c) PROVE FALSE
  <2>1. Above(d) \in SUBSET Above(c) /\ d \in Above(c) /\ d \notin Above(d)
    BY <1>7, ScoreType
  <2>2. /\ IsFiniteSet(Above(c)) /\ Cardinality(Above(c)) \in Nat
        /\ Cardinality(Above(d)) \in Nat
    BY <1>2
  <2>3. Cardinality(Above(c)) <= Cardinality(Above(d))
    BY <1>6
  <2>. HIDE DEF Above
  <2>4. /\ Cardinality(Above(d)) <= Cardinality(Above(c))
        /\ Cardinality(Above(c)) = Cardinality(Above(d)) => Above(c) = Above(d)
    BY <2>1, <2>2, FS_Subset
  <2>. QED
    BY <2>1, <2>2, <2>3, <2>4
<1>. QED
  BY <1>7, ScoreType

LEMMA MaxScoreType ==
  ASSUME TypeOK, NEW S \in SUBSET Candidate, S # {}
  PROVE  /\ MaxScore(S) \in Nat
         /\ \A c \in S : MaxScore(S) >= Score(c)
         /\ \E c \in S : Score(c) = MaxScore(S)
<1>1. \E m \in {Score(c) : c \in S} : \A c \in S : m >= Score(c)
  BY HighestScore
<1>2. /\ MaxScore(S) \in {Score(c) : c \in S}
      /\ \A c \in S : MaxScore(S) >= Score(c)
  BY <1>1 DEF MaxScore
<1>. QED
  BY <1>2, ScoreType

-----------------------------------------------------------------------------
(* Insert: the literal c arrives. *)

LEMMA HeapFinite ==
  ASSUME TypeOK
  PROVE  IsFiniteSet(heap) /\ Cardinality(heap) \in Nat
<1>1. heap \in SUBSET Candidate
  BY DEF TypeOK
<1>. QED
  BY <1>1, SelectorAssumption, FS_Subset, FS_CardinalityType

(* What the insertion does, told by cases. *)
LEMMA HeapCases ==
  ASSUME TypeOK, NEW c \in Candidate, c \notin heap
  PROVE  \/ /\ Cardinality(heap) < NumSavedLiterals
            /\ HeapWith(c) = heap \cup {c}
         \/ /\ Cardinality(heap) >= NumSavedLiterals
            /\ HeapWith(c) = heap
            /\ \A h \in heap : Score(c) < Score(h)
         \/ /\ Cardinality(heap) >= NumSavedLiterals
            /\ c \in HeapWith(c) /\ HeapWith(c) \subseteq heap \cup {c}
            /\ \A h \in heap : Score(c) >= Score(h) \/ h \in HeapWith(c)
            /\ \A h, g \in heap : h \notin HeapWith(c) => Score(g) >= Score(h)
            /\ \E h \in heap : h \notin HeapWith(c)
<1>1. Cardinality(heap) \in Nat /\ NumSavedLiterals \in Nat \ {0}
  BY HeapFinite, SelectorAssumption
<1>2. CASE Cardinality(heap) < NumSavedLiterals
  BY <1>2 DEF HeapWith
<1>3. CASE Cardinality(heap) >= NumSavedLiterals
  <2>1. heap \in SUBSET Candidate /\ heap # {}
    <3>1. heap \in SUBSET Candidate
      BY DEF TypeOK
    <3>2. ASSUME heap = {} PROVE FALSE
      BY <1>1, <1>3, <3>2, FS_EmptySet
    <3>. QED
      BY <3>1, <3>2
  <2>2. /\ MinScore(heap) \in Nat
        /\ \A h \in heap : MinScore(heap) <= Score(h)
        /\ \E h \in heap : Score(h) = MinScore(heap)
    BY <2>1, MinScoreType
  <2>3. Score(c) \in Nat /\ \A h \in heap : Score(h) \in Nat
    BY <2>1, ScoreType
  <2>4. HeapWith(c) = IF Score(c) < MinScore(heap) THEN heap
                      ELSE {h \in heap : Score(h) > MinScore(heap)} \cup {c}
    BY <1>1, <1>3 DEF HeapWith
  <2>5. CASE Score(c) < MinScore(heap)
    BY <1>3, <2>2, <2>3, <2>4, <2>5
  <2>6. CASE ~(Score(c) < MinScore(heap))
    <3>1. HeapWith(c) = {h \in heap : Score(h) > MinScore(heap)} \cup {c}
      BY <2>4, <2>6
    <3>2. c \in HeapWith(c) /\ HeapWith(c) \subseteq heap \cup {c}
      BY <3>1
    <3>3. \A h \in heap : h \in HeapWith(c) \/ Score(h) = MinScore(heap)
      BY <2>2, <2>3, <3>1
    <3>4. \A h \in heap : Score(c) >= Score(h) \/ h \in HeapWith(c)
      BY <2>2, <2>3, <2>6, <3>3
    <3>5. \A h, g \in heap : h \notin HeapWith(c) => Score(g) >= Score(h)
      BY <2>2, <2>3, <3>3
    <3>6. \E h \in heap : h \notin HeapWith(c)
      <4>1. PICK h \in heap : Score(h) = MinScore(heap)
        BY <2>2
      <4>. QED
        BY <2>2, <3>1, <4>1
    <3>. QED
      BY <1>3, <3>2, <3>4, <3>5, <3>6
  <2>. QED
    BY <2>5, <2>6
<1>. QED
  BY <1>1, <1>2, <1>3

LEMMA HeapFits ==
  ASSUME TypeOK, NEW c \in Candidate, c \notin heap
  PROVE  /\ HeapWith(c) \subseteq heap \cup {c}
         /\ Cardinality(HeapWith(c)) <= NumSavedLiterals
<1>. DEFINE new == HeapWith(c)
<1>1. /\ IsFiniteSet(heap) /\ Cardinality(heap) \in Nat
      /\ Cardinality(heap) <= NumSavedLiterals /\ NumSavedLiterals \in Nat
  BY HeapFinite, SelectorAssumption DEF TypeOK
<1>2. /\ IsFiniteSet(heap \cup {c})
      /\ Cardinality(heap \cup {c}) = Cardinality(heap) + 1
  BY <1>1, FS_AddElement
<1>3. CASE Cardinality(heap) < NumSavedLiterals /\ new = heap \cup {c}
  BY <1>1, <1>2, <1>3
<1>4. CASE new = heap
  BY <1>1, <1>4
<1>5. CASE new \subseteq heap \cup {c} /\ \E h \in heap : h \notin new
  <2>1. new # heap \cup {c} /\ new \in SUBSET (heap \cup {c})
    BY <1>5
  <2>. HIDE DEF new
  <2>2. /\ IsFiniteSet(new)
        /\ Cardinality(new) <= Cardinality(heap \cup {c})
        /\ Cardinality(new) # Cardinality(heap \cup {c})
    BY <1>2, <2>1, FS_Subset
  <2>3. Cardinality(new) \in Nat
    BY <2>2, FS_CardinalityType
  <2>. QED
    BY <1>1, <1>2, <1>5, <2>2, <2>3 DEF new
<1>. QED
  BY <1>3, <1>4, <1>5, HeapCases

(* One literal arrives that is scored. *)
Arrives(c) ==
  /\ TypeOK /\ c \in arriving /\ Score(c) # 0
  /\ heap' = HeapWith(c) /\ arriving' = arriving \ {c}
  /\ UNCHANGED info

LEMMA RankedGrows ==
  ASSUME NEW c, Arrives(c)
  PROVE  /\ c \in Candidate /\ c \notin heap /\ c \notin Ranked
         /\ Ranked' = Ranked \cup {c}
         /\ \A d \in Candidate : Score(d)' = Score(d) /\ Score(d) \in Nat
<1>1. /\ c \in Candidate /\ arriving \subseteq Candidate
      /\ heap \cap arriving = {}
  BY DEF Arrives, TypeOK
<1>2. \A d \in Candidate : Score(d)' = Score(d) /\ Score(d) \in Nat
  BY ScoreType DEF Arrives, Score
<1>3. Score(c) > 0
  BY <1>1, <1>2 DEF Arrives
<1>. QED
  BY <1>1, <1>2, <1>3 DEF Arrives, Ranked

LEMMA HeapInvKept ==
  ASSUME NEW c, Arrives(c), HeapInv
  PROVE  HeapInv'
<1>1. /\ c \in Candidate /\ c \notin heap
      /\ Ranked' = Ranked \cup {c} /\ Ranked \subseteq Candidate
      /\ \A d \in Candidate : Score(d)' = Score(d) /\ Score(d) \in Nat
  BY RankedGrows DEF Ranked
<1>2. heap' = HeapWith(c) /\ TypeOK
  BY DEF Arrives
<1>3. heap \subseteq Ranked /\ \A d \in Ranked : \E h \in heap : Score(h) >= Score(d)
  BY DEF HeapInv
<1>4. heap' \subseteq Ranked'
  BY <1>1, <1>2, <1>3, HeapFits
<1>5. ASSUME NEW d \in Ranked' PROVE \E h \in heap' : Score(h) >= Score(d)
  <2>1. CASE heap' = heap \cup {c}
    BY <1>1, <1>3, <2>1
  <2>2. CASE /\ heap' = heap /\ heap # {}
             /\ \A h \in heap : Score(c) < Score(h)
    BY <1>1, <1>3, <2>2
  <2>3. CASE /\ c \in heap'
             /\ \A h \in heap : Score(c) >= Score(h) \/ h \in heap'
    <3>1. CASE d = c
      BY <1>1, <2>3, <3>1
    <3>2. CASE d \in Ranked
      <4>1. PICK h \in heap : Score(h) >= Score(d)
        BY <1>3, <3>2
      <4>2. Score(h) \in Nat /\ Score(d) \in Nat /\ Score(c) \in Nat
        BY <1>1, <1>3, <3>2
      <4>. QED
        BY <2>3, <4>1, <4>2
    <3>. QED
      BY <1>1, <3>1, <3>2
  <2>4. Cardinality(heap) >= NumSavedLiterals => heap # {}
    BY SelectorAssumption, FS_EmptySet
  <2>. QED
    BY <1>1, <1>2, <2>1, <2>2, <2>3, <2>4, HeapCases
<1>. QED
  BY <1>1, <1>4, <1>5 DEF HeapInv

(* The literals that are at least as good as c. *)
Rivals(c) == {d \in Ranked \ {c} : Score(d) >= Score(c)}

LEMMA OutrankedKept ==
  ASSUME NEW c, Arrives(c), HeapInv, KeptUnlessOutranked, TypeOK', HeapInv'
  PROVE  KeptUnlessOutranked'
<1>1. /\ c \in Candidate /\ c \notin heap /\ c \notin Ranked
      /\ Ranked' = Ranked \cup {c} /\ Ranked \subseteq Candidate
      /\ \A d \in Candidate : Score(d)' = Score(d) /\ Score(d) \in Nat
  BY RankedGrows DEF Ranked
<1>2. /\ heap' = HeapWith(c) /\ TypeOK /\ heap \subseteq Ranked
      /\ IsFiniteSet(heap) /\ Cardinality(heap) \in Nat
  BY HeapFinite DEF Arrives, HeapInv
<1>3. ASSUME NEW e \in Ranked' \ heap'
      PROVE  \E S \in SUBSET (Ranked' \ {e}) : /\ Cardinality(S) >= NumSavedLiterals
                                              /\ \A d \in S : Score(d) >= Score(e)
  <2>1. CASE e = c
    <3>1. /\ Cardinality(heap) >= NumSavedLiterals
          /\ \A h \in heap : Score(c) < Score(h)
      BY <1>1, <1>2, <1>3, <2>1, HeapCases
    <3>2. \A h \in heap : Score(h) >= Score(e)
      BY <1>1, <1>2, <2>1, <3>1
    <3>3. heap \in SUBSET (Ranked' \ {e})
      BY <1>1, <1>2, <2>1
    <3>. QED
      BY <3>1, <3>2, <3>3
  <2>2. CASE e \in Ranked \ heap
    <3>1. Cardinality(Rivals(e)) >= NumSavedLiterals
      BY <2>2 DEF KeptUnlessOutranked, Rivals
    <3>2. Rivals(e) \in SUBSET (Ranked' \ {e}) /\ \A d \in Rivals(e) : Score(d) >= Score(e)
      BY <1>1 DEF Rivals
    <3>. QED
      BY <3>1, <3>2
  <2>3. CASE e \in heap
    <3>1. /\ Cardinality(heap) >= NumSavedLiterals
          /\ Score(c) >= Score(e) /\ \A g \in heap : Score(g) >= Score(e)
      BY <1>1, <1>2, <1>3, <2>3, HeapCases
    <3>2. /\ IsFiniteSet(heap \ {e}) /\ Cardinality(heap \ {e}) = Cardinality(heap) - 1
      BY <1>2, <2>3, FS_RemoveElement
    <3>3. Cardinality((heap \ {e}) \cup {c}) = Cardinality(heap \ {e}) + 1
      BY <1>1, <3>2, FS_AddElement
    <3>4. Cardinality((heap \ {e}) \cup {c}) >= NumSavedLiterals
      BY <1>2, <3>1, <3>2, <3>3, SelectorAssumption
    <3>5. /\ (heap \ {e}) \cup {c} \in SUBSET (Ranked' \ {e})
          /\ \A d \in (heap \ {e}) \cup {c} : Score(d) >= Score(e)
      BY <1>1, <1>2, <2>3, <3>1
    <3>. QED
      BY <3>4, <3>5
  <2>. QED
    BY <1>1, <2>1, <2>2, <2>3
<1>4. ASSUME NEW e \in Ranked' \ heap'
      PROVE  Cardinality({d \in Ranked' \ {e} : Score(d) >= Score(e)}) >= NumSavedLiterals
  <2>1. PICK S \in SUBSET (Ranked' \ {e}) : /\ Cardinality(S) >= NumSavedLiterals
                                          /\ \A d \in S : Score(d) >= Score(e)
    BY <1>3
  <2>. DEFINE all == {d \in Ranked' \ {e} : Score(d) >= Score(e)}
  <2>2. all \in SUBSET Candidate /\ S \in SUBSET all
    BY <1>1, <2>1
  <2>3. IsFiniteSet(all)
    BY <2>2, SelectorAssumption, FS_Subset
  <2>. HIDE DEF all
  <2>4. /\ Cardinality(S) <= Cardinality(all) /\ Cardinality(all) \in Nat
        /\ Cardinality(S) \in Nat
    BY <2>2, <2>3, FS_Subset, FS_CardinalityType
  <2>5. Cardinality(all) >= NumSavedLiterals
    BY <2>1, <2>4, SelectorAssumption
  <2>. QED
    BY <2>5 DEF all
<1>5. ASSUME NEW e \in Ranked' \ heap'
      PROVE  {d \in Ranked' \ {e} : Score(d)' >= Score(e)'}
             = {d \in Ranked' \ {e} : Score(d) >= Score(e)}
  BY <1>1
<1>. QED
  BY <1>4, <1>5 DEF KeptUnlessOutranked

LEMMA RandomKept ==
  ASSUME NEW c, Arrives(c), RandomIsBest,
         random' = IF info[c].isRandom /\ IsBetterRandom(c) THEN {c} ELSE random
  PROVE  RandomIsBest'
<1>1. /\ c \in Candidate /\ Ranked' = Ranked \cup {c} /\ Ranked \subseteq Candidate
      /\ random \subseteq Candidate /\ info' = info
  BY RankedGrows DEF Ranked, Arrives, TypeOK
<1>2. \A d \in Candidate : info[d].fScore \in Nat
  BY ScoreType DEF Arrives
<1>3. ASSUME NEW d \in Ranked', info[d].isRandom
      PROVE  \E r \in random' : info[r].fScore >= info[d].fScore
  <2>1. d \in Candidate
    BY <1>1
  <2>2. d \in Ranked => \E r \in random : info[r].fScore >= info[d].fScore
    BY <1>3 DEF RandomIsBest
  <2>3. CASE info[c].isRandom /\ IsBetterRandom(c)
    <3>1. random' = {c}
      BY <2>3
    <3>2. \A r \in random : info[c].fScore >= info[r].fScore
      BY <1>1, <1>2, <2>3 DEF IsBetterRandom
    <3>. QED
      BY <1>1, <1>2, <2>1, <2>2, <3>1, <3>2
  <2>4. CASE ~(info[c].isRandom /\ IsBetterRandom(c))
    <3>1. random' = random
      BY <2>4
    <3>2. d = c => \E r \in random : info[r].fScore >= info[d].fScore
      BY <1>1, <1>2, <1>3, <2>4 DEF IsBetterRandom
    <3>. QED
      BY <1>1, <2>2, <3>1, <3>2
  <2>. QED
    BY <2>3, <2>4
<1>. QED
  BY <1>1, <1>3 DEF RandomIsBest

(* While literals arrive nothing is handed out yet. *)
LEMMA InsertKeeps ==
  ASSUME SelectorInv, Insert
  PROVE  SelectorInv'
<1>1. PICK c \in arriving :
        /\ arriving' = arriving \ {c}
        /\ IF Score(c) = 0
           THEN UNCHANGED <<heap, random>>
           ELSE /\ heap' = HeapWith(c)
                /\ random' = IF info[c].isRandom /\ IsBetterRandom(c)
                             THEN {c} ELSE random
  BY DEF Insert
<1>2. /\ offered' = <<>> /\ saved' = saved /\ useRandom' = useRandom /\ info' = info
      /\ offered = <<>>
  BY DEF Insert
<1>3. TypeOK /\ saved = {}
  BY <1>2 DEF SelectorInv, SavedInv
<1>4. OfferInv' /\ OffersRankTheHeap' /\ SavedInv'
  <2>1. RegularGroups' = {}
    BY <1>2 DEF RegularGroups
  <2>. QED
    BY <1>2, <1>3, <2>1 DEF OfferInv, OffersRankTheHeap, SavedInv
<1>5. CASE Score(c) = 0
  <2>1. heap' = heap /\ random' = random
    BY <1>1, <1>5
  <2>2. /\ arriving \subseteq Candidate /\ c \in Candidate /\ arriving' \subseteq arriving
        /\ \A d \in Candidate : Score(d)' = Score(d)
    BY <1>1, <1>2, <1>3 DEF TypeOK, Score
  <2>3. Ranked' = Ranked
    BY <1>1, <1>5, <2>2 DEF Ranked
  <2>4. TypeOK'
    BY <1>1, <1>2, <1>3, <2>1, <2>2 DEF TypeOK
  <2>5. HeapInv' /\ RandomIsBest'
    <3>1. Ranked \subseteq Candidate
      BY DEF Ranked
    <3>. QED
      BY <1>2, <1>3, <2>1, <2>2, <2>3, <3>1 DEF SelectorInv, HeapInv, RandomIsBest, TypeOK
  <2>6. KeptUnlessOutranked'
    BY <1>2, <2>1, <2>3 DEF SelectorInv, KeptUnlessOutranked, Score
  <2>. QED
    BY <1>4, <2>4, <2>5, <2>6 DEF SelectorInv
<1>6. CASE Score(c) # 0
  <2>1. Arrives(c) /\ c \in Candidate /\ c \notin heap
    BY <1>1, <1>2, <1>3, <1>6 DEF Arrives, TypeOK
  <2>2. random' = IF info[c].isRandom /\ IsBetterRandom(c) THEN {c} ELSE random
    BY <1>1, <1>6
  <2>3. /\ heap' \subseteq heap \cup {c} /\ Cardinality(heap') <= NumSavedLiterals
    BY <1>3, <2>1, HeapFits DEF Arrives
  <2>4. random' = {c} \/ random' = random
    BY <2>2
  <2>5. Cardinality(random') <= 1 /\ random' \subseteq Candidate \ arriving'
    <3>1. Cardinality({c}) = 1
      BY FS_Singleton
    <3>2. random \subseteq Candidate \ arriving /\ Cardinality(random) <= 1
      BY <1>3 DEF TypeOK
    <3>3. c \in arriving /\ arriving' = arriving \ {c}
      BY <1>1
    <3>4. CASE random' = {c}
      BY <2>1, <3>1, <3>3, <3>4
    <3>5. CASE random' = random
      BY <3>2, <3>3, <3>5
    <3>. QED
      BY <2>4, <3>4, <3>5
  <2>6. TypeOK'
    <3>1. info' \in [Candidate -> Info] /\ useRandom' \in BOOLEAN
      BY <1>2, <1>3 DEF TypeOK
    <3>2. /\ arriving' \subseteq Candidate /\ heap' \subseteq Candidate \ arriving'
          /\ saved' \subseteq heap'
      BY <1>1, <1>2, <1>3, <2>1, <2>3 DEF TypeOK
    <3>3. offered' \in Seq(SUBSET Candidate)
      BY <1>2
    <3>. QED
      BY <2>3, <2>5, <3>1, <3>2, <3>3 DEF TypeOK
  <2>7. HeapInv'
    BY <2>1, HeapInvKept DEF SelectorInv
  <2>8. KeptUnlessOutranked'
    BY <2>1, <2>6, <2>7, OutrankedKept DEF SelectorInv
  <2>9. RandomIsBest'
    BY <2>1, <2>2, RandomKept DEF SelectorInv
  <2>. QED
    BY <1>4, <2>6, <2>7, <2>8, <2>9 DEF SelectorInv
<1>. QED
  BY <1>5, <1>6

-----------------------------------------------------------------------------
(* The groups that are handed out. *)

LEMMA TiedAreBest ==
  ASSUME TypeOK, NEW S \in SUBSET Candidate, S # {}
  PROVE  /\ TiedWithBest(S) # {} /\ TiedWithBest(S) \subseteq S
         /\ \A c \in TiedWithBest(S), d \in S \ TiedWithBest(S) : Score(c) > Score(d)
<1>1. /\ MaxScore(S) \in Nat /\ \A c \in S : MaxScore(S) >= Score(c)
      /\ \E c \in S : Score(c) = MaxScore(S)
  BY MaxScoreType
<1>2. \A c \in S : Score(c) \in Nat
  BY ScoreType
<1>3. Tolerance \in Nat \ {0}
  BY SelectorAssumption
<1>. QED
  BY <1>1, <1>2, <1>3 DEF TiedWithBest

(* What arrived is not touched when literals are handed out. *)
LEMMA ArrivedKept ==
  ASSUME SelectorInv, UNCHANGED <<info, arriving, heap, random>>
  PROVE  HeapInv' /\ KeptUnlessOutranked' /\ RandomIsBest'
<1>1. Ranked' = Ranked /\ heap' = heap /\ random' = random /\ info' = info
  BY DEF Ranked, Score
<1>2. HeapInv'
  BY <1>1 DEF SelectorInv, HeapInv, Score
<1>3. KeptUnlessOutranked'
  BY <1>1 DEF SelectorInv, KeptUnlessOutranked, Score
<1>4. RandomIsBest'
  BY <1>1 DEF SelectorInv, RandomIsBest
<1>. QED
  BY <1>2, <1>3, <1>4

LEMMA GetBestKeeps ==
  ASSUME SelectorInv, GetBestLiteral
  PROVE  SelectorInv'
<1>1. /\ TypeOK /\ heap # {} /\ offered = <<>> /\ heap \in SUBSET Candidate
      /\ UNCHANGED <<info, arriving, heap, random>>
  BY DEF SelectorInv, GetBestLiteral, TypeOK
<1>2. HeapInv' /\ KeptUnlessOutranked' /\ RandomIsBest'
  BY <1>1, ArrivedKept
<1>3. \A c \in Candidate : Score(c)' = Score(c)
  BY <1>1 DEF Score
<1>4. \/ \E regular : OfferRandom(regular)
      \/ OfferRegular
  BY DEF GetBestLiteral
<1>5. CASE \E regular : OfferRandom(regular)
  <2>1. offered' = <<random>> /\ useRandom' = TRUE /\ saved' = heap
    BY <1>5 DEF OfferRandom
  <2>2. Len(offered') = 1 /\ offered' # <<>>
    BY <2>1
  <2>3. RegularGroups' = {}
    BY <2>1, <2>2 DEF RegularGroups
  <2>4. random \in SUBSET Candidate
    BY <1>1 DEF TypeOK
  <2>5. TypeOK'
    <3>1. <<random>> \in Seq(SUBSET Candidate)
      BY <2>4
    <3>. QED
      BY <1>1, <2>1, <3>1 DEF TypeOK
  <2>6. OfferInv' /\ SavedInv'
    BY <2>2, <2>3 DEF OfferInv, SavedInv
  <2>7. OffersRankTheHeap'
    BY <1>1, <2>1, <2>3 DEF OffersRankTheHeap
  <2>. QED
    BY <1>2, <2>5, <2>6, <2>7 DEF SelectorInv
<1>6. CASE OfferRegular
  <2>. DEFINE G == TiedWithBest(heap)
  <2>1. /\ G # {} /\ G \subseteq heap
        /\ \A c \in G, d \in heap \ G : Score(c) > Score(d)
    BY <1>1, TiedAreBest
  <2>2. offered' = <<G>> /\ useRandom' = FALSE /\ saved' = heap \ G
    BY <1>6 DEF OfferRegular
  <2>. HIDE DEF G
  <2>3. Len(offered') = 1 /\ offered' # <<>> /\ offered'[1] = G
    BY <2>2
  <2>4. RegularGroups' = {1}
    BY <2>2, <2>3 DEF RegularGroups
  <2>5. TypeOK'
    <3>1. G \in SUBSET Candidate
      BY <1>1, <2>1
    <3>2. <<G>> \in Seq(SUBSET Candidate)
      BY <3>1
    <3>. QED
      BY <1>1, <2>2, <3>2 DEF TypeOK
  <2>6. OfferInv'
    BY <1>1, <1>3, <2>1, <2>2, <2>3, <2>4 DEF OfferInv
  <2>7. OffersRankTheHeap' /\ SavedInv'
    <3>1. (UNION {offered'[i] : i \in RegularGroups'}) \cup saved' = heap'
      BY <1>1, <2>1, <2>2, <2>3, <2>4
    <3>2. \A i, j \in RegularGroups' : ~(i < j)
      BY <2>4
    <3>3. \A i \in RegularGroups' : offered'[i] # {} /\ offered'[i] \cap saved' = {}
      BY <2>1, <2>2, <2>3, <2>4
    <3>. QED
      BY <2>3, <3>1, <3>2, <3>3 DEF OffersRankTheHeap, SavedInv
  <2>. QED
    BY <1>2, <2>5, <2>6, <2>7 DEF SelectorInv
<1>. QED
  BY <1>4, <1>5, <1>6

LEMMA GetNextBestKeeps ==
  ASSUME SelectorInv, GetNextBestLiterals
  PROVE  SelectorInv'
<1>. DEFINE G == TiedWithBest(saved)
            n == Len(offered) + 1
<1>1. /\ TypeOK /\ saved # {} /\ offered # <<>> /\ saved \in SUBSET Candidate
      /\ offered \in Seq(SUBSET Candidate) /\ saved \subseteq heap
      /\ UNCHANGED <<info, arriving, heap, random, useRandom>>
  BY DEF SelectorInv, GetNextBestLiterals, TypeOK
<1>2. HeapInv' /\ KeptUnlessOutranked' /\ RandomIsBest'
  BY <1>1, ArrivedKept
<1>3. \A c \in Candidate : Score(c)' = Score(c)
  BY <1>1 DEF Score
<1>4. /\ G # {} /\ G \subseteq saved
      /\ \A c \in G, d \in saved \ G : Score(c) > Score(d)
  BY <1>1, TiedAreBest
<1>5. offered' = Append(offered, G) /\ saved' = saved \ G
  BY DEF GetNextBestLiterals, NextGroup
<1>. HIDE DEF G
<1>6. G \in SUBSET Candidate
  BY <1>1, <1>4
<1>7. /\ Len(offered) \in Nat \ {0} /\ Len(offered') = n /\ offered' # <<>>
      /\ offered'[n] = G /\ \A i \in 1..Len(offered) : offered'[i] = offered[i]
      /\ offered' \in Seq(SUBSET Candidate)
  BY <1>1, <1>5, <1>6
<1>8. /\ RegularGroups' = RegularGroups \cup {n} /\ n \notin RegularGroups
      /\ \A i \in RegularGroups : /\ i \in Nat /\ i < n /\ offered'[i] = offered[i]
                                  /\ offered[i] \in SUBSET Candidate
  BY <1>1, <1>7 DEF RegularGroups
<1>9. TypeOK'
  BY <1>1, <1>4, <1>5, <1>7 DEF TypeOK
<1>10. OfferInv'
  <2>1. \A i \in RegularGroups : \A c \in offered'[i], d \in saved' : Score(c) > Score(d)
    BY <1>5, <1>8 DEF SelectorInv, OfferInv
  <2>2. \A c \in offered'[n], d \in saved' : Score(c) > Score(d)
    BY <1>4, <1>5, <1>7
  <2>3. \A i \in RegularGroups' : \A c \in offered'[i], d \in saved' :
          c \in Candidate /\ d \in Candidate
    BY <1>1, <1>5, <1>6, <1>7, <1>8
  <2>. QED
    BY <1>3, <1>8, <2>1, <2>2, <2>3 DEF OfferInv
<1>11. OffersRankTheHeap'
  <2>1. (UNION {offered[i] : i \in RegularGroups}) \cup saved = heap
    BY <1>1 DEF SelectorInv, OffersRankTheHeap
  <2>2. UNION {offered'[i] : i \in RegularGroups'}
        = (UNION {offered[i] : i \in RegularGroups}) \cup G
    BY <1>7, <1>8
  <2>3. (UNION {offered'[i] : i \in RegularGroups'}) \cup saved' = heap'
    BY <1>1, <1>4, <1>5, <2>1, <2>2
  <2>4. ASSUME NEW i \in RegularGroups'
        PROVE  offered'[i] # {} /\ offered'[i] \cap saved' = {}
    BY <1>4, <1>5, <1>7, <1>8 DEF SelectorInv, OffersRankTheHeap
  <2>5. ASSUME NEW i \in RegularGroups', NEW j \in RegularGroups', i < j,
               NEW c \in offered'[i], NEW d \in offered'[j]
        PROVE  Score(c)' > Score(d)'
    <3>1. i \in RegularGroups /\ c \in offered[i] /\ c \in Candidate
      BY <1>7, <1>8, <2>5
    <3>2. CASE j = n
      <4>1. d \in saved /\ d \in Candidate
        BY <1>1, <1>4, <1>7, <3>2
      <4>2. Score(c) > Score(d)
        BY <3>1, <4>1 DEF SelectorInv, OfferInv
      <4>. QED
        BY <1>3, <3>1, <4>1, <4>2
    <3>3. CASE j \in RegularGroups
      <4>1. d \in offered[j] /\ d \in Candidate
        BY <1>8, <3>3
      <4>2. Score(c) > Score(d)
        BY <2>5, <3>1, <3>3, <4>1 DEF SelectorInv, OffersRankTheHeap
      <4>. QED
        BY <1>3, <3>1, <4>1, <4>2
    <3>. QED
      BY <1>8, <3>2, <3>3
  <2>. QED
    BY <2>3, <2>4, <2>5 DEF OffersRankTheHeap
<1>12. SavedInv'
  BY <1>7 DEF SavedInv
<1>. QED
  BY <1>2, <1>9, <1>10, <1>11, <1>12 DEF SelectorInv

-----------------------------------------------------------------------------
(* The invariant and what follows from it. *)

LEMMA SelectorInvInit == Init => SelectorInv
<1>. SUFFICES ASSUME Init PROVE SelectorInv
  OBVIOUS
<1>1. Ranked = {} /\ RegularGroups = {}
  BY DEF Init, Ranked, RegularGroups
<1>2. TypeOK
  <2>1. /\ Cardinality(heap) = 0 /\ Cardinality(random) = 0
        /\ 0 <= 1 /\ 0 <= NumSavedLiterals
    BY FS_EmptySet, SelectorAssumption DEF Init
  <2>2. offered \in Seq(SUBSET Candidate)
    BY DEF Init
  <2>. QED
    BY <2>1, <2>2 DEF Init, TypeOK
<1>. QED
  BY <1>1, <1>2 DEF Init, SelectorInv, HeapInv, OfferInv, SavedInv,
                    KeptUnlessOutranked, RandomIsBest, OffersRankTheHeap

LEMMA SelectorInvNext == SelectorInv /\ [Next]_vars => SelectorInv'
<1>. SUFFICES ASSUME SelectorInv, [Next]_vars PROVE SelectorInv'
  OBVIOUS
<1>1. CASE Insert
  BY <1>1, InsertKeeps
<1>2. CASE GetBestLiteral
  BY <1>2, GetBestKeeps
<1>3. CASE GetNextBestLiterals
  BY <1>3, GetNextBestKeeps
<1>4. CASE UNCHANGED vars
  <2>1. HeapInv' /\ KeptUnlessOutranked' /\ RandomIsBest'
    BY <1>4, ArrivedKept DEF vars
  <2>2. TypeOK' /\ OfferInv' /\ SavedInv' /\ OffersRankTheHeap'
    BY <1>4 DEF vars, SelectorInv, TypeOK, OfferInv, SavedInv, OffersRankTheHeap,
                RegularGroups, Score
  <2>. QED
    BY <2>1, <2>2 DEF SelectorInv
<1>. QED
  BY <1>1, <1>2, <1>3, <1>4 DEF Next

LEMMA BestInHeap == SelectorInv => BestScoreIsKept
<1>. SUFFICES ASSUME SelectorInv, Ranked # {}
              PROVE  \E c \in heap : Score(c) = MaxScore(Ranked)
  BY DEF BestScoreIsKept
<1>1. /\ TypeOK /\ Ranked \in SUBSET Candidate /\ heap \subseteq Ranked
      /\ \A c \in Ranked : \E h \in heap : Score(h) >= Score(c)
  BY DEF SelectorInv, HeapInv, Ranked
<1>2. /\ MaxScore(Ranked) \in Nat /\ \A c \in Ranked : MaxScore(Ranked) >= Score(c)
      /\ \E c \in Ranked : Score(c) = MaxScore(Ranked)
  BY <1>1, MaxScoreType
<1>3. PICK h \in heap : Score(h) >= MaxScore(Ranked)
  BY <1>1, <1>2
<1>4. Score(h) \in Nat /\ MaxScore(Ranked) >= Score(h)
  BY <1>1, <1>2, ScoreType
<1>. QED
  BY <1>2, <1>3, <1>4

LEMMA SelectorInvHolds == Spec => []SelectorInv
BY SelectorInvInit, SelectorInvNext, PTL DEF Spec

(* The heap never holds more than may be saved, however literals arrive and
   groups of equals are given up, and one random literal is remembered.    *)
THEOREM SelectorTypeCorrect == Spec => []TypeOK
<1>1. SelectorInv => TypeOK
  BY DEF SelectorInv
<1>. QED
  BY SelectorInvHolds, <1>1, PTL

(* LiteralSelector::Insert never loses the best score it saw. *)
THEOREM HeapKeepsTheBest == Spec => []BestScoreIsKept
<1>. QED
  BY SelectorInvHolds, BestInHeap, PTL

(* It gives a literal up only for as many others as the heap may hold that are
   no worse.                                                               *)
THEOREM HeapKeepsTheUnmatched == Spec => []KeptUnlessOutranked
<1>1. SelectorInv => KeptUnlessOutranked
  BY DEF SelectorInv
<1>. QED
  BY SelectorInvHolds, <1>1, PTL

(* No random literal that was seen has a higher F score than the remembered one. *)
THEOREM RandomKeepsTheBest == Spec => []RandomIsBest
<1>1. SelectorInv => RandomIsBest
  BY DEF SelectorInv
<1>. QED
  BY SelectorInvHolds, <1>1, PTL

(* GetBestLiteral and GetNextBestLiterals hand the whole heap out, every literal
   once, and a later group is worse than an earlier one.                   *)
THEOREM GroupsComeBestFirst == Spec => []OffersRankTheHeap
<1>1. SelectorInv => OffersRankTheHeap
  BY DEF SelectorInv
<1>. QED
  BY SelectorInvHolds, <1>1, PTL
=============================================================================
