--------------------------- MODULE LiteralSelector --------------------------
(***************************************************************************)
(* learner/LiteralSelector: the candidate literals of one search arrive    *)
(* one by one, a bounded heap keeps the best of them, one literal that     *)
(* only adds variables ("random") is remembered beside it, and afterwards  *)
(* the kept literals are handed out group by group, ties together.         *)
(*                                                                         *)
(* The scores are reals computed from counts; here they are numbers in     *)
(* units that make two scores a tie when they differ by less than          *)
(* Tolerance.  A literal that is not scored has the score 0.               *)
(***************************************************************************)
EXTENDS Integers, Sequences, FiniteSets

CONSTANTS
  Candidate,
  Info,               (* What a candidate may be, see InfoAssumption.      *)
  NumSavedLiterals,   (* --num_saved_literals                              *)
  Tolerance,          (* Scores closer than this are a tie.                *)
  NumBindings,        (* Positive bindings of the clause.                  *)
  NumExamples         (* Positive examples uncovered by the clause's start. *)

(* isRandom: the literal passes the tests that do not depend on the other
   literals.  asRandom: its score when it competes as a random literal.
   covered, bindings: num_covered_positive, num_binding_positive.
   examples: what ComputeCoveredPositives returns for it.                  *)
ASSUME InfoAssumption ==
  \A i \in Info :
    /\ i.score \in Nat /\ i.asRandom \in Nat /\ i.fScore \in Nat
    /\ i.covered \in 0..i.bindings /\ i.bindings \in Nat
    /\ i.examples \in 0..NumExamples
    /\ i.isRandom \in BOOLEAN
    /\ i.covered = 0 => i.score = 0

ASSUME SelectorAssumption ==
  /\ IsFiniteSet(Candidate)
  /\ NumSavedLiterals \in Nat \ {0} /\ Tolerance \in Nat \ {0}
  /\ NumBindings \in Nat /\ NumExamples \in Nat

VARIABLES
  info,       (* What each candidate is.                                   *)
  arriving,   (* Candidates that are not evaluated yet.                    *)
  heap,       (* top_literal_heap_                                         *)
  random,     (* best_random_literal_: at most one literal.                *)
  saved,      (* saved_literal_infos_                                      *)
  offered,    (* The groups handed out so far.                             *)
  useRandom   (* GetBestLiteral's answer: the first group is the random one. *)

vars == <<info, arriving, heap, random, saved, offered, useRandom>>

Score(c) == info[c].score
MinScore(S) == CHOOSE m \in {Score(c) : c \in S} : \A c \in S : m <= Score(c)
MaxScore(S) == CHOOSE m \in {Score(c) : c \in S} : \A c \in S : m >= Score(c)

Init ==
  /\ info \in [Candidate -> Info]
  /\ arriving = Candidate
  /\ heap = {} /\ random = {} /\ saved = {}
  /\ offered = <<>> /\ useRandom = FALSE
-----------------------------------------------------------------------------
IsLargerRandom(c) ==   (* faulty: more bindings beat a better F score *)
  \A r \in random :
    \/ info[c].fScore > info[r].fScore
    \/ info[c].bindings > info[r].bindings

IsBetterRandom(c) ==
  \A r \in random :
    \/ info[c].fScore > info[r].fScore
    \/ /\ info[c].fScore = info[r].fScore
       /\ info[c].covered < NumExamples
       /\ info[c].bindings \div info[c].covered <= 2
       /\ info[c].bindings > info[r].bindings

HeapEvictingBest(c) ==   (* faulty: the comparator is the other way round *)
  IF Cardinality(heap) < NumSavedLiterals THEN heap \cup {c}
  ELSE {h \in heap : Score(h) < MaxScore(heap)} \cup {c}

HeapOneShort(c) ==   (* faulty: a heap that is not full yet evicts *)
  IF Cardinality(heap) + 1 < NumSavedLiterals \/ heap = {} THEN heap \cup {c}
  ELSE IF Score(c) < MinScore(heap) THEN heap
  ELSE {h \in heap : Score(h) > MinScore(heap)} \cup {c}

HeapOneMore(c) ==   (* faulty: a full heap still grows *)
  IF Cardinality(heap) <= NumSavedLiterals THEN heap \cup {c}
  ELSE IF Score(c) < MinScore(heap) THEN heap
  ELSE {h \in heap : Score(h) > MinScore(heap)} \cup {c}

(* A full heap gives up all the literals that share its lowest score for a
   literal that is no worse.                                               *)
HeapWith(c) ==
  IF Cardinality(heap) < NumSavedLiterals THEN heap \cup {c}
  ELSE IF Score(c) < MinScore(heap) THEN heap
  ELSE {h \in heap : Score(h) > MinScore(heap)} \cup {c}

Insert ==
  /\ offered = <<>>
  /\ \E c \in arriving :
       /\ arriving' = arriving \ {c}
       /\ IF Score(c) = 0
          THEN UNCHANGED <<heap, random>>
          ELSE /\ heap' = HeapWith(c)
               /\ random' = IF info[c].isRandom /\ IsBetterRandom(c)
                            THEN {c} ELSE random
  /\ UNCHANGED <<info, saved, offered, useRandom>>
-----------------------------------------------------------------------------
TiedWithBest(S) == {c \in S : MaxScore(S) - Score(c) < Tolerance}

(* ChooseRandomLiteral: the true coverage of the two decides last. *)
ChooseRandomLiteral(r, regular) ==
  /\ 100 * info[regular].examples < 80 * NumExamples
  /\ 100 * info[r].examples >= 120 * info[regular].examples

PrefersRandom(r, regular) ==
  /\ info[r].asRandom > Score(regular)
  /\ info[r].covered > info[regular].covered
  /\ \/ info[r].bindings \div info[r].covered < 50
     \/ 10 * info[regular].covered < NumBindings
  /\ ChooseRandomLiteral(r, regular)

OfferRandomForBest(regular) ==   (* faulty: the regular literal is not saved *)
  /\ offered' = <<random>> /\ useRandom' = TRUE
  /\ saved' = heap \ {regular}

OfferRandom(regular) ==
  /\ offered' = <<random>> /\ useRandom' = TRUE
  /\ saved' = heap

OfferRegular ==
  /\ offered' = <<TiedWithBest(heap)>> /\ useRandom' = FALSE
  /\ saved' = heap \ TiedWithBest(heap)

(* Sorting leaves some literal of the highest score at the end. *)
GetBestLiteral ==
  /\ arriving = {} /\ offered = <<>> /\ heap # {}
  /\ \E regular \in {c \in heap : Score(c) = MaxScore(heap)} :
       \/ (\E r \in random : PrefersRandom(r, regular)) /\ OfferRandom(regular)
       \/ (\A r \in random : ~PrefersRandom(r, regular)) /\ OfferRegular
  /\ UNCHANGED <<info, arriving, heap, random>>

NextGroup(S) == TiedWithBest(S)

GetNextBestLiterals ==
  /\ offered # <<>> /\ saved # {}
  /\ offered' = Append(offered, NextGroup(saved))
  /\ saved' = saved \ NextGroup(saved)
  /\ UNCHANGED <<info, arriving, heap, random, useRandom>>

Next == Insert \/ GetBestLiteral \/ GetNextBestLiterals

Spec == Init /\ [][Next]_vars
-----------------------------------------------------------------------------
(* Every variable keeps its type.  The parts that could go wrong: the heap never
   holds more than may be saved, and no two random literals are remembered. *)
TypeOK ==
  /\ info \in [Candidate -> Info]
  /\ arriving \subseteq Candidate
  /\ heap \subseteq Candidate \ arriving /\ Cardinality(heap) <= NumSavedLiterals
  /\ random \subseteq Candidate \ arriving /\ Cardinality(random) <= 1
  /\ saved \subseteq heap
  /\ offered \in Seq(SUBSET Candidate)
  /\ useRandom \in BOOLEAN

Ranked == {c \in Candidate \ arriving : Score(c) > 0}

(* The best score that was seen is never lost, whatever the order of arrival and
   however many literals are evicted at once (LiteralSelector::Insert).    *)
BestScoreIsKept ==
  Ranked # {} => \E c \in heap : Score(c) = MaxScore(Ranked)

(* A literal is only given up when as many others as may be saved are at least
   as good: the heap, which loses whole groups of equals and is refilled by
   worse literals later, still holds every literal that is clearly among the
   best.                                                                   *)
KeptUnlessOutranked ==
  \A c \in Ranked \ heap :
    Cardinality({d \in Ranked \ {c} : Score(d) >= Score(c)}) >= NumSavedLiterals

RegularGroups == {i \in 1..Len(offered) : useRandom => i > 1}

(* The groups come out from best to worst and no kept literal is missed or
   repeated in them: also not the best regular literal, when a random one was
   handed out in its place (GetBestLiteral, GetNextBestLiterals).          *)
OffersRankTheHeap ==
  /\ offered # <<>> =>
       (UNION {offered[i] : i \in RegularGroups}) \cup saved = heap
  /\ \A i \in RegularGroups :
       /\ offered[i] # {} /\ offered[i] \cap saved = {}
       /\ \A j \in RegularGroups, c \in offered[i] : i < j =>
            \A d \in offered[j] : Score(c) > Score(d)

(* The random literal that is remembered covers best among the random ones seen:
   no other has a higher F score.                                          *)
RandomIsBest ==
  \A c \in Ranked : info[c].isRandom =>
    \E r \in random : info[r].fScore >= info[c].fScore
=============================================================================
