------------------------------ MODULE QuickFoil -----------------------------
(***************************************************************************)
(* The rule search of QuickFoil::Learn: a clause is grown literal by       *)
(* literal, alternatives that score the same are kept on a stack for       *)
(* later, a literal that only adds variables ("random") may be tried and   *)
(* undone, and every accepted clause shrinks the set of positive examples  *)
(* that are still to be covered.                                           *)
(*                                                                         *)
(* Facts, candidate generation and scores are data here.  Bindings and     *)
(* CoveredBindings say how many bindings a clause has for an example, and  *)
(* the ranking a search produces is chosen freely, because the scores are  *)
(* real-valued functions of the data.  Everything the control flow         *)
(* decides, and every set it keeps, is as in the code.                     *)
(***************************************************************************)
EXTENDS Integers, Sequences, FiniteSets, Folds, Functions

CONSTANTS
  Pos, Neg,         (* Positive and negative examples.                     *)
  Literal,          (* Body literals.                                      *)
  Uses,             (* Uses[l]: literals whose new variables l reads.      *)
  UsesOffKey,       (* Uses[l], not counting the key position of l.        *)
  Unbound,          (* Literals that introduce a variable.                 *)
  Bindings,         (* Bindings[b][e]: bindings of body b for example e.   *)
  CoveredBindings,  (* CoveredBindings[b][l][e]: those l can extend.       *)
  MaxIterations, MaxClauseLength, MaxRandomLiterals, MaxRandomTrials,
  InflatedPrecision, TruePrecision, FScore,  (* percentages                *)
  TiedCoverage,     (* percentage                                          *)
  BindingsPerExample,   (* most bindings per example for random literals   *)
  NumSavedLiterals  (* Size of the heap of a literal selector.             *)

Example == Pos \cup Neg
Body == SUBSET Literal

ASSUME ExampleAssumption ==
  /\ IsFiniteSet(Pos) /\ Pos # {}
  /\ IsFiniteSet(Neg) /\ Neg # {}
  /\ Pos \cap Neg = {}
  /\ IsFiniteSet(Literal)

ASSUME LiteralAssumption ==
  /\ Uses \in [Literal -> SUBSET Literal]
  /\ UsesOffKey \in [Literal -> SUBSET Literal]
  /\ Unbound \subseteq Literal

(* A longer body covers no example that a shorter one does not; it covers an
   example when one of the shorter body's bindings can be extended.        *)
ASSUME BindingsAssumption ==
  /\ Bindings \in [Body -> [Example -> Nat]]
  /\ CoveredBindings \in [Body -> [Literal -> [Example -> Nat]]]
  /\ \A b \in Body, l \in Literal, e \in Example :
       /\ Bindings[b][e] = 0 => Bindings[b \cup {l}][e] = 0
       /\ CoveredBindings[b][l][e] = 0 <=> Bindings[b \cup {l}][e] = 0

ASSUME FlagAssumption ==
  /\ MaxIterations \in Nat /\ MaxClauseLength \in Nat
  /\ MaxRandomLiterals \in Nat /\ MaxRandomTrials \in Nat
  /\ InflatedPrecision \in 0..100 /\ TruePrecision \in 1..100
  /\ FScore \in 0..100 /\ TiedCoverage \in 0..100
  /\ BindingsPerExample \in Nat /\ NumSavedLiterals \in Nat \ {0}

VARIABLES
  pc,
  building,     (* building_state_ behind its chain of previous_state,
                   oldest first; <<>> is the null pointer.                 *)
  uncovered,    (* global_uncovered_positive_data_                         *)
  learnt,       (* learnt_clauses_, each as the set of its body literals   *)
  tied,         (* tied_literal_infos_, a stack                            *)
  iterations,   (* current_outer_iterations_                               *)
  firstPruned,  (* literal_serarch_stats_for_first_iteration_              *)
  (* Locals of one turn of the literal search: *)
  saved,        (* the selector's saved literals, tie groups, best last    *)
  vec,          (* best_literal_info_vec                                   *)
  best,         (* best_literal_to_add, as a set of at most one literal    *)
  isRandom,     (* is_random_literal                                       *)
  pruned,       (* literal_search_stats                                    *)
  own           (* local_selector is this turn's selector                  *)

search == <<saved, vec, best, isRandom, pruned, own>>
vars == <<pc, building, uncovered, learnt, tied, iterations, firstPruned,
          search>>

-----------------------------------------------------------------------------
(* States and clauses. *)

Groups == Seq(SUBSET Literal)

State == [body     : Seq([lit : Literal, random : BOOLEAN]),
          black    : SUBSET Literal,  (* black_random_literals             *)
          local    : SUBSET Pos,      (* uncovered_positive_data           *)
          tiedFrom : BOOLEAN,         (* is_extended_from_tied_literal     *)
          pruned   : SUBSET Literal,  (* literal_search_stats              *)
          kept     : BOOLEAN,         (* literal_selector is attached      *)
          saved    : Groups]          (* what that selector still holds    *)

LiteralsOf(s) == {s.body[i].lit : i \in DOMAIN s.body}
RandomOf(s) == {i \in DOMAIN s.body : s.body[i].random}
LastIsRandom(s) == s.body # <<>> /\ s.body[Len(s.body)].random
LastLiteral(s) == s.body[Len(s.body)].lit

FinalElement(q) == q[Len(q)]
AllButFinal(q) == SubSeq(q, 1, Len(q) - 1)
ReplaceFinal(q, x) == [q EXCEPT ![Len(q)] = x]
Top == FinalElement(building)

MostGeneral(S, stats) ==
  [body |-> <<>>, black |-> {}, local |-> S, tiedFrom |-> FALSE,
   pruned |-> stats, kept |-> FALSE, saved |-> <<>>]

ExtensionOnItsFacts(s, l, random, fromTied, stats) ==
  (* faulty: the snapshot shrinks to the examples the new clause still has *)
  [s EXCEPT !.body = Append(@, [lit |-> l, random |-> random]),
            !.local = {e \in @ : Bindings[LiteralsOf(s) \cup {l}][e] > 0},
            !.tiedFrom = @ \/ fromTied,
            !.pruned = stats, !.kept = FALSE, !.saved = <<>>]

Extension(s, l, random, fromTied, stats) ==
  [s EXCEPT !.body = Append(@, [lit |-> l, random |-> random]),
            !.tiedFrom = @ \/ fromTied,
            !.pruned = stats, !.kept = FALSE, !.saved = <<>>]

(* The state with a selector attached, or with that selector's next group
   taken.                                                                  *)
WithoutSelector(s, selector) == s   (* faulty: nothing to fall back on *)
WithSelector(s, selector) == [s EXCEPT !.kept = TRUE, !.saved = selector]

NextGroupTaken(s) ==
  IF s.saved = <<>> THEN s ELSE [s EXCEPT !.saved = AllButFinal(@)]

-----------------------------------------------------------------------------
(* Counts and tests. *)

CoveredBy(b, S) == {e \in S : Bindings[b][e] > 0}
NumBindings(b, S) == SumFunctionOnSet(Bindings[b], S)
NumCovered(b, l, S) == SumFunctionOnSet(CoveredBindings[b][l], S)

AtLeastPercent(part, whole, percent) == 100 * part >= percent * whole

(* floor(n * (1 - 0.8)) in binary64: 1 - 0.8 is just below 1/5, so the
   product is below n/5 and a multiple of five is rounded down past it.    *)
MaxUncovered == (20 * Cardinality(Pos) - 1) \div 100

ContinueRuleSearch(S, n) ==
  Cardinality(S) > MaxUncovered /\ n < MaxIterations

NeedRegrow(s, l) ==
  /\ LastIsRandom(s)
  /\ CoveredBy(LiteralsOf(s) \cup {l}, Neg) # {}
  /\ LastLiteral(s) \notin UsesOffKey[l]

ShouldConsiderAsLast(s, l) ==
  LET b == LiteralsOf(s) \cup {l}
      p == NumBindings(b, s.local)
  IN  \/ AtLeastPercent(p, p + NumBindings(b, Neg), InflatedPrecision)
      \/ Len(s.body) >= MaxClauseLength

(* The true-precision or F-score test; F = 2c / (c + n + |S|). *)
Accepts(b, S) ==
  LET c == Cardinality(CoveredBy(b, S))
      n == Cardinality(CoveredBy(b, Neg))
  IN  /\ c > 0
      /\ \/ AtLeastPercent(c, c + n, TruePrecision)
         \/ AtLeastPercent(2 * c, c + n + Cardinality(S), FScore)

IsWorthKeeping(s, l) ==
  100 * NumCovered(LiteralsOf(s), l, s.local)
    > TiedCoverage * Cardinality(s.local)

-----------------------------------------------------------------------------
(* One literal search: candidates, their ranking, the literal to try. *)

Candidates(s) ==
  {l \in Literal \ (LiteralsOf(s) \cup s.pruned) : Uses[l] \subseteq LiteralsOf(s)}

Hopeless(s) ==
  {l \in Candidates(s) : CoveredBy(LiteralsOf(s) \cup {l}, s.local) = {}}

Scored(s) == Candidates(s) \ Hopeless(s)

(* What a selector can hold: up to NumSavedLiterals literals by ascending
   score, those within the tie tolerance in one group.                     *)
TieGroups(H) ==
  UNION {{[i \in 1..n |-> {l \in H : r[l] = i}] : r \in Surjection(H, 1..n)} :
           n \in 1..NumSavedLiterals}

Rankings(S) ==
  UNION {TieGroups(H) : H \in {G \in SUBSET S : Cardinality(G) <= NumSavedLiterals}}

RandomAllowedForever(s) ==   (* faulty: failed trials are not counted *)
  Cardinality(RandomOf(s)) < MaxRandomLiterals

RandomAllowed(s) ==
  /\ Cardinality(RandomOf(s)) < MaxRandomLiterals
  /\ Cardinality(s.black) < MaxRandomTrials

FewBindings(s) ==
  NumBindings(LiteralsOf(s), s.local) \div Cardinality(s.local)
    < BindingsPerExample

(* r may replace the best regular literal l as the one to add. *)
BeatsRegular(s, r, l) ==
  LET b == LiteralsOf(s)
      cr == Cardinality(CoveredBy(b \cup {r}, s.local))
      cl == Cardinality(CoveredBy(b \cup {l}, s.local))
  IN  /\ r \in Unbound \ s.black
      /\ ~NeedRegrow(s, r)
      /\ NumCovered(b, r, s.local) > NumCovered(b, l, s.local)
      /\ ~AtLeastPercent(cl, Cardinality(s.local), 80)
      /\ AtLeastPercent(cr, cl, 120)

-----------------------------------------------------------------------------
Init ==
  /\ pc = "search"
  /\ building = <<MostGeneral(Pos, {})>>
  /\ uncovered = Pos
  /\ learnt = <<>>
  /\ tied = <<>>
  /\ iterations = 0
  /\ firstPruned = {}
  /\ saved = <<>> /\ vec = {} /\ best = {} /\ pruned = {}
  /\ isRandom = FALSE /\ own = TRUE

(* The check on bindings per example divides by the number of uncovered
   examples, once the two budgets leave room for a random literal.         *)
DividesByZero == RandomAllowed(Top) /\ Top.local = {}

SearchDividesByZero ==
  /\ pc = "search"
  /\ DividesByZero
  /\ pc' = "division_by_zero"
  /\ UNCHANGED <<building, uncovered, learnt, tied, iterations, firstPruned,
                 search>>

(* No candidate has a score: give the rule up, if a tied literal is left. *)
SearchFindsNothing ==
  /\ pc = "search"
  /\ ~DividesByZero
  /\ Scored(Top) = {}
  /\ pc' = IF tied = <<>> THEN "failed_check" ELSE "rule_end"
  /\ UNCHANGED <<building, uncovered, learnt, tied, iterations, firstPruned,
                 search>>

(* Evaluate the candidates into a selector; both picks below start so. *)
SearchRanks ==
  /\ pc = "search"
  /\ ~DividesByZero
  /\ pruned' = Top.pruned \cup Hopeless(Top)
  /\ own' = TRUE
  /\ best' = {}
  /\ pc' = "take"
  /\ UNCHANGED <<building, uncovered, learnt, tied, iterations, firstPruned>>

SearchPicksRegular ==
  /\ SearchRanks
  /\ \E ranking \in Rankings(Scored(Top)) :
       /\ vec' = FinalElement(ranking)
       /\ saved' = AllButFinal(ranking)
  /\ isRandom' = FALSE

SearchPicksRandom ==
  /\ SearchRanks
  /\ RandomAllowed(Top) /\ FewBindings(Top)
  /\ \E ranking \in Rankings(Scored(Top)) :
       /\ \E r \in Scored(Top), l \in FinalElement(ranking) :
            /\ BeatsRegular(Top, r, l)
            /\ vec' = {r}
       /\ saved' = ranking
  /\ isRandom' = TRUE

TakeBest ==
  /\ pc = "take"
  /\ \E l \in vec :
       /\ vec' = vec \ {l}
       /\ IF NeedRegrow(Top, l)
          THEN pc' = "regrow" /\ isRandom' = FALSE /\ best' = {}
          ELSE pc' = "commit" /\ best' = {l} /\ UNCHANGED isRandom
  /\ UNCHANGED <<building, uncovered, learnt, tied, iterations, firstPruned,
                 saved, pruned, own>>

-----------------------------------------------------------------------------
(* Regrowing: the last literal is random and what was picked ignores it. *)

RegrowTakeUnchecked ==   (* faulty: any other tied literal will do *)
  /\ pc = "regrow"
  /\ \E l \in vec : vec' = vec \ {l} /\ pc' = "commit" /\ best' = {l}
  /\ UNCHANGED <<building, uncovered, learnt, tied, iterations, firstPruned,
                 saved, isRandom, pruned, own>>

RegrowTake ==
  /\ pc = "regrow"
  /\ \E l \in vec :
       /\ vec' = vec \ {l}
       /\ IF NeedRegrow(Top, l)
          THEN UNCHANGED <<pc, best>>
          ELSE pc' = "commit" /\ best' = {l}
  /\ UNCHANGED <<building, uncovered, learnt, tied, iterations, firstPruned,
                 saved, isRandom, pruned, own>>

(* GetNextBestLiterals on this turn's selector, or on the one kept by the
   state the search has fallen back to.                                    *)
RegrowNextGroup ==
  /\ pc = "regrow" /\ vec = {}
  /\ \/ /\ own /\ saved # <<>>
        /\ vec' = FinalElement(saved)
        /\ saved' = AllButFinal(saved)
        /\ UNCHANGED building
     \/ /\ ~own /\ Top.saved # <<>>
        /\ vec' = FinalElement(Top.saved)
        /\ building' = ReplaceFinal(building, NextGroupTaken(Top))
        /\ UNCHANGED saved
  /\ UNCHANGED <<pc, uncovered, learnt, tied, iterations, firstPruned, best,
                 isRandom, pruned, own>>

SelectorIsEmpty == IF own THEN saved = <<>> ELSE Top.saved = <<>>

FallenBackForgetting(previous) ==   (* faulty: the literal may be tried again *)
  NextGroupTaken(previous)

(* Drop the random literal, forbid it in the state before it, and go on
   with that state's selector.                                             *)
FallenBack(previous) ==
  NextGroupTaken([previous EXCEPT !.black = @ \cup {LastLiteral(Top)}])

RegrowFallsBack ==
  /\ pc = "regrow" /\ vec = {} /\ SelectorIsEmpty
  /\ IF Len(building) > 1 /\ FinalElement(AllButFinal(building)).kept
     THEN LET previous == FinalElement(AllButFinal(building))
          IN  /\ vec' = IF previous.saved = <<>> THEN {}
                        ELSE FinalElement(previous.saved)
              /\ building' = ReplaceFinal(AllButFinal(building), FallenBack(previous))
              /\ pruned' = Top.pruned
              /\ own' = FALSE
              /\ UNCHANGED pc
     ELSE (* There is no previous state, or it has no selector. *)
          /\ pc' = "null_dereference"
          /\ UNCHANGED <<vec, building, pruned, own>>
  /\ UNCHANGED <<uncovered, learnt, tied, iterations, firstPruned, saved,
                 best, isRandom>>

-----------------------------------------------------------------------------
(* AddBestCandidateLiteral: finish the clause with the literal, drop the
   clause, or grow it.  chain is the building state the literal extends.   *)

Considered(chain, l, random) == ~random /\ ShouldConsiderAsLast(FinalElement(chain), l)

Accepted(chain, l) ==
  LET s == FinalElement(chain)
  IN  Accepts(LiteralsOf(s) \cup {l}, s.local)

FinishOnSnapshot(chain, l, random) ==   (* faulty: later rules forgotten *)
  LET s == FinalElement(chain)
      b == LiteralsOf(s) \cup {l}
  IN  /\ Considered(chain, l, random) /\ Accepted(chain, l)
      /\ uncovered' = s.local \ CoveredBy(b, s.local)
      /\ learnt' = Append(learnt, b)
      /\ building' = <<>>
      /\ UNCHANGED firstPruned

FinishClause(chain, l, random) ==
  LET s == FinalElement(chain)
      b == LiteralsOf(s) \cup {l}
  IN  /\ Considered(chain, l, random) /\ Accepted(chain, l)
      /\ uncovered' = uncovered \ CoveredBy(b, s.local)
      /\ learnt' = Append(learnt, b)
      /\ building' = <<>>
      /\ UNCHANGED firstPruned

NoSecondChance(chain, fromTied) ==
  LET s == FinalElement(chain)
  IN  fromTied \/ s.tiedFrom \/ Len(s.body) >= MaxClauseLength

DropClause(chain, l, random, fromTied) ==
  /\ Considered(chain, l, random) /\ ~Accepted(chain, l)
  /\ NoSecondChance(chain, fromTied)
  /\ building' = <<>>
  /\ UNCHANGED <<uncovered, learnt, firstPruned>>

GrowKeepingStats(chain, l, random, fromTied, stats, selector) ==
  (* faulty: statistics of a longer clause reach the next most general one *)
  LET s == FinalElement(chain)
      next == Extension(s, l, random, fromTied, stats)
  IN  /\ Considered(chain, l, random) =>
           ~Accepted(chain, l) /\ ~NoSecondChance(chain, fromTied)
      /\ building' = IF random
                      THEN Append(ReplaceFinal(chain, WithSelector(s, selector)), next)
                      ELSE <<next>>
      /\ firstPruned' = stats
      /\ UNCHANGED <<uncovered, learnt>>

GrowClause(chain, l, random, fromTied, stats, selector) ==
  LET s == FinalElement(chain)
      next == Extension(s, l, random, fromTied, stats)
  IN  /\ Considered(chain, l, random) =>
           ~Accepted(chain, l) /\ ~NoSecondChance(chain, fromTied)
      /\ building' = IF random
                      THEN Append(ReplaceFinal(chain, WithSelector(s, selector)), next)
                      ELSE <<next>>
      /\ firstPruned' = IF s.body = <<>> THEN stats ELSE firstPruned
      /\ UNCHANGED <<uncovered, learnt>>

EndOfTurn ==
  /\ saved' = <<>> /\ vec' = {} /\ best' = {} /\ pruned' = {}
  /\ isRandom' = FALSE /\ own' = TRUE

(* Stack the literals tied with the one taken that cover enough. *)
KeepTied ==
  LET keep == {l \in vec : IsWorthKeeping(Top, l)}
      n == Cardinality(keep)
  IN  \E order \in Bijection(1..n, keep) :
        tied' = tied \o [i \in 1..n |->
                  [lit |-> order[i], chain |-> building, pruned |-> pruned]]

CommitThenKeepTied ==   (* faulty: the state tied literals refer to is gone *)
  /\ pc = "commit"
  /\ \E l \in best :
       \/ FinishClause(building, l, isRandom) /\ pc' = "rule_end"
       \/ DropClause(building, l, isRandom, FALSE) /\ pc' = "rule_end"
       \/ GrowClause(building, l, isRandom, FALSE, pruned, saved) /\ pc' = "search"
  /\ \E order \in Bijection(1..Cardinality(vec), vec) :
       tied' = tied \o [i \in 1..Cardinality(vec) |->
                 [lit |-> order[i], chain |-> building', pruned |-> pruned]]
  /\ EndOfTurn
  /\ UNCHANGED iterations

Commit ==
  /\ pc = "commit"
  /\ KeepTied
  /\ \E l \in best :
       \/ FinishClause(building, l, isRandom) /\ pc' = "rule_end"
       \/ DropClause(building, l, isRandom, FALSE) /\ pc' = "rule_end"
       \/ GrowClause(building, l, isRandom, FALSE, pruned, saved) /\ pc' = "search"
  /\ EndOfTurn
  /\ UNCHANGED iterations

-----------------------------------------------------------------------------
(* Between rule searches. *)

EndRuleUncounted ==   (* faulty: the iteration is not counted *)
  /\ pc = "rule_end"
  /\ IF ContinueRuleSearch(uncovered, iterations)
     THEN pc' = "tied" /\ building' = <<>>
     ELSE pc' = "done" /\ UNCHANGED building
  /\ UNCHANGED <<uncovered, learnt, tied, iterations, firstPruned, search>>

EndRule ==
  /\ pc = "rule_end"
  /\ iterations' = iterations + 1
  /\ IF ContinueRuleSearch(uncovered, iterations + 1)
     THEN pc' = "tied" /\ building' = <<>>
     ELSE pc' = "done" /\ UNCHANGED building
  /\ UNCHANGED <<uncovered, learnt, tied, firstPruned, search>>

TryTied ==
  /\ pc = "tied" /\ tied # <<>>
  /\ tied' = AllButFinal(tied)
  /\ LET t == FinalElement(tied)
     IN  \/ /\ NeedRegrow(FinalElement(t.chain), t.lit)
            /\ building' = <<>>
            /\ UNCHANGED <<pc, uncovered, learnt, firstPruned>>
         \/ /\ ~NeedRegrow(FinalElement(t.chain), t.lit)
            /\ \/ FinishClause(t.chain, t.lit, FALSE) /\ UNCHANGED pc
               \/ DropClause(t.chain, t.lit, FALSE, TRUE) /\ UNCHANGED pc
               \/ /\ GrowClause(t.chain, t.lit, FALSE, TRUE, t.pruned, <<>>)
                  /\ pc' = "search"
  /\ UNCHANGED <<iterations, search>>

StartClause ==
  /\ pc = "tied" /\ tied = <<>>
  /\ building' = <<MostGeneral(uncovered, firstPruned)>>
  /\ pc' = "search"
  /\ UNCHANGED <<uncovered, learnt, tied, iterations, firstPruned, search>>

Crashed == {"division_by_zero", "failed_check", "null_dereference"}
Ended == Crashed \cup {"done"}

(* The process has exited, or Learn has returned. *)
Stutter == pc \in Ended /\ UNCHANGED vars

Step ==
  \/ SearchDividesByZero \/ SearchFindsNothing
  \/ SearchPicksRegular \/ SearchPicksRandom \/ TakeBest
  \/ RegrowTake \/ RegrowNextGroup \/ RegrowFallsBack
  \/ Commit \/ EndRule \/ TryTied \/ StartClause

Next == Step \/ Stutter

Spec == Init /\ [][Next]_vars

(* Learn runs on one thread that never waits. *)
FairSpec == Spec /\ WF_vars(Step)

-----------------------------------------------------------------------------
(* Properties. *)

(* Every variable keeps its type.  The part that could go wrong: a literal
   kept for later always refers to a clause it can be added to, although
   the clause being grown is let go when it is finished or dropped.        *)
TypeOK ==
  /\ pc \in {"search", "take", "regrow", "commit", "rule_end", "tied"} \cup Ended
  /\ building \in Seq(State)
  /\ uncovered \subseteq Pos
  /\ learnt \in Seq(Body)
  /\ tied \in Seq([lit : Literal, chain : Seq(State) \ {<<>>}, pruned : Body])
  /\ iterations \in Nat
  /\ firstPruned \in Body
  /\ saved \in Groups /\ vec \in Body /\ best \in Body /\ pruned \in Body
  /\ isRandom \in BOOLEAN /\ own \in BOOLEAN

(* The states something may still build on. *)
LiveStates ==
  {building[i] : i \in DOMAIN building} \cup
  UNION {{tied[i].chain[j] : j \in DOMAIN tied[i].chain} : i \in DOMAIN tied}

(* What AddBuildingClauseWithNewLiteral takes away is everything the new
   clause covers, although the clause was grown on an older snapshot: no
   learnt clause covers an example that is still listed as uncovered, and
   no other example has been lost.                                         *)
UncoveredIsExact ==
  uncovered = {e \in Pos : \A i \in DOMAIN learnt : Bindings[learnt[i]][e] = 0}

(* A state's snapshot never misses an uncovered example.  The new uncovered
   table is written to a buffer sized by the snapshot (QuickFoil.cpp:605),
   and the clause has bindings for examples of the snapshot only.          *)
SnapshotsContainUncovered ==
  \A s \in LiveStates : uncovered \subseteq s.local

(* Literals left out of candidate generation for a state, because an earlier
   evaluation found no positive example for them, have none in that state
   either, however the state was reached (tied literal, regrowing, or the
   statistics reused for the first literal of a later clause).             *)
PruningIsSound ==
  LET Sound(b, S, stats) == \A l \in stats : CoveredBy(b \cup {l}, S) = {}
  IN  /\ Sound({}, uncovered, firstPruned)
      /\ \A s \in LiveStates : Sound(LiteralsOf(s), s.local, s.pruned)
      /\ \A i \in DOMAIN tied : LET s == FinalElement(tied[i].chain)
           IN Sound(LiteralsOf(s), s.local, tied[i].pruned)
      /\ building # <<>> => Sound(LiteralsOf(Top), Top.local, pruned)

(* Regrowing always finds a literal before it runs out of previous states
   and selectors (DCHECKs at QuickFoil.cpp:275 and 287).                   *)
RegrowIsSafe == pc # "null_dereference"

(* What a state keeps to on every path: the random literals of its clause, the
   failed ones it remembers, and a length that only random literals exceed.
   Two of the flags promise more than this (SearchLimits).                 *)
RandomBudget ==
  \A s \in LiveStates :
    /\ Cardinality(RandomOf(s)) <= MaxRandomLiterals
    /\ Cardinality(s.black) <= MaxRandomTrials
    /\ Len(s.body) <= MaxClauseLength + Cardinality(RandomOf(s))

(* The point of regrowing: a random literal inside a clause is followed by
   one that reads a variable it introduced, or that rules out every
   negative example.                                                       *)
RandomLiteralsPayOff ==
  \A s \in LiveStates : \A i \in RandomOf(s) \ {Len(s.body)} :
    \/ s.body[i].lit \in UsesOffKey[s.body[i + 1].lit]
    \/ CoveredBy({s.body[j].lit : j \in 1..i + 1}, Neg) = {}

(* Every call of Learn ends: it returns or the process exits. *)
Terminates == <>(pc \in Ended)

-----------------------------------------------------------------------------
(* What the help texts and a check of the code say; the code differs. *)

(* "The minimum number of covered examples for stopping the learning
   process" (flag positive_threshold, 0.8): no new clause is begun once as
   many are covered.  The loop over the tied literals accepts clauses
   without testing for it.                                                 *)
StopsAtThreshold ==
  [][pc = "tied" /\ pc' = "search" /\ tied = <<>> =>
       ~AtLeastPercent(Cardinality(Pos \ uncovered), Cardinality(Pos), 80)]_vars

(* CHECK(!tied_literal_infos_.empty()) when no candidate literal is left. *)
TiedLiteralIsLeft == pc # "failed_check"

-----------------------------------------------------------------------------
(* What the learner implements: rules are accepted one by one, each good on
   a set of examples that was uncovered when its search began, and the
   uncovered set is what the accepted rules leave (SetCover).              *)
Abstract == INSTANCE SetCover WITH
  Rule <- Body, Cover <- [b \in Body |-> CoveredBy(b, Pos)], Good <- Accepts,
  rules <- learnt, stopped <- pc \in Ended

ImplementsSetCover == Abstract!Spec
=============================================================================
