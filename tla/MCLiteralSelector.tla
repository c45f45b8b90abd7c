-------------------------- MODULE MCLiteralSelector -------------------------
(* Candidates for LiteralSelector: unscored ones, regular ones whose scores
   tie pairwise but not all together, and random ones that win or lose against
   them.                                                                   *)
EXTENDS LiteralSelector

Regular(score, covered, examples) ==
  [score |-> score, asRandom |-> 0, fScore |-> 0, covered |-> covered,
   bindings |-> covered, examples |-> examples, isRandom |-> FALSE]

Random(score, fScore, covered, bindings, examples) ==
  [score |-> score, asRandom |-> 6, fScore |-> fScore, covered |-> covered,
   bindings |-> bindings, examples |-> examples, isRandom |-> TRUE]

MCInfo ==
  {Regular(0, 0, 0), Regular(2, 2, 2), Regular(3, 1, 1), Regular(4, 2, 2),
   Regular(4, 4, 5), Random(2, 1, 3, 3, 3), Random(3, 1, 3, 4, 2),
   Random(1, 2, 4, 9, 4), Random(1, 1, 4, 20, 4)}
=============================================================================
