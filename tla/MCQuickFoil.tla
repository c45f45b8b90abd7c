---------------------------- MODULE MCQuickFoil ----------------------------
(***************************************************************************)
(* Small data sets for the learner.  A literal is given by the number of   *)
(* bindings (at most 2) it multiplies an example's bindings by; 0 rules it *)
(* out.                                                                    *)
(***************************************************************************)
EXTENDS SearchLimits

CONSTANT Fan    (* Fan[l][e] *)

MCBindings ==
  [b \in Body |-> [e \in Example |->
     IF \E l \in b : Fan[l][e] = 0 THEN 0
     ELSE 2 ^ Cardinality({l \in b : Fan[l][e] = 2})]]

MCCoveredBindings ==
  [b \in Body |-> [l \in Literal |-> [e \in Example |->
     IF Fan[l][e] = 0 THEN 0 ELSE MCBindings[b][e]]]]

FourPos == 1..4
TwoNeg == 5..6

(* q and r only add a variable; s reads that of r to add another.  r and s may
   follow one another as random literals, so regrowing may have to fall back
   twice, and q is left to be tried then.  a is precise; c lets the negative
   examples through, so picking it after a random literal means regrowing.  *)
SearchLiterals == {"a", "c", "q", "r", "s"}
SearchFan == [l \in SearchLiterals |->
  CASE l = "a" -> <<1, 1, 0, 0, 0, 0>>
    [] l = "c" -> <<0, 1, 1, 0, 1, 1>>
    [] l = "q" -> <<1, 1, 1, 1, 1, 1>>
    [] l = "r" -> <<1, 1, 1, 1, 1, 1>>
    [] l = "s" -> <<0, 1, 2, 1, 1, 1>>]
SearchUses == [l \in SearchLiterals |-> IF l = "s" THEN {"r"} ELSE {}]
SearchUnbound == {"q", "r", "s"}

(* a and b split the positives between them, without a negative; c and d are
   weaker alternatives.                                                     *)
TiedLiterals == {"a", "b", "c", "d"}
TiedFan == [l \in TiedLiterals |->
  CASE l = "a" -> <<1, 1, 0, 0, 0, 0>>
    [] l = "b" -> <<0, 0, 1, 1, 0, 0>>
    [] l = "c" -> <<1, 0, 1, 0, 1, 0>>
    [] l = "d" -> <<0, 1, 1, 0, 1, 1>>]
NoUses == [l \in Literal |-> {}]
=============================================================================
