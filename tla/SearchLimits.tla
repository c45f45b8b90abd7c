---------------------------- MODULE SearchLimits ----------------------------
(***************************************************************************)
(* The rule search with a count of the random literals that one iteration  *)
(* undoes, for what the flags say of an iteration and of a learnt clause.  *)
(* The code keeps no such count: each state has a set of its own           *)
(* (black_random_literals).                                                *)
(***************************************************************************)
EXTENDS QuickFoil, Combinatorics

VARIABLE failed   (* Random literals undone since the last rule ended.     *)

CountedInit == Init /\ failed = 0

CountedNext ==
  /\ Next
  /\ failed' = CASE pc = "rule_end" -> 0
                 [] pc = "regrow" /\ Len(building') < Len(building) -> failed + 1
                 [] OTHER -> failed

CountedSpec == CountedInit /\ [][CountedNext]_<<vars, failed>> /\ WF_vars(Step)
-----------------------------------------------------------------------------
(* What the search really keeps to.  A state remembers MaxRandomTrials failures
   and gives what it remembers to the states above it, but not to those below
   that it is undone for: so with t trials left and r random literals still to
   come, the first of them may fail after t and r - 1 did, and t - 1 and r are
   left then.  The solution of this recursion is a binomial coefficient less
   one; it is 20 for the defaults 5 and 2.                                 *)
TrialsAreBounded ==
  failed < choose(MaxRandomTrials + MaxRandomLiterals, MaxRandomLiterals)

-----------------------------------------------------------------------------
(* What the help texts of two flags say; the code differs. *)

(* "The maximum number of failed random literals for a rule search iteration"
   (maximum_random_trials).                                                *)
TrialLimit == failed <= MaxRandomTrials

(* "The maximum number of literals in one learnt clause"
   (maximum_clause_length).                                                *)
LengthLimit == \A i \in DOMAIN learnt : Cardinality(learnt[i]) <= MaxClauseLength

(* Each of the two texts implies that no search breaks both limits. *)
OneLimitHolds == TrialLimit \/ LengthLimit
=============================================================================
