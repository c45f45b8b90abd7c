------------------------------ MODULE SetCover ------------------------------
(***************************************************************************)
(* What the learner promises, without saying how it finds its rules: rules *)
(* are accepted one at a time, each one good enough on the positive        *)
(* examples that were left uncovered when its search began (now, or some   *)
(* rules ago), and what stays uncovered is exactly what no accepted rule   *)
(* covers.                                                                 *)
(***************************************************************************)
EXTENDS Naturals, Sequences

CONSTANTS
  Pos,        (* Positive examples.                                        *)
  Rule,       (* Rules that can be learnt.                                 *)
  Cover,      (* Cover[r]: the positive examples rule r covers.            *)
  Good(_, _)  (* Good(r, S): r is acceptable when judged on the set S.     *)

VARIABLES
  uncovered,  (* Positive examples no accepted rule covers.                *)
  rules,      (* Accepted rules, oldest first.                             *)
  stopped     (* Learning has ended.                                       *)

vars == <<uncovered, rules, stopped>>

(* What the first i rules of q leave uncovered. *)
Remaining(q, i) == {e \in Pos : \A j \in 1..i : e \notin Cover[q[j]]}

TypeOK ==
  /\ uncovered \subseteq Pos
  /\ rules \in Seq(Rule)
  /\ stopped \in BOOLEAN

Init ==
  /\ uncovered = Pos
  /\ rules = <<>>
  /\ stopped = FALSE

AddRule ==
  /\ ~stopped
  /\ \E r \in Rule :
       /\ rules' = Append(rules, r)
       /\ \E i \in 0..Len(rules) : Good(r, Remaining(rules, i))
       /\ uncovered' = uncovered \ Cover[r]
  /\ UNCHANGED stopped

Stop ==
  /\ ~stopped
  /\ stopped' = TRUE
  /\ UNCHANGED <<uncovered, rules>>

Next == AddRule \/ Stop

Spec == Init /\ [][Next]_vars

(* The uncovered set is what all rules together leave. *)
Exact == uncovered = Remaining(rules, Len(rules))
=============================================================================
