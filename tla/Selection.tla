----------------------------- MODULE Selection ------------------------------
(***************************************************************************)
(* "These rows, in their order": the rows of a table at the positions of a *)
(* set.  It is said with the rank of a position, so that proofs can use    *)
(* it.                                                                     *)
(***************************************************************************)
EXTENDS Integers, FiniteSets, Sequences

(* How many positions of S there are up to i. *)
Rank(S, i) == Cardinality({j \in S : j <= i})

Nth(S, k) == CHOOSE i \in S : Rank(S, i) = k

(* The members of a set of positions, the lowest first. *)
InOrder(S) == [k \in 1..Cardinality(S) |-> Nth(S, k)]

RowsIn(rows, S) == [k \in 1..Cardinality(S) |-> rows[Nth(S, k)]]
=============================================================================
