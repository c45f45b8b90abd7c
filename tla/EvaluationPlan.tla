--------------------------- MODULE EvaluationPlan ---------------------------
(***************************************************************************)
(* CandidateLiteralEvaluator::GeneratePredicateEvaluationPlan: candidate   *)
(* literals of one predicate and join key are told apart by the equality   *)
(* tests ("atoms") they add to the join.  The plan is a DAG of             *)
(* conjunctions over the atoms in which every literal has a node: two      *)
(* nodes that share most literals are merged until every literal is found, *)
(* and what no literal needs is dropped.                                   *)
(*                                                                         *)
(* Nodes and literals are numbered from 1; the atoms are the first nodes.  *)
(***************************************************************************)
EXTENDS Selection, SequencesExt

CONSTANT MaxNodes   (* Bound: no node is appended beyond it.               *)

ASSUME PlanAssumption == MaxNodes \in Nat

VARIABLES
  atoms,       (* predicates: the tests, in the order of their first use.  *)
  literals,    (* predicate_atoms: the numbers of each literal's atoms.    *)
  nodes,       (* predicate_tree_nodes                                     *)
  remaining    (* remaining_literal_ids                                    *)

planVars == <<atoms, literals, nodes, remaining>>

NumAtoms == Len(atoms)
Longer(family) == {i \in DOMAIN family : Cardinality(family[i]) > 1}

FirstUses(s) == RowsIn(s, {i \in DOMAIN s : \A j \in 1..i - 1 : s[j] # s[i]})

OthersBefore(n, k) == [j \in 1..k - 1 |-> k - j]   (* faulty: one direction *)

(* The nodes an atom may be merged with, the one entered last first: the order
   in which std::unordered_set iterates over few small numbers.            *)
OthersNewestFirst(n, k) ==
  [j \in 1..n - 1 |-> IF n + 1 - j > k THEN n + 1 - j ELSE n - j]

NoPlanning == atoms = <<>> /\ literals = <<>> /\ nodes = <<>> /\ remaining = {}

(* The function is entered with literals given by the sequences of their tests. *)
StartPlan(candidates) ==
  /\ \E used \in {FlattenSeq(candidates)} : atoms' = FirstUses(used)
  /\ literals' = [i \in DOMAIN candidates |->
                    {k \in DOMAIN atoms' : Contains(candidates[i], atoms'[k])}]
  /\ nodes' = [k \in DOMAIN atoms' |->
       [atoms |-> {k},
        ids |-> {i \in Longer(literals') : k \in literals'[i]},
        mergeable |-> OthersNewestFirst(Len(atoms'), k),
        literal |-> 0, left |-> 0, right |-> 0, references |-> 0]]
  /\ remaining' = Longer(literals')
-----------------------------------------------------------------------------
Shared(k, m) == Cardinality(nodes[k].ids \cap nodes[m].ids)

Pairs ==
  UNION {{<<k, j>> : j \in DOMAIN nodes[k].mergeable} : k \in 1..Len(nodes) - 1}

SharedBy(p) == Shared(p[1], nodes[p[1]].mergeable[p[2]])

IsBefore(p, q) == p[1] < q[1] \/ (p[1] = q[1] /\ p[2] <= q[2])

(* The first of the pairs with the most literals in common. *)
BestPair ==
  LET most == CHOOSE n \in {SharedBy(p) : p \in Pairs} :
                \A p \in Pairs : SharedBy(p) <= n
      best == {p \in Pairs : SharedBy(p) = most}
  IN  CHOOSE p \in best : \A q \in best : IsBefore(p, q)

(* Appending to a full vector, whose capacity doubles. *)
VectorMoves == \E e \in 0..5 : Len(nodes) = 2 ^ e

IsExtended(i, tests) == tests \subseteq literals[i]   (* faulty: atoms missing *)

IsConjunction(i, tests) == literals[i] = tests

MergeableWith(k, pair, new, tests) ==
  IF k \in pair \/ nodes[k].atoms \cap tests # {}
  THEN nodes[k].mergeable
  ELSE <<new>> \o nodes[k].mergeable

ReferencesWith(k, left, right) ==
  nodes[k].references + (IF k \in {left, right} THEN 1 ELSE 0)

IdsLeftInParts(k, left, right, found) ==   (* faulty: other nodes keep it *)
  nodes[k].ids \ (IF k \in {left, right} THEN found ELSE {})

IdsMovedOn(k, left, right, found) ==   (* faulty: the parts give up what they share *)
  nodes[k].ids \
    (IF k \in {left, right} THEN nodes[left].ids \cap nodes[right].ids ELSE found)

IdsLeft(k, left, right, found) == nodes[k].ids \ found

(* Append the conjunction of nodes left and right with the given contents. *)
AppendNode(left, right, tests, ids) ==
  LET found == {i \in ids : IsConjunction(i, tests)}
      new == Len(nodes) + 1
  IN  /\ nodes' = Append(
           [k \in 1..Len(nodes) |->
              [nodes[k] EXCEPT
                 !.ids = IdsLeft(k, left, right, found),
                 !.references = ReferencesWith(k, left, right),
                 !.mergeable = MergeableWith(k, {left, right}, new, tests)]],
           [atoms |-> tests, ids |-> ids \ found, mergeable |-> <<>>,
            literal |-> IF found = {} THEN 0 ELSE CHOOSE i \in found : TRUE,
            left |-> left, right |-> right, references |-> 0])
      /\ remaining' = remaining \ found

(* The two nodes are read through pointers taken before the new node was
   appended.  When the vector moves, what they point to has been moved from and
   freed: the sets read as they were, or empty, or the process dies
   (MergeMayFail).                                                         *)
Merge ==
  /\ remaining # {} /\ Len(nodes) < MaxNodes
  /\ \E left \in {BestPair[1]}, right \in {nodes[BestPair[1]].mergeable[BestPair[2]]} :
       \/ AppendNode(left, right, nodes[left].atoms \cup nodes[right].atoms,
                     nodes[left].ids \cap nodes[right].ids)
       \/ VectorMoves /\ AppendNode(left, right, {}, {})
  /\ UNCHANGED <<atoms, literals>>

MergeMayFail == remaining # {} /\ VectorMoves

(* The reference counts after nodes above k were visited, the last one first:
   a conjunction that holds no literal and is not used releases its parts. *)
References ==
  LET after[k \in NumAtoms..Len(nodes)] ==
        IF k = Len(nodes) THEN [m \in 1..Len(nodes) |-> nodes[m].references]
        ELSE LET n == nodes[k + 1]
                 above == after[k + 1]
             IN  IF n.literal = 0 /\ above[k + 1] = 0
                 THEN [above EXCEPT ![n.left] = @ - 1, ![n.right] = @ - 1]
                 ELSE above
  IN  after[NumAtoms]

IsUsedOrNot(k) == nodes[k].literal # 0 \/ References[k] >= 0   (* faulty *)

IsUsed(k) == nodes[k].literal # 0 \/ References[k] # 0

(* The nodes that become tree nodes of the plan. *)
Kept == {k \in 1..Len(nodes) : k <= NumAtoms \/ IsUsed(k)}

IsPlanned == literals # <<>> /\ remaining = {}

(* The literal whose tests are these atoms, or 0. *)
LiteralOf(tests) ==
  IF \E i \in DOMAIN literals : literals[i] = tests
  THEN CHOOSE i \in DOMAIN literals : literals[i] = tests ELSE 0

(* The PredicateEvaluationPlan: a literal without atoms is that of the plan, one
   with a single atom that of the atom's node, and parts are found by the
   position their nodes have in the plan.                                  *)
Plan ==
  LET kept == Kept
      node(k) ==
        IF k <= NumAtoms
        THEN [test |-> atoms[k], parts |-> {}, literal |-> LiteralOf({k})]
        ELSE [test |-> <<>>,
              parts |-> {Rank(kept, nodes[k].left), Rank(kept, nodes[k].right)},
              literal |-> nodes[k].literal]
  IN  [root |-> LiteralOf({}),
       nodes |-> [n \in 1..Cardinality(kept) |-> node(Nth(kept, n))]]
-----------------------------------------------------------------------------
(* Every variable keeps its type.  The parts that could go wrong: a literal that
   was found is erased from every node, and a conjunction's parts come before it. *)
PlanTypeOK ==
  /\ \A k \in 1..Len(nodes) :
       /\ nodes[k].atoms \subseteq 1..NumAtoms
       /\ nodes[k].ids \subseteq remaining
       /\ nodes[k].left \in 0..k - 1 /\ nodes[k].right \in 0..k - 1
       /\ nodes[k].references \in Nat
  /\ remaining \subseteq Longer(literals)

(* What the tree below node k tests. *)
Tested ==
  LET tests[k \in 1..Len(nodes)] ==
        IF k <= NumAtoms THEN {k} ELSE tests[nodes[k].left] \cup tests[nodes[k].right]
  IN  tests

(* Every literal with more than one atom has one node in the plan, and the tree
   below that node tests the atoms of the literal and no others, although nodes
   may have been built from sets that were read too late.                  *)
PlanIsExact ==
  IsPlanned =>
    \A i \in Longer(literals) :
      /\ Cardinality({k \in Kept : nodes[k].literal = i}) = 1
      /\ \A k \in Kept : nodes[k].literal = i => Tested[k] = literals[i]

(* The parts of every conjunction in the plan are in the plan, and before it:
   CountAggregator evaluates the nodes in order and reads the vectors of both
   parts; and no conjunction is evaluated for nothing.                     *)
PlanIsClosedAndLean ==
  IsPlanned =>
    \A k \in Kept \ 1..NumAtoms :
      /\ {nodes[k].left, nodes[k].right} \subseteq Kept
      /\ \/ nodes[k].literal # 0
         \/ \E m \in Kept : k \in {nodes[m].left, nodes[m].right}

(* The pair that is merged next makes no literal. *)
IsStuck ==
  /\ remaining # {}
  /\ LET left == nodes[BestPair[1]]
         right == nodes[nodes[BestPair[1]].mergeable[BestPair[2]]]
     IN  \A i \in left.ids \cap right.ids : literals[i] # left.atoms \cup right.atoms

(* As long as a literal is missing there are two nodes to merge that both need
   it (DCHECK_GT(max_intersection_size, 0)), and they make a literal unless one
   of those they share has three tests: a predicate with at most three arguments
   always gets its plan.                                                   *)
SomePairIsLeft ==
  remaining # {} =>
    /\ Pairs # {} /\ SharedBy(BestPair) > 0
    /\ IsStuck => \E i \in remaining : Cardinality(literals[i]) > 2
=============================================================================
