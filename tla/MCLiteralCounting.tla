------------------------- MODULE MCLiteralCounting --------------------------
(* Small calls for EvaluationPlan, LiteralCounting and BindingTables.  Values 0
   and 4 share a partition, 0 and 2 only the lowest hash bit; 4 partitions on
   lines of three slots.                                                   *)
EXTENDS BindingTables

MCValue == {0, 1, 2, 4}
MCHash == [v \in MCValue |-> v]
MCKeyHash(key) == FoldLeft(LAMBDA h, v : h + MCHash[v], 0, key)

SeqsOf(S, from, to) == UNION {[1..m -> S] : m \in from..to}

Candidate(r, vs) == [relation |-> r, variables |-> vs]
Unary(rows) == [rows |-> rows, types |-> <<0>>]
Binary(rows) == [rows |-> rows, types |-> <<0, 0>>]
Sides(p, n) == [s \in Side |-> IF s = "positive" THEN p ELSE n]

(* p(X), then q(X, Y, X), q(X, Y, _), q(X, _, _) and q(_, Y, X): the argument with
   the largest type is joined on, the first of them.                       *)
MCRelations ==
  <<Unary(<<<<0>>, <<4>>, <<0>>>>),
    [rows |-> <<<<0, 1, 0>>, <<1, 1, 2>>, <<0, 0, 1>>, <<0, 1, 1>>>>,
     types |-> <<1, 0, 1>>]>>

MCCandidates ==
  <<Candidate(1, <<1>>), Candidate(2, <<1, 2, 1>>), Candidate(2, <<1, 2, 0>>),
    Candidate(2, <<1, 0, 0>>), Candidate(2, <<0, 2, 1>>)>>

MCRow == {<<0, 0>>, <<0, 1>>, <<1, 1>>, <<2, 0>>, <<4, 0>>}

MCSmallInput ==
  [bindings : {Sides(p, n) :
                 p \in SeqsOf(MCRow, 1, 2), n \in SeqsOf({<<0, 0>>, <<1, 1>>}, 1, 2)},
   consecutive : BOOLEAN, relations : {MCRelations}, candidates : {MCCandidates}]

(* Candidates that join on either of two clause variables. *)
MCTwoVariableInput ==
  [bindings : {Sides(p, <<<<1, 0>>, <<0, 4>>>>) : p \in SeqsOf(MCRow, 1, 2)},
   consecutive : BOOLEAN,
   relations : {<<Binary(<<<<0, 1>>, <<1, 0>>, <<0, 0>>>>)>>},
   candidates : {<<Candidate(1, <<0, 2>>), Candidate(1, <<1, 2>>), Candidate(1, <<2, 1>>),
                   Candidate(1, <<0, 1>>)>>}]

(* Longer tables, for the lines and chains of the partitions; they are longer
   than the background table, which is then the one that is hashed.        *)
MCLongInput ==
  [bindings : {Sides(long, <<<<2, 1>>, <<0, 1>>>>) :
                 long \in SeqsOf({<<v, 0>> : v \in MCValue \ {2}}, 4, 5)},
   consecutive : {TRUE},
   relations : {<<Binary(<<<<0, 0>>, <<4, 1>>, <<0, 1>>>>)>>},
   candidates : {<<Candidate(1, <<1, 2>>), Candidate(1, <<1, 0>>)>>}]

(* Bindings none of which a fact of the only relation joins. *)
MCUnjoinedInput ==
  [bindings : {Sides(p, <<<<2, 1>>>>) : p \in SeqsOf({<<0, 0>>, <<1, 0>>}, 1, 2)},
   consecutive : BOOLEAN,
   relations : {<<Binary(<<<<0, 0>>, <<4, 1>>>>)>>},
   candidates : {<<Candidate(1, <<1, 0>>)>>}]

(* Candidates for the plan.  Of three arguments the first is joined on; there are
   two variables for the second, one or two for the third, and any of the
   literals may be missing: three or four in every order, more in one order. *)
Enumerations(S) == {f \in [1..Cardinality(S) -> S] : {f[i] : i \in DOMAIN f} = S}

Ternary ==
  {<<1, 0, 0>>, <<1, 1, 0>>, <<1, 1, 1>>, <<1, 1, 2>>, <<1, 2, 1>>, <<1, 2, 2>>}

PairFamilies ==
  UNION {IF Cardinality(S) < 5 THEN Enumerations(S) ELSE {SetToSeq(S)} :
           S \in {T \in SUBSET Ternary : Cardinality(T) > 2}}

(* Three other arguments: with one variable each and every literal, in every order,
   which gives a plan; without some of the shorter ones, or with two variables for
   one argument, where the merging may come to a pair that makes no literal.  *)
Quaternary == {<<1, 1, 1, 0>>, <<1, 1, 0, 1>>, <<1, 0, 1, 1>>, <<1, 1, 1, 1>>}

FullFamilies == Enumerations({<<1, 1, 0, 0>>} \cup Quaternary)

LongFamilies ==
  UNION {Enumerations(S) : S \in (SUBSET Quaternary) \ {{}, Quaternary}} \cup
  Enumerations({<<1, 1, 1, 0>>, <<1, 1, 1, 1>>, <<1, 1, 1, 2>>}) \cup
  {SetToSeq(Quaternary \cup {<<1, 1, 0, 2>>, <<1, 0, 1, 2>>, <<1, 1, 1, 2>>})}

MCPlanInput ==
  {[bindings |-> Sides(<<<<0, 1>>>>, <<<<0, 0>>>>), consecutive |-> TRUE,
    relations |-> <<[rows |-> IF Len(family[1]) = 3 THEN <<<<0, 0, 0>>, <<0, 1, 0>>>>
                              ELSE <<<<0, 0, 0, 0>>>>,
                     types |-> [a \in DOMAIN family[1] |-> 0]]>>,
    candidates |-> [i \in DOMAIN family |-> Candidate(1, family[i])]] :
     family \in PairFamilies \cup FullFamilies \cup LongFamilies}

MCInput ==
  UNION {MCSmallInput, MCTwoVariableInput, MCLongInput, MCUnjoinedInput, MCPlanInput}
=============================================================================
