---------------------- MODULE CandidateLiteralEnumerator --------------------
(***************************************************************************)
(* Which literals are offered for the next place of a clause.              *)
(*                                                                         *)
(* Candidates are generated step by step: for the head alone from scratch, *)
(* later by filling the places the last literal's new variables can take   *)
(* in the candidates of the step before, except in those an evaluation has *)
(* found to cover no positive example.  A predicate's key keeps some       *)
(* variables out, and a candidate that can stand in for a literal of the   *)
(* clause (a replaceable duplicate) is generated but not offered.          *)
(*                                                                         *)
(* The target is not a background predicate (main.cpp admits no recursive  *)
(* clauses), so the head never matches a body literal.                     *)
(***************************************************************************)
EXTENDS Selection, SequencesExt

CONSTANTS
  Predicate,       (* Background predicates.                               *)
  ArgumentTypes,   (* Their arguments' types, a sequence each.             *)
  Key,             (* Their key's position, 0 for none (-1 in the code).   *)
  HeadTypes,       (* Types of the target's arguments.                     *)
  MaxBody,         (* Bound: literals in a clause.                         *)
  MaxClauses,      (* Bound: clauses begun.                                *)
  MaxRuledOut      (* Bound: most general literals one evaluation finds to
                      cover nothing; those more special follow.            *)

Types == Range(HeadTypes) \cup UNION {Range(ArgumentTypes[p]) : p \in Predicate}

ASSUME SchemaAssumption ==
  /\ HeadTypes \in Seq(Types)
  /\ \A p \in Predicate : /\ ArgumentTypes[p] \in Seq(Types) \ {<<>>}
                          /\ Key[p] \in 0..Len(ArgumentTypes[p])
  /\ MaxBody \in Nat /\ MaxClauses \in Nat \ {0} /\ MaxRuledOut \in Nat

VARIABLES
  pc,
  clause,      (* Its body, and the types of its variables, which are
                  numbered in order of appearance; the head's come first.  *)
  last,        (* last_run_stats                                           *)
  first,       (* literal_serarch_stats_for_first_iteration_               *)
  generated,   (* entire_generated_literals                                *)
  offered,     (* pruned_generated_literals                                *)
  clauses      (* clauses begun                                            *)

vars == <<pc, clause, last, first, generated, offered, clauses>>

-----------------------------------------------------------------------------
(* Literals and clauses. *)

Unbound == 0
Free == 0     (* -1 in a row of a canonical relation *)

HeadVariables == DOMAIN HeadTypes
HeadRow == [i \in HeadVariables |-> i]
MostGeneral == [body |-> <<>>, types |-> HeadTypes]
NumVariables(c) == Len(c.types)

Literals(p, n) == [predicate : {p}, args : [DOMAIN ArgumentTypes[p] -> 0..n]]

BodyWith(c, p) == RowsIn(c.body, {k \in DOMAIN c.body : c.body[k].predicate = p})

PlacesOf(v, l) == {i \in DOMAIN l.args : l.args[i] = v}

(* The arguments once every unbound variable has the next free number. *)
Numbered(l, n) ==
  [i \in DOMAIN l.args |->
     IF l.args[i] = Unbound THEN n + Rank(PlacesOf(Unbound, l), i) ELSE l.args[i]]

AddUnBoundBodyLiteral(c, l) ==
  [body  |-> Append(c.body, [l EXCEPT !.args = Numbered(l, NumVariables(c))]),
   types |-> c.types \o RowsIn(ArgumentTypes[l.predicate], PlacesOf(Unbound, l))]

(* num_variables_without_last_body_literal_ *)
VariablesOf(body) == HeadVariables \cup UNION {Range(body[i].args) : i \in DOMAIN body}
NumVariablesBefore(c) == Cardinality(VariablesOf(Front(c.body)))

-----------------------------------------------------------------------------
(* Generation. *)

NewVariables(c) ==
  IF c.body = <<>> THEN HeadVariables ELSE (NumVariablesBefore(c) + 1)..NumVariables(c)

(* What each argument can become; staying unbound comes last. *)
VariablesPerArgument(c, p, keyVariables) ==
  [i \in DOMAIN ArgumentTypes[p] |->
     Append(InOrder({v \in NewVariables(c) \ keyVariables :
                       c.types[v] = ArgumentTypes[p][i]}),
            Unbound)]

(* Every way to fill an unbound argument of base, base itself last.  The
   first choice continues a prefix in place, the others go to the end.     *)
Fill(prefixes, choices) ==
  [i \in DOMAIN prefixes |-> Append(prefixes[i], choices[1])] \o
  FlattenSeq([i \in DOMAIN prefixes |->
    [k \in 1..(Len(choices) - 1) |-> Append(prefixes[i], choices[k + 1])]])

GenerateCandidateLiteralsFromAnother(base, variablesPerArgument) ==
  LET ChoicesFor(i) == IF base.args[i] = Unbound THEN variablesPerArgument[i]
                       ELSE <<base.args[i]>>
      filled[n \in 0..Len(base.args)] ==
        IF n = 0 THEN << <<>> >> ELSE Fill(filled[n - 1], ChoicesFor(n))
      all == filled[Len(base.args)]
  IN  [k \in DOMAIN all |-> [base EXCEPT !.args = all[k]]]

GenerateCandidateLiterals(p, variablesPerArgument) ==
  GenerateCandidateLiteralsFromAnother(
    [predicate |-> p, args |-> [i \in DOMAIN ArgumentTypes[p] |-> Unbound]],
    variablesPerArgument)

KeyVariables(c, p) ==
  IF Key[p] = 0 THEN {} ELSE {b.args[Key[p]] : b \in Range(BodyWith(c, p))}

OnlyOldVariables(c, p) ==   (* faulty: what the new variables add is left out *)
  <<>>

WithUnboundOnly(c, p) ==   (* faulty: the literal without a variable stays *)
  GenerateCandidateLiterals(p, VariablesPerArgument(c, p, KeyVariables(c, p)))

WithNewVariablesOnly(c, p) ==
  Front(GenerateCandidateLiterals(p, VariablesPerArgument(c, p, KeyVariables(c, p))))

ExtendedAndItself(c, old) ==   (* faulty: pop_back is missing *)
  Append(GenerateCandidateLiteralsFromAnother(old,
           VariablesPerArgument(c, old.predicate, KeyVariables(c, old.predicate))),
         old)

(* An old candidate with new variables, and as it was, unless it has just
   become a literal of the clause.                                         *)
Extended(c, old) ==
  Front(GenerateCandidateLiteralsFromAnother(old,
          VariablesPerArgument(c, old.predicate, KeyVariables(c, old.predicate))))
  \o (IF Last(c.body) = old THEN <<>> ELSE <<old>>)

NotPruned(p, stats) ==
  LET all == stats.generated[p]
  IN  FlattenSeq([k \in DOMAIN all |->
                    IF all[k] \in stats.pruned THEN <<>> ELSE <<all[k]>>])

-----------------------------------------------------------------------------
(* Replaceable duplicates.  A row gives the variables of the clause the
   values they have in some match of its literals with the rows of a
   relation, which here are literals of a clause again.                    *)

Fits(row, l, fact) ==
  \A i \in DOMAIN fact :
    l.args[i] # Unbound => row[l.args[i]] \in {Free, fact[i]}

(* A variable at several positions keeps the first value it is given. *)
Joined(row, l, fact) ==
  [v \in DOMAIN row |->
     IF row[v] = Free /\ PlacesOf(v, l) # {} THEN fact[Min(PlacesOf(v, l))]
     ELSE row[v]]

NestedLoopsJoin(l, facts, rows) ==
  {Joined(m[1], l, m[2]) : m \in {n \in rows \X facts : Fits(n[1], l, n[2])}}

Rows(literals) == {b.args : b \in Range(literals)}

JoinAll(literals, FactsFor(_), rows) ==
  FoldLeft(LAMBDA joined, l : NestedLoopsJoin(l, FactsFor(l), joined), rows, literals)

(* The literals of the other predicates, the predicate met last first: the
   order of an unordered_map with few integer keys.                        *)
OtherLiterals(c, p) ==
  LET Starts == {i \in DOMAIN c.body :
                   /\ c.body[i].predicate # p
                   /\ \A j \in 1..(i - 1) : c.body[j].predicate # c.body[i].predicate}
      starts == SetToSortSeq(Starts, >)
  IN  FlattenSeq([k \in DOMAIN starts |-> BodyWith(c, c.body[starts[k]].predicate)])

(* The first literal's values are assigned, so the last position counts. *)
FirstRows(c, l, facts) ==
  {[v \in 1..NumVariables(c) |->
      IF PlacesOf(v, l) = {} THEN Free ELSE fact[Max(PlacesOf(v, l))]] : fact \in facts}

CanonicalDatabase(c, p) ==
  LET others == OtherLiterals(c, p)
      FactsFor(l) == Rows(BodyWith(c, l.predicate))
      head == [args |-> HeadRow]
  IN  IF others = <<>>
      THEN {[v \in 1..NumVariables(c) |-> IF v \in HeadVariables THEN v ELSE Free]}
      ELSE NestedLoopsJoin(head, {HeadRow},
             JoinAll(Tail(others), FactsFor,
                     FirstRows(c, others[1], FactsFor(others[1]))))

OneWayOnly(c, l, existing, e) ==   (* faulty: the way back is not tried *)
  LET FactsFor(b) == Rows(existing)
  IN  NestedLoopsJoin(l, Rows(existing),
        JoinAll(RemoveAt(existing, e), FactsFor,
                CanonicalDatabase(c, l.predicate))) # {}

(* The clause with l in place of its literal e maps into the clause, and
   the clause into the one with l in place of e.                           *)
CanReplace(c, l, existing, e) ==
  LET database == CanonicalDatabase(c, l.predicate)
      remaining == RemoveAt(existing, e)
      Present(b) == Rows(existing)
      Replaced(b) == Rows(remaining) \cup {Numbered(l, NumVariables(c))}
  IN  /\ NestedLoopsJoin(l, Rows(existing), JoinAll(remaining, Present, database)) # {}
      /\ JoinAll(existing, Replaced, database) # {}

CheckReplaceableDuplicate(c, l) ==
  LET existing == BodyWith(c, l.predicate)
  IN  \E e \in DOMAIN existing : CanReplace(c, l, existing, e)

-----------------------------------------------------------------------------
NoLiterals == [p \in Predicate |-> <<>>]

(* known is FALSE while generated_candidate_literals is null.  gone is
   history: all that was pruned on the way to these statistics, with the
   number of literals the clause had then.                                 *)
NoStats == [known |-> FALSE, generated |-> NoLiterals, pruned |-> {}, gone |-> {}]

Init ==
  /\ pc = "enumerate"
  /\ clause = MostGeneral
  /\ last = NoStats /\ first = NoStats
  /\ generated = NoLiterals /\ offered = NoLiterals
  /\ clauses = 1

EnumerateForMostGeneralClauseFromScratch ==
  /\ clause.body = <<>> /\ ~last.known
  /\ generated' = [p \in Predicate |-> WithNewVariablesOnly(clause, p)]
  /\ offered' = generated'

EnumerateForMostGeneralClause ==
  /\ clause.body = <<>> /\ last.known
  /\ generated' = [p \in Predicate |-> NotPruned(p, last)]
  /\ offered' = generated'

EnumerateForNonMostGeneralClause ==
  /\ clause.body # <<>>
  /\ generated' =
       [p \in Predicate |->
          LET old == NotPruned(p, last)
          IN  WithNewVariablesOnly(clause, p) \o
              FlattenSeq([k \in DOMAIN old |-> Extended(clause, old[k])])]
  /\ offered' =
       [p \in Predicate |->
          LET all == generated'[p]
          IN  FlattenSeq([k \in DOMAIN all |->
                IF CheckReplaceableDuplicate(clause, all[k]) THEN <<>> ELSE <<all[k]>>])]

Enumerate ==
  /\ pc = "enumerate"
  /\ \/ EnumerateForMostGeneralClauseFromScratch
     \/ EnumerateForMostGeneralClause
     \/ EnumerateForNonMostGeneralClause
  /\ pc' = "evaluate"
  /\ UNCHANGED <<clause, last, first, clauses>>

AllOffered == UNION {Range(offered[p]) : p \in Predicate}

MoreSpecial(l, g) ==
  /\ l.predicate = g.predicate
  /\ \A i \in DOMAIN g.args : g.args[i] \in {Unbound, l.args[i]}

(* The evaluator finds out which candidates cover no positive example. *)
Evaluate ==
  /\ pc = "evaluate"
  /\ \E G \in BoundedSeq(AllOffered, MaxRuledOut) :
       LET none == {l \in AllOffered : \E g \in Range(G) : MoreSpecial(l, g)}
       IN  last' = [known |-> TRUE, generated |-> generated, pruned |-> none,
                    gone |-> last.gone \cup ({Len(clause.body)} \X none)]
  /\ pc' = "grow"
  /\ UNCHANGED <<clause, first, generated, offered, clauses>>

(* The clause is grown; the statistics of a most general clause are kept. *)
Grow ==
  /\ pc = "grow" /\ Len(clause.body) < MaxBody
  /\ \E l \in AllOffered \ last.pruned :
       clause' = AddUnBoundBodyLiteral(clause, l)
  /\ first' = IF clause.body = <<>> THEN last ELSE first
  /\ pc' = "enumerate"
  /\ UNCHANGED <<last, generated, offered, clauses>>

(* The clause is finished or dropped and another one begun. *)
StartClause ==
  /\ pc = "grow" /\ clauses < MaxClauses
  /\ clause' = MostGeneral
  /\ last' = first
  /\ clauses' = clauses + 1
  /\ pc' = "enumerate"
  /\ UNCHANGED <<first, generated, offered>>

Next == Enumerate \/ Evaluate \/ Grow \/ StartClause

Spec == Init /\ [][Next]_vars

-----------------------------------------------------------------------------
(* Properties. *)

(* A literal of a predicate that names variables of the clause only, one at
   least, each at an argument of its type.                                 *)
WellFormed(c, l) ==
  /\ l.predicate \in Predicate /\ l \in Literals(l.predicate, NumVariables(c))
  /\ PlacesOf(Unbound, l) # DOMAIN l.args
  /\ \A i \in DOMAIN l.args \ PlacesOf(Unbound, l) :
       c.types[l.args[i]] = ArgumentTypes[l.predicate][i]

(* Every variable keeps its type.  The parts that could go wrong: the
   literals of the clause and the candidates are well-formed, so that each
   has a variable the evaluator can join on (join_key, otherwise -1, is used
   as an index without a test).                                            *)
TypeOK ==
  /\ pc \in {"enumerate", "evaluate", "grow"}
  /\ clause.types \in Seq(Types)
  /\ \A k \in DOMAIN clause.body : WellFormed(clause, clause.body[k])
  /\ pc # "enumerate" =>
       \A p \in Predicate : \A l \in Range(generated[p]) :
         l.predicate = p /\ WellFormed(clause, l)
  /\ first.known => last.known
  /\ clauses \in 1..MaxClauses

(* No literal is generated twice, by whatever way its arguments were filled
   in over the steps: a second copy would be counted again and would tie
   with the first for ever.                                                *)
NoLiteralTwice ==
  pc # "enumerate" => \A p \in Predicate : IsInjective(generated[p])

(* What a literal was when the clause had k literals. *)
Was(c, l, k) ==
  LET known == VariablesOf(SubSeq(c.body, 1, k))
  IN  [l EXCEPT !.args = [i \in DOMAIN l.args |->
                            IF l.args[i] \in known THEN l.args[i] ELSE Unbound]]

IntroducedAsKey(c, v, p) ==
  \E k \in DOMAIN c.body : /\ c.body[k].predicate = p /\ Key[p] # 0
                           /\ c.body[k].args[Key[p]] = v
                           /\ v \notin VariablesOf(SubSeq(c.body, 1, k - 1))

(* The literals of a predicate that could be listed anew. *)
Listed(c, gone, p) ==
  {l \in Literals(p, NumVariables(c)) :
     /\ WellFormed(c, l)
     /\ \A k \in 0..Len(c.body) : <<k, Was(c, l, k)>> \notin gone
     /\ \A k \in DOMAIN c.body : l = c.body[k] => Was(c, l, k - 1) # l
     /\ \A i \in DOMAIN l.args : ~IntroducedAsKey(c, l.args[i], p)}

(* The candidates built up over the steps are exactly the literals that
   could be listed anew: those over the variables of the clause that no
   earlier step has pruned in the form they had then, that were not a
   literal of the clause before its new variables were numbered, and that
   do not use a variable which a literal of their predicate introduced as
   its key.                                                                *)
GeneratedIsComplete ==
  pc = "evaluate" =>
    \A p \in Predicate : Range(generated[p]) = Listed(clause, last.gone, p)

(* There is a literal of its predicate that l can replace, to the effect
   that each of the two clauses maps into the other and the head stays as
   it is.                                                                  *)
MapsInto(from, to) ==
  LET VariablesIn(B) == HeadVariables \cup UNION {Range(b.args) : b \in B}
  IN  \E m \in [VariablesIn(from) -> VariablesIn(to)] :
        /\ \A v \in HeadVariables : m[v] = v
        /\ \A b \in from :
             [b EXCEPT !.args = [i \in DOMAIN b.args |-> m[b.args[i]]]] \in to

IsReplaceable(l) ==
  LET body == Range(clause.body)
      new == [l EXCEPT !.args = Numbered(l, NumVariables(clause))]
  IN  \E b \in body :
        /\ b.predicate = l.predicate
        /\ MapsInto((body \ {b}) \cup {new}, body)
        /\ MapsInto(body, (body \ {b}) \cup {new})

HeldBack(p) == Range(generated[p]) \ Range(offered[p])

(* No candidate that says nothing new is offered, and where no literal has a
   variable at two positions a candidate is held back for no other reason,
   whatever joins over whichever canonical database have decided it.       *)
DuplicatesAreFound ==
  LET NamesTwice(l) == \E i, j \in DOMAIN l.args :
                         i # j /\ l.args[i] = l.args[j] /\ l.args[i] # Unbound
  IN  pc = "evaluate" =>
        \A p \in Predicate :
          /\ \A l \in Range(offered[p]) : ~IsReplaceable(l)
          /\ \A l \in HeldBack(p) : \/ IsReplaceable(l)
                                    \/ NamesTwice(l)
                                    \/ \E b \in Range(clause.body) : NamesTwice(b)

(* "is a replaceable duplicate of" (CandidateLiteralEnumerator.cpp:440), for
   every candidate that is held back.  The join compares each position with
   the values the row had before, so two positions of one variable that is
   free in the row are not compared with each other.                       *)
HeldBackIsReplaceable ==
  pc = "evaluate" => \A p \in Predicate : \A l \in HeldBack(p) : IsReplaceable(l)
=============================================================================
