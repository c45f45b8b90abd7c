----------------------------- MODULE TestRunner -----------------------------
(***************************************************************************)
(* The evaluation of learnt rules.  main loads the test file (LoadData)    *)
(* and divides it (CreateTestTableViews); QuickFoilTestRunner::RunTest     *)
(* takes the tests of a side through the rules: the body literals but the  *)
(* last are joined to them, the last one goes through the semi-joins of    *)
(* Coverage, and the tests no row of which is found are left for the next  *)
(* rule.  main reports how many each side has lost.                        *)
(*                                                                         *)
(* The semi-joins are used as by the learner: a behaviour is either a      *)
(* call of the learner or a run of the tests.                              *)
(***************************************************************************)
EXTENDS Coverage, LoadData, SequencesExt

CONSTANT Test   (* The runs that are explored, see TestAssumption.         *)

Fact == [from : Value, to : Value]

(* A rule joins a chain of literals, each by the variable the literal before it
   has brought in, and each with a new one but the last.                   *)
ASSUME TestAssumption ==
  \A t \in Test :
    /\ t.file \in File /\ \A n \in DOMAIN t.file : t.file[n] \in Value \cup {0}
    /\ t.numTestPositive \in 1..Cardinality({n \in DOMAIN t.file : t.file[n] # 0})
    /\ t.clauses \in Seq([prefix : Seq(Seq(Fact) \ {<<>>}), last : Seq(Value) \ {<<>>}])

VARIABLES
  caller,       (* "learner" or "tests"                                    *)
  test,         (* The configuration of the run.                           *)
  tests,        (* positive_table_view, negative_table_view                *)
  clause,       (* The number of the rule that is tested.                  *)
  literal,      (* Its body literals joined so far.                        *)
  bindingSet,   (* binding_set                                             *)
  numCovered    (* num_covered_positive, num_covered_negative              *)

testVars == <<caller, test, tests, clause, literal, bindingSet, numCovered>>
semiJoinVars == <<given, side, backgroundTable, clauseTable, coverageTable,
                  positiveTable, offset, chunk, covered>>

Clause == test.clauses[clause]
NoTests == [s \in Side |-> <<>>]
NoTest == [file |-> <<>>, numTestPositive |-> 0, clauses |-> <<>>]
AsBindings(rows) == [i \in DOMAIN rows |-> [head |-> rows[i], key |-> rows[i]]]

(* What ComputeUnCoveredData hands to the semi-joins. *)
CallFor(last, bindings, rows) ==
  [bindings |-> [s \in Side |-> bindings], background |-> last,
   examples |-> [s \in Side |-> rows], global |-> rows, shared |-> TRUE]

LearnerInit ==
  /\ caller = "learner" /\ Init
  /\ test = NoTest /\ file = <<>>

TestsInit ==
  /\ caller = "tests" /\ test \in Test
  /\ file = test.file
  /\ pc = "load" /\ side = "positive" /\ given = CallFor(<<>>, <<>>, <<>>)
  /\ backgroundTable = NoTable /\ clauseTable = NoTable
  /\ coverageTable = NoTable /\ positiveTable = NoTable
  /\ offset = 0 /\ chunk = NoChunk /\ covered = [s \in Side |-> {}] /\ uncovered = <<>>

TestInit ==
  /\ LearnerInit \/ TestsInit
  /\ LoadInit
  /\ tests = NoTests /\ clause = 0 /\ literal = 0 /\ bindingSet = <<>>
  /\ numCovered = [s \in Side |-> 0]
-----------------------------------------------------------------------------
LoadTests ==
  /\ pc = "load" /\ LoadNext
  /\ pc' = IF loading' = "dead" THEN "dead" ELSE "load"
  /\ UNCHANGED <<semiJoinVars, uncovered, testVars>>

BeginSide(s, rows) ==
  /\ side' = s /\ uncovered' = rows /\ clause' = 0

(* The positive tests come first in the file.  A row that was lost has some value. *)
CreateTestTableViews ==
  /\ pc = "load" /\ loading = "loaded"
  /\ \E lost \in [{i \in DOMAIN buffer : buffer[i] = Lost} -> Value] :
       LET rows == [i \in 1..numLines |->
                      IF buffer[i] = Lost THEN lost[i] ELSE file[buffer[i]]]
       IN  tests' = [s \in Side |->
             IF s = "positive" THEN SubSeq(rows, 1, test.numTestPositive)
             ELSE SubSeq(rows, test.numTestPositive + 1, numLines)]
  /\ BeginSide("positive", tests'["positive"])
  /\ pc' = "clause"
  /\ UNCHANGED <<given, backgroundTable, clauseTable, coverageTable, positiveTable, offset,
                 chunk, covered, loadVars, caller, test, literal, bindingSet, numCovered>>
-----------------------------------------------------------------------------
(* RunTest: the next rule begins with all tests of the side. *)
TakeClause ==
  /\ pc = "clause" /\ clause < Len(test.clauses)
  /\ clause' = clause + 1
  /\ literal' = 0 /\ bindingSet' = AsBindings(tests[side])
  /\ pc' = "extend"
  /\ UNCHANGED <<semiJoinVars, uncovered, loadVars, caller, test, tests, numCovered>>

(* The smaller table is hashed; a row of the other one is followed by its matches
   from the last one to the first.                                         *)
FactsOf(row, facts) == Reverse(RowsIn(facts, {f \in DOMAIN facts : facts[f].from = row.key}))
RowsOf(fact, rows) == Reverse(RowsIn(rows, {r \in DOMAIN rows : rows[r].key = fact.from}))

Extend(row, fact) == [head |-> row.head, key |-> fact.to]

Joined(rows, facts) ==
  IF Len(facts) < Len(rows)
  THEN FlattenSeq([r \in DOMAIN rows |->
         [i \in DOMAIN FactsOf(rows[r], facts) |-> Extend(rows[r], FactsOf(rows[r], facts)[i])]])
  ELSE FlattenSeq([f \in DOMAIN facts |->
         [i \in DOMAIN RowsOf(facts[f], rows) |-> Extend(RowsOf(facts[f], rows)[i], facts[f])]])

(* A table on no rows has no buckets: lookups read outside of it, and find
   nothing or a row that is not there, or the process dies.                *)
Extended(rows, facts) ==
  IF rows # <<>> THEN {Joined(rows, facts)}
  ELSE {<<>>} \cup {<<[head |-> v, key |-> facts[f].to]>> : v \in Value, f \in DOMAIN facts}

(* A rule that has no binding left covers nothing. *)
NothingLeft(rows) == rows = <<>>

CreateBindingTable ==
  /\ pc = "extend" /\ literal < Len(Clause.prefix)
  /\ literal' = literal + 1
  /\ bindingSet' \in Extended(bindingSet, Clause.prefix[literal + 1])
  /\ pc' = IF NothingLeft(bindingSet') THEN "clause" ELSE "extend"
  /\ UNCHANGED <<semiJoinVars, uncovered, loadVars, caller, test, tests, clause, numCovered>>

DieInJoin ==
  /\ pc = "extend" /\ literal < Len(Clause.prefix) /\ bindingSet = <<>>
  /\ pc' = "dead"
  /\ UNCHANGED <<semiJoinVars, uncovered, loadVars, testVars>>

SkipClause ==
  /\ pc = "extend" /\ literal = Len(Clause.prefix) /\ NothingLeft(bindingSet)
  /\ pc' = "clause"
  /\ UNCHANGED <<semiJoinVars, uncovered, loadVars, testVars>>

(* ComputeUnCoveredData, on the tests the rules before have left. *)
AllTests == tests[side]   (* faulty: found again by every rule *)
TestsLeft == uncovered

ComputeUnCoveredData ==
  /\ pc = "extend" /\ literal = Len(Clause.prefix) /\ ~NothingLeft(bindingSet)
  /\ given' = CallFor(Clause.last, bindingSet, TestsLeft)
  /\ backgroundTable' = NoTable /\ clauseTable' = NoTable /\ coverageTable' = NoTable
  /\ offset' = 0 /\ chunk' = NoChunk /\ covered' = [s \in Side |-> {}]
  /\ uncovered' = <<>>
  /\ pc' = "select"
  /\ UNCHANGED <<side, positiveTable, loadVars, testVars>>

(* The steps the test runner shares with the learner. *)
SemiJoinStep ==
  \/ SelectAndCreateSemiJoin \/ BuildHashTableOnTable
  \/ NextBindingChunk \/ InsertIfNotPresent \/ ChunkInserted \/ NextCoverageSide

NextUncoveredChunk ==
  /\ pc = "cover" /\ offset < Len(Examples)
  /\ LET width == SmallerOf(ChunkSize, Len(Examples) - offset)
         rows == SubSeq(Examples, offset + 1, offset + width)
     IN  \E found \in {BitVector(width, {i \in 0..width - 1 :
                                         IsFound(coverageTable, Rows, rows[i + 1])})} :
           uncovered' = uncovered \o RowsNotFound(rows, found)
  /\ offset' = offset + ChunkSize
  /\ UNCHANGED <<given, pc, side, backgroundTable, clauseTable, coverageTable, positiveTable,
                 chunk, covered, loadVars, testVars>>

EndClause ==
  /\ pc = "cover" /\ offset >= Len(Examples)
  /\ pc' = "clause"
  /\ UNCHANGED <<semiJoinVars, uncovered, loadVars, testVars>>

(* RunTest returns the number of tests that are left. *)
EndRunTest ==
  /\ pc = "clause" /\ clause = Len(test.clauses)
  /\ numCovered' = [numCovered EXCEPT ![side] = Len(tests[side]) - Len(uncovered)]
  /\ \/ side = "positive" /\ BeginSide("negative", tests["negative"]) /\ UNCHANGED pc
     \/ side = "negative" /\ pc' = "reported" /\ UNCHANGED <<side, uncovered, clause>>
  /\ UNCHANGED <<given, backgroundTable, clauseTable, coverageTable, positiveTable, offset,
                 chunk, covered, loadVars, caller, test, tests, literal, bindingSet>>

TestStep ==
  /\ caller = "tests"
  /\ \/ LoadTests \/ CreateTestTableViews
     \/ TakeClause \/ CreateBindingTable \/ DieInJoin \/ SkipClause
     \/ ComputeUnCoveredData
     \/ SemiJoinStep /\ UNCHANGED <<loadVars, testVars>>
     \/ NextUncoveredChunk \/ EndClause \/ EndRunTest

LearnerStep == caller = "learner" /\ Next /\ UNCHANGED <<loadVars, testVars>>

TestNext == LearnerStep \/ TestStep

TestSpec == TestInit /\ [][TestNext]_<<vars, loadVars, testVars>>

(* One thread runs the loops to their end. *)
FairTestSpec == TestSpec /\ WF_<<vars, loadVars, testVars>>(TestStep)
-----------------------------------------------------------------------------
(* Every variable keeps its type.  The parts that could go wrong: a position in a
   chunk or an example's bit never lies outside its table, and the rows that
   are left fit the buffer made for as many as there were.                 *)
TestTypeOK ==
  /\ caller = "learner" => TypeOK
  /\ caller = "tests" =>
       /\ pc \in {"load", "clause", "extend", "select", "build", "bind", "insert", "cover",
                  "reported", "dead"}
       /\ chunk.left > 0 => chunk.base + Position(chunk.at) < Len(Rows)
       /\ pc = "cover" => Len(uncovered) <= SmallerOf(offset, Len(Examples))
       /\ bindingSet \in Seq(Binding) /\ uncovered \in Seq(Value)
  /\ \A s \in Side : numCovered[s] \in 0..Len(tests[s])

(* No hash table is made on a table without rows: DCHECK_GT(size, 0). *)
TablesHaveRows ==
  caller = "tests" /\ pc = "extend" /\ literal < Len(Clause.prefix) => bindingSet # <<>>

(* A way through the literals of a rule from a test: a fact for each. *)
Ways(c, head) ==
  LET facts(k) == c.prefix[k]
      from(p, k) == IF k = 1 THEN head ELSE facts(k - 1)[p[k - 1]].to
      most == UNION {DOMAIN facts(k) : k \in DOMAIN c.prefix}
  IN  {p \in [DOMAIN c.prefix -> most] :
         \A k \in DOMAIN p : p[k] \in DOMAIN facts(k) /\ facts(k)[p[k]].from = from(p, k)}

EndOf(c, head, way) ==
  IF way = <<>> THEN head ELSE c.prefix[Len(way)][way[Len(way)]].to

CoversTest(c, head) ==
  \E way \in Ways(c, head) : \E i \in DOMAIN c.last : c.last[i] = EndOf(c, head, way)

(* The last literal meets the bindings of the rule in one chunk, or is the table
   that is probed.                                                         *)
IsTestedInOneChunk(c, s) ==
  LET bindings == UNION {{<<i, way>> : way \in Ways(c, tests[s][i])} : i \in DOMAIN tests[s]}
  IN  Cardinality(bindings) <= ChunkSize \/ Cardinality(bindings) < Len(c.last)

(* The lines of the file that are tests of a side. *)
LinesOf(s) ==
  {n \in DOMAIN file :
     IsRow(file, n) /\ (s = "positive" <=> RowNumber(file, n) <= test.numTestPositive)}

(* What is reported for a side is the number of its lines in the file that some
   rule covers, whatever the order of the rules, the growth of the buffer, the
   tables probed and the chunks; provided no row was lost and no binding table
   is probed in several chunks.                                            *)
ReportIsExact ==
  pc = "reported" /\ (\A i \in DOMAIN buffer : buffer[i] # Lost) =>
    \A s \in Side :
      (\A c \in DOMAIN test.clauses : IsTestedInOneChunk(test.clauses[c], s)) =>
        numCovered[s] = Cardinality({n \in LinesOf(s) :
          \E c \in DOMAIN test.clauses : CoversTest(test.clauses[c], file[n])})

(* Every run of the tests comes to its report, or dies. *)
TestsEnd == caller = "tests" => <>(pc \in {"reported", "dead"})
=============================================================================
