# QuickFOIL in TLA+

QuickFOIL is a top-down inductive logic programming learner: from background relations, positive and
negative examples of a target relation it learns Horn clauses that together cover the positive examples.
This directory models the learner and everything it calls between "begin a clause" and "clause learnt":
how candidate literals are generated, how they are counted by radix-partitioned joins, how they are ranked,
how binding tables are built and how the examples a clause covers are taken away; and how the learnt rules are
tested afterwards, from the lines of the test file to the counts that are reported. The models are checked
with TLC on small instances; the rule search with its refinement, the literal selector, the candidates that are generated, the evaluation plans, the radix partitions,
the counts, the binding tables, the hash tables and bit vectors, the coverage of a clause, the loading of files and the run of the tests
down to the numbers it reports are proved with TLAPS for all instances.

Paths below are relative to `src/`.

## The system

QuickFOIL is a single-threaded program. What is hard about it is not interleaving but *state that outlives
the thing it was computed for*: snapshots of the uncovered examples, pruning statistics, selectors and
clauses are kept, shared, resumed and retried in an order the data decides; tables are processed in chunks,
partitions and cache lines, with unchecked writes into buffers sized by somebody else's counts.

| Component | State | Operations | Hard parts | What makes it correct | Module |
|---|---|---|---|---|---|
| Rule search, `learner/QuickFoil.cpp` | building states chained by `previous_state`, global uncovered positives, learnt clauses, stack of tied literals, statistics of the first iteration | `Learn`, `AddBestCandidateLiteral`, `AddBuildingClauseWithNewLiteral` | three nested loops; resumed, shared, mutated states; old snapshots | uncovered set is exact, pruning is sound, regrowing is safe, budgets hold, it ends | `QuickFoil` (+ `SetCover`, `SearchLimits`, `QuickFoilProofs`) |
| Literal selector, `learner/LiteralSelector.*` | bounded heap of scored literals, one remembered random literal | `Insert`, `GetBestLiteral`, `GetNextBestLiterals` | eviction of whole tie groups; tolerance ties; a random literal jumps the queue | the best is kept, groups come best first, nothing is lost or repeated | `LiteralSelector` |
| Candidate enumerator, `learner/CandidateLiteralEnumerator.*` | candidates and pruning of the last step | the three `Enumerate...` functions, `CheckReplaceableDuplicate` | candidates are built up over the steps of a clause | complete, no duplicates, exactly the replaceable ones withheld | `CandidateLiteralEnumerator` (+ `EnumeratorProofs`) |
| Candidate evaluator: plan, `learner/CandidateLiteralEvaluator.cpp` | vector of conjunction nodes | `GeneratePredicateEvaluationPlan` | pointers into a growing vector; greedy merging that must end | every literal gets one node that tests its atoms | `EvaluationPlan` |
| Candidate evaluator: counting, `operations/{RadixPartition,PartitionAssigner,HashJoin,Filter,CountAggregator}*` | groups of candidates, partitions, write buffers, position in table/partition/group/chunk, bit vectors of rows seen | `EvaluateAllCandidateLiterals`, `Partition`, `Next` of each operator, `Execute` | candidates named by position in their group; cache-line copies; bits that mean other rows in the next partition | partitions and all four counts of every candidate are exact; it ends | `RadixPartition`, `LiteralCounting` |
| Binding tables, `operations/MultiColumnHashJoin.cpp` | output buffers and offsets | `CreateLabelAwareBindingTables`, `CreateBindingTable` | unchecked writes into counted room; two parts in one buffer | nothing behind the room, nothing overwritten, exact contents | `BindingTables` |
| Coverage, `operations/*SemiJoin*`, `operations/BuildHashTable.cpp`, `storage/FoilHashTable.cpp`, `utility/BitVector*` | hash tables (bucket and next arrays), chunk being inserted, iterator over its bits, covered bits | `ComputeCoverageOnUncoveredData` and the second half of `AddBuildingClauseWithNewLiteral` | chunked insertion; an iterator without an end; two snapshots of the examples | chains end, coverage exact, output fits | `Coverage`, `ChainedHashTable`, `BitVectors` |
| Test runner, `learner/QuickFoilTestRunner.cpp`, and the test part of `main/main.cpp` | tests a side has left, binding table of the rule | `CreateTestTableViews`, `RunTest`, `ComputeUnCoveredData` | what one rule leaves is all the next one sees, but bindings start from all tests; empty sides | the report is the number of lines some rule covers | `TestRunner` |
| Loading, `LoadData` in `main/main.cpp` | growing column buffers and pointers into them | one turn per line | capacity tested one row late; pointers into moved memory | every row in its slot, one row of overrun at most | `LoadData` |
| Configuration, printing, timers, memory accounting, arena, types | none that interacts | | | | not modelled, see below |

Interaction: `Learn` asks the enumerator for candidates (with the statistics the evaluator left behind),
the evaluator builds one plan per predicate and join key and runs the counting pipeline over the clause's
binding tables, feeding each counted literal to the selector; `Learn` takes the selector's best group,
grows the clause (binding tables) or finishes it (coverage), and pushes ties on its stack. All calls are
synchronous; what is shared are the reference-counted states and tables. After learning, `main` hands the rules to
the test runner, which uses the join and the semi-joins of the learner on the tests.

## Modules

### `QuickFoil` - the rule search

One TLA+ action per loop step of `Learn`. `building` is `building_state_` with its chain of
`previous_state`, oldest first (`<<>>` is the null pointer); `tied` is `tied_literal_infos_`, each entry
with the chain it refers to; `uncovered` is `global_uncovered_positive_data_`; `firstPruned` is
`literal_serarch_stats_for_first_iteration_`; `saved`, `vec`, `best`, `isRandom`, `pruned`, `own` are the locals
of one turn. `pc` names the place in the loop, and the ways the process can die:
`division_by_zero` (QuickFoil.cpp:217), `failed_check` (:238), `null_dereference` (release build after :275/:287).

States are values although the code shares them by pointer. That is sound because a state is mutated only
while it lies below the top of the building chain, before any tied literal refers to it. All states of one
chain share the snapshot taken when the clause was started, so the number of locally uncovered examples,
which the code computes before it falls back, is the one of the top state here.

Data are constants: `Bindings[b][e]` and `CoveredBindings[b][l][e]` say how many bindings body `b` has for
example `e` and how many of them `l` extends; `Uses` says which literals introduced the variables `l` reads.
Scores are real-valued functions of the data, so `Rankings` chooses any order into tie groups that the
selector could produce. Percentages are integers; `MaxUncovered` reproduces the truncation of the binary64
product `n * (1 - 0.8)`. With no covered example the precision of a clause is NaN and every comparison
with it fails; `Accepts` says so with `c > 0`, hence `TruePrecision >= 1` percent.
A clause may get one literal more than `maximum_clause_length`: the length is tested before the last
literal is added (`SearchLimits` says what follows). The memory quota is never exceeded, as in the shipped
configuration (monitor compiled out); DCHECKs are off.

`SetCover` is the abstract specification: rules are accepted one at a time, each good on the set of examples
that was uncovered now or some rules ago, and what stays uncovered is exactly what no rule covers.
`ImplementsSetCover` is the refinement, with the identity on `uncovered` and `learnt`.

### `SearchLimits` - what the flags limit

`CountedSpec` is the rule search with one history variable, `failed`, the number of random literals that were undone
since the last rule ended. The code has no such number: `black_random_literals` belongs to a state, is handed to the
states grown from it, and what is entered into a state on falling back is not known to the states below. With t
trials left and r random literals to come, the first of them may therefore fail after t and r - 1 have failed above
it, and leaves t - 1 and r: the number of failures in one iteration is less than the binomial coefficient
(t + r choose r), which is `TrialsAreBounded`. With the defaults, 5 trials and 2 random literals, 20 may fail. The
texts of two flags promise less (`TrialLimit`, `LengthLimit`); `OneLimitHolds` follows from either, and does not hold.

### `LiteralSelector`

`Insert` of each candidate in any order, then one `GetBestLiteral`, then `GetNextBestLiterals`. Scores are integers
in units in which "closer than the epsilon" is `< Tolerance`. The heap evicts *all* literals that
share the lowest score, so it can hold fewer than `num_saved_literals`; `KeptUnlessOutranked` states what is
guaranteed regardless. Whether a literal is eligible as random is data (`isRandom`).

### `CandidateLiteralEnumerator`

Follows one learner: enumerate, evaluate (which may rule out a literal and all its specialisations), grow,
and start over with the statistics of the first iteration. Variables are numbered from 1 in order of
appearance; 0 is the code's -1. A canonical relation is a set of rows. The history field `gone` of the
statistics collects everything that has been pruned on the way, each literal with the number of literals the clause had
then: a literal that is generated later with a new variable may look like one that was pruned before that variable was
there. It is read by `GeneratedIsComplete` only.
The order of the hash map of predicates is libstdc++'s (newest first while every id has its bucket).
Worth knowing: the key rule keeps a key variable out of *every* argument of a new literal of the predicate,
not only out of the key position, and it never acts on variables that are already in an old candidate.
Recursive clauses are left out, as `main.cpp` never makes the target a background predicate.

### `EvaluationPlan`

A machine of its own without an `Init`: `StartPlan` enters `GeneratePredicateEvaluationPlan` with the tests of
each literal, `Merge` is one turn of the merging loop, with the pair search in the code's order (an `unordered_set`
of small integers iterates newest first), and the plan is what is left when every literal has its node. Literals are
sets of atoms; nodes are records with the code's fields; what is kept of them is a set (`Kept`), and a node's place
in the plan its rank there. The two merged nodes are read through pointers after
`emplace_back`. When the vector has to grow (its capacity doubles) the old memory is freed and the read may give
the old values, emptied ones or a crash: a nondeterministic choice.

### `RadixPartition` and `LiteralCounting`

`RadixPartition` is one row per step: the row goes to its partition's write buffer, a full buffer is copied
to the output as a whole cache line, and at the end the remains are copied. `LiteralCounting` composes it with
`EvaluationPlan` into the whole of `EvaluateAllCandidateLiterals`: candidates are relations with a clause variable for
each argument; for each clause variable they are grouped by relation and join key, a plan is made for each group,
the bindings are partitioned in both passes of `Evaluate` (both sides together, or one after the other when the
binding data is not consecutive), hash tables are built on the partitions, and one `Count` per chunk of joined rows
counts for all plan nodes. The counts of a candidate are found by its position in its group. The background tables'
partitions are what `RadixPartition` is shown to establish. That a node tests what its literal asks for is
`PlanIsExact`, and that the counts come out right whatever plan was made is `CountsAreExact`.

### `BindingTables`

Extends `LiteralCounting`: once a literal is counted, its binding table can be built. For the learner the four
counts size the buffer, positives first; for the test runner the buffer grows. One block of
`join_chunck_size` probe rows per step. The hash tables of the joins are built row by row, with the arrays of
`ChainedHashTable` and any hash of the keys (`KeyHash`); a chain is walked from its last row. All bound arguments are
compared, however many: the templates for six keys loop over the vector of keys (`utility/Hash.hpp:71`).

### `ChainedHashTable`, `BitVectors` and `Coverage`

`ChainedHashTable` has the bucket and next arrays as they are. `Next` entries are allocated and not cleared:
`Unwritten` is what lies there. Walks along a chain are least closed sets, so a cyclic chain is a value that
`ChainsEnd` can talk about and not a definition that fails to evaluate. `BitVectors` has bits in blocks of
`BitsPerBlock` (64) and the iterator, a block and a bit in it; it knows no end, and `Behind` stands for what it reads
when it is asked once too often. `Coverage` has one action per row inserted and per chunk probed. A chunk is its first
row, its bits, the number of them that are left (`num_ones`) and the iterator. Reads behind the end of a chunk's
columns are nondeterministic. A binding's join keys are abstracted to one value.

### `LoadData`

One turn of the loop of `LoadData` per step, comments and empty lines included, for one column (all are treated
alike). A slot holds the number of the line written there. The row that finds the buffer full is written behind its
end, as the capacity is compared with the rows read so far; it is found there later, or something else is (`Lost`),
or the process dies in the allocator.

### `TestRunner`

Extends `Coverage` and `LoadData`. `caller` says which of the two users of the semi-joins a behaviour is about: a call
of the learner (`LearnerStep`) or a run of the tests (`TestStep`), from loading the file to the report.
`ComputeUnCoveredData` sets up the semi-joins, whose actions are those of `Coverage`, and the rows that are not found
are appended chunk by chunk. The literals of a rule before the last are joined in one step each: block by block they
are the business of `BindingTables`. Rules are chains of binary literals with a unary one at the end. Lookups in a
hash table on no rows may find nothing, find some row, or kill the process. The number of positive tests is assumed
not to exceed the rows of the file (`TestAssumption`).

## What is checked

`tlc -config X.cfg M` in this directory. Twelve runs, all of them within three minutes.

| Run | Module, configuration | Checks | Shows |
|---|---|---|---|
| learner | MCQuickFoil, QuickFoil | `TypeOK`, `UncoveredIsExact`, `SnapshotsContainUncovered`, `PruningIsSound`, `RegrowIsSafe`, `RandomLiteralsPayOff`, `TrialsAreBounded`, `ImplementsSetCover`, `Terminates` | with random literals that can follow each other and be undone one after the other, regrowing always finds a literal, random literals inside a clause pay off and not more of them fail than the binomial bound; with literals that tie, tried on old snapshots after another rule was learnt, no example is lost or resurrected; `Learn` ends |
| search_limits (violation) | MCQuickFoil, QuickFoilLimits | `OneLimitHolds` | in one search two random literals fail with one trial, and a clause of three literals is learnt with a limit of two |
| stops_at_threshold (violation) | QuickFoilStops | `StopsAtThreshold` | the loop over tied literals begins a clause although the threshold is reached |
| no_candidate (violation) | QuickFoilNoCandidate | `TiedLiteralIsLeft` | a clause whose candidates run out aborts the process |
| coverage | MCTestRunner, Coverage | `TestTypeOK`, `ChainsEnd`, `CountMatchesBits`, `CoverageIsExact`, `OutputFits`, `LearntRuleTakesItsExamples`; `OverrunIsOneRow`, `RowsAreLoaded`, `ReportIsExact`, `TestsEnd` | calls of the learner: colliding hashes, examples that occur twice, tables around the chunk size, bits in several blocks; runs of the tests from the file to the report, which is right, for every order of two rules |
| coverage_precision (violation) | MCTestRunner, CoveragePrecision | `LearntRulesArePrecise` | a binding table of two chunks makes an imprecise clause pass |
| test_empty (violation) | MCTestRunner, TestRunnerEmpty | `TablesHaveRows` | a side without tests is joined, so a hash table is made on no rows |
| selector | MCLiteralSelector, LiteralSelector | `TypeOK`, `BestScoreIsKept`, `KeptUnlessOutranked`, `OffersRankTheHeap`, `RandomIsBest` | every arrival order of four candidates over nine kinds |
| literal_counting | MCLiteralCounting, LiteralCounting | `PlanTypeOK`, `PlanIsExact`, `PlanIsClosedAndLean`, `SomePairIsLeft`; `TypeOK`, `PartitionsAreExact`, `CountsAreExact`, `CountingEnds`, `StuckForEver`; `TablesTypeOK`, `RowsAreKept`, `BindingTableIsExact` | the whole way from bindings and candidates over plans and counts to the new binding table, and families of literals over two and three arguments, nearly all in every order, among them those whose plan is never finished |
| literal_counting_null (violation) | LiteralCountingNull | `FirstChunkExists` | a pass in which nothing joins uses a chunk that is not there |
| enumerator | MCCandidateLiteralEnumerator, CandidateLiteralEnumerator | `TypeOK`, `NoLiteralTwice`, `GeneratedIsComplete`, `DuplicatesAreFound` | every clause of two literals, whatever an evaluation rules out |
| enumerator_held_back (violation) | EnumeratorHeldBack | `HeldBackIsReplaceable` | a literal with a repeated variable is withheld for nothing |

Each property of a passing run is broken by at least one plausible fault, listed under `mutants` in
`PROJECT.json`; the faulty variants stand in the modules just before the definition they would replace,
marked `faulty`.

### Findings

* **Chunks of a left semi-join** (`coverage_precision`): positions counted from the chunk are inserted into a
  table that is probed with positions of the whole binding table. From 32768 bindings on (the default chunk),
  coverage is wrong in both directions. Chains still always end.
* **First chunk** (`literal_counting_null`): when no fact joins in a pass, the aggregator reads through null.
* **Repeated variables** (`enumerator_held_back`): the replaceable-duplicate test does not compare two positions
  of a free variable with each other, so literals that do say something new are withheld.
* **Empty side** (`test_empty`): if all tests are positive, the first join of the negative side makes a hash table on
  no rows, against the `DCHECK` in its constructor; a release build reads outside of it.
* **Threshold** (`stops_at_threshold`): tied literals may cover everything, a clause is begun all the same, and the
  number of uncovered examples it divides by is zero (`division_by_zero`).
* **Fruitless clause** (`no_candidate`): a `CHECK` ends the process when a clause has no candidates left and no tie is
  waiting.

* **Limits of the search** (`search_limits`): two random literals fail in one iteration with
  `maximum_random_trials` 1, "the maximum number of failed random literals for a rule search iteration"
  (`learner/QuickFoil.cpp:66`), as each state has a list of its own; and a clause of three literals is learnt with
  `maximum_clause_length` 2, "the maximum number of literals in one learnt clause" (:58), as random literals are
  stacked and last literals accepted without looking at the length.

One more thing a user should know, although no text of the repository says anything it would contradict: the merging
loop of the evaluation plan need not end. Once a pair makes no literal, it is the first to share the most literals for
ever after (`StuckForEver`), and the vector of nodes grows until memory is used up. This takes a predicate of arity four
or more, and for example a group of candidates whose only literal tests three arguments besides the join key, the
shorter ones being pruned; or two variables for one of the three arguments. `CountingEnds` therefore has a condition,
`IsStuck`, in the open, and `SomePairIsLeft` says that predicates of up to three arguments are safe.

### Bounds

* Learner: 4 positive and 2 negative examples, 5 literals and a heap of 2. q and r only introduce a variable and s
  reads that of r to introduce another: the least that lets the search fall back twice with something left to try. a
  is precise, and c lets the negative examples through. At most 2 rules, 1 failed random trial per state, a length
  limit of 2, which random literals pass, and tied literals from a coverage of 60% on. `no_candidate` needs longer
  clauses (4): there the rule a is learnt, and q, c, r and s are then taken one
  after the other without being random, while a is pruned. `stops_at_threshold`
  has 4 literals of which two split the positives and two overlap them, with 3 rules.
  Literals are a fixed finite set, as in schemas of unary predicates; the enumerator model has the general form.
* Coverage: up to 3 bindings, 4 facts, 3 examples, chunk of 2, hashes that collide pairwise: tables below, at and above
  a chunk on either side of every comparison of sizes. Blocks of 2 bits, and 5 bindings with 6 facts, so that a
  vector has three blocks, the middle one of which may be empty. 4 bindings (two full chunks) for the violation.
* Tests: files of up to 6 lines with comments, buffers that start with 2 rows, so that the row behind the end comes at
  the first and at the next growth; one or two rules out of six with no, one or two literals before the last, whose
  facts branch, meet again and lead nowhere.
* Selector: heap of 2, 4 candidates: evictions of a group, refills by worse literals and ties that are not
  transitive all occur.
* Counting: 4 partitions, cache lines of 3 slots, chunks of 2 rows, up to 5 bindings; a unary and a ternary
  relation with a conjunction and two join keys, a binary relation joined on either of two clause variables, bindings
  that nothing joins.
* Plan: every family of three or more of six literals over two arguments besides the key, with two variables for each
  of them; and families over three such arguments: all literals with one variable each, which gets a plan; without some of the
  shorter ones; and with two variables for an argument, where merging may be stuck for ever. 15 nodes (`MaxNodes`) are
  more than any plan that is finished needs, and enough to see that a merge that is stuck stays so.
* Enumerator: one keyed and one unkeyed binary relation, a unary head, bodies of up to 2 literals
  (`MaxBody`), 2 clauses (`MaxClauses`), and one most general literal (with all below it) ruled out per evaluation
  (`MaxRuledOut`).

`CHECK_DEADLOCK FALSE` appears where the model is of a function that returns; the learner has an explicit final
stutter instead, so its runs check for deadlock.

### Fairness

`FairSpec` and `CountedSpec` of the learner have weak fairness of `Step` as a whole, `FairBindingSpec` that of the planning and counting
loops and `FairTestSpec` that of the steps of a run of the tests: one thread that never waits runs to its end. No
fairness is assumed of single actions. Termination of the learner therefore rests on the counters and sets the code keeps, not on
favourable choices.

## What is proved

`tlapm <module>.tla` checks each of the modules below. All theorems hold for every value of the constants that the
assumptions named in the models allow; no others are made.

### The rule search

`QuickFoilProofs`, for every data set, every set of flags and every ranking:

* `TypeCorrect`: `Spec => [](TypeOK /\ HasBuilding /\ RandomOnTop)`. Beyond types: while the literal search runs there is
  a building state, a tied literal refers to a chain that is not empty, and every state of a chain above the first
  ends in a random literal.
* `SnapshotsCorrect`: `Spec => []SnapshotsContainUncovered`, and `CoverCorrect`: `Spec => []UncoveredIsExact`.

`UncoveredIsExact` is not inductive: that removing what a clause covers *on an old snapshot* from the current
set removes everything it covers needs that the snapshot contains the current set. So the inductive invariant
adds that for every state something may still build on, in the building chain and below every tied literal
(`SnapshotInv`); it is preserved because `uncovered` only shrinks and a new state takes
its snapshot from an older one or from `uncovered` itself. `TypeInv` is proved first and used throughout.
One lemma per action, type lemmas for the operators on states and sequences before them.

On it stand:

* `PruningCorrect`: `Spec => []PruningIsSound`,
* `BudgetCorrect`: `Spec => []RandomBudget`, which is what a single state keeps to: its random literals, the failures it
  remembers, and a length that only random literals exceed (what a whole iteration keeps to is `TrialsAreBounded`, see below),
* `RandomLiteralsCorrect`: `Spec => []RandomLiteralsPayOff`,
* `RegrowCorrect`: `Spec => []RegrowIsSafe`,
* `LearnerImplementsSetCover`: `Spec => ImplementsSetCover`, the refinement: `Init` implies the initial predicate of
  `SetCover`, and every step is a step of it or leaves its variables alone.

Their inductive invariant is `SearchInv`. Each of its parts is there because one action needs it:
`Linked` says of two neighbours of a chain that the upper one was stacked for a random literal, within the budgets of
the lower one, that the lower one has a selector left to fall back on, and that what is pruned for the upper one was barren
for the lower one already: falling back gives up the upper state and goes on with the lower one, so all that
is then needed of it must hold when the upper one is pushed. `TurnInv` relates the locals of one turn of the loop
(`saved`, `best`, `isRandom`) to the state on top. `StatsInv` is `PruningIsSound` for the three places where statistics wait:
with the first iteration of the next clause, the turn at hand, and the tied literals. `StatesInv` holds the budgets of every state that
is alive; that each state of the next step comes from one of this step (`Derived`) lets it be proved once for all
actions. For the refinement, `OriginInv` adds of every live state the moment its clause was started, which is the witness
the abstract step asks for.

### The literal selector

`LiteralSelectorProofs`, for every finite set of candidates, all scores, every tolerance and every bound of
the heap, has all the safety properties of the selector: `SelectorTypeCorrect` (`TypeOK`), `HeapKeepsTheBest`
(`BestScoreIsKept`), `HeapKeepsTheUnmatched` (`KeptUnlessOutranked`), `RandomKeepsTheBest` (`RandomIsBest`) and
`GroupsComeBestFirst` (`OffersRankTheHeap`).

The inductive invariant `SelectorInv` adds to the properties that every ranked literal is matched by one of the heap
(`HeapInv`; `BestScoreIsKept` follows), that what was handed out is better than all that is saved (`OfferInv`), and
that nothing is saved before the first group (`SavedInv`: until then the heap may still lose literals). That a set
of scores has a lowest one comes from the well-foundedness of `<` on `Nat`; that a finite set of literals has one of
the highest score, from that fact applied to the numbers of literals above each.

### The candidates

`EnumeratorProofs`, for every schema with or without keys, every length of a clause, and whatever the evaluations rule
out:

* `EnumeratorTypeCorrect`: `Spec => []TypeOK`,
* `NoLiteralTwiceCorrect`: `Spec => []NoLiteralTwice`,
* `GeneratedCompleteCorrect`: `Spec => []GeneratedIsComplete`.

The argument goes backwards: a literal over the variables of a clause was one literal before the last literal came
(`Was`), or the one without variables, and has become what it is by filling in new variables (`BecomesFrom`). So the literals
that could be listed for the clause are those that come from one that could be listed before, or from the one without
variables, and are not the literal just added as it was then (`ListedOfStep`). It rests on three facts. New variables
are numbered behind the old ones, so the variables that were there after each literal stay the same (`GrowsByStep`). A new variable
that is a key is a key of the last literal (`KeysOfStep`). What was ruled out is compared with what the literal was when that
happened, and being that has not changed since (`RuledOutOfStep`).

That filling in gives each of these literals once is about sequences (`FillLists`, `FillingsAreListed`): the arguments are filled from
the first to the last, by a recursive function that is met by a witness, the first choice in place and the others behind, so
that the literal itself comes last and is removed by position (`FrontLists`). The lists of two old candidates have nothing
in common, since a literal was one literal only (`NextIsListed`).

The inductive invariant `EnumeratorInv` says of statistics which clause they list the candidates of: the one at hand; or the
one before, from which the clause has come by a well-formed literal (`HasComeFrom`); and those kept for the next clause
the head alone (`AreForTheHead`).

### Bit vectors, hash tables and coverage

`StructureProofs`, for every size and every hash of a table: `PushKeepsChains`, `PushKeepsRows` and `WellChainedEnds`.
A row that is not in the chain of its hash may be inserted, even if it is in another chain, whose next
position is then overwritten: all chains still end. A walk is the least set that is closed under the next positions, and the
argument needs no induction: the rows of a chain before an insertion, with the new one, are closed after it, so they
contain the new chain (`WalkIsLeast`, `WalkIsClosed`). If the row is in no chain at all, no chain loses a row either.

`CoverageProofs`, for every width of a block and every vector: the iterator begins at the first set bit
(`FirstBitIsVisited`) and goes from each to the first one behind it, across empty blocks too, provided there is one
(`NextBitIsVisited`). The lemmas translate both to positions, where a block and a bit in it are a quotient and a remainder.

There too, for all tables, every size of a chunk and every hash:

* `ChainsCorrect`: `Spec => []ChainsEnd`, and `CountsCorrect`: `Spec => []CountMatchesBits`, from the inductive invariant
  `JoinInv`: the table that is built holds exactly the rows up to the loop's position; a chunk's bits that are not done
  are those from the iterator on; the table of the heads is well chained. The last part is the delicate one, as rows are entered
  at the position they have in their chunk: the row at hand is never in the chain of its own head already, or it would
  have been compared with itself, in the columns it was taken from, and found equal.
* `CoverageCorrect`: `Spec => []CoverageIsExact`, from `ExactInv`: with one chunk the bits are the rows some fact matches
  (`Matched`); of the heads of those that are done, the table has each (`Knows`), of the others (`Pending`) none need be there;
  and what is covered so far are the true ones of the examples looked up so far.
* `CallTypeCorrect`: `Spec => []TypeOK`, `OutputCorrect`: `Spec => []OutputFits`, and `LearntRulesCorrect`:
  `Spec => []LearntRuleTakesItsExamples`, from `RulesInv`, which adds to `ExactInv` that the table of the positives, once they are
  counted, finds the examples that were counted as covered (`PositiveInv`) and that what is collected are the rows, up to
  the offset, that it does not find (`CollectInv`). A clause may have been counted on older examples than the rows it
  is collected from (`given.global`). These are among the older ones, in their order, so those not found map one to
  one into the examples that were not counted, which is the size of the buffer.

`StructureProofs` is also about "the rows at the positions of a set, in their order" (`RowsIn` of `Selection`), which
`SelectSeq` would say as well, but as a recursive function that no proof can look into. Here the k-th row is the one whose rank in
the set is k, and the lemmas say what ranks do: the next member has the next rank, rows appended behind a table
have ranks that continue (`RankBehind`), and the selections of the parts of a table, one behind the other, are the
selection of the whole (`NextRowsIn`), which is what collecting chunk by chunk needs. `RowsAtOnes` of `CoverageProofs` joins it to the
code's way: following the iterator from its first position for as many rows as there are set bits gives the rows at the
set bits. The iterator's recursion is met by a witness, the function that lists the set bits, and two functions that start
alike and follow it alike cannot have a first place where they differ.

### Radix partitioning

`LiteralCountingProofs`, for all bindings of both sides, every hash, every number of partitions and every size of a cache
line: `PartitionsCorrect`, `BindingSpec => []PartitionsAreExact`, of the whole machine that groups, plans, partitions,
counts and builds tables, as partitioning is started anew for each group, table and pass.

Where a row ends up is known from the start (`SlotOf`): the offset of its partition and the number of the partition's rows before it.
The invariant (`PartitionInv`) says of a row that was routed where it is now: in its slot, if the cache line of that slot
was copied or the rest of its partition was, and in the slot's place of the write buffer otherwise. What could go wrong is the copy of a whole
line, which carries along whatever the buffer holds in the slots before the partition's first: those belong to other
partitions. Nothing that was placed is lost by it, because a line is copied whole only by the partition that owns its last
slot, so the others that reach into it have not copied it themselves (`OtherLinesStay`); they copy their own slots, and no others,
when all rows are routed. That offsets of
partitions do not overlap is a fact on counting rows below a partition (`StructureProofs` has the powers of two).
The number of radix bits is 30 at most, as `1 << NumRadixBits` is an `int` (`RadixAssumption`).

### The evaluation plan

`LiteralCountingProofs` is first about one plan: any family of literals that differ in their tests, whatever pairs of nodes
are merged, in whichever order, and although a merge may have read its nodes too late. Later it shows of the whole
machine, for all candidates of every call, that such families are all it makes plans for, and concludes:

* `PlanTypeCorrect`: `BindingSpec => []PlanTypeOK`,
* `PlanExactCorrect`: `BindingSpec => []PlanIsExact`,
* `PlanLeanCorrect`: `BindingSpec => []PlanIsClosedAndLean`.

The inductive invariant `PlanInv` is that of one plan, and `PlanningInv` that of the machine:

* `LiteralsInv`: the literals differ in their atoms. For the machine this needs that candidates of one clause variable, relation and
  join key differ in their other bound arguments (`TestsDiffer`), and that each group has the candidates of one key
  and no others (`TablesInv`; `TablesAreMade`, `TestsOfGroup`).
* `NodesInv`: a conjunction's parts are two different nodes before it, and its reference count is the number of nodes it is a part of.
  That a pair to merge is there at all needs that every atom can be merged with some other (`SomePair`): without it
  the best pair would be arbitrary.
* `FoundInv`: the literals that were found are those that nodes hold, each by one node: once found, a literal is erased from
  every node, the one just appended included.
* `TestsInv`: what the tree below a node tests is a recursive function, and is met by a witness that is carried along. A node
  that may still find a literal has the atoms its tree tests. A node whose parts were read too late has no literals left
  to find, so that it tests something else does no harm: this is why the race on the vector leaves every plan exact.

For `PlanIsClosedAndLean` the reference counts after the last pass (`References`, recursive again) are counts of users that
are needed (`CountsAreReleased`): needed are the nodes in every set that holds the nodes with a literal and is closed under parts.

Two more theorems say when a plan is finished, for every family of literals:

* `PairsCorrect`: `BindingSpec => []SomePairIsLeft`: while a literal is missing, two nodes that need it can be merged, and they
  make a literal unless a missing one has three tests or more;
* `StuckCorrect`: `BindingSpec => StuckForEver`: a merge that makes no literal is chosen again in every turn.

Their invariant is `MergingInv`. An atom has exactly the missing literals that test it, and may be merged with every other atom
(`AtomsInv`); the literals of a node contain its atoms (`NeededInv`); and what a node may be merged with has other atoms and
comes after it, unless both are atoms, while of two nodes with different atoms and a literal in common the earlier may be merged with the later
(`CanMergeInv`). So a missing literal always has two atoms that share it, and if the best pair makes none, some literal it
shares has more than the two atoms or more that the pair has together. The node that is then appended shares
with any other node no more than its parts do, and it comes last, so it never gets ahead of the best pair, which stays the first that
shares the most.

### The counting of literals

For all bindings, facts and candidates, every hash, every number of partitions and every size of a chunk,
`LiteralCountingProofs` has what the counting relies on and `CountsProofs` what it achieves:

* `KeptPlansCorrect`: the plan that is kept with a group finds, for every fact and binding, exactly the literals of the
  group that hold, although literals are named by position and plans are made one after the other (`PlansInv`);
* `LookupsCorrect`: a lookup in the table of a partition finds the rows with the value and no others (`HashInv`: as many rows of each
  partition are inserted as have been passed in the order of the output, each once, in the chain of its hash);
* `CountingTypeCorrect`: `BindingSpec => []TypeOK`; the part that could go wrong is the assigner's position;
* `CountsExactCorrect`: `BindingSpec => []CountsAreExact`.

The invariant for the last, `CountsInv`, says of every literal what its counts are in the middle of a pass. The facts of its group
that have come past are a set; the number of bindings counted is the number of
pairs of a binding with a fact of that set (`PairsOf`), the number of covered ones that of the bindings in such
pairs (`Paired`). The semi bits stand for positions in the partition of the group's last chunk that joined, and are
those of the rows of that partition that are paired already. Between partitions they are stale: what makes the counts right is
that a row has one partition only, so that a row of a new partition was never paired by facts of an old one
(`ChunkAdds`, the step of one chunk). When all partitions have been passed the set is all facts (`ResultsInv` keeps
the counts of the variables that are done).

### The binding tables

`CountsProofs` goes on to the tables that the counts make room for, for every literal, every `JoinChunkSize` and every
hash of the keys:

* `TablesTypeCorrect`: `BindingSpec => []TablesTypeOK`; nothing is written behind the room;
* `RowsKeptCorrect`: `BindingSpec => RowsAreKept`;
* `BindingTableCorrect`: `BindingSpec => []BindingTableIsExact`, for the learner's two ways to join and for the buffer that grows.

The invariant is `JoinsInv`. Its first part, `JoinTablesInv`, says of each hash table that the rows inserted so far are in the
chains of their hashes and no others are, so that a lookup and the comparison of keys give the rows that agree, whichever of
the two tables was hashed (`KeysAgree`, `FoundAreMatches`). Its second, `TableInv`, says what is written in the middle of a
join: there is a list of the pairs of a fact and a binding whose row in the probe table has been passed (`Past`), each pair
once, and the k-th row of a side's part is the row of the k-th pair (`AreWritten`). A block appends the pairs
of its rows (`BlockIsBehind`); a join that ends has passed all rows of its probe table (`EndJoinKeepsTable`). That no row lies
outside the part of its side needs `CountsAreExact`: the list of a side is never longer than its pairs are many
(`CountsGiveRoom`), which is the number that was counted, though the evaluator counted in another order, by partitions and
chunks of facts. So the slots of the two sides never meet (`SlotsAreApart`), and when the joins are done both parts are full
(`DoneSlots`).

### Loading

`TestRunnerProofs` begins with it, for every file and every initial capacity from two on:

* `OneRowBehindTheEnd`: `LoadSpec => []OverrunIsOneRow`;
* `RowsLoadInOrder`: `LoadSpec => []RowsAreLoaded`.

The invariant `LoadInv` says why the overrun does not add up: while the file is read the buffer lacks one row at most,
since it is compared before every line and grows by a row at least, which needs a capacity of two: a buffer for a
single row would never grow (`LoadAssumption`).

### The run of the tests

`TestRunnerProofs` goes on to `TestSpec`, where a behaviour is a call of the learner or a run of the tests, for every
file, all rules, every size of a chunk and every hash:

* `ReportCorrect`: `TestSpec => []ReportIsExact`: each side reports the number of its lines that some rule covers;
* `TestTypeCorrect`: `TestSpec => []TestTypeOK`;
* `TestTablesCorrect`: `TestSpec => [](ChainsEnd /\ CountMatchesBits)`: the semi-joins are used again for each rule, and
  none of the tables of the rule before does any harm;
* `LearnerCallsCorrect` and `TestRowsCorrect`: what is proved of the learner's calls and of the rows alone holds in this system.

The join of a literal is met through positions. A join lists the pairs of a binding and a fact that match, each once, whichever
of the tables is hashed (`JoinedIsJoined`); the model's `FlattenSeq` is a recursive function, and is met by a witness as the
iterator is (`FlattenIsFlat`). By one literal after the other, the bindings list the ways from a test through the literals
joined so far, each once (`Bound`): a way goes on by one fact, and comes from one shorter way. So a rule has
no bindings exactly if it covers no test (`BoundNothing`), and the number of bindings, on which it depends whether the
last semi-join works in one chunk, is the number of ways (`BoundCount`).

`RunInv` is the inductive invariant of the machine: `RunRule` says that the rule at hand is joined as far as its bindings
say and that the semi-joins were called with these bindings and the tests left, `RunLeft` that what is collected are the tests,
up to the offset, that the semi-joins do not find; `JoinInv` and `HeadsInv` are those of `CoverageProofs`, whose step lemmas
are used again. On it stands `ReportInv`:

* `LeftExact`: what is left before, while and after a rule is tested are the rows of the side that no rule so far covers, in their
  order. A rule selects from a selection (`SelectedTwice`), while its bindings begin with all tests.
* `CountedExact`: the number of a side that is done is that of its tests less those left by all rules.
* `TestsAreRows`: the tests of a side are the rows of the buffer that belong to it. With `RowsAreLoaded` each test is a line of
  its own, so the tests that are covered and the lines that are covered are as many (`LinesOfTests`).

That no row was lost and that a rule's bindings fit a chunk are conditions of `ReportIsExact` itself: the code is wrong
without them, in the first case by undefined behaviour, in the second as `coverage_precision` shows for the learner.

### What stays with TLC

* Liveness and `ENABLED`: `Terminates`, `CountingEnds`, `TestsEnd`. That a plan that is stuck stays so is a safety property,
  and proved.
* `DuplicatesAreFound`: that the joins over canonical databases find every replaceable duplicate would need induction over
  the literals of a clause, which the joins fold over. What is held back is replaceable only where no
  literal has a variable at two positions: without that condition (`HeldBackIsReplaceable`) it is false.
* `TrialsAreBounded`, the bound on the failures of an iteration; proved is what each state remembers of them.

## Not modelled

Parsing of values and of the configuration (`main/Configuration*`, `types/`), printing, timers, memory accounting (off
in the shipped configuration), the arena (linked, not used) and type traits. They are sequential, keep no state that
anything else reads, or both. `PROJECT.json` lists each with its reason. In the counting of literals bit vectors are
sets of positions.
A hash table on no rows is assumed away in the learner's calls of `Coverage`; `TestRunner` has it.

## Plan

Done: learner with abstract specification and proofs; selector with proofs; enumerator; evaluation plan, radix
partitioning, counting and binding tables as one machine; coverage, loading and test runner as another.

Proved: all safety properties of the rule search but for the number of failures in one iteration, and its refinement, of the selector, of the candidates but for the withheld
ones, of the semi-joins, of the plans, of the partitions, of the counting of literals, of the binding tables, of
loading and of the run of the tests.

What could be added: a proof of the bound on failed random literals; which of the families over three and more arguments
get a plan; that a
candidate is withheld exactly if it can be replaced, for literals without a repeated variable; the learner and the
enumerator as one machine, so that the learner's finite set of literals is the one that is enumerated.
