--------------------------- MODULE LiteralCounting --------------------------
(***************************************************************************)
(* QuickFoil::EvaluateAllCandidateLiterals: the candidate literals of a    *)
(* clause are grouped by the clause variable they join on, and             *)
(* CandidateLiteralEvaluator::Evaluate counts each group.  It makes a plan *)
(* for the literals of each relation and join key (EvaluationPlan),        *)
(* partitions the bindings (RadixPartition) and builds a hash table on     *)
(* each partition; the assigner walks the partitions of the background     *)
(* tables in chunks, the hash join looks each chunk up, the filter         *)
(* evaluates the atoms of the plans and the aggregator counts, for each    *)
(* literal, the joined rows and the bindings that joined for the first     *)
(* time.                                                                   *)
(***************************************************************************)
EXTENDS RadixPartition, EvaluationPlan, ChainedHashTable

CONSTANTS
  Input,       (* The calls that are explored, see InputAssumption.        *)
  ChunkSize    (* --partition_chunck_size                                  *)

Side == {"positive", "negative"}

(* bindings: the binding tables, rows as tuples of values, one for each clause
   variable.  consecutive: both are in one buffer (IsBindingDataConseuctive),
   the positive ones first.  A candidate names its relation and has a clause
   variable, or 0 for an unbound one, for each argument; it has at least one
   bound argument (see CandidateLiteralEnumerator).                        *)
ASSUME InputAssumption ==
  /\ ChunkSize \in Nat \ {0}
  /\ \A in \in Input :
       /\ in.consecutive \in BOOLEAN
       /\ \A s \in Side : in.bindings[s] \in Seq(Seq(Value)) \ {<<>>}
       /\ \A s, t \in Side : \A i \in DOMAIN in.bindings[s], j \in DOMAIN in.bindings[t] :
            Len(in.bindings[s][i]) = Len(in.bindings[t][j])
       /\ in.relations \in Seq([rows : Seq(Seq(Value)), types : Seq(Nat)])
       /\ \A r \in DOMAIN in.relations :
            in.relations[r].rows \in Seq([DOMAIN in.relations[r].types -> Value])
       /\ in.candidates \in Seq([relation : DOMAIN in.relations, variables : Seq(Nat)]) \ {<<>>}
       /\ \A c, d \in DOMAIN in.candidates :
            LET relation == in.relations[in.candidates[c].relation]
                variables == in.candidates[c].variables
            IN  /\ DOMAIN variables = DOMAIN relation.types
                /\ \A s \in Side : \A a \in DOMAIN variables :
                     variables[a] \in 0..Len(in.bindings[s][1])
                /\ \E a \in DOMAIN variables : variables[a] # 0
                /\ c # d => in.candidates[c] # in.candidates[d]

VARIABLES
  given,        (* The input of this call.                                 *)
  pc,
  variable,     (* The clause variable whose candidates are counted.       *)
  tables,       (* background_tables with their join keys, literals, plans *)
  pass,         (* "both" sides at once, or the side that is counted.      *)
  hashTables,   (* build_hash_tables_                                      *)
  inserted,     (* Rows of the partitions that have been inserted.         *)
  cursor,       (* The position of the PartitionAssigner.                  *)
  saved,        (* saved_partition_id of each plan, -1 before the first.   *)
  seen,         (* The semi bit vectors of each literal.                   *)
  counts,       (* num_binding_* and num_covered_* of each literal.        *)
  joined,       (* A chunk of this pass has joined.                        *)
  results       (* The counts handed to the selector.                      *)

callVars == <<given, variable, tables, results>>
countVars ==
  <<callVars, pc, pass, hashTables, inserted, cursor, saved, seen, counts, joined>>
vars == <<partitionVars, planVars, countVars>>

(* The table of a partition leaves out the radix bits, which its rows share. *)
HashInPartition(v) == Hash[v] \div NumPartitions

NoTable == [buckets |-> <<>>, next |-> <<>>]
NoPlan == [root |-> 0, nodes |-> <<>>]

-----------------------------------------------------------------------------
(* The argument a literal joins on: UpdateJoinKey. *)
JoinKey(c) ==
  LET variables == given.candidates[c].variables
      types == given.relations[given.candidates[c].relation].types
      Bound == {a \in DOMAIN variables : variables[a] # 0}
  IN  CHOOSE a \in Bound : \A b \in Bound :
        types[b] < types[a] \/ (types[b] = types[a] /\ a <= b)

ClauseVariable(c) == given.candidates[c].variables[JoinKey(c)]

(* CreateLiteralEvaluationInfoGroups: those of a relation for one clause variable. *)
CandidatesOf(v, r) ==
  {c \in DOMAIN given.candidates : ClauseVariable(c) = v /\ given.candidates[c].relation = r}

(* A table has a join group, with a plan of its own, for each join key; the key
   entered last comes first.                                               *)
TablesFor(v) ==
  LET of(r) == CandidatesOf(v, r)
      leaders(r) == {c \in of(r) : \A d \in of(r) : d < c => JoinKey(d) # JoinKey(c)}
      groupOf(r) == [c \in of(r) |->
        [key |-> JoinKey(c), literals |-> InOrder({d \in of(r) : JoinKey(d) = JoinKey(c)}),
         plan |-> NoPlan]]
      tableOf == [r \in DOMAIN given.relations |->
        [rows |-> given.relations[r].rows, groups |-> Reverse(RowsIn(groupOf(r), leaders(r)))]]
  IN  RowsIn(tableOf, {r \in DOMAIN given.relations : of(r) # {}})

(* The other bound arguments, with their clause variables, in their order. *)
Tests(c) ==
  LET variables == given.candidates[c].variables
  IN  RowsIn([a \in DOMAIN variables |-> <<a, variables[a]>>],
             {a \in DOMAIN variables : variables[a] # 0 /\ a # JoinKey(c)})

Groups ==
  UNION {{<<t, g>> : g \in DOMAIN tables[t].groups} : t \in DOMAIN tables}
Group(tg) == tables[tg[1]].groups[tg[2]]
Facts(tg) == tables[tg[1]].rows
LiteralsOf(tg) == ToSet(Group(tg).literals)
Literal == UNION {LiteralsOf(tg) : tg \in Groups}

(* The rows of the table a pass builds on, and which of them are positive. *)
RowsOfPass(p) ==
  IF p = "both" THEN given.bindings["positive"] \o given.bindings["negative"]
  ELSE given.bindings[p]
BindingRows == RowsOfPass(pass)
SideOf(row) ==
  IF pass # "both" THEN pass
  ELSE IF row <= Len(given.bindings["positive"]) THEN "positive" ELSE "negative"

JoinColumn(rows) == [i \in DOMAIN rows |-> rows[i][variable]]
-----------------------------------------------------------------------------
FirstChunk == [partition |-> 0, table |-> 1, group |-> 1, offset |-> 0]
NoPartition == [tg \in Groups |-> -1]
NothingSeen == [c \in Literal |-> [s \in Side |-> {}]]
NothingCounted ==
  [c \in Literal |-> [binding |-> [s \in Side |-> 0], covered |-> [s \in Side |-> 0]]]
FirstPass == IF given.consecutive THEN "both" ELSE "positive"

Init ==
  /\ given \in Input
  /\ pc = "next" /\ variable = 0 /\ tables = <<>> /\ pass = FirstPass
  /\ NoPlanning
  /\ column = <<>> /\ routed = 0 /\ writeBuffer = <<>> /\ emptied = 0 /\ output = <<>>
  /\ hashTables = <<>> /\ inserted = 0
  /\ cursor = FirstChunk
  /\ saved = NoPartition /\ seen = NothingSeen /\ counts = NothingCounted
  /\ joined = FALSE
  /\ results = <<>>

(* EvaluateAllCandidateLiterals: a variable without candidates is passed over. *)
NextVariable ==
  /\ pc = "next" /\ variable < Len(given.bindings["positive"][1])
  /\ variable' = variable + 1
  /\ tables' = TablesFor(variable + 1)
  /\ pc' = IF tables' = <<>> THEN "next" ELSE "plan"
  /\ pass' = FirstPass
  /\ cursor' = FirstChunk /\ joined' = FALSE
  /\ saved' = NoPartition' /\ seen' = NothingSeen' /\ counts' = NothingCounted'
  /\ UNCHANGED <<partitionVars, planVars, given, hashTables, inserted, results>>

AllCounted ==
  /\ pc = "next" /\ variable = Len(given.bindings["positive"][1])
  /\ pc' = "done"
  /\ UNCHANGED <<partitionVars, planVars, callVars, pass, hashTables, inserted,
                 cursor, saved, seen, counts, joined>>
-----------------------------------------------------------------------------
NeedsPlan(tg) == Group(tg).plan = NoPlan

GeneratePlan ==
  /\ pc = "plan" /\ literals = <<>>
  /\ \E tg \in Groups :
       /\ NeedsPlan(tg) /\ \A other \in Groups : NeedsPlan(other) => IsBefore(tg, other)
       /\ \E tests \in {[i \in DOMAIN Group(tg).literals |-> Tests(Group(tg).literals[i])]} :
            StartPlan(tests)
  /\ UNCHANGED <<partitionVars, countVars>>

MergeNodes ==
  /\ pc = "plan"
  /\ \/ Merge /\ UNCHANGED pc
     \/ MergeMayFail /\ pc' = "use_after_free" /\ UNCHANGED planVars
  /\ UNCHANGED <<partitionVars, callVars, pass, hashTables, inserted, cursor, saved,
                 seen, counts, joined>>

(* The plan refers to its literals by their position in the group. *)
KeepPlan ==
  /\ pc = "plan" /\ IsPlanned
  /\ \E tg \in Groups :
       /\ NeedsPlan(tg) /\ \A other \in Groups : NeedsPlan(other) => IsBefore(tg, other)
       /\ tables' = [tables EXCEPT ![tg[1]].groups[tg[2]].plan = Plan]
  /\ pc' = IF \E tg \in Groups : NeedsPlan(tg)' THEN "plan" ELSE "start"
  /\ atoms' = <<>> /\ literals' = <<>> /\ nodes' = <<>> /\ remaining' = {}
  /\ UNCHANGED <<partitionVars, given, variable, pass, hashTables, inserted, cursor,
                 saved, seen, counts, joined, results>>
-----------------------------------------------------------------------------
(* RadixPartition of the bindings ... *)
StartPass ==
  /\ pc = "start"
  /\ StartPartition(JoinColumn(BindingRows))
  /\ pc' = "partition"
  /\ UNCHANGED <<planVars, callVars, pass, hashTables, inserted, cursor, saved, seen,
                 counts, joined>>

PartitionBindings ==
  /\ pc = "partition"
  /\ PartitionStep
  /\ UNCHANGED <<planVars, countVars>>

(* ... and BuildHashTableOnPartitions: a partition without rows has no table,
   the rows of the others are inserted in their order.                     *)
MakeHashTables ==
  /\ pc = "partition" /\ IsPartitioned
  /\ hashTables' = [p \in Partition |->
       IF Histogram(column, p) = 0 THEN NoTable ELSE NewTable(Histogram(column, p))]
  /\ inserted' = 0
  /\ pc' = "build"
  /\ UNCHANGED <<partitionVars, planVars, callVars, pass, cursor, saved, seen, counts,
                 joined>>

InsertRow ==
  /\ pc = "build" /\ inserted < Len(column)
  /\ \E p \in Partition :
       /\ inserted \in Offset(column, p)..Offset(column, p + 1) - 1
       /\ hashTables' = [hashTables EXCEPT ![p] =
            Push(@, inserted - Offset(column, p) + 1, HashInPartition(column[output[inserted]]))]
  /\ inserted' = inserted + 1
  /\ UNCHANGED <<partitionVars, planVars, callVars, pc, pass, cursor, saved, seen,
                 counts, joined>>

StartCounting ==
  /\ pc = "build" /\ inserted = Len(column)
  /\ pc' = "count"
  /\ UNCHANGED <<partitionVars, planVars, callVars, pass, hashTables, inserted, cursor,
                 saved, seen, counts, joined>>
-----------------------------------------------------------------------------
CurrentGroup == <<cursor.table, cursor.group>>

(* The rows of a background table in partition p of the column its group joins
   on; these partitions are made once and kept with the table.             *)
FactsIn(tg, p) ==
  InOrder({i \in DOMAIN Facts(tg) : PartitionOf(Facts(tg)[i][Group(tg).key]) = p})
CurrentFacts == FactsIn(CurrentGroup, cursor.partition)

ByFullChunks(offset, n) == offset + ChunkSize   (* faulty: the last is shorter *)

ByWholeChunks(offset, n) ==   (* faulty: a shorter chunk is not taken *)
  IF offset + ChunkSize <= n THEN offset + ChunkSize ELSE offset

ByChunk(offset, n) == IF offset + ChunkSize <= n THEN offset + ChunkSize ELSE n

(* MoveToNextJoinGroup: groups of a table, tables, partitions. *)
NextJoinGroup(c) ==
  CASE c.group < Len(tables[c.table].groups) ->
         [c EXCEPT !.group = @ + 1, !.offset = 0]
    [] c.group = Len(tables[c.table].groups) /\ c.table < Len(tables) ->
         [c EXCEPT !.table = @ + 1, !.group = 1, !.offset = 0]
    [] OTHER ->
         [partition |-> c.partition + 1, table |-> 1, group |-> 1, offset |-> 0]

(* The assigner's last chunk has been taken. *)
IsExhausted == NextJoinGroup(cursor).partition = NumPartitions

MoveToNextJoinGroup ==
  /\ pc = "count" /\ cursor.offset = Len(CurrentFacts) /\ ~IsExhausted
  /\ cursor' = NextJoinGroup(cursor)
  /\ UNCHANGED <<partitionVars, planVars, callVars, pc, pass, hashTables, inserted,
                 saved, seen, counts, joined>>

(* HashJoin::Next: the facts of a chunk with the positions in the partition of
   the bindings that have their join value.                                *)
JoinOf(facts) ==
  LET p == cursor.partition
      value(f) == Facts(CurrentGroup)[f][Group(CurrentGroup).key]
      joining(f) == {b \in Chain(hashTables[p], HashInPartition(value(f))) :
                       column[RowsOf(p)[b]] = value(f)}
  IN  IF Histogram(column, p) = 0 THEN {}
      ELSE UNION {{<<f, b>> : b \in joining(f)} : f \in facts}

(* Filter::Next and the conjunctions of CountAggregator: the literals whose node
   has the bit of a fact and a row of bindings set.                        *)
LiteralsThatHold(group, fact, binding) ==
  LET tree == group.plan.nodes
      holds[n \in DOMAIN tree] ==
        IF tree[n].parts = {}
        THEN fact[tree[n].test[1]] = binding[tree[n].test[2]]
        ELSE \A m \in tree[n].parts : holds[m]
      named == {group.plan.root} \cup {tree[n].literal : n \in {m \in DOMAIN tree : holds[m]}}
  IN  {group.literals[i] : i \in named \ {0}}

SeenInAll(c) == seen[c]   (* faulty: kept although the positions are others *)

(* ResetSemiVectors when a plan meets a new partition. *)
SeenInPartition(c) ==
  IF saved[CurrentGroup] = cursor.partition THEN seen[c] ELSE [s \in Side |-> {}]

(* CountAggregator::Execute, ExecuteOnPositives, ExecuteOnNegatives: one turn. *)
Count(join) ==
  LET rowAt(fb) == RowsOf(cursor.partition)[fb[2]]
      held == [fb \in join |->
                 LiteralsThatHold(Group(CurrentGroup), Facts(CurrentGroup)[fb[1]],
                                  BindingRows[rowAt(fb)])]
      hits == [c \in LiteralsOf(CurrentGroup) |-> [s \in Side |->
                 {fb \in join : c \in held[fb] /\ SideOf(rowAt(fb)) = s}]]
      bindings(c, s) == {fb[2] : fb \in hits[c][s]}
      before == [c \in LiteralsOf(CurrentGroup) |-> SeenInPartition(c)]
  IN  /\ seen' = [c \in Literal |->
           IF c \notin LiteralsOf(CurrentGroup) THEN seen[c]
           ELSE [s \in Side |-> before[c][s] \cup bindings(c, s)]]
      /\ counts' = [c \in Literal |->
           IF c \notin LiteralsOf(CurrentGroup) THEN counts[c]
           ELSE [binding |-> [s \in Side |->
                   counts[c].binding[s] + Cardinality(hits[c][s])],
                 covered |-> [s \in Side |->
                   counts[c].covered[s]
                   + Cardinality(bindings(c, s) \ before[c][s])]]]
      /\ saved' = [saved EXCEPT ![CurrentGroup] = cursor.partition]
      /\ joined' = TRUE

TakeChunk ==
  /\ pc = "count" /\ cursor.offset < Len(CurrentFacts)
  /\ LET end == ByChunk(cursor.offset, Len(CurrentFacts))
     IN  /\ \E join \in {JoinOf({CurrentFacts[i] :
                          i \in (DOMAIN CurrentFacts) \cap (cursor.offset + 1..end)})} :
              \/ join # {} /\ Count(join)
              \/ join = {} /\ UNCHANGED <<saved, seen, counts, joined>>
         /\ cursor' = [cursor EXCEPT !.offset = end]
  /\ UNCHANGED <<partitionVars, planVars, callVars, pc, pass, hashTables, inserted>>

(* The aggregator takes its first chunk before it tests for the end: in a pass
   in which nothing joins it reads through a null pointer.  The pass over the
   positive rows works on clones of the plans, the next one on the plans.   *)
EndPass ==
  /\ pc = "count" /\ cursor.offset = Len(CurrentFacts) /\ IsExhausted
  /\ \/ /\ ~joined /\ pc' = "null_dereference"
        /\ UNCHANGED <<pass, cursor, saved, seen, joined, results>>
     \/ /\ joined /\ pass = "positive"
        /\ pc' = "start" /\ pass' = "negative"
        /\ cursor' = FirstChunk /\ saved' = NoPartition /\ seen' = NothingSeen
        /\ joined' = FALSE
        /\ UNCHANGED results
     \/ /\ joined /\ pass # "positive"
        /\ pc' = "next"
        /\ results' = [c \in DOMAIN results \cup Literal |->
                         IF c \in Literal THEN counts[c] ELSE results[c]]
        /\ UNCHANGED <<pass, cursor, saved, seen, joined>>
  /\ UNCHANGED <<partitionVars, planVars, given, variable, tables, hashTables, inserted,
                 counts>>

Next ==
  \/ NextVariable \/ AllCounted
  \/ GeneratePlan \/ MergeNodes \/ KeepPlan
  \/ StartPass \/ PartitionBindings
  \/ MakeHashTables \/ InsertRow \/ StartCounting
  \/ MoveToNextJoinGroup \/ TakeChunk \/ EndPass

Spec == Init /\ [][Next]_vars

(* One thread runs the loops to their end. *)
FairSpec == Spec /\ WF_vars(Next)
-----------------------------------------------------------------------------
(* Every variable keeps its type.  The part that could go wrong: the assigner's
   position never lies outside its partition, table, group or the facts there. *)
TypeOK ==
  /\ pc \in {"next", "plan", "start", "partition", "build", "count", "done",
            "use_after_free", "null_dereference"}
  /\ variable \in 0..Len(given.bindings["positive"][1])
  /\ pass \in Side \cup {"both"}
  /\ pc = "count" =>
       /\ cursor.partition \in Partition
       /\ CurrentGroup \in Groups
       /\ cursor.offset \in 0..Len(CurrentFacts)
  /\ saved \in [Groups -> Partition \cup {-1}]
  /\ seen \in [Literal -> [Side -> SUBSET (1..Len(column))]]
  /\ counts \in [Literal -> [binding : [Side -> Nat], covered : [Side -> Nat]]]
  /\ joined \in BOOLEAN
  /\ DOMAIN results \subseteq DOMAIN given.candidates

(* The pairs of a fact and a binding that agree with a literal. *)
Matches(c, s) ==
  LET rows == given.relations[given.candidates[c].relation].rows
      variables == given.candidates[c].variables
  IN  {fb \in (DOMAIN rows) \X (DOMAIN given.bindings[s]) :
         \A a \in DOMAIN variables :
           variables[a] # 0 => rows[fb[1]][a] = given.bindings[s][fb[2]][variables[a]]}

(* However the candidates fall into groups, plans and nodes, and the rows into
   partitions, chunks and chains, each candidate is counted, with the number of
   bindings its clause would have and the number of bindings it keeps, for each
   side: scores, pruning and the size of the next binding tables are taken from
   these numbers.                                                          *)
CountsAreExact ==
  pc = "done" =>
    \A c \in DOMAIN given.candidates, s \in Side :
      /\ results[c].binding[s] = Cardinality(Matches(c, s))
      /\ results[c].covered[s] = Cardinality({fb[2] : fb \in Matches(c, s)})

(* Every pass has a chunk that joins: DCHECK(filter_chunk != nullptr). *)
FirstChunkExists == pc # "null_dereference"

(* Every evaluation ends, unless a pair is to be merged that makes no literal: the
   assigner comes past empty partitions and empty joins to its end, and the
   merging of a plan to a plan as long as it makes literals.               *)
CountingEnds ==
  <>(IsStuck \/ pc \in {"done", "use_after_free", "null_dereference"})

(* A merge that makes no literal takes none from a node either, so the same two
   nodes are the first to share most again: the loop of the plan never ends. *)
StuckForEver == [][IsStuck => IsStuck']_vars
=============================================================================
