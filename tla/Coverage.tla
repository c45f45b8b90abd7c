------------------------------ MODULE Coverage ------------------------------
(***************************************************************************)
(* QuickFoil::ComputeCoverageOnUncoveredData and what                      *)
(* AddBuildingClauseWithNewLiteral does with it: how many positive and     *)
(* negative examples a clause covers once a literal is added to it, and    *)
(* which positive examples are left when the clause is accepted.           *)
(*                                                                         *)
(* For each side a semi-join selects the bindings of the clause that match *)
(* a fact of the literal's predicate, a hash table is built on the heads   *)
(* of the selected bindings, and a second semi-join looks the examples up  *)
(* in it.  LiteralSelector::ComputeCoveredPositives is the positive side   *)
(* of the same computation.                                                *)
(***************************************************************************)
EXTENDS ChainedHashTable, BitVectors, Selection, Sequences

CONSTANTS
  Value,          (* What a column holds (for several key columns: a tuple). *)
  Hash,           (* Hash[v]: the hash of a value.                         *)
  Input,          (* The calls that are explored, see InputAssumption.     *)
  ChunkSize,      (* --semijoin_chunck_size                                *)
  TruePrecision, FScore   (* percentages                                   *)

ASSUME HashAssumption == Hash \in [Value -> Nat]

Side == {"positive", "negative"}
Binding == [head : Value, key : Value]

(* bindings: the binding tables of the clause, as the head of the binding and
   its values at the join keys.  examples: the positive examples uncovered when
   the clause was started, and all negative ones.  global: the positive
   examples no learnt rule covers, the same table as the former when "shared".
   No binding table is empty: only a random literal that covers no negative
   example could bring an empty one about.                                 *)
ASSUME InputAssumption ==
  \A in \in Input :
    /\ in.bindings \in [Side -> Seq(Binding) \ {<<>>}]
    /\ in.background \in Seq(Value) \ {<<>>}
    /\ in.examples \in [Side -> Seq(Value) \ {<<>>}]
    /\ \E gone \in SUBSET Value :
         in.global = RowsIn(in.examples["positive"],
           {i \in DOMAIN in.examples["positive"] : in.examples["positive"][i] \notin gone})
    /\ in.shared => in.global = in.examples["positive"]

ASSUME FlagAssumption ==
  ChunkSize \in Nat \ {0} /\ TruePrecision \in 1..100 /\ FScore \in 0..100

VARIABLES
  given,            (* The input of this call.                             *)
  pc,
  side,             (* The side whose coverage is computed.                *)
  backgroundTable,  (* background_hash_table, shared by both sides, or NoTable *)
  clauseTable,      (* positive/negative_hash_table_for_bindings           *)
  coverageTable,    (* positive/negative_hash_table_for_coverage           *)
  positiveTable,    (* coverageTable of the positive side, for the caller. *)
  offset,           (* Rows consumed by the loop that runs.                *)
  chunk,            (* The result of a semi-join that is being inserted.   *)
  covered,          (* Positions of the examples found covered.            *)
  uncovered         (* global_uncovered_positive_data_                     *)

vars == <<given, pc, side, backgroundTable, clauseTable, coverageTable,
          positiveTable, offset, chunk, covered, uncovered>>

NoTable == [buckets |-> <<>>, next |-> <<>>]

(* A part of a semi-join's result: where its columns begin, the rows found in it,
   how many of them are left to insert, and where the iterator stands.     *)
SemiJoinChunk(base, bits) ==
  [base |-> base, bits |-> bits, left |-> Count(bits), at |-> GetFirst(bits)]
NoChunk == SemiJoinChunk(0, BitVector(0, {}))

Rows == given.bindings[side]
Background == given.background
Examples == given.examples[side]
SmallerOf(m, n) == IF m <= n THEN m ELSE n

Init ==
  /\ given \in Input
  /\ pc = "select" /\ side = "positive"
  /\ backgroundTable = NoTable /\ clauseTable = NoTable
  /\ coverageTable = NoTable /\ positiveTable = NoTable
  /\ offset = 0 /\ chunk = NoChunk
  /\ covered = [s \in Side |-> {}]
  /\ uncovered = given.global
-----------------------------------------------------------------------------
(* Keys are hashed as they are entered and looked up. *)
Enter(t, p, v) == Push(t, p, Hash[v])
Lookup(t, v) == Chain(t, Hash[v])

(* SelectAndCreateSemiJoin: the smaller table is built on. *)
IsLeftSemiJoin == Len(Rows) >= Len(Background)

BindingLoopStarts ==
  /\ pc' = "bind" /\ offset' = 0 /\ chunk' = NoChunk
  /\ coverageTable' = NewTable(Len(Rows))

SelectAndCreateSemiJoin ==
  /\ pc = "select"
  /\ \/ /\ IsLeftSemiJoin /\ backgroundTable # NoTable
        /\ BindingLoopStarts
        /\ UNCHANGED <<backgroundTable, clauseTable>>
     \/ /\ IsLeftSemiJoin /\ backgroundTable = NoTable
        /\ backgroundTable' = NewTable(Len(Background))
        /\ pc' = "build" /\ offset' = 0
        /\ UNCHANGED <<clauseTable, coverageTable, chunk>>
     \/ /\ ~IsLeftSemiJoin
        /\ clauseTable' = NewTable(Len(Rows))
        /\ pc' = "build" /\ offset' = 0
        /\ UNCHANGED <<backgroundTable, coverageTable, chunk>>
  /\ UNCHANGED <<given, side, positiveTable, covered, uncovered>>

(* BuildHashTableOnTable, one row of its loop. *)
BuildHashTableOnTable ==
  /\ pc = "build"
  /\ \/ /\ IsLeftSemiJoin /\ offset < Len(Background)
        /\ backgroundTable' =
             Enter(backgroundTable, offset + 1, Background[offset + 1])
        /\ offset' = offset + 1
        /\ UNCHANGED <<pc, clauseTable, coverageTable, chunk>>
     \/ /\ ~IsLeftSemiJoin /\ offset < Len(Rows)
        /\ clauseTable' = Enter(clauseTable, offset + 1, Rows[offset + 1].key)
        /\ offset' = offset + 1
        /\ UNCHANGED <<pc, backgroundTable, coverageTable, chunk>>
     \/ /\ offset = Len(IF IsLeftSemiJoin THEN Background ELSE Rows)
        /\ BindingLoopStarts
        /\ UNCHANGED <<backgroundTable, clauseTable>>
  /\ UNCHANGED <<given, side, positiveTable, covered, uncovered>>
-----------------------------------------------------------------------------
(* LeftSemiJoin::Next: rows of a chunk, counted from its base, that match. *)
LeftMatches(base, width) ==
  BitVector(width,
    {i \in 0..width - 1 :
       \E p \in Lookup(backgroundTable, Rows[base + i + 1].key) :
         Background[p] = Rows[base + i + 1].key})

FactsThatMatch ==   (* faulty: positions of the probe side are marked *)
  BitVector(Len(Rows),
    {q - 1 : q \in {q \in 1..Len(Background) :
       \E p \in Lookup(clauseTable, Background[q]) : Rows[p].key = Background[q]}})

(* RightSemiJoin::Next: all rows some background fact matches. *)
RightMatches ==
  BitVector(Len(Rows),
    {p - 1 : p \in {p \in 1..Len(Rows) :
       \E q \in 1..Len(Background) :
         p \in Lookup(clauseTable, Background[q]) /\ Rows[p].key = Background[q]}})

AfterFullChunk(o) == IF o + ChunkSize <= Len(Rows) THEN o + ChunkSize ELSE o   (* faulty *)
AfterChunk(o) == o + ChunkSize

NextBindingChunk ==
  /\ pc = "bind" /\ offset < Len(Rows)
  /\ pc' = "insert"
  /\ \/ LET width == SmallerOf(ChunkSize, Len(Rows) - offset)
        IN  /\ IsLeftSemiJoin
            /\ \E bits \in {LeftMatches(offset, width)} : chunk' = SemiJoinChunk(offset, bits)
            /\ offset' = AfterChunk(offset)
     \/ /\ ~IsLeftSemiJoin
        /\ \E bits \in {RightMatches} : chunk' = SemiJoinChunk(0, bits)
        /\ offset' = Len(Rows)
  /\ UNCHANGED <<given, side, backgroundTable, clauseTable, coverageTable,
                 positiveTable, covered, uncovered>>

NextCoverageSide ==
  /\ pc = "bind" /\ offset >= Len(Rows)
  /\ pc' = "cover" /\ offset' = 0
  /\ UNCHANGED <<given, side, backgroundTable, clauseTable, coverageTable,
                 positiveTable, chunk, covered, uncovered>>

(* The columns of a chunk start at its base, but the position that is looked at
   and entered is counted from the base and not from the start of the table.
   A chain may then name a row behind the end of the columns: what is read
   there may or may not be equal.                                          *)
IsInTable(p) == chunk.base + p <= Len(Rows)

NeverExists(v) == {FALSE}   (* faulty: the same head is entered again *)

MayExist(v) ==
  LET visited == Lookup(coverageTable, v)
  IN  IF \E p \in visited : IsInTable(p) /\ Rows[chunk.base + p].head = v
      THEN {TRUE}
      ELSE IF \A p \in visited : IsInTable(p) THEN {FALSE} ELSE BOOLEAN

(* The row the iterator stands on; it moves on only if there is another. *)
InsertIfNotPresent ==
  /\ pc = "insert" /\ chunk.left > 0
  /\ LET tid == Position(chunk.at) + 1
         head == Rows[chunk.base + tid].head
     IN  \E exist \in MayExist(head) :
           coverageTable' = IF exist THEN coverageTable
                            ELSE Enter(coverageTable, tid, head)
  /\ chunk' = [chunk EXCEPT
       !.left = @ - 1,
       !.at = IF chunk.left > 1 THEN FindNext(chunk.bits, @) ELSE @]
  /\ UNCHANGED <<given, pc, side, backgroundTable, clauseTable, positiveTable,
                 offset, covered, uncovered>>

ChunkInserted ==
  /\ pc = "insert" /\ chunk.left = 0
  /\ pc' = "bind"
  /\ UNCHANGED <<given, side, backgroundTable, clauseTable, coverageTable,
                 positiveTable, offset, chunk, covered, uncovered>>
-----------------------------------------------------------------------------
(* A left semi-join of examples with the bindings in a coverage table. *)
IsFound(table, rows, head) ==
  \E p \in Lookup(table, head) : rows[p].head = head

NextCoverageChunk ==
  /\ pc = "cover" /\ offset < Len(Examples)
  /\ LET width == SmallerOf(ChunkSize, Len(Examples) - offset)
     IN  covered' = [covered EXCEPT ![side] = @ \cup
           {i \in offset + 1 .. offset + width :
              IsFound(coverageTable, Rows, Examples[i])}]
  /\ offset' = offset + ChunkSize
  /\ UNCHANGED <<given, pc, side, backgroundTable, clauseTable, coverageTable,
                 positiveTable, chunk, uncovered>>

(* The coverage table of the positives goes back to the caller; the negatives
   use a table of their own for their bindings, and the background's again. *)
PositivesCounted ==
  /\ pc = "cover" /\ offset >= Len(Examples) /\ side = "positive"
  /\ side' = "negative" /\ pc' = "select" /\ offset' = 0
  /\ positiveTable' = coverageTable
  /\ coverageTable' = NoTable /\ clauseTable' = NoTable
  /\ UNCHANGED <<given, backgroundTable, chunk, covered, uncovered>>

NumCovered(s) == Cardinality(covered[s])

AtLeastPercent(part, whole, percent) == 100 * part >= percent * whole

IsAccepted(c, n, total) ==
  /\ c > 0
  /\ \/ AtLeastPercent(c, c + n, TruePrecision)
     \/ AtLeastPercent(2 * c, c + n + total, FScore)

NegativesCounted ==
  /\ pc = "cover" /\ offset >= Len(Examples) /\ side = "negative"
  /\ offset' = 0
  /\ IF IsAccepted(NumCovered("positive"), NumCovered("negative"),
                   Len(given.examples["positive"]))
     THEN pc' = "collect" /\ uncovered' = <<>>
     ELSE pc' = "rejected" /\ UNCHANGED uncovered
  /\ UNCHANGED <<given, side, backgroundTable, clauseTable, coverageTable,
                 positiveTable, chunk, covered>>

(* The rows of the next chunk that are not covered are appended.  A clause on
   the current data uses the chunks it has; a clause on older data looks the
   data up again.                                                          *)
WasFoundBefore(i) == i \in covered["positive"]   (* faulty: older data's bits *)

WasFound(i) ==
  IF given.shared THEN i \in covered["positive"]
  ELSE IsFound(positiveTable, given.bindings["positive"], given.global[i])

RowsFound(rows, found) == RowsAt(rows, found, Count(found))   (* faulty: not flipped *)

RowsNotFound(rows, found) == RowsAt(rows, Flip(found), found.size - Count(found))

CollectUncovered ==
  /\ pc = "collect" /\ offset < Len(given.global)
  /\ LET width == SmallerOf(ChunkSize, Len(given.global) - offset)
     IN  \E found \in {BitVector(width, {i \in 0..width - 1 : WasFound(offset + i + 1)})} :
           uncovered' = uncovered \o
             RowsNotFound(SubSeq(given.global, offset + 1, offset + width), found)
  /\ offset' = offset + ChunkSize
  /\ UNCHANGED <<given, pc, side, backgroundTable, clauseTable, coverageTable,
                 positiveTable, chunk, covered>>

FinishRule ==
  /\ pc = "collect" /\ offset >= Len(given.global)
  /\ pc' = "learnt"
  /\ UNCHANGED <<given, side, backgroundTable, clauseTable, coverageTable,
                 positiveTable, offset, chunk, covered, uncovered>>

Next ==
  \/ SelectAndCreateSemiJoin \/ BuildHashTableOnTable
  \/ NextBindingChunk \/ InsertIfNotPresent \/ ChunkInserted \/ NextCoverageSide
  \/ NextCoverageChunk \/ PositivesCounted \/ NegativesCounted
  \/ CollectUncovered \/ FinishRule

Spec == Init /\ [][Next]_vars
-----------------------------------------------------------------------------
(* Every variable keeps its type.  The part that could go wrong: a position in
   a chunk or an example's bit never lies outside its table.               *)
TypeOK ==
  /\ pc \in {"select", "build", "bind", "insert", "cover", "collect",
            "learnt", "rejected"}
  /\ side \in Side
  /\ offset \in Nat
  /\ chunk.left > 0 => chunk.base + Position(chunk.at) < Len(Rows)
  /\ \A s \in Side : covered[s] \subseteq 1..Len(given.examples[s])
  /\ uncovered \in Seq(Value)

(* Every chain of every hash table ends: no lookup loops, and none follows a
   next position that was allocated but never written.  Inserting a row whose
   position is counted from the start of its chunk moves the row to another
   chain, and the chains still end (BuildHashTable.cpp, InsertIfNotPresent).
                                                                           *)
ChainsEnd ==
  \A t \in {backgroundTable, clauseTable, coverageTable, positiveTable} :
    EveryWalkEnds(t)

(* How many rows of a chunk are left is kept beside its bits, and the iterator
   knows no end: it must have as many set bits before it, in as many blocks as
   there are, so that it visits each row once and is never asked for a bit
   behind the last one (BuildHashTableAfterSemiJoinImpl, BitVectorIterator). *)
CountMatchesBits ==
  pc = "insert" /\ chunk.left > 0 =>
    LET here == Position(chunk.at)
    IN  /\ here \in Ones(chunk.bits)
        /\ chunk.left = Cardinality({p \in Ones(chunk.bits) : p >= here})

(* The binding table is probed as one chunk, or it is the build side. *)
IsOneChunk(s) ==
  \/ Len(given.bindings[s]) <= ChunkSize
  \/ Len(given.bindings[s]) < Len(Background)

(* The example has a binding that some background fact matches. *)
Covers(s, head) ==
  \E p \in 1..Len(given.bindings[s]), q \in 1..Len(Background) :
    /\ given.bindings[s][p].head = head
    /\ given.bindings[s][p].key = Background[q]

TrulyCovered(s) ==
  {i \in 1..Len(given.examples[s]) : Covers(s, given.examples[s][i])}

(* When a clause is judged, the examples counted as covered are exactly those
   that have a binding the literal matches, whichever table was probed, in
   however many chunks the examples are looked up and however rows collide,
   provided the binding table is one chunk.                                *)
CoverageIsExact ==
  pc \in {"collect", "learnt", "rejected"} =>
    \A s \in Side : IsOneChunk(s) => covered[s] = TrulyCovered(s)

(* The rows kept for the next rule fit the buffer, which is sized from the count
   of the first semi-join: exactly when the clause was grown on the current data
   and as an upper bound when it was grown on older data (the two DCHECKs of
   QuickFoil::AddBuildingClauseWithNewLiteral).                            *)
OutputFits ==
  LET capacity == Len(given.examples["positive"]) - NumCovered("positive")
  IN  /\ pc \in {"collect", "learnt"} => Len(uncovered) <= capacity
      /\ pc = "learnt" /\ given.shared => Len(uncovered) = capacity

(* A learnt rule takes the examples it covers, and no others, off the examples
   that are still uncovered now, although it was counted on the examples that
   were uncovered when the clause was started.                             *)
LearntRuleTakesItsExamples ==
  pc = "learnt" /\ IsOneChunk("positive") =>
    uncovered = RowsIn(given.global,
      {i \in DOMAIN given.global : ~Covers("positive", given.global[i])})

(* "The minimum precision calculated on examples for a learnt clause": the flag
   text of --minimum_true_precision, with the F-score alternative closed.  *)
LearntRulesArePrecise ==
  pc = "learnt" =>
    LET c == Cardinality(TrulyCovered("positive"))
        n == Cardinality(TrulyCovered("negative"))
    IN  c > 0 /\ AtLeastPercent(c, c + n, TruePrecision)
=============================================================================
