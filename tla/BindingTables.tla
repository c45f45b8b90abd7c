---------------------------- MODULE BindingTables ---------------------------
(***************************************************************************)
(* MultiColumnHashJoin: the binding table of a clause that is extended by  *)
(* a literal.  For the learner (CreateLabelAwareBindingTables) the numbers *)
(* that CandidateLiteralEvaluator has counted size one buffer, whose first *)
(* part is for the positive bindings and whose rest for the negative ones; *)
(* nothing is checked while the joins fill it.  For the test runner        *)
(* (CreateBindingTable) the size is not known and the buffer grows.        *)
(***************************************************************************)
EXTENDS LiteralCounting

CONSTANTS
  JoinChunkSize,   (* --join_chunck_size                                   *)
  KeyHash(_)       (* The hash of a key, a sequence of values.             *)

ASSUME BindingTablesAssumption ==
  /\ JoinChunkSize \in Nat \ {0}
  /\ \A in \in Input : \A c \in DOMAIN in.candidates :
       LET variables == in.candidates[c].variables
           numKeys == Cardinality({a \in DOMAIN variables : variables[a] # 0})
       IN  \A key \in [1..numKeys -> Value] : KeyHash(key) \in Nat

VARIABLES
  kind,        (* Of the table that is created, "none" while counting.     *)
  literal,     (* new_literal, one of the candidates.                      *)
  toHash,      (* Tables a hash table is to be built on, by name.          *)
  rowsHashed,  (* Rows of the first of them that have been inserted.       *)
  joinTables,  (* The hash tables of the joins.                            *)
  joins,       (* Joins to be done: their probe table and output sides.    *)
  offset,      (* probe_tuple_offset                                       *)
  capacity,    (* Rows the output buffer has room for.                     *)
  filled,      (* The output offsets of the sides.                         *)
  buffer       (* The rows written, by slot.                               *)

hashVars == <<toHash, rowsHashed, joinTables>>
tableVars == <<kind, literal, hashVars, joins, offset, capacity, filled, buffer>>

-----------------------------------------------------------------------------
(* The two tables of a join and what they are joined on. *)

FactsOf(c) == given.relations[given.candidates[c].relation].rows
RowsFor(c, table) == IF table = "facts" THEN FactsOf(c) ELSE given.bindings[table]
TableRows(table) == RowsFor(literal, table)

(* Argument and clause variable of each bound argument, in their order. *)
BoundArguments ==
  LET variables == given.candidates[literal].variables
  IN  RowsIn([a \in DOMAIN variables |-> <<a, variables[a]>>],
             {a \in DOMAIN variables : variables[a] # 0})

UnboundArguments(fact) ==
  InOrder({a \in DOMAIN fact : given.candidates[literal].variables[a] = 0})

FirstKeyOf(table, p) ==   (* faulty: the other bound arguments are not compared *)
  LET key == BoundArguments[1]
  IN  <<TableRows(table)[p][key[IF table = "facts" THEN 1 ELSE 2]]>>

KeyOf(table, p) ==
  LET keys == BoundArguments
  IN  [k \in DOMAIN keys |-> TableRows(table)[p][keys[k][IF table = "facts" THEN 1 ELSE 2]]]

HashOfRow(table, p) == KeyHash(KeyOf(table, p))

-----------------------------------------------------------------------------
BindingInit ==
  /\ Init
  /\ kind = "none" /\ literal = 1
  /\ toHash = <<>> /\ rowsHashed = 0 /\ joinTables = <<>>
  /\ joins = <<>> /\ offset = 0
  /\ capacity = 0 /\ filled = [s \in Side |-> 0] /\ buffer = <<>>

Begin(c, k, build) ==
  /\ literal' = c /\ kind' = k
  /\ toHash' = build
  /\ joinTables' = [t \in ToSet(build) |-> NewTable(Len(RowsFor(c, t)))]
  /\ UNCHANGED <<vars, rowsHashed, offset, filled, buffer>>

FewerThan(c, s) == Len(given.bindings[s]) < Len(FactsOf(c))

(* The larger table is probed: the facts for both sides together, or each
   side for itself.                                                        *)
CreateLabelAwareBindingTables ==
  /\ pc = "done" /\ kind = "none"
  /\ \E c \in DOMAIN given.candidates :
       /\ results[c].covered["positive"] > 0
       /\ capacity' = results[c].binding["positive"] + results[c].binding["negative"]
       /\ \/ /\ FewerThan(c, "positive") /\ FewerThan(c, "negative")
             /\ Begin(c, "label_aware", <<"positive", "negative">>)
             /\ joins' = <<[probe |-> "facts", into |-> Side]>>
          \/ /\ ~(FewerThan(c, "positive") /\ FewerThan(c, "negative"))
             /\ Begin(c, "label_aware", <<"facts">>)
             /\ joins' = <<[probe |-> "positive", into |-> {"positive"}],
                           [probe |-> "negative", into |-> {"negative"}]>>

(* The tests of the program take the place of the positive bindings.  A hash
   table on no rows is not meant to be made (see TestRunner).              *)
CreateBindingTable ==
  /\ pc = "done" /\ kind = "none"
  /\ \E c \in DOMAIN given.candidates :
       /\ FactsOf(c) # <<>>
       /\ capacity' = Len(given.bindings["positive"])
       /\ \/ /\ Len(FactsOf(c)) < Len(given.bindings["positive"])
             /\ Begin(c, "resizable", <<"facts">>)
             /\ joins' = <<[probe |-> "positive", into |-> {"positive"}]>>
          \/ /\ Len(FactsOf(c)) >= Len(given.bindings["positive"])
             /\ Begin(c, "resizable", <<"positive">>)
             /\ joins' = <<[probe |-> "facts", into |-> {"positive"}]>>

(* BuildHashTableOnTable: one row, and the end of a table. *)
HashRow ==
  /\ toHash # <<>> /\ rowsHashed < Len(TableRows(toHash[1]))
  /\ joinTables' = [joinTables EXCEPT ![toHash[1]] =
                      Push(@, rowsHashed + 1, HashOfRow(toHash[1], rowsHashed + 1))]
  /\ rowsHashed' = rowsHashed + 1
  /\ UNCHANGED <<vars, kind, literal, toHash, joins, offset, capacity, filled, buffer>>

EndHashTable ==
  /\ toHash # <<>> /\ rowsHashed = Len(TableRows(toHash[1]))
  /\ toHash' = Tail(toHash) /\ rowsHashed' = 0
  /\ UNCHANGED <<vars, kind, literal, joinTables, joins, offset, capacity, filled, buffer>>

-----------------------------------------------------------------------------
BuildOf(s) == IF joins[1].probe = "facts" THEN s ELSE "facts"

(* The rows of the build table with the key of a row of the probe table; its
   chain starts at its last row.                                           *)
Joining(s, p) ==
  {b \in Chain(joinTables[BuildOf(s)], HashOfRow(joins[1].probe, p)) :
     KeyOf(BuildOf(s), b) = KeyOf(joins[1].probe, p)}

JoinedRows(s, p) ==
  LET found == Reverse(InOrder(Joining(s, p)))
  IN  [k \in DOMAIN found |-> <<p, found[k]>>]

(* DoBlockJoin, for the block that begins at offset. *)
BlockJoin(s) ==
  LET left == Len(TableRows(joins[1].probe)) - offset
      blockSize == IF JoinChunkSize < left THEN JoinChunkSize ELSE left
  IN  FlattenSeq([i \in 1..blockSize |-> JoinedRows(s, offset + i)])

(* The columns of the clause, then the unbound arguments of the literal. *)
Projected(s, pair) ==
  LET fact == IF joins[1].probe = "facts" THEN pair[1] ELSE pair[2]
      row == TableRows("facts")[fact]
      unbound == UnboundArguments(row)
  IN  given.bindings[s][IF joins[1].probe = "facts" THEN pair[2] ELSE pair[1]]
      \o [k \in DOMAIN unbound |-> row[unbound[k]]]

FirstOutputSlot(s) == IF s = "positive" THEN 0 ELSE results[literal].binding["positive"]

AtFirstSlot(s, k) == FirstOutputSlot(s) + k   (* faulty: each block begins anew *)
Slot(s, k) == FirstOutputSlot(s) + filled[s] + k

GrownByHalf(size, needed) == (size * 3) \div 2   (* faulty: may not be enough *)
Grown(size, needed) == IF (size * 3) \div 2 > needed THEN (size * 3) \div 2 ELSE needed

(* One turn of JoinImpl or CollaborateJoinImpl. *)
JoinBlock ==
  /\ toHash = <<>> /\ joins # <<>> /\ offset < Len(TableRows(joins[1].probe))
  /\ \E new \in {[s \in joins[1].into |-> BlockJoin(s)]} :
       LET Slots(s) == {Slot(s, k) : k \in DOMAIN new[s]}
           RowFor(i) == LET s == CHOOSE x \in DOMAIN new : i \in Slots(x)
                            k == CHOOSE y \in DOMAIN new[s] : Slot(s, y) = i
                        IN  Projected(s, new[s][k])
           slots == UNION {Slots(s) : s \in DOMAIN new}
           needed == filled["positive"] + Len(new["positive"])
       IN  /\ buffer' = [i \in DOMAIN buffer \cup slots |->
                           IF i \in slots THEN RowFor(i) ELSE buffer[i]]
           /\ filled' = [s \in Side |->
                           filled[s] + IF s \in DOMAIN new THEN Len(new[s]) ELSE 0]
           /\ capacity' = IF kind = "resizable" /\ capacity < needed THEN Grown(capacity, needed)
                          ELSE capacity
  /\ offset' = offset + JoinChunkSize
  /\ UNCHANGED <<vars, kind, literal, hashVars, joins>>

(* The probe table has been read; a buffer that grew is cut to size. *)
EndJoin ==
  /\ toHash = <<>> /\ joins # <<>> /\ offset >= Len(TableRows(joins[1].probe))
  /\ joins' = Tail(joins)
  /\ offset' = 0
  /\ capacity' = IF kind = "resizable" THEN filled["positive"] ELSE capacity
  /\ UNCHANGED <<vars, kind, literal, hashVars, filled, buffer>>

BindingNext ==
  \/ Next /\ UNCHANGED tableVars
  \/ CreateLabelAwareBindingTables \/ CreateBindingTable
  \/ HashRow \/ EndHashTable \/ JoinBlock \/ EndJoin

BindingSpec == BindingInit /\ [][BindingNext]_<<vars, tableVars>>
(* One thread runs the loops of the evaluator to their end. *)
FairBindingSpec == BindingSpec /\ WF_<<vars, tableVars>>(Next /\ UNCHANGED tableVars)

-----------------------------------------------------------------------------
(* Properties. *)

(* Every variable keeps its type.  The part that could go wrong: nothing is
   written behind the room that the counts, or the last growth, have given. *)
TablesTypeOK ==
  /\ kind \in {"none", "label_aware", "resizable"}
  /\ literal \in DOMAIN given.candidates
  /\ offset \in Nat /\ capacity \in Nat /\ filled \in [Side -> Nat]
  /\ DOMAIN buffer \subseteq 1..capacity
  /\ \A i \in DOMAIN buffer : buffer[i] \in Seq(Value)

(* A row that was written stays: neither a later block nor the other side's
   join takes its place.                                                   *)
RowsAreKept ==
  [][\A i \in DOMAIN buffer : i \in DOMAIN buffer' /\ buffer'[i] = buffer[i]]_tableVars

(* The new table has exactly the bindings of the extended clause, as often as
   there are facts for them, the positive ones in the first part; and every
   slot the counts made room for is written, for the buffers are not cleared
   when they are allocated.                                                *)
BindingTableIsExact ==
  LET sides == IF kind = "label_aware" THEN Side ELSE {"positive"}
      Part(s) == FirstOutputSlot(s) + 1..FirstOutputSlot(s) + filled[s]
      RowOf(fb, s) ==
        LET fact == FactsOf(literal)[fb[1]]
            unbound == UnboundArguments(fact)
        IN  given.bindings[s][fb[2]] \o [k \in DOMAIN unbound |-> fact[unbound[k]]]
  IN  kind # "none" /\ joins = <<>> =>
        /\ DOMAIN buffer = 1..capacity
        /\ \A s \in sides :
             LET rows == {RowOf(fb, s) : fb \in Matches(literal, s)}
             IN  /\ {buffer[i] : i \in Part(s)} = rows
                 /\ \A r \in rows :
                      Cardinality({i \in Part(s) : buffer[i] = r})
                        = Cardinality({fb \in Matches(literal, s) : RowOf(fb, s) = r})
=============================================================================
