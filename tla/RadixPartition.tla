--------------------------- MODULE RadixPartition ---------------------------
(***************************************************************************)
(* RadixPartitioner::Partition: the rows of a column are grouped by the    *)
(* low bits of their hash.  Each partition gathers its rows in a write     *)
(* buffer of one cache line and copies the whole line out when the line's  *)
(* last slot is filled, over whatever the line holds of other partitions;  *)
(* what is left in the buffers is copied slot by slot at the end.          *)
(*                                                                         *)
(* Rows count from 1, slots and lines from 0.  Slots hold row numbers; the *)
(* value that is stored beside the row number is a function of it.         *)
(***************************************************************************)
EXTENDS Integers, Sequences, FiniteSets

CONSTANTS
  Value,          (* What a column holds.                                  *)
  Hash,           (* Hash[v]: the hash of a value.                         *)
  NumRadixBits,   (* --num_radix_bits                                      *)
  BlockCapacity   (* Slots of a cache line.                                *)

(* 1 << NumRadixBits is an int. *)
ASSUME RadixAssumption ==
  /\ Hash \in [Value -> Nat]
  /\ NumRadixBits \in 1..30
  /\ BlockCapacity \in Nat \ {0}

VARIABLES
  column,        (* The column that is partitioned.                        *)
  routed,        (* Rows of it that are in a write buffer or copied out.   *)
  writeBuffer,   (* The cache line of each partition.                      *)
  emptied,       (* Write buffers whose rest has been copied out.          *)
  output         (* The slots of all partitions, one after the other.      *)

partitionVars == <<column, routed, writeBuffer, emptied, output>>

NumPartitions == 2 ^ NumRadixBits
Partition == 0..NumPartitions - 1
PartitionOf(v) == Hash[v] % NumPartitions
EmptySlot == 0

RowsBelow(c, p) == {i \in DOMAIN c : PartitionOf(c[i]) < p}

(* partition_offsets: the first slot of partition p of column c. *)
Offset(c, p) == Cardinality(RowsBelow(c, p))
Histogram(c, p) == Offset(c, p + 1) - Offset(c, p)
NumCacheLines(c) == (Len(c) + BlockCapacity - 1) \div BlockCapacity

StartPartition(c) ==
  /\ column' = c
  /\ routed' = 0
  /\ writeBuffer' = [p \in Partition |->
       [tupleSlot |-> Offset(c, p) \div BlockCapacity,
        bufferSlot |-> Offset(c, p) % BlockCapacity,
        tuples |-> [s \in 0..BlockCapacity - 1 |-> EmptySlot]]]
  /\ emptied' = 0
  /\ output' = [s \in 0..NumCacheLines(c) * BlockCapacity - 1 |-> EmptySlot]

(* Slots first to last of cache line "line" are overwritten. *)
Copied(line, first, last, tuples) ==
  [s \in DOMAIN output |->
     IF s \div BlockCapacity = line /\ s % BlockCapacity \in first..last
     THEN tuples[s % BlockCapacity]
     ELSE output[s]]

RouteRow ==
  /\ routed < Len(column)
  /\ LET p == PartitionOf(column[routed + 1])
         slot == writeBuffer[p].bufferSlot
         line == writeBuffer[p].tupleSlot
         tuples == [writeBuffer[p].tuples EXCEPT ![slot] = routed + 1]
     IN  \/ /\ slot = BlockCapacity - 1
            /\ output' = Copied(line, 0, BlockCapacity - 1, tuples)
            /\ writeBuffer' = [writeBuffer EXCEPT ![p] =
                 [tupleSlot |-> line + 1, bufferSlot |-> 0, tuples |-> tuples]]
         \/ /\ slot < BlockCapacity - 1
            /\ writeBuffer' = [writeBuffer EXCEPT ![p] =
                 [@ EXCEPT !.bufferSlot = slot + 1, !.tuples = tuples]]
            /\ UNCHANGED output
  /\ routed' = routed + 1
  /\ UNCHANGED <<column, emptied>>

FirstSlot(p) == 0   (* faulty: the line starts with the partition *)

(* Where the rest of partition p begins in its line: its first line, unless a
   whole line was copied out, begins where the partition does.             *)
FirstSlotLeft(p) ==
  IF writeBuffer[p].tupleSlot = Offset(column, p) \div BlockCapacity
  THEN Offset(column, p) % BlockCapacity
  ELSE 0

CopyRest ==
  /\ routed = Len(column) /\ emptied < NumPartitions
  /\ LET buffer == writeBuffer[emptied]
     IN  output' = Copied(buffer.tupleSlot, FirstSlotLeft(emptied),
                          buffer.bufferSlot - 1, buffer.tuples)
  /\ emptied' = emptied + 1
  /\ UNCHANGED <<column, routed, writeBuffer>>

PartitionStep == RouteRow \/ CopyRest

IsPartitioned == routed = Len(column) /\ emptied = NumPartitions

(* The rows of partition p as its ConstBuffer presents them. *)
RowsOf(p) ==
  [k \in 1..Histogram(column, p) |-> output[Offset(column, p) + k - 1]]
-----------------------------------------------------------------------------
(* Each partition holds exactly the rows with its hash bits, in their order,
   although lines are copied over slots of partitions that are not written
   yet, or that have rows in their buffers that will be copied there.      *)
PartitionsAreExact ==
  IsPartitioned =>
    \A p \in Partition :
      LET rows == RowsOf(p)
      IN  /\ {rows[k] : k \in DOMAIN rows} = {i \in DOMAIN column : PartitionOf(column[i]) = p}
          /\ \A k, l \in DOMAIN rows : k < l => rows[k] < rows[l]
=============================================================================
