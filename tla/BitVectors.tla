----------------------------- MODULE BitVectors -----------------------------
(***************************************************************************)
(* The bit vectors of the joins: bits in blocks, and an iterator that      *)
(* stands on a set bit and moves to the next one.  How many bits are set   *)
(* is kept beside the vector; the iterator knows no end, and reads the     *)
(* blocks behind the last one when it is asked once too often.             *)
(* Blocks, bits and positions count from 0, as in the code.                *)
(***************************************************************************)
EXTENDS Integers, FiniteSets

CONSTANT BitsPerBlock   (* 64 *)

ASSUME BlockAssumption == BitsPerBlock \in Nat \ {0}

Bit == 0 .. BitsPerBlock - 1
NumBlocks(size) == (size + BitsPerBlock - 1) \div BitsPerBlock
BlockIndex(pos) == pos \div BitsPerBlock
BitIndex(pos) == pos % BitsPerBlock
Position(at) == at.block * BitsPerBlock + at.bit

(* BitVectorBuilder: whole blocks, and the bits of the last one. *)
BitVector(size, S) ==
  [size |-> size,
   blocks |-> [b \in 0 .. NumBlocks(size) - 1 |->
                 {k \in Bit : b * BitsPerBlock + k \in S}]]

(* Positions of the set bits, in all of the blocks. *)
Ones(v) ==
  {p \in 0 .. NumBlocks(v.size) * BitsPerBlock - 1 : BitIndex(p) \in v.blocks[BlockIndex(p)]}

Count(v) == Cardinality(Ones(v))

(* The bits of the last block behind the end of the vector stay zero. *)
Flip(v) ==
  [v EXCEPT !.blocks = [b \in DOMAIN @ |->
     {k \in Bit : b * BitsPerBlock + k < v.size} \ @[b]]]

LowestBit(block) == CHOOSE k \in block : \A other \in block : k <= other

(* The first block from one on that is not zero: behind the last one, whatever
   lies there.  It is not a position of any vector.                        *)
Behind(v) == [block |-> NumBlocks(v.size), bit |-> 0]

InBlockFrom(v, first) ==
  LET full == {b \in DOMAIN v.blocks : b >= first /\ v.blocks[b] # {}}
      block == LowestBit(full)
  IN  IF full = {} THEN Behind(v)
      ELSE [block |-> block, bit |-> LowestBit(v.blocks[block])]

GetFirst(v) == InBlockFrom(v, 0)

FindAgain(v, at) ==   (* faulty: the bit it stands on is not left *)
  LET fore == {k \in v.blocks[at.block] : k >= at.bit}
  IN  IF fore # {} THEN [at EXCEPT !.bit = LowestBit(fore)]
      ELSE InBlockFrom(v, at.block + 1)

FindNext(v, at) ==
  LET fore == {k \in v.blocks[at.block] : k > at.bit}
  IN  IF fore # {} THEN [at EXCEPT !.bit = LowestBit(fore)]
      ELSE InBlockFrom(v, at.block + 1)

(* AttributeReference::EvaluateWithFilter: the rows at the first count bits. *)
RowsAt(rows, v, count) ==
  LET at[k \in 1..count] == IF k = 1 THEN GetFirst(v) ELSE FindNext(v, at[k - 1])
  IN  [k \in 1..count |-> rows[Position(at[k]) + 1]]
=============================================================================
