--------------------------- MODULE CoverageProofs ---------------------------
(***************************************************************************)
(* The semi-joins of Coverage, for every data set, every hash, every size  *)
(* of a chunk and every width of a block.                                  *)
(*                                                                         *)
(* First the iterator over a bit vector: it visits the set bits in order   *)
(* and leaves none out, for every width of a block and every vector.       *)
(* Where it begins no set bit is before it, and where it goes next is the  *)
(* first set bit behind the one it stood on, provided there is another.  A *)
(* position is read off a bit in a block as block * BitsPerBlock + bit,    *)
(* which keeps their order.                                                *)
(***************************************************************************)
EXTENDS Coverage, StructureProofs

-----------------------------------------------------------------------------
(* Bit vectors. *)

(* What a vector's blocks are. *)
IsVector(v) ==
  /\ DOMAIN v.blocks \subseteq Nat
  /\ \A b \in DOMAIN v.blocks : v.blocks[b] \subseteq Bit

IsSet(v, at) ==
  at.block \in DOMAIN v.blocks /\ at.bit \in v.blocks[at.block]

IsBefore(x, y) ==
  x.block < y.block \/ (x.block = y.block /\ x.bit < y.bit)

-----------------------------------------------------------------------------
(* LowestBit is what its name says, of bits and of blocks. *)
LEMMA LowestBitIsLowest ==
  ASSUME NEW S \in SUBSET Nat, S # {}
  PROVE  /\ LowestBit(S) \in S
         /\ \A other \in S : LowestBit(S) <= other
<1>1. \E k \in S : \A other \in S : k <= other
  BY HasLowest
<1> QED
  BY <1>1 DEF LowestBit

(* What the builder makes is a vector, and so is what flipping makes of it. *)
LEMMA VectorsAreBuilt ==
  ASSUME NEW size \in Nat, NEW S
  PROVE  IsVector(BitVector(size, S)) /\ IsVector(Flip(BitVector(size, S)))
BY DEF IsVector, BitVector, Flip

LEMMA BitsAreNumbers == Bit \subseteq Nat
BY BlockAssumption DEF Bit

(* The search through the blocks finds the first set bit of them. *)
LEMMA InBlockFromFindsTheFirst ==
  ASSUME NEW v, IsVector(v), NEW first \in Nat,
         NEW block \in DOMAIN v.blocks, block >= first, v.blocks[block] # {}
  PROVE  LET found == InBlockFrom(v, first)
         IN  /\ IsSet(v, found) /\ found.block >= first
             /\ \A b \in DOMAIN v.blocks : \A k \in v.blocks[b] :
                  b >= first => ~IsBefore([block |-> b, bit |-> k], found)
<1> DEFINE full == {b \in DOMAIN v.blocks : b >= first /\ v.blocks[b] # {}}
           lowest == LowestBit(full)
<1>1. full \in SUBSET Nat /\ full # {}
  BY DEF IsVector
<1>2. lowest \in full /\ \A b \in full : lowest <= b
  <2> HIDE DEF full
  <2> QED BY <1>1, LowestBitIsLowest
<1>3. v.blocks[lowest] \in SUBSET Nat /\ v.blocks[lowest] # {}
  BY <1>2, BitsAreNumbers DEF IsVector
<1>4. /\ LowestBit(v.blocks[lowest]) \in v.blocks[lowest]
      /\ \A k \in v.blocks[lowest] : LowestBit(v.blocks[lowest]) <= k
  <2> HIDE DEF lowest
  <2> QED BY <1>3, LowestBitIsLowest
<1>5. InBlockFrom(v, first) = [block |-> lowest, bit |-> LowestBit(v.blocks[lowest])]
  BY <1>1 DEF InBlockFrom
<1>6. ASSUME NEW b \in DOMAIN v.blocks, NEW k \in v.blocks[b], b >= first
      PROVE  /\ lowest <= b
             /\ b = lowest => LowestBit(v.blocks[lowest]) <= k
             /\ {b, lowest, k, LowestBit(v.blocks[lowest])} \subseteq Nat
  <2>1. b \in full
    BY <1>6
  <2>2. lowest \in full
    BY <1>2
  <2>3. {b, lowest} \subseteq Nat
    BY <1>1, <2>1, <2>2
  <2>4. {k, LowestBit(v.blocks[lowest])} \subseteq Nat
    BY <1>3, <1>4, BitsAreNumbers DEF IsVector
  <2> HIDE DEF full, lowest
  <2> QED BY <1>2, <1>4, <2>1, <2>3, <2>4
<1>7. ASSUME NEW b \in DOMAIN v.blocks, NEW k \in v.blocks[b], b >= first
      PROVE  ~IsBefore([block |-> b, bit |-> k], InBlockFrom(v, first))
  <2>1. /\ lowest <= b
        /\ b = lowest => LowestBit(v.blocks[lowest]) <= k
        /\ {b, lowest, k, LowestBit(v.blocks[lowest])} \subseteq Nat
    BY <1>6, <1>7
  <2> HIDE DEF lowest
  <2> QED BY <2>1, <1>5 DEF IsBefore
<1>8. IsSet(v, InBlockFrom(v, first)) /\ InBlockFrom(v, first).block >= first
  <2>1. lowest \in DOMAIN v.blocks /\ lowest >= first
    BY <1>2
  <2> HIDE DEF lowest
  <2> QED BY <2>1, <1>4, <1>5 DEF IsSet
<1> QED BY <1>7, <1>8

-----------------------------------------------------------------------------
(* BitVectorIterator begins at the first set bit, if there is one. *)
THEOREM FirstBitIsVisited ==
  ASSUME NEW v, IsVector(v),
         NEW block \in DOMAIN v.blocks, v.blocks[block] # {}
  PROVE  /\ IsSet(v, GetFirst(v))
         /\ \A b \in DOMAIN v.blocks : \A k \in v.blocks[b] :
              ~IsBefore([block |-> b, bit |-> k], GetFirst(v))
<1>1. block >= 0 /\ \A b \in DOMAIN v.blocks : b >= 0
  BY DEF IsVector
<1> QED
  BY <1>1, InBlockFromFindsTheFirst DEF GetFirst

(* FindNext goes on to a set bit behind the one it stood on and passes over none,
   in the same block or in a later one with empty blocks in between, as long as
   there is one: the caller must not ask once more.                        *)
THEOREM NextBitIsVisited ==
  ASSUME NEW v, IsVector(v),
         NEW at \in [block : Nat, bit : Nat], IsSet(v, at),
         NEW block \in DOMAIN v.blocks, NEW bit \in v.blocks[block],
         IsBefore(at, [block |-> block, bit |-> bit])
  PROVE  LET next == FindNext(v, at)
         IN  /\ IsSet(v, next) /\ IsBefore(at, next)
             /\ \A b \in DOMAIN v.blocks : \A k \in v.blocks[b] :
                  LET other == [block |-> b, bit |-> k]
                  IN  IsBefore(at, other) => ~IsBefore(other, next)
<1> DEFINE fore == {k \in v.blocks[at.block] : k > at.bit}
<1>1. at.block \in Nat /\ at.bit \in Nat /\ block \in Nat /\ bit \in Nat
  BY BitsAreNumbers DEF IsVector, IsSet
<1>2. \A b \in DOMAIN v.blocks : b \in Nat /\ \A k \in v.blocks[b] : k \in Nat
  BY BitsAreNumbers DEF IsVector
<1>3. CASE fore # {}
  <2>1. fore \in SUBSET Nat
    BY <1>2 DEF IsSet
  <2>2. LowestBit(fore) \in fore /\ \A k \in fore : LowestBit(fore) <= k
    <3> HIDE DEF fore
    <3> QED BY <1>3, <2>1, LowestBitIsLowest
  <2>3. FindNext(v, at) = [at EXCEPT !.bit = LowestBit(fore)]
    BY <1>3 DEF FindNext
  <2>4. IsSet(v, FindNext(v, at)) /\ IsBefore(at, FindNext(v, at))
    <3>1. LowestBit(fore) \in v.blocks[at.block] /\ LowestBit(fore) > at.bit
      BY <2>2
    <3> HIDE DEF fore
    <3> QED BY <2>3, <3>1 DEF IsSet, IsBefore
  <2>5. ASSUME NEW b \in DOMAIN v.blocks, NEW k \in v.blocks[b],
               IsBefore(at, [block |-> b, bit |-> k])
        PROVE  ~IsBefore([block |-> b, bit |-> k], FindNext(v, at))
    <3>1. b \in Nat /\ k \in Nat /\ LowestBit(fore) \in Nat
      BY <1>2, <2>1, <2>2
    <3>2. b = at.block => LowestBit(fore) <= k
      BY <1>1, <2>2, <2>5, <3>1 DEF IsBefore
    <3> HIDE DEF fore
    <3> QED BY <1>1, <2>3, <2>5, <3>1, <3>2 DEF IsBefore
  <2> QED
    BY <2>4, <2>5
<1>4. CASE fore = {}
  <2>1. FindNext(v, at) = InBlockFrom(v, at.block + 1)
    BY <1>4 DEF FindNext
  <2>2. block >= at.block + 1 /\ v.blocks[block] # {}
    BY <1>1, <1>4 DEF IsBefore
  <2>3. /\ IsSet(v, FindNext(v, at)) /\ FindNext(v, at).block >= at.block + 1
        /\ \A b \in DOMAIN v.blocks : \A k \in v.blocks[b] :
             b >= at.block + 1 => ~IsBefore([block |-> b, bit |-> k], FindNext(v, at))
    BY <1>1, <2>1, <2>2, InBlockFromFindsTheFirst
  <2>4. IsBefore(at, FindNext(v, at))
    BY <1>1, <1>2, <2>3 DEF IsBefore, IsSet
  <2>5. ASSUME NEW b \in DOMAIN v.blocks, NEW k \in v.blocks[b],
               IsBefore(at, [block |-> b, bit |-> k])
        PROVE  b >= at.block + 1
    BY <1>1, <1>2, <1>4, <2>5 DEF IsBefore
  <2> QED
    BY <2>3, <2>4, <2>5
<1> QED
  BY <1>3, <1>4

-----------------------------------------------------------------------------
(* The same in positions. *)
At == [block : Nat, bit : Nat]

IsWhole(v) ==
  /\ v.size \in Nat
  /\ DOMAIN v.blocks = 0 .. NumBlocks(v.size) - 1
  /\ \A b \in DOMAIN v.blocks : v.blocks[b] \subseteq Bit

LEMMA NumBlocksSuffice ==
  ASSUME NEW size \in Nat
  PROVE  NumBlocks(size) \in Nat /\ size <= NumBlocks(size) * BitsPerBlock
<1> DEFINE n == size + BitsPerBlock - 1
<1>1. n \in Nat /\ BitsPerBlock \in Nat \ {0}
  BY BlockAssumption
<1> HIDE DEF n
<1>2. /\ n \div BitsPerBlock \in Nat
      /\ n = (n \div BitsPerBlock) * BitsPerBlock + (n % BitsPerBlock)
      /\ n % BitsPerBlock \in 0 .. BitsPerBlock - 1
  BY <1>1
<1>3. NumBlocks(size) = n \div BitsPerBlock
  BY DEF NumBlocks, n
<1>4. NumBlocks(size) * BitsPerBlock \in Nat
  BY <1>1, <1>2, <1>3
<1> QED
  BY <1>1, <1>2, <1>3, <1>4 DEF n

LEMMA PositionOfBit ==
  ASSUME NEW b \in Nat, NEW k \in Bit
  PROVE  /\ b * BitsPerBlock + k \in Nat
         /\ BlockIndex(b * BitsPerBlock + k) = b
         /\ BitIndex(b * BitsPerBlock + k) = k
BY BlockAssumption DEF Bit, BlockIndex, BitIndex

LEMMA BitOfPosition ==
  ASSUME NEW p \in Nat
  PROVE  /\ BlockIndex(p) \in Nat /\ BitIndex(p) \in Bit
         /\ BlockIndex(p) * BitsPerBlock + BitIndex(p) = p
BY BlockAssumption DEF Bit, BlockIndex, BitIndex

LEMMA OrderOfBits ==
  ASSUME NEW x \in At, NEW y \in At, x.bit \in Bit, y.bit \in Bit
  PROVE  IsBefore(x, y) <=> Position(x) < Position(y)
<1>1. ASSUME NEW b \in Nat, NEW c \in Nat, b < c, NEW j \in Bit, NEW k \in Bit
      PROVE  b * BitsPerBlock + j < c * BitsPerBlock + k
  BY <1>1, BlockAssumption DEF Bit
<1>2. /\ x.block \in Nat /\ y.block \in Nat /\ x.bit \in Nat /\ y.bit \in Nat
      /\ Position(x) \in Nat /\ Position(y) \in Nat
  BY BlockAssumption DEF At, Position
<1>3. x.block < y.block => Position(x) < Position(y)
  BY <1>1, <1>2 DEF Position
<1>4. y.block < x.block => Position(y) < Position(x)
  BY <1>1, <1>2 DEF Position
<1>5. x.block = y.block => (Position(x) < Position(y) <=> x.bit < y.bit)
  <2>1. x.block * BitsPerBlock \in Nat
    BY <1>2, BlockAssumption
  <2> QED
    BY <1>2, <2>1 DEF Position
<1> QED
  BY <1>2, <1>3, <1>4, <1>5 DEF IsBefore

(* The positions of the set bits. *)
LEMMA OnesAreSetBits ==
  ASSUME NEW v, IsWhole(v)
  PROVE  /\ IsVector(v) /\ Ones(v) \subseteq Nat
         /\ \A at \in At : IsSet(v, at) => at.bit \in Bit /\ Position(at) \in Ones(v)
         /\ \A p \in Ones(v) :
              LET at == [block |-> BlockIndex(p), bit |-> BitIndex(p)]
              IN  at \in At /\ IsSet(v, at) /\ Position(at) = p
<1>1. /\ NumBlocks(v.size) \in Nat /\ BitsPerBlock \in Nat \ {0}
      /\ NumBlocks(v.size) * BitsPerBlock \in Nat
  <2>1. v.size \in Nat
    BY DEF IsWhole
  <2>2. NumBlocks(v.size) \in Nat
    BY <2>1, NumBlocksSuffice
  <2>3. \A n \in Nat : n * BitsPerBlock \in Nat
    BY BlockAssumption
  <2> QED
    BY <2>2, <2>3, BlockAssumption
<1>2. IsVector(v) /\ Ones(v) \subseteq Nat
  BY <1>1 DEF IsWhole, IsVector, Ones
<1>3. ASSUME NEW at \in At, IsSet(v, at)
      PROVE  at.bit \in Bit /\ Position(at) \in Ones(v)
  <2>1. /\ at.block \in Nat /\ at.bit \in Bit /\ at.block < NumBlocks(v.size)
        /\ at.bit \in v.blocks[at.block]
    BY <1>1, <1>3 DEF IsSet, IsWhole, At
  <2>2. /\ Position(at) \in Nat /\ BlockIndex(Position(at)) = at.block
        /\ BitIndex(Position(at)) = at.bit
    BY <2>1, PositionOfBit DEF Position
  <2>3. Position(at) < NumBlocks(v.size) * BitsPerBlock
    <3>1. ASSUME NEW b \in Nat, NEW n \in Nat, b < n, NEW k \in Bit
          PROVE  b * BitsPerBlock + k < n * BitsPerBlock
      BY <3>1, BlockAssumption DEF Bit
    <3> QED
      BY <1>1, <2>1, <3>1 DEF Position
  <2> QED
    BY <1>1, <2>1, <2>2, <2>3 DEF Ones
<1>4. ASSUME NEW p \in Ones(v)
      PROVE  /\ BlockIndex(p) \in Nat /\ BitIndex(p) \in Nat
             /\ BlockIndex(p) \in DOMAIN v.blocks /\ BitIndex(p) \in v.blocks[BlockIndex(p)]
             /\ BlockIndex(p) * BitsPerBlock + BitIndex(p) = p
  <2>1. p \in Nat /\ p < NumBlocks(v.size) * BitsPerBlock /\ BitIndex(p) \in v.blocks[BlockIndex(p)]
    BY <1>1 DEF Ones
  <2>2. /\ BlockIndex(p) \in Nat /\ BitIndex(p) \in Bit
        /\ BlockIndex(p) * BitsPerBlock + BitIndex(p) = p
    BY <2>1, BitOfPosition
  <2>3. BlockIndex(p) < NumBlocks(v.size)
    <3>1. ASSUME NEW b \in Nat, NEW n \in Nat, n <= b, NEW k \in Bit
          PROVE  n * BitsPerBlock <= b * BitsPerBlock + k
      BY <3>1, BlockAssumption DEF Bit
    <3>2. NumBlocks(v.size) <= BlockIndex(p) => NumBlocks(v.size) * BitsPerBlock <= p
      BY <1>1, <2>2, <3>1
    <3> QED
      BY <1>1, <2>1, <2>2, <3>2
  <2>4. BlockIndex(p) \in 0 .. NumBlocks(v.size) - 1
    BY <1>1, <2>2, <2>3
  <2>5. BlockIndex(p) \in DOMAIN v.blocks
    BY <2>4 DEF IsWhole
  <2> QED
    BY <2>1, <2>2, <2>5, BitsAreNumbers
<1> QED
  BY <1>2, <1>3, <1>4 DEF At, IsSet, Position

(* The set bits of what the builder makes, and of what flipping makes of it. *)
LEMMA OnesOfBuilt ==
  ASSUME NEW size \in Nat, NEW S \in SUBSET (0 .. size - 1)
  PROVE  /\ IsWhole(BitVector(size, S)) /\ Ones(BitVector(size, S)) = S
         /\ IsWhole(Flip(BitVector(size, S)))
         /\ Ones(Flip(BitVector(size, S))) = (0 .. size - 1) \ S
<1> DEFINE n == NumBlocks(size)
           v == BitVector(size, S)
           w == Flip(v)
<1>1. /\ n \in Nat /\ BitsPerBlock \in Nat \ {0}
      /\ n * BitsPerBlock \in Nat /\ size <= n * BitsPerBlock
  BY NumBlocksSuffice, BlockAssumption
<1>2. /\ v.size = size /\ DOMAIN v.blocks = 0 .. n - 1
      /\ \A b \in 0 .. n - 1 : v.blocks[b] = {k \in Bit : b * BitsPerBlock + k \in S}
  BY DEF BitVector
<1>3. v = [size |-> v.size, blocks |-> v.blocks]
  BY DEF BitVector
<1> HIDE DEF v
<1>4. w = [size |-> size, blocks |-> [b \in 0 .. n - 1 |->
            {k \in Bit : b * BitsPerBlock + k < size} \ v.blocks[b]]]
  <2> DEFINE flipped == [b \in DOMAIN v.blocks |->
                           {k \in Bit : b * BitsPerBlock + k < v.size} \ v.blocks[b]]
  <2>1. w = [v EXCEPT !.blocks = flipped]
    BY DEF Flip
  <2>2. flipped = [b \in 0 .. n - 1 |-> {k \in Bit : b * BitsPerBlock + k < size} \ v.blocks[b]]
    BY <1>2
  <2> HIDE DEF flipped
  <2>3. w = [size |-> v.size, blocks |-> flipped]
    BY <1>3, <2>1
  <2> QED
    BY <1>2, <2>2, <2>3
<1>5. /\ w.size = size /\ DOMAIN w.blocks = 0 .. n - 1
      /\ \A b \in 0 .. n - 1 : w.blocks[b] = {k \in Bit : b * BitsPerBlock + k < size /\ b * BitsPerBlock + k \notin S}
  BY <1>2, <1>4
<1> HIDE DEF w
<1>6. IsWhole(v) /\ IsWhole(w)
  BY <1>2, <1>5 DEF IsWhole, n
<1>7. ASSUME NEW p \in Nat, p < n * BitsPerBlock
      PROVE  /\ BlockIndex(p) \in 0 .. n - 1 /\ BitIndex(p) \in Bit
             /\ BlockIndex(p) * BitsPerBlock + BitIndex(p) = p
  <2>1. /\ BlockIndex(p) \in Nat /\ BitIndex(p) \in Bit
        /\ BlockIndex(p) * BitsPerBlock + BitIndex(p) = p
    BY BitOfPosition
  <2>2. ASSUME NEW b \in Nat, NEW m \in Nat, m <= b, NEW k \in Bit
        PROVE  m * BitsPerBlock <= b * BitsPerBlock + k
    BY <2>2, BlockAssumption DEF Bit
  <2>3. n <= BlockIndex(p) => n * BitsPerBlock <= p
    BY <1>1, <2>1, <2>2
  <2> HIDE DEF n
  <2> QED
    BY <1>1, <1>7, <2>1, <2>3
<1>8. /\ Ones(v) = {p \in 0 .. n * BitsPerBlock - 1 : BitIndex(p) \in v.blocks[BlockIndex(p)]}
      /\ Ones(w) = {p \in 0 .. n * BitsPerBlock - 1 : BitIndex(p) \in w.blocks[BlockIndex(p)]}
  BY <1>2, <1>5 DEF Ones
<1> HIDE DEF n
<1>9. ASSUME NEW p \in 0 .. n * BitsPerBlock - 1
      PROVE  /\ p \in Ones(v) <=> p \in S
             /\ p \in Ones(w) <=> p < size /\ p \notin S
  <2>1. p \in Nat /\ p < n * BitsPerBlock
    BY <1>1
  <2>2. /\ BlockIndex(p) \in 0 .. n - 1 /\ BitIndex(p) \in Bit
        /\ BlockIndex(p) * BitsPerBlock + BitIndex(p) = p
    BY <1>7, <2>1
  <2>3. v.blocks[BlockIndex(p)] = {k \in Bit : BlockIndex(p) * BitsPerBlock + k \in S}
    BY <1>2, <2>2
  <2>4. w.blocks[BlockIndex(p)] =
          {k \in Bit : BlockIndex(p) * BitsPerBlock + k < size /\ BlockIndex(p) * BitsPerBlock + k \notin S}
    BY <1>5, <2>2
  <2>5. BitIndex(p) \in v.blocks[BlockIndex(p)] <=> p \in S
    BY <2>2, <2>3, Zenon
  <2>6. BitIndex(p) \in w.blocks[BlockIndex(p)] <=> p < size /\ p \notin S
    BY <2>2, <2>4, Zenon
  <2> QED
    BY <1>8, <2>5, <2>6
<1>10. \A p \in 0 .. size - 1 : p \in 0 .. n * BitsPerBlock - 1
  BY <1>1
<1>11. Ones(v) \subseteq 0 .. n * BitsPerBlock - 1 /\ Ones(w) \subseteq 0 .. n * BitsPerBlock - 1
  BY <1>8
<1>12. \A p \in 0 .. n * BitsPerBlock - 1 : p < size <=> p \in 0 .. size - 1
  BY <1>1
<1>13. Ones(v) = S
  BY <1>9, <1>10, <1>11
<1>14. Ones(w) = (0 .. size - 1) \ S
  BY <1>9, <1>10, <1>11, <1>12
<1> QED
  BY <1>6, <1>13, <1>14 DEF v, w

(* The iterator begins at the least position of a set bit ... *)
LEMMA GetFirstIsLeast ==
  ASSUME NEW v, IsWhole(v), Ones(v) # {}
  PROVE  /\ GetFirst(v) \in At /\ IsSet(v, GetFirst(v))
         /\ Position(GetFirst(v)) \in Ones(v)
         /\ \A p \in Ones(v) : Position(GetFirst(v)) <= p
<1> DEFINE at(p) == [block |-> BlockIndex(p), bit |-> BitIndex(p)]
           first == GetFirst(v)
<1>1. /\ IsVector(v) /\ Ones(v) \subseteq Nat
      /\ \A x \in At : IsSet(v, x) => x.bit \in Bit /\ Position(x) \in Ones(v)
      /\ \A p \in Ones(v) : at(p) \in At /\ IsSet(v, at(p)) /\ Position(at(p)) = p
  BY OnesAreSetBits
<1>2. PICK p \in Ones(v) : TRUE
  OBVIOUS
<1>3. at(p).block \in DOMAIN v.blocks /\ v.blocks[at(p).block] # {}
  BY <1>1 DEF IsSet
<1>4. /\ IsSet(v, first)
      /\ \A b \in DOMAIN v.blocks : \A k \in v.blocks[b] :
           ~IsBefore([block |-> b, bit |-> k], first)
  BY <1>1, <1>3, FirstBitIsVisited
<1>5. first = [block |-> first.block, bit |-> first.bit]
  BY DEF GetFirst, InBlockFrom, Behind
<1>6. first \in At
  <2>1. first.block \in Nat /\ first.bit \in Nat
    BY <1>1, <1>4, BitsAreNumbers DEF IsVector, IsSet
  <2> HIDE DEF first
  <2> QED
    BY <1>5, <2>1 DEF At
<1> HIDE DEF first
<1>7. ASSUME NEW q \in Ones(v)
      PROVE  Position(first) <= q
  <2>1. at(q) \in At /\ IsSet(v, at(q)) /\ Position(at(q)) = q /\ at(q).bit \in Bit
    BY <1>1
  <2>2. ~IsBefore(at(q), first)
    BY <1>4, <2>1 DEF IsSet
  <2>3. first.bit \in Bit /\ Position(first) \in Ones(v)
    BY <1>1, <1>4, <1>6
  <2> HIDE DEF at
  <2>4. ~(q < Position(first))
    BY <1>6, <2>1, <2>2, <2>3, OrderOfBits
  <2> QED
    BY <1>1, <2>3, <2>4
<1> QED
  BY <1>1, <1>4, <1>6, <1>7 DEF first

(* ... and goes on to the next one. *)
LEMMA FindNextIsNext ==
  ASSUME NEW v, IsWhole(v), NEW at \in At, IsSet(v, at),
         NEW later \in Ones(v), Position(at) < later
  PROVE  /\ FindNext(v, at) \in At /\ IsSet(v, FindNext(v, at))
         /\ Position(FindNext(v, at)) \in Ones(v)
         /\ Position(at) < Position(FindNext(v, at))
         /\ \A p \in Ones(v) : Position(at) < p => Position(FindNext(v, at)) <= p
<1> DEFINE of(p) == [block |-> BlockIndex(p), bit |-> BitIndex(p)]
           next == FindNext(v, at)
<1>1. /\ IsVector(v) /\ Ones(v) \subseteq Nat
      /\ \A x \in At : IsSet(v, x) => x.bit \in Bit /\ Position(x) \in Ones(v)
      /\ \A p \in Ones(v) : of(p) \in At /\ IsSet(v, of(p)) /\ Position(of(p)) = p
  BY OnesAreSetBits
<1>2. at.bit \in Bit /\ Position(at) \in Ones(v)
  BY <1>1
<1>3. of(later) \in At /\ IsSet(v, of(later)) /\ Position(of(later)) = later /\ of(later).bit \in Bit
  BY <1>1
<1>4. IsBefore(at, of(later))
  <2> HIDE DEF of
  <2> QED BY <1>2, <1>3, OrderOfBits
<1>5. of(later).block \in DOMAIN v.blocks /\ of(later).bit \in v.blocks[of(later).block]
  BY <1>3 DEF IsSet
<1>6. of(later) = [block |-> of(later).block, bit |-> of(later).bit]
  OBVIOUS
<1>7. at \in [block : Nat, bit : Nat]
  BY DEF At
<1>8. /\ IsSet(v, next) /\ IsBefore(at, next)
      /\ \A b \in DOMAIN v.blocks : \A k \in v.blocks[b] :
           IsBefore(at, [block |-> b, bit |-> k]) => ~IsBefore([block |-> b, bit |-> k], next)
  BY <1>1, <1>4, <1>5, <1>6, <1>7, NextBitIsVisited
<1>9. next = [block |-> next.block, bit |-> next.bit]
  BY <1>7 DEF FindNext, InBlockFrom, Behind
<1>10. next \in At
  <2>1. next.block \in Nat /\ next.bit \in Nat
    BY <1>1, <1>8, BitsAreNumbers DEF IsVector, IsSet
  <2> HIDE DEF next
  <2> QED
    BY <1>9, <2>1 DEF At
<1>11. next.bit \in Bit /\ Position(next) \in Ones(v)
  BY <1>1, <1>8, <1>10
<1> HIDE DEF next
<1>12. Position(at) < Position(next)
  BY <1>2, <1>8, <1>10, <1>11, OrderOfBits
<1>13. ASSUME NEW q \in Ones(v), Position(at) < q
       PROVE  Position(next) <= q
  <2>1. of(q) \in At /\ IsSet(v, of(q)) /\ Position(of(q)) = q /\ of(q).bit \in Bit
    BY <1>1
  <2>2. of(q).block \in DOMAIN v.blocks /\ of(q).bit \in v.blocks[of(q).block]
    BY <2>1 DEF IsSet
  <2>3. of(q) = [block |-> of(q).block, bit |-> of(q).bit]
    OBVIOUS
  <2> HIDE DEF of
  <2>4. IsBefore(at, of(q))
    BY <1>2, <1>13, <2>1, OrderOfBits
  <2>5. ~IsBefore(of(q), next)
    BY <1>8, <2>2, <2>3, <2>4
  <2>6. ~(q < Position(next))
    BY <1>10, <1>11, <2>1, <2>5, OrderOfBits
  <2> QED
    BY <1>1, <1>11, <2>6
<1> QED
  BY <1>8, <1>10, <1>11, <1>12, <1>13 DEF next
-----------------------------------------------------------------------------
(* The k-th step of the iterator is on the k-th set bit. *)
LEMMA RowsAtOnes ==
  ASSUME NEW v, IsWhole(v), IsFiniteSet(Ones(v)), NEW rows
  PROVE  RowsAt(rows, v, Count(v)) = RowsIn(rows, {p + 1 : p \in Ones(v)})
<1> DEFINE O == Ones(v)
           c == Cardinality(O)
           of(p) == [block |-> BlockIndex(p), bit |-> BitIndex(p)]
           g == [k \in 1..c |-> of(Nth(O, k))]
           IsIterated(f) == f = [k \in 1..c |-> IF k = 1 THEN GetFirst(v) ELSE FindNext(v, f[k - 1])]
           at == CHOOSE f : IsIterated(f)
<1>1. /\ O \in SUBSET Nat /\ O \in SUBSET Int /\ IsFiniteSet(O) /\ c \in Nat
      /\ \A x \in At : IsSet(v, x) => x.bit \in Bit
      /\ \A p \in O : of(p) \in At /\ IsSet(v, of(p)) /\ Position(of(p)) = p
  BY OnesAreSetBits, FS_CardinalityType
<1>2. ASSUME NEW x \in At, x.bit \in Bit
      PROVE  of(Position(x)) = x
  <2>1. x = [block |-> x.block, bit |-> x.bit] /\ x.block \in Nat
    BY DEF At
  <2>2. BlockIndex(Position(x)) = x.block /\ BitIndex(Position(x)) = x.bit
    BY <1>2, <2>1, PositionOfBit DEF Position
  <2> QED
    BY <2>1, <2>2
<1> HIDE DEF O, of
<1>3. \A k \in 1..c : Nth(O, k) \in O /\ Rank(O, Nth(O, k)) = k
  BY <1>1, NthIsRanked
<1>4. ASSUME 1 \in 1..c
      PROVE  g[1] = GetFirst(v)
  <2> DEFINE x == GetFirst(v)
  <2>1. /\ x \in At /\ x.bit \in Bit /\ Position(x) \in O
        /\ \A p \in O : Position(x) <= p
    <3>1. O # {}
      BY <1>3, <1>4
    <3> QED
      BY <1>1, <3>1, GetFirstIsLeast DEF O
  <2> HIDE DEF x
  <2>2. Rank(O, Position(x)) = 1
    BY <1>1, <2>1, FirstHasRankOne
  <2>3. Nth(O, 1) = Position(x)
    BY <1>1, <2>1, <2>2, NthOfRank
  <2> QED
    BY <1>2, <1>4, <2>1, <2>3 DEF x
<1>5. ASSUME NEW k \in 1..c, k # 1
      PROVE  k - 1 \in 1..c /\ g[k] = FindNext(v, g[k - 1])
  <2> DEFINE here == Nth(O, k - 1)
             x == FindNext(v, of(here))
  <2>1. k - 1 \in 1..c /\ k - 1 < k
    BY <1>1, <1>5
  <2>2. /\ here \in O /\ Rank(O, here) = k - 1
        /\ Nth(O, k) \in O /\ here < Nth(O, k)
    BY <1>1, <1>3, <2>1, NthInOrder
  <2> HIDE DEF here
  <2>3. /\ x \in At /\ x.bit \in Bit /\ Position(x) \in O /\ here < Position(x)
        /\ \A p \in O : here < p => Position(x) <= p
    <3>1. of(here) \in At /\ IsSet(v, of(here)) /\ Position(of(here)) = here
      BY <1>1, <2>2
    <3> QED
      BY <1>1, <2>2, <3>1, FindNextIsNext DEF O
  <2> HIDE DEF x
  <2>4. Rank(O, Position(x)) = k - 1 + 1
    <3>1. Rank(O, Position(x)) = Rank(O, here) + 1
      BY <1>1, <2>2, <2>3, NextHasNextRank
    <3> QED BY <2>2, <3>1
  <2>5. Rank(O, Position(x)) = k
    BY <2>4
  <2>6. Nth(O, k) = Position(x)
    BY <1>1, <2>3, <2>5, NthOfRank
  <2> QED
    BY <1>2, <2>1, <2>3, <2>6 DEF x, here
<1> HIDE DEF g
<1>6. DOMAIN g = 1..c /\ \A k \in 1..c : g[k] = of(Nth(O, k))
  BY DEF g
<1>7. IsIterated(g)
  <2>1. \A k \in 1..c : g[k] = IF k = 1 THEN GetFirst(v) ELSE FindNext(v, g[k - 1])
    BY <1>4, <1>5
  <2>2. g = [k \in 1..c |-> g[k]]
    BY DEF g
  <2> QED
    BY <2>1, <2>2
<1>8. IsIterated(at)
  <2> HIDE DEF IsIterated
  <2> QED BY <1>7
<1>9. \A k \in 1..c : at[k] = IF k = 1 THEN GetFirst(v) ELSE FindNext(v, at[k - 1])
  <2> DEFINE h == at
  <2>1. IsIterated(h)
    BY <1>8
  <2> HIDE DEF h
  <2>2. \A k \in 1..c : h[k] = IF k = 1 THEN GetFirst(v) ELSE FindNext(v, h[k - 1])
    BY <2>1
  <2> QED
    BY <2>2 DEF h
<1> HIDE DEF at
<1>10. \A k \in 1..c : at[k] = g[k]
  <2> DEFINE wrong == {k \in 1..c : at[k] # g[k]}
             k == LowestBit(wrong)
  <2>1. SUFFICES ASSUME wrong # {} PROVE FALSE
    OBVIOUS
  <2>2. wrong \in SUBSET Nat
    BY <1>1
  <2>3. k \in wrong /\ \A l \in wrong : k <= l
    BY <2>1, <2>2, LowestBitIsLowest
  <2> HIDE DEF k
  <2>4. k \in 1..c /\ at[k] # g[k]
    BY <2>3
  <2>5. CASE k = 1
    BY <1>4, <1>9, <2>4, <2>5
  <2>6. CASE k # 1
    <3>1. k - 1 \in 1..c /\ g[k] = FindNext(v, g[k - 1])
      BY <1>5, <2>4, <2>6
    <3>2. k \in Int /\ ~(k <= k - 1)
      BY <1>1, <2>4
    <3>3. k - 1 \notin wrong
      BY <2>3, <3>2
    <3>4. at[k - 1] = g[k - 1]
      BY <3>1, <3>3
    <3> QED
      BY <1>9, <2>4, <2>6, <3>1, <3>4
  <2> QED
    BY <2>5, <2>6
<1> DEFINE S == {p + 1 : p \in O}
<1>11. IsFiniteSet(S) /\ Cardinality(S) = c /\ S \in SUBSET Int
  <2>1. S = {1 + p : p \in O}
    BY <1>1
  <2>2. IsFiniteSet({1 + p : p \in O}) /\ Cardinality({1 + p : p \in O}) = c
    BY <1>1, ShiftedSize
  <2>3. S \in SUBSET Int
    <3>1. \A p \in O : p + 1 \in Int
      BY <1>1
    <3> QED BY <3>1
  <2> QED
    BY <2>1, <2>2, <2>3, Zenon
<1>12. ASSUME NEW k \in 1..c
       PROVE  Nth(S, k) = Nth(O, k) + 1
  <2> DEFINE p == Nth(O, k)
             low == {q \in O : q <= p}
  <2>1. p \in O /\ Rank(O, p) = k /\ p \in Nat
    BY <1>1, <1>3
  <2> HIDE DEF p
  <2>2. {q \in S : q <= p + 1} = {1 + q : q \in low}
    <3>1. \A q \in O : (q + 1 <= p + 1 <=> q <= p) /\ q + 1 = 1 + q
      BY <1>1, <2>1
    <3> QED BY <3>1, Zenon
  <2>3. low \in SUBSET Nat /\ IsFiniteSet(low)
    <3>1. low \in SUBSET O
      OBVIOUS
    <3> HIDE DEF low
    <3> QED BY <1>1, <3>1, FS_Subset
  <2>4. Cardinality({1 + q : q \in low}) = Cardinality(low)
    <3> HIDE DEF low
    <3> QED BY <2>3, ShiftedSize
  <2>5. Rank(S, p + 1) = k
    BY <2>1, <2>2, <2>4 DEF Rank
  <2>6. p + 1 \in S
    BY <2>1
  <2> HIDE DEF S
  <2> QED
    BY <1>11, <2>5, <2>6, NthOfRank DEF p
<1>13. RowsAt(rows, v, c) = [k \in 1..c |-> rows[Position(at[k]) + 1]]
  BY DEF RowsAt, at
<1>14. \A k \in 1..c : Position(at[k]) + 1 = Nth(S, k)
  <2>1. \A k \in 1..c : Position(of(Nth(O, k))) = Nth(O, k)
    BY <1>1, <1>3
  <2> HIDE DEF S
  <2> QED
    BY <1>6, <1>10, <1>12, <2>1
<1>15. RowsIn(rows, S) = [k \in 1..c |-> rows[Nth(S, k)]]
  BY <1>11 DEF RowsIn
<1>16. [k \in 1..c |-> rows[Position(at[k]) + 1]] = [k \in 1..c |-> rows[Nth(S, k)]]
  <2> HIDE DEF S
  <2> QED BY <1>14
<1> QED
  BY <1>13, <1>15, <1>16 DEF Count, O

-----------------------------------------------------------------------------
(* The hash table, for values and their hashes. *)

LEMMA HashType ==
  ASSUME NEW v \in Value
  PROVE  Hash[v] \in Nat
BY HashAssumption

LEMMA LookupsAreEntered ==
  ASSUME NEW n \in Nat, NEW t \in Table(n), WellChained(t), NEW v \in Value
  PROVE  /\ Lookup(t, v) \subseteq Entered(t)
         /\ Entered(t) \subseteq 1..n
BY HashType, ChainsAreEntered DEF Lookup

LEMMA EnterKeepsChains ==
  ASSUME NEW n \in Nat, NEW t \in Table(n), WellChained(t),
         NEW p \in 1..n, NEW v \in Value, p \notin Lookup(t, v)
  PROVE  /\ Enter(t, p, v) \in Table(n)
         /\ WellChained(Enter(t, p, v))
         /\ Entered(Enter(t, p, v)) = Entered(t) \cup {p}
         /\ p \in Lookup(Enter(t, p, v), v)
BY HashType, PushKeepsChains DEF Lookup, Enter

LEMMA EnterKeepsRows ==
  ASSUME NEW n \in Nat, NEW t \in Table(n), WellChained(t),
         NEW p \in 1..n, NEW v \in Value, p \notin Entered(t), NEW w \in Value
  PROVE  Lookup(t, w) \subseteq Lookup(Enter(t, p, v), w)
BY HashType, PushKeepsRows DEF Lookup, Enter

-----------------------------------------------------------------------------
(* The semi-joins. *)

(* The phases of a semi-join; in the others its tables are not looked at. *)
Joining == {"select", "build", "bind", "insert", "cover"}

IsCall(in) ==
  /\ in.bindings \in [Side -> Seq(Binding) \ {<<>>}]
  /\ in.background \in Seq(Value) \ {<<>>}
  /\ in.examples \in [Side -> Seq(Value)]

Keys(rows) == [p \in 1..Len(rows) |-> rows[p].key]

(* A table that can be looked up in, whatever was inserted. *)
IsSound(t) ==
  \/ t = NoTable
  \/ \E n \in Nat : t \in Table(n) /\ WellChained(t)

(* The first n rows were inserted, and each can be found. *)
Holds(t, keys, n) ==
  /\ t \in Table(Len(keys)) /\ WellChained(t)
  /\ Entered(t) = 1..n
  /\ \A p \in 1..n : p \in Lookup(t, keys[p])

TypeInv ==
  /\ pc \in Joining => side \in Side /\ IsCall(given)
  /\ offset \in Nat

AllSound ==
  /\ IsSound(backgroundTable) /\ IsSound(clauseTable)
  /\ IsSound(coverageTable) /\ IsSound(positiveTable)

(* The background's table is kept from the positive to the negative side. *)
BackgroundInv ==
  /\ pc \in Joining /\ ~(pc = "build" /\ IsLeftSemiJoin) =>
       backgroundTable = NoTable \/ Holds(backgroundTable, Background, Len(Background))
  /\ pc = "build" /\ IsLeftSemiJoin =>
       offset <= Len(Background) /\ Holds(backgroundTable, Background, offset)
  /\ pc \in {"bind", "insert"} /\ IsLeftSemiJoin =>
       Holds(backgroundTable, Background, Len(Background))

ClauseInv ==
  /\ pc = "build" /\ ~IsLeftSemiJoin =>
       offset <= Len(Rows) /\ Holds(clauseTable, Keys(Rows), offset)
  /\ pc \in {"bind", "insert"} /\ ~IsLeftSemiJoin =>
       Holds(clauseTable, Keys(Rows), Len(Rows))

CoverageTableInv ==
  pc \in {"bind", "insert", "cover"} =>
    coverageTable \in Table(Len(Rows)) /\ WellChained(coverageTable)

(* What is left of a chunk are the set bits from the iterator on. *)
IsChunk(c) ==
  /\ c = [base |-> c.base, bits |-> c.bits, left |-> c.left, at |-> c.at]
  /\ c.base \in Nat /\ c.left \in Nat /\ IsWhole(c.bits)
  /\ IsFiniteSet(Ones(c.bits))
  /\ c.left > 0 =>
       /\ c.at \in At /\ IsSet(c.bits, c.at)
       /\ c.left = Cardinality({p \in Ones(c.bits) : p >= Position(c.at)})

ChunkInv ==
  /\ IsChunk(chunk)
  /\ pc # "insert" => chunk.left = 0
  /\ pc = "insert" => \A p \in Ones(chunk.bits) : chunk.base + p < Len(Rows)

JoinInv ==
  /\ TypeInv /\ AllSound /\ BackgroundInv /\ ClauseInv /\ CoverageTableInv /\ ChunkInv

-----------------------------------------------------------------------------
LEMMA CallTypes ==
  ASSUME TypeInv, pc \in Joining
  PROVE  /\ Rows \in Seq(Binding) /\ Len(Rows) \in Nat \ {0}
         /\ Background \in Seq(Value) /\ Len(Background) \in Nat \ {0}
         /\ Examples \in Seq(Value) /\ Len(Examples) \in Nat
         /\ Keys(Rows) \in Seq(Value) /\ Len(Keys(Rows)) = Len(Rows)
         /\ \A p \in 1..Len(Rows) : /\ Rows[p] \in Binding
                                    /\ Rows[p].key \in Value /\ Rows[p].head \in Value
                                    /\ Keys(Rows)[p] = Rows[p].key
<1>1. Rows \in Seq(Binding) \ {<<>>} /\ Background \in Seq(Value) \ {<<>>} /\ Examples \in Seq(Value)
  BY DEF TypeInv, IsCall, Rows, Background, Examples
<1>2. Len(Rows) \in Nat \ {0} /\ Len(Background) \in Nat \ {0} /\ Len(Examples) \in Nat
  BY <1>1
<1> HIDE DEF Rows
<1>3. \A p \in 1..Len(Rows) : Rows[p] \in Binding
  BY <1>1
<1>4. \A p \in 1..Len(Rows) : Rows[p].key \in Value /\ Rows[p].head \in Value
  BY <1>3 DEF Binding
<1>5. Keys(Rows) \in Seq(Value) /\ Len(Keys(Rows)) = Len(Rows)
  BY <1>2, <1>4 DEF Keys
<1> QED
  BY <1>1, <1>2, <1>3, <1>4, <1>5 DEF Keys

(* What a table that holds n rows becomes when the next row is inserted. *)
LEMMA HoldsOneMore ==
  ASSUME NEW keys \in Seq(Value), NEW n \in Nat, n < Len(keys),
         NEW t, Holds(t, keys, n)
  PROVE  Holds(Enter(t, n + 1, keys[n + 1]), keys, n + 1)
<1> DEFINE m == Len(keys)
           v == keys[n + 1]
           u == Enter(t, n + 1, v)
<1>1. m \in Nat /\ n + 1 \in 1..m /\ v \in Value /\ \A p \in 1..m : keys[p] \in Value
  OBVIOUS
<1>2. t \in Table(m) /\ WellChained(t) /\ Entered(t) = 1..n /\ \A p \in 1..n : p \in Lookup(t, keys[p])
  BY DEF Holds
<1> HIDE DEF m, v
<1>3. n + 1 \notin Entered(t) /\ 1..n \subseteq 1..m
  BY <1>1, <1>2
<1>4. n + 1 \notin Lookup(t, v)
  BY <1>1, <1>2, <1>3, LookupsAreEntered
<1>5. /\ u \in Table(m) /\ WellChained(u) /\ Entered(u) = Entered(t) \cup {n + 1}
      /\ n + 1 \in Lookup(u, v)
  BY <1>1, <1>2, <1>4, EnterKeepsChains
<1>6. \A p \in 1..n : p \in Lookup(u, keys[p])
  <2> TAKE p \in 1..n
  <2>1. keys[p] \in Value
    BY <1>1, <1>3
  <2>2. Lookup(t, keys[p]) \subseteq Lookup(u, keys[p])
    BY <1>1, <1>2, <1>3, <2>1, EnterKeepsRows
  <2> QED
    BY <1>2, <2>2
<1> HIDE DEF u
<1>7. Entered(u) = 1 .. n + 1
  BY <1>2, <1>5
<1>8. \A p \in 1 .. n + 1 : p \in 1..n \/ p = n + 1
  OBVIOUS
<1>9. \A p \in 1 .. n + 1 : p \in Lookup(u, keys[p])
  BY <1>5, <1>6, <1>8 DEF v
<1> QED
  BY <1>5, <1>7, <1>9 DEF Holds, u, m, v

LEMMA HoldsNothing ==
  ASSUME NEW n \in Nat
  PROVE  NewTable(n) \in Table(n) /\ WellChained(NewTable(n)) /\ Entered(NewTable(n)) = 1..0
BY NewTableIsEmpty

LEMMA HoldsIsSound ==
  ASSUME NEW keys \in Seq(Value), NEW n, NEW t, Holds(t, keys, n)
  PROVE  IsSound(t)
<1>1. Len(keys) \in Nat
  OBVIOUS
<1> QED
  BY <1>1 DEF Holds, IsSound

(* A new chunk: the iterator is at the first of its set bits, if there is any. *)
LEMMA NewChunk ==
  ASSUME NEW base \in Nat, NEW size \in Nat, NEW S \in SUBSET (0 .. size - 1)
  PROVE  LET c == SemiJoinChunk(base, BitVector(size, S))
         IN  IsChunk(c) /\ c.base = base /\ Ones(c.bits) = S
<1> DEFINE v == BitVector(size, S)
           c == SemiJoinChunk(base, v)
<1>1. IsWhole(v) /\ Ones(v) = S
  BY OnesOfBuilt
<1> HIDE DEF v
<1>2. c = [base |-> base, bits |-> v, left |-> Cardinality(S), at |-> GetFirst(v)]
  BY <1>1 DEF SemiJoinChunk, Count
<1>3. IsFiniteSet(0 .. size - 1)
  <2>1. 0 \in Int /\ size - 1 \in Int
    OBVIOUS
  <2> QED BY <2>1, FS_Interval, Zenon
<1>4. IsFiniteSet(S) /\ Cardinality(S) \in Nat
  <2>1. IsFiniteSet(S)
    BY <1>3, FS_Subset
  <2> QED BY <2>1, FS_CardinalityType
<1>5. ASSUME Cardinality(S) > 0
      PROVE  /\ GetFirst(v) \in At /\ IsSet(v, GetFirst(v))
             /\ S = {p \in S : p >= Position(GetFirst(v))}
  <2>1. S # {}
    BY <1>5, FS_EmptySet
  <2>2. /\ GetFirst(v) \in At /\ IsSet(v, GetFirst(v))
        /\ Position(GetFirst(v)) \in S
        /\ \A p \in S : Position(GetFirst(v)) <= p
    BY <1>1, <2>1, GetFirstIsLeast
  <2>3. S \subseteq Nat
    OBVIOUS
  <2> QED
    BY <2>2, <2>3
<1>6. c.base = base /\ c.bits = v /\ c.left = Cardinality(S) /\ c.at = GetFirst(v)
  BY <1>2
<1> HIDE DEF c
<1>7. c.left > 0 => c.left = Cardinality({p \in Ones(c.bits) : p >= Position(c.at)})
  BY <1>1, <1>5, <1>6, Zenon
<1>8. IsChunk(c)
  BY <1>1, <1>2, <1>4, <1>5, <1>6, <1>7 DEF IsChunk
<1> QED
  BY <1>1, <1>6, <1>8 DEF c, v

LEMMA NoChunkIsChunk == IsChunk(NoChunk) /\ NoChunk.left = 0
<1>1. 0 \in Nat /\ {} \in SUBSET (0 .. 0 - 1)
  OBVIOUS
<1>2. IsChunk(NoChunk) /\ Ones(NoChunk.bits) = {}
  BY <1>1, NewChunk DEF NoChunk
<1>3. NoChunk.left = Cardinality(Ones(NoChunk.bits))
  BY DEF NoChunk, SemiJoinChunk, Count
<1> QED
  BY <1>2, <1>3, FS_EmptySet

(* InsertIfNotPresent takes one row off the chunk. *)
LEMMA NextRowOfChunk ==
  ASSUME NEW c, IsChunk(c), c.left > 0
  PROVE  LET d == [c EXCEPT !.left = @ - 1,
                            !.at = IF c.left > 1 THEN FindNext(c.bits, @) ELSE @]
             here == Position(c.at)
         IN  /\ IsChunk(d) /\ d.base = c.base /\ d.bits = c.bits /\ d.left = c.left - 1
             /\ here \in Ones(c.bits)
             /\ d.left > 0 => {p \in Ones(c.bits) : p >= Position(d.at)}
                                = {p \in Ones(c.bits) : p >= here} \ {here}
             /\ d.left = 0 => {p \in Ones(c.bits) : p >= here} = {here}
<1> DEFINE d == [c EXCEPT !.left = @ - 1,
                          !.at = IF c.left > 1 THEN FindNext(c.bits, @) ELSE @]
           here == Position(c.at)
           next == FindNext(c.bits, c.at)
           O == Ones(c.bits)
           rest == {p \in O : p >= here}
<1>1. /\ c = [base |-> c.base, bits |-> c.bits, left |-> c.left, at |-> c.at]
      /\ c.base \in Nat /\ c.left \in Nat /\ IsWhole(c.bits) /\ IsFiniteSet(O)
      /\ c.at \in At /\ IsSet(c.bits, c.at)
      /\ c.left = Cardinality(rest)
  BY DEF IsChunk
<1>2. O \subseteq Nat /\ here \in O
  BY <1>1, OnesAreSetBits
<1>3. d = [base |-> c.base, bits |-> c.bits, left |-> c.left - 1,
           at |-> IF c.left > 1 THEN next ELSE c.at]
  <2> DEFINE to == IF c.left > 1 THEN FindNext(c.bits, c.at) ELSE c.at
             less == c.left - 1
  <2>1. d = [c EXCEPT !.left = less, !.at = to]
    OBVIOUS
  <2> HIDE DEF to, less
  <2>2. c = [base |-> c.base, bits |-> c.bits, left |-> c.left, at |-> c.at]
    BY <1>1
  <2>3. d = [base |-> c.base, bits |-> c.bits, left |-> less, at |-> to]
    <3> HIDE DEF d
    <3> QED BY <2>1, <2>2
  <2> QED
    BY <2>3 DEF to, less
<1> HIDE DEF d, here, O
<1>4. here \in rest /\ rest \subseteq O
  BY <1>2
<1>5. IsFiniteSet(rest)
  <2> HIDE DEF rest
  <2> QED BY <1>1, <1>4, FS_Subset
<1>6. IsFiniteSet(rest \ {here}) /\ Cardinality(rest \ {here}) = Cardinality(rest) - 1
  <2> HIDE DEF rest
  <2> QED BY <1>4, <1>5, FS_RemoveElement
<1>7. /\ d.base = c.base /\ d.bits = c.bits /\ d.left = c.left - 1 /\ d.left \in Nat
      /\ c.left > 1 => d.at = next
  BY <1>1, <1>3
<1>8. ASSUME c.left > 1
      PROVE  /\ next \in At /\ IsSet(c.bits, next)
             /\ {p \in O : p >= Position(next)} = rest \ {here}
  <2>1. PICK later \in rest : later # here
    <3>1. SUFFICES ASSUME rest \subseteq {here} PROVE FALSE
      OBVIOUS
    <3>2. rest \ {here} = {}
      BY <3>1
    <3>3. Cardinality(rest \ {here}) = 0
      BY <3>2, FS_EmptySet
    <3> HIDE DEF rest
    <3> QED
      BY <1>1, <1>6, <1>8, <3>3
  <2>2. later \in O /\ here < later
    BY <1>2, <2>1
  <2>3. /\ next \in At /\ IsSet(c.bits, next)
        /\ Position(next) \in O /\ here < Position(next)
        /\ \A p \in O : here < p => Position(next) <= p
    BY <1>1, <2>2, FindNextIsNext DEF O, here
  <2>4. Position(next) \in Nat /\ here \in Nat
    BY <1>2, <2>3
  <2> HIDE DEF next
  <2>5. ASSUME NEW p \in O
        PROVE  p >= Position(next) <=> p >= here /\ p # here
    BY <1>2, <2>3, <2>4
  <2> QED
    BY <2>3, <2>5
<1>9. d.left > 0 => {p \in O : p >= Position(d.at)} = rest \ {here}
  <2>1. d.left > 0 => c.left > 1
    BY <1>1, <1>7
  <2> HIDE DEF next, rest
  <2> QED
    BY <1>7, <1>8, <2>1
<1>10. d.left = 0 => rest = {here}
  <2>1. ASSUME d.left = 0
        PROVE  rest \ {here} = {}
    <3> HIDE DEF rest
    <3>1. Cardinality(rest \ {here}) = 0
      BY <1>1, <1>6, <1>7, <2>1
    <3> QED
      BY <1>6, <3>1, FS_EmptySet
  <2> HIDE DEF rest
  <2> QED
    BY <1>4, <2>1
<1>11. IsChunk(d)
  <2>1. d.left > 0 => d.left = Cardinality({p \in Ones(d.bits) : p >= Position(d.at)})
    <3> HIDE DEF rest
    <3>1. d.left = Cardinality(rest \ {here})
      BY <1>1, <1>6, <1>7
    <3> QED
      BY <1>7, <1>9, <3>1 DEF O
  <2>2. d.left > 0 => d.at \in At /\ IsSet(d.bits, d.at)
    <3>1. d.left > 0 => c.left > 1
      BY <1>1, <1>7
    <3> HIDE DEF next, rest
    <3> QED
      BY <1>7, <1>8, <3>1
  <2>3. d = [base |-> d.base, bits |-> d.bits, left |-> d.left, at |-> d.at]
    BY <1>3
  <2>4. IsFiniteSet(Ones(d.bits))
    BY <1>1, <1>7 DEF O
  <2> HIDE DEF next, rest
  <2> QED
    BY <1>1, <1>7, <2>1, <2>2, <2>3, <2>4 DEF IsChunk
<1> QED
  BY <1>2, <1>7, <1>9, <1>10, <1>11 DEF d, here, O

-----------------------------------------------------------------------------
LEMMA SameCall ==
  ASSUME given' = given, side' = side
  PROVE  /\ Rows' = Rows /\ Background' = Background /\ Examples' = Examples
         /\ IsLeftSemiJoin' <=> IsLeftSemiJoin
BY DEF Rows, Background, Examples, IsLeftSemiJoin

(* The binding loop begins with an empty table for the heads. *)
LEMMA BindingLoopBegins ==
  ASSUME JoinInv, pc \in {"select", "build"}, BindingLoopStarts,
         given' = given, side' = side, positiveTable' = positiveTable,
         IsSound(backgroundTable'), IsSound(clauseTable'),
         backgroundTable' = NoTable \/ Holds(backgroundTable', Background, Len(Background)),
         IF IsLeftSemiJoin THEN Holds(backgroundTable', Background, Len(Background))
                           ELSE Holds(clauseTable', Keys(Rows), Len(Rows))
  PROVE  JoinInv'
<1>1. /\ Rows' = Rows /\ Background' = Background /\ Examples' = Examples
      /\ IsLeftSemiJoin' <=> IsLeftSemiJoin
  BY SameCall
<1>2. pc \in Joining /\ TypeInv /\ AllSound
  BY DEF Joining, JoinInv
<1>3. Len(Rows) \in Nat
  BY <1>2, CallTypes
<1>4. pc' = "bind" /\ offset' = 0 /\ chunk' = NoChunk /\ coverageTable' = NewTable(Len(Rows))
  BY DEF BindingLoopStarts
<1>5. TypeInv'
  BY <1>2, <1>4 DEF TypeInv, Joining
<1>6. coverageTable' \in Table(Len(Rows)) /\ WellChained(coverageTable')
  BY <1>3, <1>4, HoldsNothing
<1>7. AllSound' /\ CoverageTableInv'
  BY <1>1, <1>2, <1>3, <1>6 DEF AllSound, IsSound, CoverageTableInv
<1>8. BackgroundInv' /\ ClauseInv'
  BY <1>1, <1>4 DEF BackgroundInv, ClauseInv
<1>9. ChunkInv'
  BY <1>4, NoChunkIsChunk DEF ChunkInv
<1> QED
  BY <1>5, <1>7, <1>8, <1>9 DEF JoinInv

LEMMA SelectStep ==
  ASSUME JoinInv, SelectAndCreateSemiJoin
  PROVE  JoinInv'
<1>1. /\ pc = "select" /\ given' = given /\ side' = side /\ positiveTable' = positiveTable
      /\ pc \in Joining /\ pc \in {"select", "build"}
  BY DEF SelectAndCreateSemiJoin, Joining
<1>2. /\ Rows' = Rows /\ Background' = Background /\ Examples' = Examples
      /\ IsLeftSemiJoin' <=> IsLeftSemiJoin
  BY <1>1, SameCall
<1>3. TypeInv /\ AllSound
  BY DEF JoinInv
<1>4. /\ Len(Rows) \in Nat /\ Background \in Seq(Value) /\ Len(Background) \in Nat
      /\ Keys(Rows) \in Seq(Value) /\ Len(Keys(Rows)) = Len(Rows)
  BY <1>1, <1>3, CallTypes
<1>5. backgroundTable = NoTable \/ Holds(backgroundTable, Background, Len(Background))
  BY <1>1 DEF JoinInv, BackgroundInv
<1>6. IsChunk(chunk) /\ chunk.left = 0
  BY <1>1 DEF JoinInv, ChunkInv
<1>7. CASE /\ IsLeftSemiJoin /\ backgroundTable # NoTable
           /\ BindingLoopStarts
           /\ UNCHANGED <<backgroundTable, clauseTable>>
  <2>1. /\ IsSound(backgroundTable') /\ IsSound(clauseTable')
        /\ Holds(backgroundTable', Background, Len(Background))
    BY <1>3, <1>5, <1>7 DEF AllSound
  <2> QED
    BY <1>1, <1>7, <2>1, BindingLoopBegins
<1>8. CASE /\ IsLeftSemiJoin /\ backgroundTable = NoTable
           /\ backgroundTable' = NewTable(Len(Background))
           /\ pc' = "build" /\ offset' = 0
           /\ UNCHANGED <<clauseTable, coverageTable, chunk>>
  <2>1. Holds(backgroundTable', Background, 0)
    BY <1>4, <1>8, HoldsNothing DEF Holds
  <2>2. IsSound(backgroundTable')
    BY <1>4, <2>1, HoldsIsSound
  <2>3. TypeInv' /\ AllSound'
    BY <1>1, <1>3, <1>8, <2>2 DEF TypeInv, AllSound, Joining
  <2>4. BackgroundInv' /\ ClauseInv' /\ CoverageTableInv'
    BY <1>2, <1>4, <1>8, <2>1 DEF BackgroundInv, ClauseInv, CoverageTableInv
  <2>5. ChunkInv'
    BY <1>6, <1>8 DEF ChunkInv
  <2> QED
    BY <2>3, <2>4, <2>5 DEF JoinInv
<1>9. CASE /\ ~IsLeftSemiJoin
           /\ clauseTable' = NewTable(Len(Rows))
           /\ pc' = "build" /\ offset' = 0
           /\ UNCHANGED <<backgroundTable, coverageTable, chunk>>
  <2>1. Holds(clauseTable', Keys(Rows), 0)
    BY <1>4, <1>9, HoldsNothing DEF Holds
  <2>2. IsSound(clauseTable')
    BY <1>4, <2>1, HoldsIsSound
  <2>3. TypeInv' /\ AllSound'
    BY <1>1, <1>3, <1>9, <2>2 DEF TypeInv, AllSound, Joining
  <2>4. BackgroundInv' /\ ClauseInv' /\ CoverageTableInv'
    BY <1>2, <1>4, <1>5, <1>9, <2>1 DEF BackgroundInv, ClauseInv, CoverageTableInv
  <2>5. ChunkInv'
    BY <1>6, <1>9 DEF ChunkInv
  <2> QED
    BY <2>3, <2>4, <2>5 DEF JoinInv
<1> QED
  BY <1>7, <1>8, <1>9, Zenon DEF SelectAndCreateSemiJoin

LEMMA BuildStep ==
  ASSUME JoinInv, BuildHashTableOnTable
  PROVE  JoinInv'
<1>1. /\ pc = "build" /\ given' = given /\ side' = side /\ positiveTable' = positiveTable
      /\ pc \in Joining /\ pc \in {"select", "build"}
  BY DEF BuildHashTableOnTable, Joining
<1>2. /\ Rows' = Rows /\ Background' = Background /\ Examples' = Examples
      /\ IsLeftSemiJoin' <=> IsLeftSemiJoin
  BY <1>1, SameCall
<1>3. TypeInv /\ AllSound /\ offset \in Nat
  BY DEF JoinInv, TypeInv
<1>4. /\ Len(Rows) \in Nat /\ Background \in Seq(Value) /\ Len(Background) \in Nat
      /\ Keys(Rows) \in Seq(Value) /\ Len(Keys(Rows)) = Len(Rows)
      /\ \A p \in 1..Len(Rows) : Keys(Rows)[p] = Rows[p].key
  BY <1>1, <1>3, CallTypes
<1>5. /\ IsLeftSemiJoin => offset <= Len(Background) /\ Holds(backgroundTable, Background, offset)
      /\ ~IsLeftSemiJoin =>
           /\ backgroundTable = NoTable \/ Holds(backgroundTable, Background, Len(Background))
           /\ offset <= Len(Rows) /\ Holds(clauseTable, Keys(Rows), offset)
  BY <1>1 DEF JoinInv, BackgroundInv, ClauseInv, Joining
<1>6. IsChunk(chunk) /\ chunk.left = 0
  BY <1>1 DEF JoinInv, ChunkInv
<1>7. CASE /\ IsLeftSemiJoin /\ offset < Len(Background)
           /\ backgroundTable' = Enter(backgroundTable, offset + 1, Background[offset + 1])
           /\ offset' = offset + 1
           /\ UNCHANGED <<pc, clauseTable, coverageTable, chunk>>
  <2>1. Holds(backgroundTable', Background, offset + 1)
    BY <1>3, <1>4, <1>5, <1>7, HoldsOneMore
  <2>2. IsSound(backgroundTable')
    BY <1>4, <2>1, HoldsIsSound
  <2>3. TypeInv' /\ AllSound'
    BY <1>1, <1>3, <1>7, <2>2 DEF TypeInv, AllSound
  <2>4. BackgroundInv' /\ ClauseInv' /\ CoverageTableInv'
    BY <1>1, <1>2, <1>3, <1>4, <1>7, <2>1 DEF BackgroundInv, ClauseInv, CoverageTableInv
  <2>5. ChunkInv'
    BY <1>1, <1>6, <1>7 DEF ChunkInv
  <2> QED
    BY <2>3, <2>4, <2>5 DEF JoinInv
<1>8. CASE /\ ~IsLeftSemiJoin /\ offset < Len(Rows)
           /\ clauseTable' = Enter(clauseTable, offset + 1, Rows[offset + 1].key)
           /\ offset' = offset + 1
           /\ UNCHANGED <<pc, backgroundTable, coverageTable, chunk>>
  <2>1. Holds(clauseTable', Keys(Rows), offset + 1)
    <3>1. Keys(Rows)[offset + 1] = Rows[offset + 1].key
      BY <1>3, <1>4, <1>8
    <3> QED
      BY <1>3, <1>4, <1>5, <1>8, <3>1, HoldsOneMore
  <2>2. IsSound(clauseTable')
    BY <1>4, <2>1, HoldsIsSound
  <2>3. TypeInv' /\ AllSound'
    BY <1>1, <1>3, <1>8, <2>2 DEF TypeInv, AllSound
  <2>4. BackgroundInv' /\ ClauseInv' /\ CoverageTableInv'
    BY <1>1, <1>2, <1>3, <1>4, <1>5, <1>8, <2>1 DEF BackgroundInv, ClauseInv, CoverageTableInv
  <2>5. ChunkInv'
    BY <1>1, <1>6, <1>8 DEF ChunkInv
  <2> QED
    BY <2>3, <2>4, <2>5 DEF JoinInv
<1>9. CASE /\ offset = Len(IF IsLeftSemiJoin THEN Background ELSE Rows)
           /\ BindingLoopStarts
           /\ UNCHANGED <<backgroundTable, clauseTable>>
  <2>1. /\ IsSound(backgroundTable') /\ IsSound(clauseTable')
        /\ backgroundTable' = NoTable \/ Holds(backgroundTable', Background, Len(Background))
        /\ IF IsLeftSemiJoin THEN Holds(backgroundTable', Background, Len(Background))
                             ELSE Holds(clauseTable', Keys(Rows), Len(Rows))
    BY <1>3, <1>5, <1>9 DEF AllSound
  <2> QED
    BY <1>1, <1>9, <2>1, BindingLoopBegins
<1> QED
  BY <1>7, <1>8, <1>9, Zenon DEF BuildHashTableOnTable

(* A chunk of either semi-join is some of the rows from its base on. *)
LEMMA ChunkBits ==
  ASSUME TypeInv, pc \in Joining, NEW base \in Nat, NEW width \in Nat, base + width <= Len(Rows)
  PROVE  /\ \E S \in SUBSET (0 .. width - 1) :
              /\ LeftMatches(base, width) = BitVector(width, S)
              /\ S = {i \in 0 .. width - 1 :
                        \E p \in Lookup(backgroundTable, Rows[base + i + 1].key) :
                          Background[p] = Rows[base + i + 1].key}
         /\ \E S \in SUBSET (0 .. Len(Rows) - 1) :
              /\ RightMatches = BitVector(Len(Rows), S)
              /\ S = {p - 1 : p \in {p \in 1..Len(Rows) :
                        \E q \in 1..Len(Background) :
                          p \in Lookup(clauseTable, Background[q]) /\ Rows[p].key = Background[q]}}
<1>1. Len(Rows) \in Nat
  BY CallTypes
<1>2. LeftMatches(base, width) = BitVector(width, {i \in 0 .. width - 1 :
                        \E p \in Lookup(backgroundTable, Rows[base + i + 1].key) :
                          Background[p] = Rows[base + i + 1].key})
  BY DEF LeftMatches
<1>3. RightMatches = BitVector(Len(Rows), {p - 1 : p \in {p \in 1..Len(Rows) :
                        \E q \in 1..Len(Background) :
                          p \in Lookup(clauseTable, Background[q]) /\ Rows[p].key = Background[q]}})
  BY DEF RightMatches
<1>4. {p - 1 : p \in {p \in 1..Len(Rows) :
                        \E q \in 1..Len(Background) :
                          p \in Lookup(clauseTable, Background[q]) /\ Rows[p].key = Background[q]}}
        \subseteq 0 .. Len(Rows) - 1
  <2>1. \A p \in 1..Len(Rows) : p - 1 \in 0 .. Len(Rows) - 1
    BY <1>1
  <2> QED
    BY <2>1
<1> QED
  BY <1>2, <1>3, <1>4

LEMMA BindingChunkStep ==
  ASSUME JoinInv, NextBindingChunk
  PROVE  JoinInv'
<1>1. /\ pc = "bind" /\ pc' = "insert" /\ offset < Len(Rows)
      /\ UNCHANGED <<given, side, backgroundTable, clauseTable, coverageTable, positiveTable>>
      /\ pc \in Joining
  BY DEF NextBindingChunk, Joining
<1>2. /\ Rows' = Rows /\ Background' = Background /\ Examples' = Examples
      /\ IsLeftSemiJoin' <=> IsLeftSemiJoin
  BY <1>1, SameCall
<1>3. TypeInv /\ AllSound /\ offset \in Nat
  BY DEF JoinInv, TypeInv
<1>4. Len(Rows) \in Nat
  BY <1>1, <1>3, CallTypes
<1>5. /\ IsChunk(chunk') /\ offset' \in Nat
      /\ \A p \in Ones(chunk'.bits) : chunk'.base + p < Len(Rows)
  <2> DEFINE width == SmallerOf(ChunkSize, Len(Rows) - offset)
  <2>1. /\ ChunkSize \in Nat \ {0} /\ width \in Nat /\ offset + width <= Len(Rows)
    BY <1>1, <1>3, <1>4, FlagAssumption DEF SmallerOf
  <2> HIDE DEF width
  <2>2. CASE chunk' = SemiJoinChunk(offset, LeftMatches(offset, width)) /\ offset' = AfterChunk(offset)
    <3>1. PICK S \in SUBSET (0 .. width - 1) : LeftMatches(offset, width) = BitVector(width, S)
      BY <1>1, <1>3, <2>1, ChunkBits
    <3>2. IsChunk(chunk') /\ chunk'.base = offset /\ Ones(chunk'.bits) = S
      BY <1>3, <2>1, <2>2, <3>1, NewChunk
    <3>3. \A p \in 0 .. width - 1 : offset + p < Len(Rows)
      BY <1>3, <1>4, <2>1
    <3>4. offset' \in Nat
      BY <1>3, <2>1, <2>2 DEF AfterChunk
    <3> QED
      BY <3>2, <3>3, <3>4
  <2>3. CASE chunk' = SemiJoinChunk(0, RightMatches) /\ offset' = Len(Rows)
    <3>1. PICK S \in SUBSET (0 .. Len(Rows) - 1) : RightMatches = BitVector(Len(Rows), S)
      BY <1>1, <1>3, <2>1, ChunkBits
    <3>2. IsChunk(chunk') /\ chunk'.base = 0 /\ Ones(chunk'.bits) = S
      BY <1>4, <2>3, <3>1, NewChunk
    <3>3. \A p \in 0 .. Len(Rows) - 1 : 0 + p < Len(Rows)
      BY <1>4
    <3> QED
      BY <1>4, <2>3, <3>2, <3>3
  <2> QED
    BY <2>2, <2>3 DEF NextBindingChunk, width
<1>6. TypeInv' /\ AllSound'
  BY <1>1, <1>3, <1>5 DEF TypeInv, AllSound, Joining
<1>7. BackgroundInv' /\ ClauseInv' /\ CoverageTableInv'
  BY <1>1, <1>2 DEF JoinInv, BackgroundInv, ClauseInv, CoverageTableInv, Joining
<1>8. ChunkInv'
  BY <1>1, <1>2, <1>5 DEF ChunkInv
<1> QED
  BY <1>6, <1>7, <1>8 DEF JoinInv

(* A row of the chunk is entered only if its head's chain does not contain its
   position: there it would have been found equal to itself.               *)
LEMMA InsertStep ==
  ASSUME JoinInv, InsertIfNotPresent
  PROVE  /\ JoinInv'
         /\ LET tid == Position(chunk.at) + 1
                head == Rows[chunk.base + tid].head
            IN  /\ tid \in 1..Len(Rows) /\ chunk.base + tid \in 1..Len(Rows) /\ head \in Value
                /\ \/ TRUE \in MayExist(head) /\ coverageTable' = coverageTable
                   \/ /\ FALSE \in MayExist(head) /\ tid \notin Lookup(coverageTable, head)
                      /\ coverageTable' = Enter(coverageTable, tid, head)
<1> DEFINE tid == Position(chunk.at) + 1
           head == Rows[chunk.base + tid].head
<1>1. /\ pc = "insert" /\ chunk.left > 0
      /\ UNCHANGED <<given, pc, side, backgroundTable, clauseTable, positiveTable, offset>>
      /\ pc \in Joining
  BY DEF InsertIfNotPresent, Joining
<1>2. /\ Rows' = Rows /\ Background' = Background /\ Examples' = Examples
      /\ IsLeftSemiJoin' <=> IsLeftSemiJoin
  BY <1>1, SameCall
<1>3. TypeInv /\ AllSound /\ IsChunk(chunk)
  BY DEF JoinInv, ChunkInv
<1>4. Len(Rows) \in Nat /\ \A p \in 1..Len(Rows) : Rows[p].head \in Value
  BY <1>1, <1>3, CallTypes
<1>5. /\ IsChunk(chunk') /\ chunk'.base = chunk.base /\ chunk'.bits = chunk.bits
      /\ Position(chunk.at) \in Ones(chunk.bits)
  BY <1>1, <1>3, NextRowOfChunk DEF InsertIfNotPresent
<1>6. \A p \in Ones(chunk.bits) : chunk.base + p < Len(Rows)
  BY <1>1 DEF JoinInv, ChunkInv
<1>7. Position(chunk.at) \in Nat /\ chunk.base \in Nat
  BY <1>3, <1>5, OnesAreSetBits DEF IsChunk
<1>8. tid \in 1..Len(Rows) /\ chunk.base + tid \in 1..Len(Rows) /\ head \in Value
  <2>1. chunk.base + Position(chunk.at) < Len(Rows)
    BY <1>5, <1>6
  <2>2. tid \in 1..Len(Rows) /\ chunk.base + tid \in 1..Len(Rows)
    BY <1>4, <1>7, <2>1
  <2> QED
    BY <1>4, <2>2
<1>9. coverageTable \in Table(Len(Rows)) /\ WellChained(coverageTable)
  BY <1>1 DEF JoinInv, CoverageTableInv
<1>10. PICK exist \in MayExist(head) :
         coverageTable' = IF exist THEN coverageTable ELSE Enter(coverageTable, tid, head)
  BY DEF InsertIfNotPresent
<1>11. exist \in BOOLEAN
  BY <1>10 DEF MayExist
<1>12. FALSE \in MayExist(head) => tid \notin Lookup(coverageTable, head)
  <2>1. ASSUME tid \in Lookup(coverageTable, head)
        PROVE  MayExist(head) = {TRUE}
    <3>1. IsInTable(tid) /\ Rows[chunk.base + tid].head = head
      BY <1>4, <1>8 DEF IsInTable
    <3> HIDE DEF tid, head
    <3> QED
      BY <2>1, <3>1 DEF MayExist
  <2> HIDE DEF tid, head
  <2> QED
    BY <2>1
<1> HIDE DEF tid, head
<1>13. \/ TRUE \in MayExist(head) /\ coverageTable' = coverageTable
       \/ /\ FALSE \in MayExist(head) /\ tid \notin Lookup(coverageTable, head)
          /\ coverageTable' = Enter(coverageTable, tid, head)
  <2>1. CASE exist = TRUE
    BY <1>10, <2>1
  <2>2. CASE exist = FALSE
    BY <1>10, <1>12, <2>2
  <2> QED
    BY <1>11, <2>1, <2>2
<1>14. coverageTable' \in Table(Len(Rows)) /\ WellChained(coverageTable')
  <2>1. CASE coverageTable' = coverageTable
    BY <1>9, <2>1
  <2>2. CASE tid \notin Lookup(coverageTable, head) /\ coverageTable' = Enter(coverageTable, tid, head)
    BY <1>4, <1>8, <1>9, <2>2, EnterKeepsChains
  <2> QED
    BY <1>13, <2>1, <2>2
<1>15. TypeInv' /\ AllSound'
  BY <1>1, <1>3, <1>4, <1>14 DEF TypeInv, AllSound, IsSound
<1>16. BackgroundInv' /\ ClauseInv' /\ CoverageTableInv'
  BY <1>1, <1>2, <1>14 DEF JoinInv, BackgroundInv, ClauseInv, CoverageTableInv
<1>17. ChunkInv'
  BY <1>1, <1>2, <1>5, <1>6 DEF ChunkInv
<1>18. JoinInv'
  BY <1>15, <1>16, <1>17 DEF JoinInv
<1> QED
  BY <1>8, <1>13, <1>18 DEF tid, head

(* The other steps leave the tables alone, or give them back. *)
LEMMA ChunkInsertedStep ==
  ASSUME JoinInv, ChunkInserted
  PROVE  JoinInv'
<1>1. /\ pc = "insert" /\ pc' = "bind" /\ chunk.left = 0
      /\ UNCHANGED <<given, side, backgroundTable, clauseTable, coverageTable, positiveTable,
                     offset, chunk>>
  BY DEF ChunkInserted
<1>2. /\ Rows' = Rows /\ Background' = Background
      /\ IsLeftSemiJoin' <=> IsLeftSemiJoin
  BY <1>1, SameCall
<1>3. TypeInv' /\ AllSound'
  BY <1>1 DEF JoinInv, TypeInv, AllSound, Joining
<1>4. BackgroundInv' /\ ClauseInv' /\ CoverageTableInv'
  BY <1>1, <1>2 DEF JoinInv, BackgroundInv, ClauseInv, CoverageTableInv, Joining
<1>5. ChunkInv'
  BY <1>1 DEF JoinInv, ChunkInv
<1> QED
  BY <1>3, <1>4, <1>5 DEF JoinInv

LEMMA CoverageSideStep ==
  ASSUME JoinInv, NextCoverageSide
  PROVE  JoinInv'
<1>1. /\ pc = "bind" /\ pc' = "cover" /\ offset' = 0
      /\ UNCHANGED <<given, side, backgroundTable, clauseTable, coverageTable, positiveTable, chunk>>
  BY DEF NextCoverageSide
<1>2. /\ Rows' = Rows /\ Background' = Background
      /\ IsLeftSemiJoin' <=> IsLeftSemiJoin
  BY <1>1, SameCall
<1>3. TypeInv' /\ AllSound'
  BY <1>1 DEF JoinInv, TypeInv, AllSound, Joining
<1>4. BackgroundInv' /\ ClauseInv' /\ CoverageTableInv'
  BY <1>1, <1>2 DEF JoinInv, BackgroundInv, ClauseInv, CoverageTableInv, Joining
<1>5. ChunkInv'
  BY <1>1 DEF JoinInv, ChunkInv
<1> QED
  BY <1>3, <1>4, <1>5 DEF JoinInv

(* Examples are looked up, by the learner or for the tests. *)
LEMMA CoverageChunkStep ==
  ASSUME JoinInv, pc = "cover", offset' = offset + ChunkSize,
         UNCHANGED <<given, pc, side, backgroundTable, clauseTable, coverageTable, positiveTable, chunk>>
  PROVE  JoinInv'
<1>1. /\ pc = "cover" /\ offset' = offset + ChunkSize
      /\ UNCHANGED <<given, pc, side, backgroundTable, clauseTable, coverageTable, positiveTable, chunk>>
  OBVIOUS
<1>2. /\ Rows' = Rows /\ Background' = Background
      /\ IsLeftSemiJoin' <=> IsLeftSemiJoin
  BY <1>1, SameCall
<1>3. TypeInv' /\ AllSound'
  BY <1>1, FlagAssumption DEF JoinInv, TypeInv, AllSound, Joining
<1>4. BackgroundInv' /\ ClauseInv' /\ CoverageTableInv'
  BY <1>1, <1>2 DEF JoinInv, BackgroundInv, ClauseInv, CoverageTableInv, Joining
<1>5. ChunkInv'
  BY <1>1 DEF JoinInv, ChunkInv
<1> QED
  BY <1>3, <1>4, <1>5 DEF JoinInv

LEMMA PositivesCountedStep ==
  ASSUME JoinInv, PositivesCounted
  PROVE  JoinInv'
<1>1. /\ pc = "cover" /\ pc' = "select" /\ side' = "negative" /\ offset' = 0
      /\ positiveTable' = coverageTable /\ coverageTable' = NoTable /\ clauseTable' = NoTable
      /\ UNCHANGED <<given, backgroundTable, chunk>>
  BY DEF PositivesCounted
<1>2. Background' = Background
  BY <1>1 DEF Background
<1>3. TypeInv' /\ AllSound'
  BY <1>1 DEF JoinInv, TypeInv, AllSound, IsSound, Joining, Side
<1>4. BackgroundInv' /\ ClauseInv' /\ CoverageTableInv'
  BY <1>1, <1>2 DEF JoinInv, BackgroundInv, ClauseInv, CoverageTableInv, Joining
<1>5. ChunkInv'
  BY <1>1 DEF JoinInv, ChunkInv
<1> QED
  BY <1>3, <1>4, <1>5 DEF JoinInv

(* When no semi-join goes on only the tables' chains matter, and the chunk is empty. *)
LEMMA NotJoining ==
  ASSUME JoinInv, pc # "insert", pc' \notin Joining, offset' \in Nat,
         UNCHANGED <<backgroundTable, clauseTable, coverageTable, positiveTable, chunk>>
  PROVE  JoinInv'
<1>1. TypeInv' /\ AllSound'
  BY DEF JoinInv, TypeInv, AllSound
<1>2. pc' \notin {"build", "bind", "insert", "cover"}
  BY DEF Joining
<1>3. BackgroundInv' /\ ClauseInv' /\ CoverageTableInv'
  BY <1>2 DEF BackgroundInv, ClauseInv, CoverageTableInv
<1>4. ChunkInv'
  BY <1>2 DEF JoinInv, ChunkInv
<1> QED
  BY <1>1, <1>3, <1>4 DEF JoinInv

LEMMA JoinInit ==
  ASSUME Init
  PROVE  JoinInv
<1>1. /\ given \in Input /\ pc = "select" /\ side = "positive" /\ offset = 0 /\ chunk = NoChunk
      /\ backgroundTable = NoTable /\ clauseTable = NoTable
      /\ coverageTable = NoTable /\ positiveTable = NoTable
  BY DEF Init
<1>2. IsCall(given)
  <2>1. given.examples \in [Side -> Seq(Value)]
    BY <1>1, InputAssumption
  <2> QED
    BY <1>1, <2>1, InputAssumption DEF IsCall
<1>3. TypeInv /\ AllSound
  BY <1>1, <1>2 DEF TypeInv, AllSound, IsSound, Side
<1>4. BackgroundInv /\ ClauseInv /\ CoverageTableInv
  BY <1>1 DEF BackgroundInv, ClauseInv, CoverageTableInv
<1>5. ChunkInv
  BY <1>1, NoChunkIsChunk DEF ChunkInv
<1> QED
  BY <1>3, <1>4, <1>5 DEF JoinInv

LEMMA JoinNext ==
  ASSUME JoinInv, [Next]_vars
  PROVE  JoinInv'
<1>1. CASE SelectAndCreateSemiJoin
  BY <1>1, SelectStep
<1>2. CASE BuildHashTableOnTable
  BY <1>2, BuildStep
<1>3. CASE NextBindingChunk
  BY <1>3, BindingChunkStep
<1>4. CASE InsertIfNotPresent
  BY <1>4, InsertStep
<1>5. CASE ChunkInserted
  BY <1>5, ChunkInsertedStep
<1>6. CASE NextCoverageSide
  BY <1>6, CoverageSideStep
<1>7. CASE NextCoverageChunk
  BY <1>7, CoverageChunkStep DEF NextCoverageChunk
<1>8. CASE PositivesCounted
  BY <1>8, PositivesCountedStep
<1>9. CASE NegativesCounted
  <2>1. pc # "insert" /\ pc' \notin Joining /\ offset' \in Nat
    BY <1>9 DEF NegativesCounted, Joining
  <2> QED
    BY <1>9, <2>1, NotJoining DEF NegativesCounted
<1>10. CASE CollectUncovered
  <2>1. pc # "insert" /\ pc' \notin Joining /\ offset' \in Nat
    BY <1>10, FlagAssumption DEF CollectUncovered, Joining, JoinInv, TypeInv
  <2> QED
    BY <1>10, <2>1, NotJoining DEF CollectUncovered
<1>11. CASE FinishRule
  <2>1. pc # "insert" /\ pc' \notin Joining /\ offset' \in Nat
    BY <1>11 DEF FinishRule, Joining, JoinInv, TypeInv
  <2> QED
    BY <1>11, <2>1, NotJoining DEF FinishRule
<1>12. CASE UNCHANGED vars
  <2>1. /\ Rows' = Rows /\ Background' = Background
        /\ IsLeftSemiJoin' <=> IsLeftSemiJoin
    BY <1>12, SameCall DEF vars
  <2> QED
    BY <1>12, <2>1 DEF vars, JoinInv, TypeInv, AllSound, BackgroundInv, ClauseInv,
                       CoverageTableInv, ChunkInv
<1> QED
  BY <1>1, <1>2, <1>3, <1>4, <1>5, <1>6, <1>7, <1>8, <1>9, <1>10, <1>11, <1>12, Zenon DEF Next

LEMMA JoinInvHolds == Spec => []JoinInv
BY JoinInit, JoinNext, PTL DEF Spec

(* What the invariant says of tables and chunks. *)
LEMMA SoundTablesEnd ==
  ASSUME AllSound
  PROVE  ChainsEnd
<1>1. EveryWalkEnds(NoTable)
  BY DEF EveryWalkEnds, NoTable
<1>2. ASSUME NEW t, IsSound(t)
      PROVE  EveryWalkEnds(t)
  BY <1>1, <1>2, WellChainedEnds DEF IsSound
<1> QED
  BY <1>2 DEF AllSound, ChainsEnd

LEMMA ChunksCount ==
  ASSUME IsChunk(chunk)
  PROVE  CountMatchesBits
BY OnesAreSetBits DEF IsChunk, CountMatchesBits

(* For every data set and every hash no lookup in any of the tables loops or reads
   a next position that was never written, although a chunk's rows are entered
   at positions counted from its base, where other rows have been before
   (BuildHashTable.cpp, InsertIfNotPresent).                               *)
THEOREM ChainsCorrect == Spec => []ChainsEnd
<1>1. JoinInv => ChainsEnd
  BY SoundTablesEnd DEF JoinInv
<1> QED
  BY <1>1, JoinInvHolds, PTL

(* The iterator over a chunk is never asked for more rows than it has before it,
   and leaves none out.                                                    *)
THEOREM CountsCorrect == Spec => []CountMatchesBits
<1>1. JoinInv => CountMatchesBits
  BY ChunksCount DEF JoinInv, ChunkInv
<1> QED
  BY <1>1, JoinInvHolds, PTL

-----------------------------------------------------------------------------
(* What is counted.  The bindings a background fact matches, and a head table that
   has been told of some of them and finds the head of each.               *)
Matched(rows, background) ==
  {p \in 1..Len(rows) : \E q \in 1..Len(background) : rows[p].key = background[q]}

Knows(t, rows, M) ==
  /\ Entered(t) \subseteq M
  /\ \A p \in M : \E q \in Lookup(t, rows[p].head) : rows[q].head = rows[p].head

(* The rows of a chunk the iterator has not gone past. *)
Pending(c) ==
  IF c.left = 0 THEN {} ELSE {p \in Ones(c.bits) : p >= Position(c.at)}

(* The bindings are one chunk: it is not begun, or its rows are the matched ones
   and are entered one by one.                                             *)
HeadsInv ==
  IsOneChunk(side) =>
    /\ pc = "bind" =>
         \/ offset = 0 /\ Entered(coverageTable) = {}
         \/ offset >= Len(Rows) /\ Knows(coverageTable, Rows, Matched(Rows, Background))
    /\ pc = "insert" =>
         /\ offset >= Len(Rows) /\ chunk.base = 0
         /\ \A p \in 1..Len(Rows) : p \in Matched(Rows, Background) <=> p - 1 \in Ones(chunk.bits)
         /\ Knows(coverageTable, Rows, {p \in Matched(Rows, Background) : p - 1 \notin Pending(chunk)})
    /\ pc = "cover" => Knows(coverageTable, Rows, Matched(Rows, Background))

CoveredInv ==
  /\ given \in Input /\ side \in Side
  /\ covered \in [Side -> SUBSET Nat]
  /\ \A s \in Side : covered[s] \subseteq 1..Len(given.examples[s])
  /\ pc \in Joining /\ pc # "cover" => covered[side] = {}
  /\ pc \in Joining /\ side = "positive" => covered["negative"] = {}
  /\ pc = "cover" /\ IsOneChunk(side) =>
       covered[side] = {i \in TrulyCovered(side) : i <= offset}
  /\ pc \in Joining /\ side = "negative" /\ IsOneChunk("positive") =>
       covered["positive"] = TrulyCovered("positive")
  /\ pc \notin Joining =>
       \A s \in Side : IsOneChunk(s) => covered[s] = TrulyCovered(s)

ExactInv == JoinInv /\ HeadsInv /\ CoveredInv

LEMMA SameCovers ==
  ASSUME given' = given
  PROVE  \A s : /\ TrulyCovered(s)' = TrulyCovered(s)
                /\ IsOneChunk(s)' <=> IsOneChunk(s)
BY DEF TrulyCovered, Covers, IsOneChunk, Background

LEMMA OneChunkOfSide ==
  ASSUME IsOneChunk(side), TypeInv, pc \in Joining
  PROVE  IsLeftSemiJoin => Len(Rows) <= ChunkSize
<1>1. Len(Rows) \in Nat /\ Len(Background) \in Nat /\ ChunkSize \in Nat
  BY CallTypes, FlagAssumption
<1> QED
  BY <1>1 DEF IsOneChunk, IsLeftSemiJoin, Rows

LEMMA NewChunkIsPending ==
  ASSUME NEW base \in Nat, NEW size \in Nat, NEW S \in SUBSET (0 .. size - 1)
  PROVE  Pending(SemiJoinChunk(base, BitVector(size, S))) = S
<1> DEFINE c == SemiJoinChunk(base, BitVector(size, S))
<1>1. IsChunk(c) /\ Ones(c.bits) = S
  BY NewChunk
<1>2. c.left = Cardinality(S)
  BY OnesOfBuilt DEF SemiJoinChunk, Count
<1>3. c.at = GetFirst(c.bits)
  BY DEF SemiJoinChunk
<1> SUFFICES Pending(c) = S
  OBVIOUS
<1> HIDE DEF c
<1>4. IsFiniteSet(S) /\ S \subseteq Nat
  BY <1>1 DEF IsChunk
<1>5. CASE S = {}
  BY <1>1, <1>5 DEF Pending
<1>6. CASE S # {}
  <2>1. c.left # 0
    BY <1>2, <1>4, <1>6, FS_EmptySet
  <2>2. Position(c.at) \in S /\ \A p \in S : Position(c.at) <= p
    BY <1>1, <1>3, <1>6, GetFirstIsLeast DEF IsChunk
  <2>3. S = {p \in S : p >= Position(c.at)}
    BY <1>4, <2>2
  <2> QED
    BY <1>1, <2>1, <2>3, Zenon DEF Pending
<1> QED
  BY <1>5, <1>6

(* One chunk has all the matched rows, whichever table is probed. *)
LEMMA BindingChunkHeads ==
  ASSUME JoinInv, HeadsInv, NextBindingChunk
  PROVE  HeadsInv'
<1> SUFFICES ASSUME IsOneChunk(side)
             PROVE  /\ offset' >= Len(Rows) /\ chunk'.base = 0
                    /\ \A p \in 1..Len(Rows) :
                         p \in Matched(Rows, Background) <=> p - 1 \in Ones(chunk'.bits)
                    /\ Ones(chunk'.bits) = Pending(chunk')
                    /\ Entered(coverageTable) = {}
  <2>1. /\ pc' = "insert" /\ side' = side /\ given' = given /\ coverageTable' = coverageTable
    BY DEF NextBindingChunk
  <2>2. Rows' = Rows /\ Background' = Background /\ (IsOneChunk(side)' <=> IsOneChunk(side))
    BY <2>1, SameCall, SameCovers
  <2>3. Matched(Rows, Background) \subseteq 1..Len(Rows)
    BY DEF Matched
  <2> QED
    BY <2>1, <2>2, <2>3 DEF HeadsInv, Knows
<1>1. /\ pc = "bind" /\ offset < Len(Rows) /\ pc \in Joining /\ TypeInv
  BY DEF NextBindingChunk, Joining, JoinInv
<1>2. /\ Len(Rows) \in Nat \ {0} /\ Len(Background) \in Nat
      /\ Keys(Rows) \in Seq(Value) /\ Len(Keys(Rows)) = Len(Rows)
      /\ \A p \in 1..Len(Rows) : Rows[p].key \in Value /\ Keys(Rows)[p] = Rows[p].key
      /\ Background \in Seq(Value)
  BY <1>1, CallTypes
<1>3. offset \in Nat /\ ChunkSize \in Nat \ {0}
  BY FlagAssumption DEF JoinInv, TypeInv
<1>4. offset = 0 /\ Entered(coverageTable) = {}
  BY <1>1, <1>2, <1>3 DEF HeadsInv
<1> DEFINE m == Len(Rows)
<1>5. CASE IsLeftSemiJoin
  <2>1. m <= ChunkSize /\ SmallerOf(ChunkSize, m - offset) = m
    <3>1. m <= ChunkSize
      BY <1>1, <1>5, OneChunkOfSide
    <3> QED
      BY <1>2, <1>3, <1>4, <3>1 DEF SmallerOf
  <2>2. chunk' = SemiJoinChunk(0, LeftMatches(0, m)) /\ offset' = 0 + ChunkSize
    BY <1>4, <1>5, <2>1 DEF NextBindingChunk, AfterChunk
  <2>3. Holds(backgroundTable, Background, Len(Background))
    BY <1>1, <1>5 DEF JoinInv, BackgroundInv
  <2>4. /\ backgroundTable \in Table(Len(Background)) /\ WellChained(backgroundTable)
        /\ Entered(backgroundTable) = 1..Len(Background)
        /\ \A q \in 1..Len(Background) : q \in Lookup(backgroundTable, Background[q])
    BY <2>3 DEF Holds
  <2>5. PICK S \in SUBSET (0 .. m - 1) :
          /\ LeftMatches(0, m) = BitVector(m, S)
          /\ S = {i \in 0 .. m - 1 : \E p \in Lookup(backgroundTable, Rows[0 + i + 1].key) :
                                       Background[p] = Rows[0 + i + 1].key}
    <3>1. 0 \in Nat /\ m \in Nat /\ 0 + m <= m
      BY <1>2
    <3> QED
      BY <1>1, <3>1, ChunkBits
  <2>6. /\ Ones(chunk'.bits) = S /\ chunk'.base = 0
        /\ Pending(chunk') = S
    <3>1. chunk' = SemiJoinChunk(0, BitVector(m, S))
      BY <2>2, <2>5
    <3>2. 0 \in Nat /\ m \in Nat
      BY <1>2
    <3> HIDE DEF m
    <3> QED
      BY <3>1, <3>2, NewChunk, NewChunkIsPending
  <2>7. ASSUME NEW p \in 1..m
        PROVE  p \in Matched(Rows, Background) <=> p - 1 \in S
    <3>1. p - 1 \in 0 .. m - 1 /\ 0 + (p - 1) + 1 = p
      BY <1>2
    <3>2. p - 1 \in S <=> \E q \in Lookup(backgroundTable, Rows[p].key) : Background[q] = Rows[p].key
      BY <2>5, <3>1
    <3>3. Lookup(backgroundTable, Rows[p].key) \subseteq 1..Len(Background)
      BY <1>2, <2>4, LookupsAreEntered
    <3> QED
      BY <2>4, <3>2, <3>3 DEF Matched
  <2> QED
    BY <1>2, <1>3, <1>4, <2>1, <2>2, <2>6, <2>7
<1>6. CASE ~IsLeftSemiJoin
  <2>1. chunk' = SemiJoinChunk(0, RightMatches) /\ offset' = m
    BY <1>6 DEF NextBindingChunk
  <2>2. Holds(clauseTable, Keys(Rows), m)
    BY <1>1, <1>6 DEF JoinInv, ClauseInv
  <2>3. \A p \in 1..m : p \in Lookup(clauseTable, Rows[p].key)
    BY <1>2, <2>2 DEF Holds
  <2>4. PICK S \in SUBSET (0 .. m - 1) :
          /\ RightMatches = BitVector(m, S)
          /\ S = {p - 1 : p \in {p \in 1..m : \E q \in 1..Len(Background) :
                    p \in Lookup(clauseTable, Background[q]) /\ Rows[p].key = Background[q]}}
    <3>1. 0 \in Nat /\ m \in Nat /\ 0 + m <= m
      BY <1>2
    <3> QED
      BY <1>1, <3>1, ChunkBits
  <2>5. /\ Ones(chunk'.bits) = S /\ chunk'.base = 0
        /\ Pending(chunk') = S
    <3>1. 0 \in Nat /\ m \in Nat /\ chunk' = SemiJoinChunk(0, BitVector(m, S))
      BY <1>2, <2>1, <2>4
    <3> HIDE DEF m
    <3> QED
      BY <3>1, NewChunk, NewChunkIsPending
  <2>6. ASSUME NEW p \in 1..m
        PROVE  p \in Matched(Rows, Background) <=> p - 1 \in S
    <3>1. \A r \in 1..m : r - 1 = p - 1 => r = p
      BY <1>2
    <3>2. p - 1 \in S <=> \E q \in 1..Len(Background) :
             p \in Lookup(clauseTable, Background[q]) /\ Rows[p].key = Background[q]
      BY <2>4, <3>1
    <3> QED
      BY <2>3, <3>2 DEF Matched
  <2> QED
    BY <1>2, <1>4, <2>1, <2>5, <2>6
<1> QED
  BY <1>5, <1>6

(* Each row is entered or its head is known already. *)
LEMMA InsertHeads ==
  ASSUME JoinInv, HeadsInv, InsertIfNotPresent
  PROVE  HeadsInv'
<1> DEFINE here == Position(chunk.at)
           tid == here + 1
           head == Rows[chunk.base + tid].head
           M == Matched(Rows, Background)
           before == {p \in M : p - 1 \notin Pending(chunk)}
           after == {p \in M : p - 1 \notin Pending(chunk')}
<1>1. /\ pc = "insert" /\ pc' = "insert" /\ given' = given /\ side' = side /\ offset' = offset
      /\ chunk.left > 0 /\ pc \in Joining
  BY DEF InsertIfNotPresent, Joining
<1>2. /\ Rows' = Rows /\ Background' = Background /\ (IsOneChunk(side)' <=> IsOneChunk(side))
  BY <1>1, SameCall, SameCovers
<1>3. /\ tid \in 1..Len(Rows) /\ head \in Value
      /\ \/ TRUE \in MayExist(head) /\ coverageTable' = coverageTable
         \/ /\ FALSE \in MayExist(head) /\ tid \notin Lookup(coverageTable, head)
            /\ coverageTable' = Enter(coverageTable, tid, head)
  BY InsertStep
<1>4. IsChunk(chunk) /\ TypeInv /\ coverageTable \in Table(Len(Rows)) /\ WellChained(coverageTable)
  BY <1>1 DEF JoinInv, ChunkInv, CoverageTableInv
<1>5. /\ chunk'.base = chunk.base /\ chunk'.bits = chunk.bits /\ chunk'.left = chunk.left - 1
      /\ here \in Ones(chunk.bits)
      /\ chunk'.left > 0 => {p \in Ones(chunk.bits) : p >= Position(chunk'.at)}
                              = {p \in Ones(chunk.bits) : p >= here} \ {here}
      /\ chunk'.left = 0 => {p \in Ones(chunk.bits) : p >= here} = {here}
  BY <1>1, <1>4, NextRowOfChunk DEF InsertIfNotPresent
<1>6. chunk.left \in Nat /\ here \in Nat
  BY <1>4, <1>5, OnesAreSetBits DEF IsChunk
<1>7. Pending(chunk') = Pending(chunk) \ {here} /\ here \in Pending(chunk)
  <2>1. Pending(chunk) = {p \in Ones(chunk.bits) : p >= here}
    BY <1>1, <1>6 DEF Pending
  <2>2. CASE chunk'.left = 0
    BY <1>5, <2>1, <2>2 DEF Pending
  <2>3. CASE chunk'.left # 0
    <3>1. chunk'.left > 0
      BY <1>1, <1>5, <1>6, <2>3
    <3>2. Pending(chunk') = {p \in Ones(chunk.bits) : p >= Position(chunk'.at)}
      BY <1>5, <2>3 DEF Pending
    <3> HIDE DEF here
    <3>3. here \in {p \in Ones(chunk.bits) : p >= here}
      BY <1>5, <1>6
    <3> QED
      BY <1>5, <2>1, <3>1, <3>2, <3>3
  <2> QED
    BY <2>2, <2>3
<1> SUFFICES ASSUME IsOneChunk(side)
             PROVE  /\ offset >= Len(Rows) /\ chunk.base = 0
                    /\ \A p \in 1..Len(Rows) : p \in M <=> p - 1 \in Ones(chunk.bits)
                    /\ Knows(coverageTable', Rows, after)
  BY <1>1, <1>2, <1>5 DEF HeadsInv
<1>8. /\ offset >= Len(Rows) /\ chunk.base = 0
      /\ \A p \in 1..Len(Rows) : p \in M <=> p - 1 \in Ones(chunk.bits)
      /\ Knows(coverageTable, Rows, before)
  BY <1>1 DEF HeadsInv
<1>9. /\ Len(Rows) \in Nat /\ \A p \in 1..Len(Rows) : Rows[p].head \in Value
      /\ M \subseteq 1..Len(Rows)
  BY <1>1, <1>4, CallTypes DEF Matched
<1>10. head = Rows[tid].head
  BY <1>6, <1>8
<1> HIDE DEF here, head, M
<1>11. tid \in M /\ tid - 1 = here
  BY <1>3, <1>5, <1>6, <1>8
<1>12. after = before \cup {tid} /\ tid \notin before
  <2>1. \A p \in M : p - 1 = here <=> p = tid
    BY <1>6, <1>9
  <2> HIDE DEF tid
  <2> QED
    BY <1>7, <1>11, <2>1
<1> HIDE DEF tid, before, after
<1>13. /\ Entered(coverageTable) \subseteq before /\ before \subseteq M
       /\ \A p \in before : \E q \in Lookup(coverageTable, Rows[p].head) : Rows[q].head = Rows[p].head
  BY <1>8 DEF Knows, before
<1>14. CASE TRUE \in MayExist(head) /\ coverageTable' = coverageTable
  <2>1. Lookup(coverageTable, head) \subseteq Entered(coverageTable)
    BY <1>3, <1>4, <1>9, LookupsAreEntered
  <2>2. \A p \in Lookup(coverageTable, head) : p \in 1..Len(Rows) /\ chunk.base + p = p /\ IsInTable(p)
    <3>1. \A p \in Lookup(coverageTable, head) : p \in 1..Len(Rows)
      BY <1>9, <1>13, <2>1
    <3>2. \A p \in 1..Len(Rows) : chunk.base + p = p /\ IsInTable(p)
      BY <1>8, <1>9 DEF IsInTable
    <3> QED
      BY <3>1, <3>2
  <2>3. \E p \in Lookup(coverageTable, head) : Rows[p].head = head
    <3>1. SUFFICES ASSUME \A p \in Lookup(coverageTable, head) : Rows[p].head # head
                   PROVE  MayExist(head) = {FALSE}
      BY <1>14
    <3>2. ~\E p \in Lookup(coverageTable, head) : IsInTable(p) /\ Rows[chunk.base + p].head = head
      BY <2>2, <3>1
    <3> QED
      BY <2>2, <3>2 DEF MayExist
  <2> QED
    BY <1>8, <1>10, <1>12, <1>13, <1>14, <2>3 DEF Knows
<1>15. CASE /\ tid \notin Lookup(coverageTable, head)
            /\ coverageTable' = Enter(coverageTable, tid, head)
  <2>1. tid \notin Entered(coverageTable)
    BY <1>12, <1>13
  <2>2. Entered(coverageTable') = Entered(coverageTable) \cup {tid} /\ tid \in Lookup(coverageTable', head)
    BY <1>3, <1>4, <1>9, <1>15, EnterKeepsChains
  <2>3. \A v \in Value : Lookup(coverageTable, v) \subseteq Lookup(coverageTable', v)
    BY <1>3, <1>4, <1>9, <1>15, <2>1, EnterKeepsRows
  <2>4. \A p \in before : \E q \in Lookup(coverageTable', Rows[p].head) : Rows[q].head = Rows[p].head
    BY <1>9, <1>13, <2>3
  <2> QED
    BY <1>8, <1>10, <1>12, <1>13, <2>2, <2>4 DEF Knows
<1> QED
  BY <1>3, <1>8, <1>14, <1>15

(* The examples of a chunk are found exactly if a matched binding has them as head. *)
LEMMA FoundIsCovered ==
  ASSUME JoinInv, HeadsInv, pc = "cover", IsOneChunk(side), NEW i \in 1..Len(Examples)
  PROVE  IsFound(coverageTable, Rows, Examples[i]) <=> Covers(side, Examples[i])
<1>1. Knows(coverageTable, Rows, Matched(Rows, Background))
  BY DEF HeadsInv
<1>2. TypeInv /\ coverageTable \in Table(Len(Rows)) /\ WellChained(coverageTable) /\ pc \in Joining
  BY DEF JoinInv, CoverageTableInv, Joining
<1>3. Len(Rows) \in Nat /\ Examples[i] \in Value
  BY <1>2, CallTypes
<1>4. Lookup(coverageTable, Examples[i]) \subseteq Matched(Rows, Background)
  BY <1>1, <1>2, <1>3, LookupsAreEntered DEF Knows
<1>5. Covers(side, Examples[i]) <=> \E p \in Matched(Rows, Background) : Rows[p].head = Examples[i]
  BY DEF Covers, Matched, Rows
<1>6. ASSUME NEW p \in Matched(Rows, Background), Rows[p].head = Examples[i]
      PROVE  \E q \in Lookup(coverageTable, Examples[i]) : Rows[q].head = Examples[i]
  BY <1>1, <1>6 DEF Knows
<1> QED
  BY <1>4, <1>5, <1>6 DEF IsFound

LEMMA CoverageChunkCovered ==
  ASSUME ExactInv, NextCoverageChunk
  PROVE  ExactInv'
<1> DEFINE width == SmallerOf(ChunkSize, Len(Examples) - offset)
           found == {i \in offset + 1 .. offset + width : IsFound(coverageTable, Rows, Examples[i])}
<1>1. /\ pc = "cover" /\ pc' = "cover" /\ side' = side /\ given' = given
      /\ coverageTable' = coverageTable
      /\ offset < Len(Examples) /\ offset' = offset + ChunkSize
      /\ covered' = [covered EXCEPT ![side] = @ \cup found]
      /\ pc \in Joining
  BY DEF NextCoverageChunk, Joining
<1>2. /\ Rows' = Rows /\ Background' = Background
      /\ \A s : /\ TrulyCovered(s)' = TrulyCovered(s)
                /\ IsOneChunk(s)' <=> IsOneChunk(s)
  BY <1>1, SameCall, SameCovers
<1>3. JoinInv /\ HeadsInv /\ CoveredInv /\ JoinInv'
  BY CoverageChunkStep DEF ExactInv, NextCoverageChunk
<1>4. /\ side \in Side /\ covered \in [Side -> SUBSET Nat] /\ offset \in Nat
      /\ ChunkSize \in Nat \ {0} /\ Len(Examples) \in Nat
      /\ \A s \in Side : covered[s] \subseteq 1..Len(given.examples[s])
  BY <1>1, <1>3, FlagAssumption, CallTypes DEF CoveredInv, JoinInv, TypeInv
<1>5. HeadsInv'
  BY <1>1, <1>2, <1>3 DEF HeadsInv
<1>6. /\ offset + width <= Len(Examples) /\ width \in Nat
      /\ \A i \in 1..Len(Examples) : i <= offset + width <=> i <= offset + ChunkSize
      /\ 1..Len(Examples) \subseteq Nat
  BY <1>1, <1>4 DEF SmallerOf
<1> HIDE DEF width
<1>7. found \subseteq 1..Len(Examples)
  BY <1>4, <1>6
<1>8. IsOneChunk(side) => covered[side] \cup found = {i \in TrulyCovered(side) : i <= offset + ChunkSize}
  <2> SUFFICES ASSUME IsOneChunk(side)
               PROVE  covered[side] \cup found = {i \in TrulyCovered(side) : i <= offset + ChunkSize}
    OBVIOUS
  <2>1. covered[side] = {i \in TrulyCovered(side) : i <= offset}
    BY <1>1, <1>3 DEF CoveredInv
  <2>2. TrulyCovered(side) = {i \in 1..Len(Examples) : Covers(side, Examples[i])}
    BY DEF TrulyCovered, Examples
  <2>3. found = {i \in TrulyCovered(side) : i > offset /\ i <= offset + width}
    <3>1. \A i \in 1..Len(Examples) : IsFound(coverageTable, Rows, Examples[i]) <=> Covers(side, Examples[i])
      BY <1>1, <1>3, FoundIsCovered
    <3>2. \A i \in 1..Len(Examples) :
            i \in offset + 1 .. offset + width <=> i > offset /\ i <= offset + width
      BY <1>4, <1>6
    <3>3. \A i \in 1..Len(Examples) : i \in found <=> i \in TrulyCovered(side) /\ i > offset /\ i <= offset + width
      BY <2>2, <3>1, <3>2
    <3>4. TrulyCovered(side) \subseteq 1..Len(Examples)
      BY <2>2
    <3> HIDE DEF found
    <3> QED
      BY <1>7, <3>3, <3>4
  <2>4. \A i \in TrulyCovered(side) : /\ i <= offset \/ i > offset
                                      /\ i <= offset => i <= offset + ChunkSize
                                      /\ i <= offset + width <=> i <= offset + ChunkSize
    BY <1>4, <1>6, <2>2
  <2> HIDE DEF found
  <2> QED
    BY <2>1, <2>3, <2>4
<1> HIDE DEF found
<1>9. /\ covered'[side] = covered[side] \cup found
      /\ \A s \in Side : s # side => covered'[s] = covered[s]
      /\ covered' \in [Side -> SUBSET Nat]
  BY <1>1, <1>4, <1>6, <1>7
<1>10. \A s \in Side : covered'[s] \subseteq 1..Len(given'.examples[s])
  BY <1>1, <1>4, <1>7, <1>9 DEF Examples
<1>11. CoveredInv'
  <2>1. given \in Input
    BY <1>3 DEF CoveredInv
  <2>2. side = "positive" => covered'["negative"] = {}
    BY <1>1, <1>3, <1>9 DEF CoveredInv, Side
  <2>3. IsOneChunk(side) => covered'[side] = {i \in TrulyCovered(side) : i <= offset'}
    BY <1>1, <1>8, <1>9
  <2>4. side = "negative" /\ IsOneChunk("positive") => covered'["positive"] = TrulyCovered("positive")
    BY <1>1, <1>3, <1>9 DEF CoveredInv, Side
  <2> QED
    BY <1>1, <1>2, <1>4, <1>9, <1>10, <2>1, <2>2, <2>3, <2>4 DEF CoveredInv
<1> QED
  BY <1>3, <1>5, <1>11 DEF ExactInv

(* A side is done when the last of its examples was looked up. *)
LEMMA SideIsDone ==
  ASSUME ExactInv, pc = "cover", offset >= Len(Examples)
  PROVE  IsOneChunk(side) => covered[side] = TrulyCovered(side)
<1>1. TypeInv /\ pc \in Joining
  BY DEF ExactInv, JoinInv, Joining
<1>2. offset \in Nat /\ Len(Examples) \in Nat
  BY <1>1, CallTypes DEF TypeInv
<1>3. TrulyCovered(side) \subseteq 1..Len(Examples)
  BY DEF TrulyCovered, Examples
<1>4. \A i \in TrulyCovered(side) : i <= offset
  BY <1>2, <1>3
<1> QED
  BY <1>4 DEF ExactInv, CoveredInv

(* The steps before the examples are looked up. *)
BindingStep ==
  \/ SelectAndCreateSemiJoin \/ BuildHashTableOnTable
  \/ NextBindingChunk \/ InsertIfNotPresent \/ ChunkInserted \/ NextCoverageSide

LEMMA BindingStepHeads ==
  ASSUME JoinInv, HeadsInv, BindingStep
  PROVE  /\ JoinInv' /\ HeadsInv'
         /\ pc \in Joining /\ pc' \in Joining /\ pc # "cover"
         /\ given' = given /\ side' = side /\ covered' = covered
         /\ positiveTable' = positiveTable /\ uncovered' = uncovered
         /\ pc' = "cover" => offset' = 0
<1>0. JoinInv'
  BY JoinNext, Zenon DEF BindingStep, Next
<1>1. CASE SelectAndCreateSemiJoin \/ BuildHashTableOnTable
  <2>1. /\ pc \in Joining /\ pc # "cover" /\ given' = given /\ side' = side /\ covered' = covered
        /\ positiveTable' = positiveTable /\ uncovered' = uncovered
        /\ pc' \in {"build", "bind"}
    BY <1>1 DEF SelectAndCreateSemiJoin, BuildHashTableOnTable, BindingLoopStarts, Joining
  <2>2. pc' = "bind" => offset' = 0 /\ coverageTable' = NewTable(Len(Rows))
    BY <1>1 DEF SelectAndCreateSemiJoin, BuildHashTableOnTable, BindingLoopStarts
  <2>3. Len(Rows) \in Nat
    BY <2>1, CallTypes DEF JoinInv
  <2>4. HeadsInv'
    BY <2>1, <2>2, <2>3, NewTableIsEmpty DEF HeadsInv
  <2> QED
    BY <1>0, <2>1, <2>4 DEF Joining
<1>2. CASE NextBindingChunk
  <2>1. HeadsInv'
    BY <1>2, BindingChunkHeads
  <2> QED
    BY <1>0, <1>2, <2>1 DEF NextBindingChunk, Joining
<1>3. CASE InsertIfNotPresent
  <2>1. HeadsInv'
    BY <1>3, InsertHeads
  <2> QED
    BY <1>0, <1>3, <2>1 DEF InsertIfNotPresent, Joining
<1>4. CASE ChunkInserted
  <2>1. /\ pc = "insert" /\ pc' = "bind" /\ chunk.left = 0
        /\ UNCHANGED <<given, side, coverageTable, positiveTable, offset, covered, uncovered>>
    BY <1>4 DEF ChunkInserted
  <2>2. Rows' = Rows /\ Background' = Background /\ (IsOneChunk(side)' <=> IsOneChunk(side))
    BY <2>1, SameCall, SameCovers
  <2>3. {p \in Matched(Rows, Background) : p - 1 \notin Pending(chunk)} = Matched(Rows, Background)
    BY <2>1 DEF Pending
  <2>4. HeadsInv'
    BY <2>1, <2>2, <2>3 DEF HeadsInv
  <2> QED
    BY <1>0, <2>1, <2>4 DEF Joining
<1>5. CASE NextCoverageSide
  <2>1. /\ pc = "bind" /\ pc' = "cover" /\ offset >= Len(Rows) /\ offset' = 0 /\ pc \in Joining
        /\ UNCHANGED <<given, side, coverageTable, positiveTable, covered, uncovered>>
    BY <1>5 DEF NextCoverageSide, Joining
  <2>2. Rows' = Rows /\ Background' = Background /\ (IsOneChunk(side)' <=> IsOneChunk(side))
    BY <2>1, SameCall, SameCovers
  <2>3. Len(Rows) \in Nat \ {0}
    BY <2>1, CallTypes DEF JoinInv
  <2>4. HeadsInv'
    BY <2>1, <2>2, <2>3 DEF HeadsInv
  <2> QED
    BY <1>0, <2>1, <2>4 DEF Joining
<1> QED
  BY <1>1, <1>2, <1>3, <1>4, <1>5, Zenon DEF BindingStep

LEMMA BindingsCovered ==
  ASSUME ExactInv, BindingStep
  PROVE  ExactInv'
<1>0. /\ JoinInv' /\ HeadsInv' /\ pc \in Joining /\ pc' \in Joining /\ pc # "cover"
      /\ given' = given /\ side' = side /\ covered' = covered
      /\ pc' = "cover" => offset' = 0
  BY BindingStepHeads DEF ExactInv
<1>1. \A s : /\ TrulyCovered(s)' = TrulyCovered(s)
             /\ IsOneChunk(s)' <=> IsOneChunk(s)
  BY <1>0, SameCovers
<1>2. {i \in TrulyCovered(side) : i <= 0} = {}
  BY DEF TrulyCovered
<1> QED
  BY <1>0, <1>1, <1>2 DEF ExactInv, CoveredInv

LEMMA ExactInit ==
  ASSUME Init
  PROVE  ExactInv
<1>1. pc = "select" /\ side = "positive" /\ given \in Input /\ covered = [s \in Side |-> {}]
  BY DEF Init
<1>2. HeadsInv
  BY <1>1 DEF HeadsInv
<1>3. CoveredInv
  BY <1>1 DEF CoveredInv, Side, Joining
<1> QED
  BY <1>2, <1>3, JoinInit DEF ExactInv

LEMMA ExactNext ==
  ASSUME ExactInv, [Next]_vars
  PROVE  ExactInv'
<1>0. JoinInv' /\ JoinInv /\ HeadsInv /\ CoveredInv
  BY JoinNext DEF ExactInv
<1>1. CASE BindingStep
  BY <1>1, BindingsCovered
<1>2. CASE NextCoverageChunk
  BY <1>2, CoverageChunkCovered
<1>3. CASE PositivesCounted
  <2>1. /\ pc = "cover" /\ offset >= Len(Examples) /\ side = "positive"
        /\ side' = "negative" /\ pc' = "select" /\ pc' \in Joining
        /\ UNCHANGED <<given, covered>>
    BY <1>3 DEF PositivesCounted, Joining
  <2>2. \A s : /\ TrulyCovered(s)' = TrulyCovered(s)
               /\ IsOneChunk(s)' <=> IsOneChunk(s)
    BY <2>1, SameCovers
  <2>3. IsOneChunk("positive") => covered["positive"] = TrulyCovered("positive")
    BY <2>1, SideIsDone
  <2>4. covered["negative"] = {}
    BY <1>0, <2>1 DEF CoveredInv, Joining
  <2>5. CoveredInv'
    BY <1>0, <2>1, <2>2, <2>3, <2>4 DEF CoveredInv, Side
  <2>6. HeadsInv'
    BY <2>1 DEF HeadsInv
  <2> QED
    BY <1>0, <2>5, <2>6 DEF ExactInv
<1>4. CASE NegativesCounted
  <2>1. /\ pc = "cover" /\ pc \in Joining /\ offset >= Len(Examples) /\ side = "negative"
        /\ side' = side /\ pc' \in {"collect", "rejected"} /\ pc' \notin Joining
        /\ UNCHANGED <<given, covered>>
    BY <1>4 DEF NegativesCounted, Joining
  <2>2. \A s : /\ TrulyCovered(s)' = TrulyCovered(s)
               /\ IsOneChunk(s)' <=> IsOneChunk(s)
    BY <2>1, SameCovers
  <2>3. \A s \in Side : IsOneChunk(s) => covered[s] = TrulyCovered(s)
    BY <1>0, <2>1, SideIsDone DEF CoveredInv, Side
  <2>4. CoveredInv'
    BY <1>0, <2>1, <2>2, <2>3 DEF CoveredInv, Joining
  <2>5. HeadsInv'
    BY <2>1 DEF HeadsInv
  <2> QED
    BY <1>0, <2>4, <2>5 DEF ExactInv
<1>5. CASE CollectUncovered \/ FinishRule
  <2>1. /\ pc \notin Joining /\ pc' \in {"collect", "learnt"} /\ pc' \notin Joining
        /\ UNCHANGED <<given, side, covered>>
    BY <1>5 DEF CollectUncovered, FinishRule, Joining
  <2>2. \A s : /\ TrulyCovered(s)' = TrulyCovered(s)
               /\ IsOneChunk(s)' <=> IsOneChunk(s)
    BY <2>1, SameCovers
  <2>3. CoveredInv'
    BY <1>0, <2>1, <2>2 DEF CoveredInv, Joining
  <2>4. HeadsInv'
    BY <2>1 DEF HeadsInv
  <2> QED
    BY <1>0, <2>3, <2>4 DEF ExactInv
<1>6. CASE UNCHANGED vars
  <2>1. /\ Rows' = Rows /\ Background' = Background
        /\ \A s : /\ TrulyCovered(s)' = TrulyCovered(s)
                  /\ IsOneChunk(s)' <=> IsOneChunk(s)
    BY <1>6, SameCall, SameCovers DEF vars
  <2>2. HeadsInv'
    BY <1>0, <1>6, <2>1 DEF vars, HeadsInv
  <2>3. CoveredInv'
    BY <1>0, <1>6, <2>1 DEF vars, CoveredInv
  <2> QED
    BY <1>0, <2>2, <2>3 DEF ExactInv
<1> QED
  BY <1>1, <1>2, <1>3, <1>4, <1>5, <1>6, Zenon DEF Next, BindingStep

LEMMA ExactInvHolds == Spec => []ExactInv
BY ExactInit, ExactNext, PTL DEF Spec

(* A clause is judged on exactly the examples it covers with the new literal, on
   either side, whichever table was hashed, however its rows collide and in
   however many chunks the examples are looked up, provided the bindings are
   one chunk or the table that is hashed (ComputeCoverageOnUncoveredData). *)
THEOREM CoverageCorrect == Spec => []CoverageIsExact
<1>1. ExactInv => CoverageIsExact
  BY DEF ExactInv, CoveredInv, CoverageIsExact, Joining
<1> QED
  BY <1>1, ExactInvHolds, PTL

-----------------------------------------------------------------------------
(* What is left uncovered.  The table of the positives answers for the examples
   counted and for those that are collected.                               *)
Found(t, rows, heads) == {i \in 1..Len(heads) : IsFound(t, rows, heads[i])}

PositiveInv ==
  LET rows == given.bindings["positive"]
      heads == given.examples["positive"]
  IN  /\ pc \in Joining /\ side = "positive" =>
           covered["positive"] =
             IF pc = "cover" THEN {i \in Found(coverageTable, rows, heads) : i <= offset} ELSE {}
      /\ pc \notin Joining \/ side = "negative" =>
           /\ covered["positive"] = Found(positiveTable, rows, heads)
           /\ positiveTable \in Table(Len(rows)) /\ WellChained(positiveTable)
           /\ IsOneChunk("positive") => Knows(positiveTable, rows, Matched(rows, Background))

Rejects(i) == ~IsFound(positiveTable, given.bindings["positive"], given.global[i])

CollectInv ==
  /\ pc \in Joining \cup {"collect", "learnt", "rejected"}
  /\ pc \in Joining \cup {"rejected"} => uncovered = given.global
  /\ pc \in {"collect", "learnt"} =>
       uncovered = RowsIn(given.global, {i \in 1..Len(given.global) : i <= offset /\ Rejects(i)})
  /\ pc = "learnt" => offset >= Len(given.global)

RulesInv == ExactInv /\ PositiveInv /\ CollectInv

(* The examples of a call, and those that are left of them. *)
LEMMA InputTypes ==
  ASSUME given \in Input
  PROVE  LET ex == given.examples["positive"]
         IN  /\ ex \in Seq(Value) /\ Len(ex) \in Nat
             /\ given.bindings["positive"] \in Seq(Binding)
             /\ Background \in Seq(Value)
             /\ given.global \in Seq(Value) /\ Len(given.global) \in Nat
             /\ \E G \in SUBSET (1..Len(ex)) : given.global = RowsIn(ex, G)
             /\ given.shared => given.global = ex
<1> DEFINE ex == given.examples["positive"]
<1>1. /\ given.bindings \in [Side -> Seq(Binding) \ {<<>>}]
      /\ given.background \in Seq(Value) \ {<<>>}
      /\ given.examples \in [Side -> Seq(Value) \ {<<>>}]
      /\ \E gone \in SUBSET Value : given.global = RowsIn(ex, {i \in DOMAIN ex : ex[i] \notin gone})
      /\ given.shared => given.global = ex
  BY InputAssumption
<1>2. "positive" \in Side
  BY DEF Side
<1>3. ex \in Seq(Value) /\ given.bindings["positive"] \in Seq(Binding)
  BY <1>1, <1>2
<1> HIDE DEF ex
<1>4. Len(ex) \in Nat /\ DOMAIN ex = 1..Len(ex)
  BY <1>3
<1>5. PICK gone \in SUBSET Value : given.global = RowsIn(ex, {i \in DOMAIN ex : ex[i] \notin gone})
  BY <1>1 DEF ex
<1> DEFINE G == {i \in DOMAIN ex : ex[i] \notin gone}
<1>6. G \in SUBSET (1..Len(ex))
  BY <1>4
<1> HIDE DEF G
<1>7. given.global = RowsIn(ex, G)
  BY <1>5 DEF G
<1>8. given.global \in Seq(Value)
  BY <1>3, <1>6, <1>7, RowsInType
<1>9. Len(given.global) \in Nat
  BY <1>8
<1> QED
  BY <1>1, <1>3, <1>4, <1>6, <1>7, <1>8, <1>9 DEF ex, Background

(* The rows that are appended are those whose bits are not set. *)
LEMMA RowsNotFoundAreRest ==
  ASSUME NEW T, NEW rows \in Seq(T), NEW S \in SUBSET (0 .. Len(rows) - 1)
  PROVE  RowsNotFound(rows, BitVector(Len(rows), S))
           = RowsIn(rows, {i \in 1..Len(rows) : i - 1 \notin S})
<1> DEFINE w == Len(rows)
           v == BitVector(w, S)
           u == Flip(v)
           R == (0 .. w - 1) \ S
<1>1. w \in Nat /\ 0 \in Int /\ w - 1 \in Int
  OBVIOUS
<1>2. IsWhole(v) /\ Ones(v) = S /\ IsWhole(u) /\ Ones(u) = R
  BY <1>1, OnesOfBuilt
<1>3. v.size = w
  BY DEF BitVector
<1>4. IsFiniteSet(0 .. w - 1) /\ Cardinality(0 .. w - 1) = IF 0 > w - 1 THEN 0 ELSE w - 1 - 0 + 1
  BY <1>1, FS_Interval, Zenon
<1>5. Cardinality(0 .. w - 1) = w
  BY <1>1, <1>4
<1>6. IsFiniteSet(S) /\ IsFiniteSet(R) /\ Cardinality(S) \in Nat
  BY <1>4, FS_Subset, FS_CardinalityType, FS_Difference
<1>7. Cardinality(R) = w - Cardinality(S)
  <2>1. Cardinality(R) = Cardinality(0 .. w - 1) - Cardinality((0 .. w - 1) \cap S)
    BY <1>4, FS_Difference
  <2>2. (0 .. w - 1) \cap S = S
    OBVIOUS
  <2> QED
    BY <1>5, <2>1, <2>2
<1>8. {p + 1 : p \in R} = {i \in 1..w : i - 1 \notin S}
  <2>1. ASSUME NEW i \in 1..w, i - 1 \notin S
        PROVE  i - 1 \in R /\ i = (i - 1) + 1
    BY <2>1
  <2>2. ASSUME NEW p \in R
        PROVE  p + 1 \in 1..w /\ (p + 1) - 1 \notin S
    <3>1. p \in 0 .. w - 1 /\ p \notin S /\ (p + 1) - 1 = p
      OBVIOUS
    <3> QED BY <3>1
  <2> HIDE DEF R
  <2> QED
    BY <2>1, <2>2
<1> HIDE DEF u, v, R, w
<1>9. RowsAt(rows, u, Count(u)) = RowsIn(rows, {p + 1 : p \in R})
  BY <1>2, <1>6, RowsAtOnes
<1>10. v.size - Count(v) = Count(u)
  BY <1>2, <1>3, <1>7 DEF Count
<1>11. RowsNotFound(rows, v) = RowsAt(rows, u, Count(u))
  BY <1>10 DEF RowsNotFound, u
<1> QED
  BY <1>8, <1>9, <1>11 DEF v, w

LEMMA KnownIsCovered ==
  ASSUME NEW rows, Len(rows) \in Nat, NEW M,
         NEW t \in Table(Len(rows)), WellChained(t), Knows(t, rows, M), NEW v \in Value
  PROVE  IsFound(t, rows, v) <=> \E p \in M : rows[p].head = v
<1>1. Lookup(t, v) \subseteq M
  BY LookupsAreEntered DEF Knows
<1>2. ASSUME NEW p \in M, rows[p].head = v
      PROVE  \E q \in Lookup(t, v) : rows[q].head = v
  BY <1>2 DEF Knows
<1> QED
  BY <1>1, <1>2 DEF IsFound

LEMMA RejectsTheRest ==
  ASSUME RulesInv, pc \notin Joining, NEW i \in 1..Len(given.global)
  PROVE  WasFound(i) <=> ~Rejects(i)
<1>1. given \in Input
  BY DEF RulesInv, ExactInv, CoveredInv
<1>2. given.shared => given.global = given.examples["positive"]
  BY <1>1, InputTypes
<1>3. covered["positive"] = Found(positiveTable, given.bindings["positive"], given.examples["positive"])
  BY DEF RulesInv, PositiveInv
<1> QED
  BY <1>2, <1>3 DEF WasFound, Rejects, Found

(* The rows left of a table up to a chunk's end are those up to its beginning and
   those left of the chunk.                                                *)
LEMMA RestOfNextRows ==
  ASSUME NEW rows \in Seq(Value), NEW S \in SUBSET (1..Len(rows)),
         NEW m \in Nat, m < Len(rows),
         NEW F, F = {i \in 0 .. SmallerOf(ChunkSize, Len(rows) - m) - 1 : m + i + 1 \notin S}
  PROVE  LET width == SmallerOf(ChunkSize, Len(rows) - m)
         IN  RowsIn(rows, UpTo(S, m + ChunkSize))
               = RowsIn(rows, UpTo(S, m))
                   \o RowsNotFound(NextRows(rows, m, width), BitVector(width, F))
<1> DEFINE width == SmallerOf(ChunkSize, Len(rows) - m)
           part == NextRows(rows, m, width)
           C == NextOf(S, m, width)
<1>1. ChunkSize \in Nat \ {0} /\ Len(rows) \in Nat
  BY FlagAssumption
<1>2. /\ width \in Nat /\ m + width <= Len(rows)
      /\ \A i \in 1..Len(rows) : i <= m + width <=> i <= m + ChunkSize
      /\ \A i \in 1..width : i - 1 \in 0..width - 1 /\ m + (i - 1) + 1 = m + i
                              /\ m + i \in 1..Len(rows)
  BY <1>1 DEF SmallerOf
<1>3. F = {i \in 0 .. width - 1 : m + i + 1 \notin S}
  OBVIOUS
<1> HIDE DEF width
<1>4. /\ part \in Seq(Value) /\ Len(part) = width
      /\ RowsIn(rows, UpTo(S, m + width)) = RowsIn(rows, UpTo(S, m)) \o RowsIn(part, C)
  <2> HIDE DEF part, C
  <2> DEFINE P(T, q, U, k, w) ==
        /\ NextRows(q, k, w) \in Seq(T)
        /\ Len(NextRows(q, k, w)) = w
        /\ RowsIn(q, UpTo(U, k + w)) = RowsIn(q, UpTo(U, k)) \o RowsIn(NextRows(q, k, w), NextOf(U, k, w))
  <2>1. \A T : \A q \in Seq(T) : \A U \in SUBSET (1..Len(q)) : \A k \in Nat : \A w \in Nat :
          k + w <= Len(q) => P(T, q, U, k, w)
    BY NextRowsIn, Zenon
  <2> HIDE DEF P
  <2>2. \A U \in SUBSET (1..Len(rows)) : \A k \in Nat : \A w \in Nat :
          k + w <= Len(rows) => P(Value, rows, U, k, w)
    BY <2>1, Zenon
  <2>3. P(Value, rows, S, m, width)
    BY <1>2, <2>2, Zenon
  <2> QED
    BY <2>3, Zenon DEF part, C, P
<1>5. RowsNotFound(part, BitVector(width, F)) = RowsIn(part, {i \in 1..width : i - 1 \notin F})
  <2> DEFINE found == {i \in 0 .. width - 1 : m + i + 1 \notin S}
  <2>1. found \in SUBSET (0 .. width - 1) /\ F = found
    BY <1>3
  <2>2. part \in Seq(Value) /\ Len(part) = width
    BY <1>4
  <2> HIDE DEF found, part
  <2>3. RowsNotFound(part, BitVector(width, found)) = RowsIn(part, {i \in 1..width : i - 1 \notin found})
    BY <2>1, <2>2, RowsNotFoundAreRest
  <2> QED
    BY <2>1, <2>3, Zenon
<1>6. {i \in 1..width : i - 1 \notin F} = C
  <2>1. ASSUME NEW i \in 1..width
        PROVE  i - 1 \notin F <=> m + i \in S
    <3>1. m + i \in 1..Len(rows) /\ i - 1 \in 0..width - 1 /\ m + (i - 1) + 1 = m + i
      BY <1>2
    <3> QED
      BY <1>3, <3>1
  <2> QED
    BY <2>1 DEF NextOf
<1>7. UpTo(S, m + width) = UpTo(S, m + ChunkSize)
  BY <1>2 DEF UpTo
<1> HIDE DEF C, part
<1> QED
  BY <1>4, <1>5, <1>6, <1>7 DEF part, width

(* One turn of the loop that collects. *)
LEMMA CollectStep ==
  ASSUME RulesInv, CollectUncovered
  PROVE  CollectInv'
<1> DEFINE global == given.global
           width == SmallerOf(ChunkSize, Len(global) - offset)
           S == {i \in 1..Len(global) : Rejects(i)}
           F == {i \in 0 .. width - 1 : WasFound(offset + i + 1)}
<1>1. /\ pc = "collect" /\ pc' = "collect" /\ given' = given /\ positiveTable' = positiveTable
      /\ offset < Len(global) /\ offset' = offset + ChunkSize
      /\ uncovered' = uncovered \o RowsNotFound(NextRows(global, offset, width), BitVector(width, F))
      /\ pc \notin Joining
  BY DEF CollectUncovered, Joining, NextRows
<1>2. given \in Input /\ offset \in Nat /\ ChunkSize \in Nat \ {0}
  BY FlagAssumption DEF RulesInv, ExactInv, CoveredInv, JoinInv, TypeInv
<1>3. global \in Seq(Value) /\ Len(global) \in Nat
  BY <1>2, InputTypes
<1>4. \A i \in 1..Len(global) : WasFound(i) <=> ~Rejects(i)
  BY <1>1, RejectsTheRest
<1>5. \A i \in 1..Len(global) : Rejects(i)' <=> Rejects(i)
  BY <1>1 DEF Rejects
<1>6. uncovered = RowsIn(global, {i \in 1..Len(global) : i <= offset /\ Rejects(i)})
  BY <1>1 DEF RulesInv, CollectInv
<1>7. F = {i \in 0 .. width - 1 : offset + i + 1 \notin S}
  <2>1. width \in Nat /\ \A i \in 0 .. width - 1 : offset + i + 1 \in 1..Len(global)
    BY <1>1, <1>2, <1>3 DEF SmallerOf
  <2>2. \A i \in 0 .. width - 1 : WasFound(offset + i + 1) <=> offset + i + 1 \notin S
    BY <1>4, <2>1
  <2> HIDE DEF S, width
  <2> QED BY <2>2
<1>8. UpTo(S, offset) = {i \in 1..Len(global) : i <= offset /\ Rejects(i)}
  BY DEF UpTo
<1>9. UpTo(S, offset + ChunkSize)
        = {i \in 1..Len(global') : i <= offset' /\ Rejects(i)'}
  <2>1. global' = global
    BY <1>1 DEF global
  <2> QED
    BY <1>1, <1>5, <2>1 DEF UpTo
<1>10. S \in SUBSET (1..Len(global))
  OBVIOUS
<1> HIDE DEF S, F, global
<1>11. uncovered' = RowsIn(global, UpTo(S, offset + ChunkSize))
  <2>1. offset \in Nat /\ offset < Len(global)
    BY <1>1, <1>2, <1>3
  <2>2. RowsIn(global, UpTo(S, offset + ChunkSize))
          = RowsIn(global, UpTo(S, offset)) \o RowsNotFound(NextRows(global, offset, width), BitVector(width, F))
    BY <1>3, <1>7, <1>10, <2>1, RestOfNextRows, Zenon
  <2> QED
    BY <1>1, <1>6, <1>8, <2>2, Zenon
<1> QED
  BY <1>1, <1>9, <1>11 DEF CollectInv, global, Joining

(* The positives' coverage while their examples are looked up. *)
LEMMA PositiveChunk ==
  ASSUME RulesInv, NextCoverageChunk
  PROVE  PositiveInv'
<1> DEFINE width == SmallerOf(ChunkSize, Len(Examples) - offset)
           found == {i \in offset + 1 .. offset + width : IsFound(coverageTable, Rows, Examples[i])}
           All == Found(coverageTable, Rows, Examples)
<1>1. /\ pc = "cover" /\ pc' = "cover" /\ side' = side /\ given' = given
      /\ coverageTable' = coverageTable /\ positiveTable' = positiveTable
      /\ offset < Len(Examples) /\ offset' = offset + ChunkSize
      /\ covered' = [covered EXCEPT ![side] = @ \cup found]
      /\ pc \in Joining
  BY DEF NextCoverageChunk, Joining
<1>2. JoinInv /\ CoveredInv /\ PositiveInv
  BY DEF RulesInv, ExactInv
<1>3. /\ side \in Side /\ covered \in [Side -> SUBSET Nat] /\ offset \in Nat
      /\ ChunkSize \in Nat \ {0} /\ Len(Examples) \in Nat
  BY <1>1, <1>2, FlagAssumption, CallTypes DEF CoveredInv, JoinInv, TypeInv
<1>4. /\ (IsOneChunk("positive"))' <=> IsOneChunk("positive")
      /\ Background' = Background /\ "positive" \in Side
  BY <1>1, SameCall, SameCovers DEF Side
<1>5. CASE side = "negative"
  <2>1. covered'["positive"] = covered["positive"]
    BY <1>1, <1>3, <1>4, <1>5
  <2> QED
    BY <1>1, <1>2, <1>4, <1>5, <2>1 DEF PositiveInv, Found
<1>6. CASE side = "positive"
  <2>1. /\ covered["positive"] = {i \in All : i <= offset}
        /\ Rows = given.bindings["positive"] /\ Examples = given.examples["positive"]
    BY <1>1, <1>2, <1>6 DEF PositiveInv, Rows, Examples
  <2>2. covered'["positive"] = covered["positive"] \cup found
    BY <1>1, <1>3, <1>6
  <2>3. /\ \A i \in offset + 1 .. offset + width :
             i \in 1..Len(Examples) /\ i > offset /\ i <= offset + ChunkSize
        /\ \A i \in 1..Len(Examples) :
             i <= offset + ChunkSize <=> i <= offset \/ i \in offset + 1 .. offset + width
    BY <1>1, <1>3 DEF SmallerOf
  <2> HIDE DEF width
  <2>4. {i \in All : i <= offset} \cup found = {i \in All : i <= offset + ChunkSize}
    <3>1. \A i : i \in All <=> i \in 1..Len(Examples) /\ IsFound(coverageTable, Rows, Examples[i])
      BY DEF Found
    <3>2. \A i : i \in found <=>
            i \in offset + 1 .. offset + width /\ IsFound(coverageTable, Rows, Examples[i])
      OBVIOUS
    <3> HIDE DEF All, found
    <3>3. \A i : i \in found <=> i \in All /\ i \in offset + 1 .. offset + width
      BY <2>3, <3>1, <3>2
    <3>4. \A i \in All : i <= offset + ChunkSize <=> i <= offset \/ i \in found
      BY <2>3, <3>1, <3>3
    <3>5. \A i \in found : i \in All
      BY <3>3
    <3>6. \A i \in found : i <= offset + ChunkSize
      BY <2>3, <3>3
    <3>7. ASSUME NEW i
          PROVE  i \in {j \in All : j <= offset} \cup found <=> i \in {j \in All : j <= offset + ChunkSize}
      BY <3>4, <3>5, <3>6, Zenon
    <3> QED
      BY <3>7, Zenon
  <2> QED
    BY <1>1, <1>2, <1>4, <1>6, <2>1, <2>2, <2>4 DEF PositiveInv, Found, Joining
<1> QED
  BY <1>3, <1>5, <1>6 DEF Side

(* The steps that only prepare the lookups. *)
LEMMA PositiveBefore ==
  ASSUME RulesInv, pc \in Joining, pc' \in Joining, pc # "cover",
         given' = given, side' = side, covered' = covered, positiveTable' = positiveTable,
         uncovered' = uncovered, pc' = "cover" => offset' = 0
  PROVE  PositiveInv' /\ CollectInv'
<1>1. /\ (IsOneChunk("positive"))' <=> IsOneChunk("positive")
      /\ Background' = Background
  BY SameCall, SameCovers
<1>2. side \in Side /\ PositiveInv /\ CollectInv
  BY DEF RulesInv, ExactInv, CoveredInv
<1>3. {i \in Found(coverageTable', given.bindings["positive"], given.examples["positive"]) : i <= 0} = {}
  BY DEF Found
<1>4. CollectInv'
  BY <1>2 DEF CollectInv, Joining
<1> DEFINE rows == given.bindings["positive"]
           heads == given.examples["positive"]
<1>5. CASE side = "positive"
  <2>1. covered["positive"] = {}
    BY <1>2, <1>5 DEF PositiveInv
  <2>2. covered'["positive"]
          = IF pc' = "cover" THEN {i \in Found(coverageTable', rows, heads) : i <= offset'} ELSE {}
    BY <1>3, <2>1
  <2>3. given'.bindings["positive"] = rows /\ given'.examples["positive"] = heads /\ side' # "negative"
    BY <1>5
  <2> HIDE DEF rows, heads
  <2> QED
    BY <1>4, <2>2, <2>3 DEF PositiveInv
<1>6. CASE side = "negative"
  <2>1. side' # "positive"
    BY <1>6
  <2>2. given'.bindings["positive"] = rows /\ given'.examples["positive"] = heads
    OBVIOUS
  <2>3. /\ covered["positive"] = Found(positiveTable, rows, heads)
        /\ positiveTable \in Table(Len(rows)) /\ WellChained(positiveTable)
        /\ IsOneChunk("positive") => Knows(positiveTable, rows, Matched(rows, Background))
    BY <1>2, <1>6 DEF PositiveInv
  <2> HIDE DEF rows, heads
  <2> QED
    BY <1>1, <1>4, <2>1, <2>2, <2>3 DEF PositiveInv
<1> QED
  BY <1>2, <1>4, <1>5, <1>6 DEF Side

LEMMA RulesInit ==
  ASSUME Init
  PROVE  RulesInv
<1>1. /\ pc = "select" /\ side = "positive" /\ uncovered = given.global
      /\ covered = [s \in Side |-> {}]
  BY DEF Init
<1>2. covered["positive"] = {}
  BY <1>1 DEF Side
<1> QED
  BY <1>1, <1>2, ExactInit DEF RulesInv, PositiveInv, CollectInv, Joining

LEMMA RulesNext ==
  ASSUME RulesInv, [Next]_vars
  PROVE  RulesInv'
<1>0. /\ ExactInv /\ ExactInv' /\ PositiveInv /\ CollectInv /\ JoinInv /\ HeadsInv /\ CoveredInv
      /\ given \in Input /\ side \in Side /\ covered \in [Side -> SUBSET Nat]
  BY ExactNext DEF RulesInv, ExactInv, CoveredInv
<1>1. CASE SelectAndCreateSemiJoin \/ BuildHashTableOnTable
  <2>1. /\ pc \in Joining /\ pc # "cover" /\ pc' \in Joining /\ pc' # "cover"
        /\ UNCHANGED <<given, side, covered, positiveTable, uncovered>>
    BY <1>1 DEF SelectAndCreateSemiJoin, BuildHashTableOnTable, BindingLoopStarts, Joining
  <2> QED
    BY <1>0, <2>1, PositiveBefore DEF RulesInv
<1>2. CASE NextBindingChunk \/ InsertIfNotPresent \/ ChunkInserted \/ NextCoverageSide
  <2>1. /\ pc \in Joining /\ pc # "cover" /\ pc' \in Joining /\ (pc' = "cover" => offset' = 0)
        /\ UNCHANGED <<given, side, covered, positiveTable, uncovered>>
    BY <1>2 DEF NextBindingChunk, InsertIfNotPresent, ChunkInserted, NextCoverageSide, Joining
  <2> QED
    BY <1>0, <2>1, PositiveBefore DEF RulesInv
<1>3. CASE NextCoverageChunk
  <2>1. PositiveInv'
    BY <1>3, PositiveChunk
  <2>2. CollectInv'
    BY <1>0, <1>3 DEF NextCoverageChunk, CollectInv, Joining
  <2> QED
    BY <1>0, <2>1, <2>2 DEF RulesInv
<1>4. CASE PositivesCounted
  <2>1. /\ pc = "cover" /\ pc \in Joining /\ offset >= Len(Examples) /\ side = "positive"
        /\ side' = "negative" /\ pc' = "select" /\ positiveTable' = coverageTable
        /\ UNCHANGED <<given, covered, uncovered>>
    BY <1>4 DEF PositivesCounted, Joining
  <2>2. /\ (IsOneChunk("positive"))' <=> IsOneChunk("positive")
        /\ Background' = Background
        /\ Rows = given.bindings["positive"] /\ Examples = given.examples["positive"]
    BY <2>1, SameCovers DEF Background, Rows, Examples
  <2>3. offset \in Nat /\ Len(Examples) \in Nat
    BY <1>0, <2>1, CallTypes DEF JoinInv, TypeInv
  <2>4. covered["positive"] = Found(coverageTable, Rows, Examples)
    <3>1. covered["positive"] = {i \in Found(coverageTable, Rows, Examples) : i <= offset}
      BY <1>0, <2>1, <2>2 DEF PositiveInv
    <3>2. \A i \in Found(coverageTable, Rows, Examples) : i <= offset
      BY <2>1, <2>3 DEF Found
    <3> QED
      BY <3>1, <3>2
  <2>5. coverageTable \in Table(Len(Rows)) /\ WellChained(coverageTable)
    BY <1>0, <2>1 DEF JoinInv, CoverageTableInv
  <2>6. IsOneChunk("positive") => Knows(coverageTable, Rows, Matched(Rows, Background))
    BY <1>0, <2>1 DEF HeadsInv
  <2>7. PositiveInv'
    BY <2>1, <2>2, <2>4, <2>5, <2>6 DEF PositiveInv
  <2>8. CollectInv'
    BY <1>0, <2>1 DEF CollectInv, Joining
  <2> QED
    BY <1>0, <2>7, <2>8 DEF RulesInv
<1>5. CASE NegativesCounted
  <2>1. /\ pc = "cover" /\ pc \in Joining /\ side = "negative" /\ side' = side /\ offset' = 0
        /\ \/ pc' = "collect" /\ uncovered' = <<>>
           \/ pc' = "rejected" /\ uncovered' = uncovered
        /\ pc' \notin Joining /\ UNCHANGED <<given, covered, positiveTable>>
    BY <1>5 DEF NegativesCounted, Joining
  <2>2. PositiveInv'
    <3>1. /\ (IsOneChunk("positive"))' <=> IsOneChunk("positive")
          /\ Background' = Background
      BY <2>1, SameCovers DEF Background
    <3> QED
      BY <1>0, <2>1, <3>1 DEF PositiveInv
  <2>3. RowsIn(given.global, {}) = <<>>
    <3>1. Cardinality({}) = 0
      BY FS_EmptySet
    <3> QED
      BY <3>1 DEF RowsIn
  <2>4. {i \in 1..Len(given.global) : i <= 0 /\ Rejects(i)'} = {}
    OBVIOUS
  <2>5. CollectInv'
    BY <1>0, <2>1, <2>3, <2>4 DEF CollectInv, Joining
  <2> QED
    BY <1>0, <2>2, <2>5 DEF RulesInv
<1>6. CASE CollectUncovered \/ FinishRule
  <2>1. /\ pc = "collect" /\ pc' \in {"collect", "learnt"}
        /\ UNCHANGED <<given, side, covered, positiveTable>>
    BY <1>6 DEF CollectUncovered, FinishRule
  <2>2. PositiveInv'
    <3>1. /\ (IsOneChunk("positive"))' <=> IsOneChunk("positive")
          /\ Background' = Background
      BY <2>1, SameCovers DEF Background
    <3> QED
      BY <1>0, <2>1, <3>1 DEF PositiveInv, Joining
  <2>3. CASE CollectUncovered
    BY <1>0, <2>2, <2>3, CollectStep DEF RulesInv
  <2>4. CASE FinishRule
    <3>1. /\ pc' = "learnt" /\ offset >= Len(given.global) /\ UNCHANGED <<offset, uncovered>>
      BY <2>4 DEF FinishRule
    <3>2. \A i : Rejects(i)' <=> Rejects(i)
      BY <2>1 DEF Rejects
    <3>3. CollectInv'
      BY <1>0, <2>1, <3>1, <3>2 DEF CollectInv, Joining
    <3> QED
      BY <1>0, <2>2, <3>3 DEF RulesInv
  <2> QED
    BY <1>6, <2>3, <2>4
<1>7. CASE UNCHANGED vars
  <2>1. /\ (IsOneChunk("positive"))' <=> IsOneChunk("positive")
        /\ Background' = Background
        /\ \A i : Rejects(i)' <=> Rejects(i)
    BY <1>7, SameCovers DEF vars, Background, Rejects
  <2>2. PositiveInv'
    BY <1>0, <1>7, <2>1 DEF vars, PositiveInv
  <2>3. CollectInv'
    BY <1>0, <1>7, <2>1 DEF vars, CollectInv
  <2> QED
    BY <1>0, <2>2, <2>3 DEF RulesInv
<1> QED
  BY <1>1, <1>2, <1>3, <1>4, <1>5, <1>6, <1>7, Zenon DEF Next

LEMMA RulesInvHolds == Spec => []RulesInv
BY RulesInit, RulesNext, PTL DEF Spec

(* What the invariant says of a state, for the theorems here and those on the tests. *)
LEMMA RulesType ==
  ASSUME RulesInv
  PROVE  TypeOK
<1>1. /\ given \in Input /\ side \in Side /\ offset \in Nat
      /\ \A s \in Side : covered[s] \subseteq 1..Len(given.examples[s])
      /\ pc \in Joining \cup {"collect", "learnt", "rejected"}
  BY DEF RulesInv, ExactInv, CoveredInv, CollectInv, JoinInv, TypeInv
<1>2. chunk.left > 0 => chunk.base + Position(chunk.at) < Len(Rows)
  <2>1. ChunkInv
    BY DEF RulesInv, ExactInv, JoinInv
  <2>2. chunk.left > 0 => pc = "insert" /\ Position(chunk.at) \in Ones(chunk.bits)
    BY <2>1, OnesAreSetBits DEF ChunkInv, IsChunk
  <2> QED
    BY <2>1, <2>2 DEF ChunkInv
<1>3. given.global \in Seq(Value)
  BY <1>1, InputTypes
<1>4. CASE pc \in {"collect", "learnt"}
  <2> DEFINE S == {i \in 1..Len(given.global) : i <= offset /\ Rejects(i)}
  <2>1. S \in SUBSET (1..Len(given.global))
    OBVIOUS
  <2>2. uncovered = RowsIn(given.global, S)
    BY <1>4 DEF RulesInv, CollectInv
  <2> HIDE DEF S
  <2>3. uncovered \in Seq(Value)
    BY <1>3, <2>1, <2>2, RowsInType
  <2> QED
    BY <1>1, <1>2, <2>3 DEF TypeOK, Joining
<1>5. CASE pc \notin {"collect", "learnt"}
  <2>1. uncovered = given.global
    BY <1>1, <1>5 DEF RulesInv, CollectInv
  <2> QED
    BY <1>1, <1>2, <1>3, <2>1 DEF TypeOK, Joining
<1> QED
  BY <1>4, <1>5

(* Every variable of a call keeps its type; the bits of a chunk and the positions
   of examples never lie outside of their tables.                          *)
THEOREM CallTypeCorrect == Spec => []TypeOK
BY RulesType, RulesInvHolds, PTL

LEMMA RulesOutput ==
  ASSUME RulesInv
  PROVE  OutputFits
<1> DEFINE ex == given.examples["positive"]
           n == Len(ex)
           C == covered["positive"]
           V == (1..n) \ C
           U == {i \in 1..Len(given.global) : i <= offset /\ Rejects(i)}
<1>1. SUFFICES ASSUME pc \in {"collect", "learnt"}
               PROVE  /\ Len(uncovered) <= n - Cardinality(C)
                      /\ pc = "learnt" /\ given.shared => Len(uncovered) = n - Cardinality(C)
  BY DEF OutputFits, NumCovered
<1>2. given \in Input /\ offset \in Nat /\ C \subseteq 1..n /\ pc \notin Joining
  BY <1>1 DEF RulesInv, ExactInv, CoveredInv, JoinInv, TypeInv, Joining, Side
<1>3. /\ ex \in Seq(Value) /\ n \in Nat
      /\ given.global \in Seq(Value) /\ Len(given.global) \in Nat
      /\ given.shared => given.global = ex
  BY <1>2, InputTypes
<1>4. PICK G \in SUBSET (1..n) : given.global = RowsIn(ex, G)
  BY <1>2, InputTypes
<1>5. C = Found(positiveTable, given.bindings["positive"], ex)
  BY <1>2 DEF RulesInv, PositiveInv
<1>6. uncovered = RowsIn(given.global, U) /\ (pc = "learnt" => offset >= Len(given.global))
  BY <1>1 DEF RulesInv, CollectInv
<1>7. U \in SUBSET (1..Len(given.global))
  OBVIOUS
<1>8. /\ IsFiniteSet(1..n) /\ Cardinality(1..n) = n
  <2>1. 1 \in Int /\ n \in Int
    BY <1>3
  <2>2. IsFiniteSet(1..n) /\ Cardinality(1..n) = IF 1 > n THEN 0 ELSE n - 1 + 1
    BY <2>1, FS_Interval, Zenon
  <2> QED BY <1>3, <2>2
<1> HIDE DEF ex, n, C
<1>9. IsFiniteSet(V) /\ Cardinality(V) = n - Cardinality(C)
  <2>1. (1..n) \cap C = C
    BY <1>2
  <2>2. IsFiniteSet(V) /\ Cardinality(V) = Cardinality(1..n) - Cardinality((1..n) \cap C)
    BY <1>8, FS_Difference
  <2> QED BY <1>8, <2>1, <2>2
<1>10. /\ \A i \in U : i \in 1..Len(given.global) /\ Rejects(i)
       /\ \A j \in 1..n : ~IsFound(positiveTable, given.bindings["positive"], ex[j]) => j \in V
  BY <1>5 DEF Found, n
<1> HIDE DEF U, V
<1>11. Len(uncovered) = Cardinality(U)
  BY <1>3, <1>6, <1>7, RowsInType
<1>12. Cardinality(U) <= Cardinality(V)
  <2> DEFINE f == [i \in U |-> Nth(G, i)]
  <2>1. /\ IsFiniteSet(G) /\ Cardinality(G) = Len(given.global) /\ G \in SUBSET Int
        /\ \A k \in 1..Cardinality(G) : given.global[k] = ex[Nth(G, k)]
    <3>1. G \in SUBSET (1..Len(ex))
      BY DEF n
    <3>2. G \in SUBSET Int
      OBVIOUS
    <3> QED BY <1>3, <1>4, <3>1, <3>2, RowsInType
  <2>2. \A i \in 1..Len(given.global) : Nth(G, i) \in G /\ Rank(G, Nth(G, i)) = i
    BY <2>1, NthIsRanked
  <2>3. \A i \in U : Nth(G, i) \in V
    BY <1>10, <2>1, <2>2 DEF Rejects
  <2>4. \A i \in U : \A j \in U : Nth(G, i) = Nth(G, j) => i = j
    BY <1>10, <2>2
  <2>5. f \in Injection(U, V)
    BY <2>3, <2>4 DEF Injection, IsInjective
  <2> HIDE DEF f
  <2> QED
    BY <1>9, <2>5, FS_Injection
<1>13. ASSUME pc = "learnt", given.shared
       PROVE  U = V
  <2>1. given.global = ex /\ offset >= n
    BY <1>3, <1>6, <1>13 DEF n
  <2>2. \A i \in 1..n : i <= offset
    BY <1>2, <1>3, <2>1
  <2>3. \A i \in 1..n : i \in C <=> ~Rejects(i)
    BY <1>5, <2>1 DEF Found, Rejects, n
  <2> QED
    BY <2>1, <2>2, <2>3 DEF U, V, n
<1> QED
  BY <1>9, <1>11, <1>12, <1>13

(* The rows that are kept when a clause is learnt never exceed the room, which was
   sized from what the clause covered of the data it was started on, and fill
   it exactly if that is the current data: rows found uncovered are at different
   places of the older table, at which the example was not counted either.  *)
THEOREM OutputCorrect == Spec => []OutputFits
BY RulesOutput, RulesInvHolds, PTL

LEMMA RulesTake ==
  ASSUME RulesInv, pc = "learnt", IsOneChunk("positive")
  PROVE  uncovered = RowsIn(given.global,
           {i \in DOMAIN given.global : ~Covers("positive", given.global[i])})
<1> DEFINE rows == given.bindings["positive"]
           global == given.global
           M == Matched(rows, Background)
<1>1. given \in Input /\ offset \in Nat /\ pc \notin Joining
  BY DEF RulesInv, ExactInv, CoveredInv, JoinInv, TypeInv, Joining
<1>2. /\ global \in Seq(Value) /\ Len(global) \in Nat /\ DOMAIN global = 1..Len(global)
      /\ \A i \in 1..Len(global) : global[i] \in Value
      /\ Len(rows) \in Nat
  BY <1>1, InputTypes
<1>3. /\ positiveTable \in Table(Len(rows)) /\ WellChained(positiveTable)
      /\ Knows(positiveTable, rows, M)
  BY <1>1 DEF RulesInv, PositiveInv
<1>4. /\ offset >= Len(global)
      /\ uncovered = RowsIn(global, {i \in 1..Len(global) : i <= offset /\ Rejects(i)})
  BY DEF RulesInv, CollectInv
<1> HIDE DEF M
<1>5. ASSUME NEW i \in 1..Len(global)
      PROVE  i <= offset /\ Rejects(i) <=> ~Covers("positive", global[i])
  <2>1. i <= offset
    BY <1>1, <1>2, <1>4
  <2>2. IsFound(positiveTable, rows, global[i]) <=> \E p \in M : rows[p].head = global[i]
    <3> HIDE DEF rows, global
    <3> QED BY <1>2, <1>3, KnownIsCovered
  <2>3. Covers("positive", global[i]) <=> \E p \in M : rows[p].head = global[i]
    BY DEF Covers, M, Matched
  <2> QED
    BY <2>1, <2>2, <2>3 DEF Rejects
<1>6. {i \in 1..Len(global) : i <= offset /\ Rejects(i)}
        = {i \in DOMAIN global : ~Covers("positive", global[i])}
  <2> HIDE DEF global
  <2> QED BY <1>2, <1>5
<1> QED
  BY <1>4, <1>6

(* A learnt rule takes exactly the examples it covers off those that are still
   uncovered, whatever other rules have taken since it was counted, provided
   its bindings are one chunk.                                             *)
THEOREM LearntRulesCorrect == Spec => []LearntRuleTakesItsExamples
<1>1. RulesInv => LearntRuleTakesItsExamples
  BY RulesTake DEF LearntRuleTakesItsExamples
<1> QED
  BY <1>1, RulesInvHolds, PTL
=============================================================================
