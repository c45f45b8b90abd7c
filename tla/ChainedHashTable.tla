--------------------------- MODULE ChainedHashTable -------------------------
(***************************************************************************)
(* The hash table of the semi-joins: an array of bucket heads and, for     *)
(* every row of the build table, the next row of its chain.  Positions     *)
(* count from 1 and 0 ends a chain, as in the code.  The bucket array is   *)
(* cleared when it is allocated, the array of next positions is not.  A    *)
(* key is given by its hash, a number: whoever walks a chain compares the  *)
(* rows.                                                                   *)
(***************************************************************************)
EXTENDS Integers, FiniteSets

EndOfChain == 0
Unwritten == -1

(* The least power of two that is no less than n. *)
NumBuckets(n) == 2 ^ Cardinality({k \in 0..30 : 2 ^ k < n})

NewTable(n) ==
  [buckets |-> [i \in 0 .. NumBuckets(n) - 1 |-> EndOfChain],
   next    |-> [p \in 1 .. n |-> Unwritten]]

Positions(t) == DOMAIN t.next

(* Masking with size - 1, for a size that is a power of two. *)
BucketOf(t, h) == h % NumBuckets(Cardinality(Positions(t)))

PushBehindNothing(t, p, h) ==   (* faulty: the rest of the chain is lost *)
  [t EXCEPT !.next[p] = EndOfChain, !.buckets[BucketOf(t, h)] = p]

(* Row p becomes the first of the chain of h. *)
Push(t, p, h) ==
  [t EXCEPT !.next[p] = t.buckets[BucketOf(t, h)],
            !.buckets[BucketOf(t, h)] = p]

IsClosed(t, S) == \A p \in S : t.next[p] \in S \cup {EndOfChain}

(* The positions a walk that starts at position p visits. *)
Walk(t, p) ==
  {q \in Positions(t) :
     \A S \in SUBSET Positions(t) :
       IsClosed(t, S) /\ p \in S \cup {EndOfChain} => q \in S}

(* The positions a lookup of h visits. *)
Chain(t, h) == Walk(t, t.buckets[BucketOf(t, h)])

(* No walk returns to a position it has been at, nor reads the next position
   of a row that was never inserted.                                       *)
EveryWalkEnds(t) ==
  \A i \in DOMAIN t.buckets : \A p \in Walk(t, t.buckets[i]) :
    t.next[p] # Unwritten /\ p \notin Walk(t, t.next[p])
=============================================================================
