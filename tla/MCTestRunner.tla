---------------------------- MODULE MCTestRunner ----------------------------
(* Small calls of Coverage and runs of TestRunner.  Values 2 and 3 share a bucket,
   and 4 and 5. *)
EXTENDS TestRunner

MCValue == 1..5
MCHash == [v \in MCValue |-> v \div 2]

SeqsUpTo(S, n) == UNION {[1..m -> S] : m \in 1..n}
Without(s, gone) == SelectSeq(s, LAMBDA h : h \notin gone)
Heads(s) == {s[i] : i \in 1..Len(s)}

(* Binding tables, background tables and example tables smaller than, as large as
   and larger than the other one and than a chunk, examples that occur twice,
   and data some rules have shrunk.                                        *)
Call(positives, gone, shared, bindings, negatives, background) ==
  [bindings |-> [s \in Side |-> IF s = "positive" THEN bindings ELSE negatives],
   background |-> background,
   examples |-> [s \in Side |-> IF s = "positive" THEN positives ELSE <<4, 5>>],
   global |-> Without(positives, gone), shared |-> shared]

Negatives == {<<[head |-> 4, key |-> 1]>>,
              <<[head |-> 5, key |-> 2], [head |-> 4, key |-> 1]>>}

(* A side that is hashed itself and whose rows fill three blocks of bits, some
   without a match.                                                        *)
FiveBindings ==
  {Call(<<1, 2, 3>>, {}, TRUE, [i \in 1..5 |-> [head |-> h[i], key |-> k[i]]],
        <<[head |-> 4, key |-> 1]>>, <<1, 3, 1, 1, 3, 1>>) :
     h \in {<<1, 2, 3, 2, 1>>, <<3, 2, 2, 1, 1>>}, k \in [1..5 -> {1, 2}]}

MCInput ==
  FiveBindings \cup
  UNION {{Call(ex, d.gone, d.shared, b, neg, bg) :
            b \in SeqsUpTo([head : Heads(ex), key : {1, 2}], 3),
            neg \in Negatives,
            bg \in {<<1>>, <<2, 3>>, <<1, 3, 2, 1>>},
            d \in {[gone |-> {}, shared |-> TRUE],
                   [gone |-> {1}, shared |-> FALSE]}} :
         ex \in {<<1, 2, 3>>, <<1, 2, 1>>}}

(* Two full chunks: nothing behind the end of a table is ever read. *)
MCTwoChunkInput ==
  {Call(<<1, 2, 3>>, {}, TRUE, b, <<[head |-> 4, key |-> 1]>>, <<1>>) :
     b \in [1..4 -> [head : {1, 2, 3}, key : {1, 2}]]}

(* Rules with no, one and two literals before the last one, whose facts branch,
   meet again, or lead nowhere; the last literals have fewer and more facts
   than there are bindings.                                                *)
Pairs(s) == [i \in DOMAIN s |-> [from |-> s[i][1], to |-> s[i][2]]]
Branching == Pairs(<<<<1, 2>>, <<1, 3>>, <<2, 3>>>>)
DeadEnd == Pairs(<<<<3, 1>>>>)

Rule == {[prefix |-> <<>>, last |-> <<1, 4>>],
         [prefix |-> <<>>, last |-> <<2>>],
         [prefix |-> <<Branching>>, last |-> <<3>>],
         [prefix |-> <<Branching>>, last |-> <<2, 2, 5, 4, 1, 1>>],
         [prefix |-> <<Branching, DeadEnd>>, last |-> <<1>>],
         [prefix |-> <<DeadEnd, Branching>>, last |-> <<2>>]}

(* Tests of one side only, comments before, between and behind the rows, files that
   fill a buffer of two rows or outgrow it, at once or at the next growth. *)
TestFiles ==
  {<<1>>, <<1, 2, 1>>, <<0, 2, 1>>, <<3, 0, 1>>, <<1, 2, 0, 1, 3, 0>>}

Rules == {<<r>> : r \in Rule} \cup {rs \in Rule \X Rule : rs[1] # rs[2]}

MCTest ==
  {t \in [file : TestFiles, numTestPositive : {1, 2}, clauses : Rules] :
     t.numTestPositive <= Cardinality({i \in DOMAIN t.file : t.file[i] # 0})}
MCFile == {<<>>} \cup TestFiles
NoRun == {}
=============================================================================
