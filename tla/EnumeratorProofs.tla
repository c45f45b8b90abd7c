-------------------------- MODULE EnumeratorProofs --------------------------
(***************************************************************************)
(* Which literals are generated, for every schema, every length of a       *)
(* clause and whatever the evaluations rule out.                           *)
(*                                                                         *)
(* Every literal over the variables of a clause has come from one literal  *)
(* over those the clause had before its last literal, or from the literal  *)
(* without variables, by filling in new variables.  So the candidates that *)
(* are extended step by step are those that could be listed at once, and   *)
(* none is there twice.                                                    *)
(***************************************************************************)
EXTENDS CandidateLiteralEnumerator, StructureProofs

-----------------------------------------------------------------------------
(* Filling in one argument. *)

AppendedTo(S, C) == {Append(m[1], m[2]) : m \in S \X C}

LEMMA AppendIsOneToOne ==
  ASSUME NEW T, NEW s \in Seq(T), NEW t \in Seq(T), NEW u \in T, NEW v \in T,
         Append(s, u) = Append(t, v)
  PROVE  s = t /\ u = v
<1>1. Len(s) \in Nat /\ Len(t) \in Nat
  OBVIOUS
<1>2. /\ Len(Append(s, u)) = Len(s) + 1 /\ Len(Append(t, v)) = Len(t) + 1
      /\ \A i \in 1..Len(s) : Append(s, u)[i] = s[i]
      /\ \A i \in 1..Len(t) : Append(t, v)[i] = t[i]
      /\ Append(s, u)[Len(s) + 1] = u /\ Append(t, v)[Len(t) + 1] = v
  BY AppendProperties
<1>3. Len(s) = Len(t)
  BY <1>1, <1>2
<1>4. \A i \in 1..Len(s) : s[i] = t[i]
  BY <1>2, <1>3
<1> QED
  BY <1>2, <1>3, <1>4, SeqEqual

(* A prefix continued in every way but the first. *)
OtherWays(s, choices) == [k \in 1..(Len(choices) - 1) |-> Append(s, choices[k + 1])]

LEMMA OtherWaysAreListed ==
  ASSUME NEW T, NEW s \in Seq(T), NEW C \in SUBSET T, NEW choices,
         Lists(choices, C), choices # <<>>
  PROVE  /\ Lists(OtherWays(s, choices), AppendedTo({s}, C \ {choices[1]}))
         /\ Len(OtherWays(s, choices)) = Len(choices) - 1
<1> DEFINE q == Len(choices)
           w == OtherWays(s, choices)
           A == AppendedTo({s}, C \ {choices[1]})
<1>1. choices \in Seq(C) /\ q \in Nat \ {0} /\ \A k \in 1..q : choices[k] \in C
  BY EmptySeq DEF Lists
<1>2. \A k \in 1..q - 1 : k + 1 \in 1..q /\ 1 \in 1..q /\ k + 1 # 1
  BY <1>1
<1>3. \A k \in 1..q - 1 : choices[k + 1] \in C \ {choices[1]}
  BY <1>1, <1>2 DEF Lists
<1>4. \A k \in 1..q - 1 : Append(s, choices[k + 1]) \in A
  <2> TAKE k \in 1..q - 1
  <2>1. <<s, choices[k + 1]>> \in {s} \X (C \ {choices[1]})
    BY <1>3
  <2>2. \A m \in {s} \X (C \ {choices[1]}) : Append(m[1], m[2]) \in A
    BY DEF AppendedTo
  <2> QED BY <2>1, <2>2
<1>5. w \in Seq(A) /\ Len(w) = q - 1 /\ \A k \in 1..q - 1 : w[k] = Append(s, choices[k + 1])
  <2> HIDE DEF A, q
  <2>1. q - 1 \in Nat
    BY <1>1
  <2> QED BY <1>4, <2>1 DEF OtherWays, q
<1>6. ASSUME NEW x \in A
      PROVE  \E k \in 1..q - 1 : w[k] = x
  <2>1. PICK m \in {s} \X (C \ {choices[1]}) : x = Append(m[1], m[2])
    BY <1>6 DEF AppendedTo
  <2>2. m[1] = s /\ m[2] \in C /\ m[2] # choices[1]
    BY <2>1
  <2>3. PICK j \in 1..q : choices[j] = m[2]
    BY <2>2 DEF Lists
  <2>4. j # 1 /\ j - 1 \in 1..q - 1 /\ (j - 1) + 1 = j
    BY <1>1, <2>2, <2>3
  <2>5. w[j - 1] = x
    BY <1>5, <2>1, <2>2, <2>3, <2>4
  <2> QED BY <2>4, <2>5
<1>7. ASSUME NEW k \in 1..q - 1, NEW l \in 1..q - 1, w[k] = w[l]
      PROVE  k = l
  <2>1. Append(s, choices[k + 1]) = Append(s, choices[l + 1])
    BY <1>5, <1>7
  <2>2. choices[k + 1] \in T /\ choices[l + 1] \in T
    BY <1>3
  <2>3. choices[k + 1] = choices[l + 1]
    BY <2>1, <2>2, AppendIsOneToOne
  <2>4. k + 1 = l + 1
    BY <1>2, <2>3 DEF Lists
  <2> QED BY <2>4
<1> QED
  BY <1>5, <1>6, <1>7 DEF Lists

(* Filling in an argument continues every prefix in every way, and the last
   one in the last way at the end.                                         *)
EndsWith(w, x) == w # <<>> /\ w[Len(w)] = x

LEMMA FillLists ==
  ASSUME NEW T, NEW P \in SUBSET Seq(T), NEW C \in SUBSET T, NEW prefixes, NEW choices,
         Lists(prefixes, P), Lists(choices, C), NEW s, NEW v,
         EndsWith(prefixes, s), EndsWith(choices, v)
  PROVE  /\ Lists(Fill(prefixes, choices), AppendedTo(P, C))
         /\ EndsWith(Fill(prefixes, choices), Append(s, v))
<1> DEFINE m == Len(prefixes)
           q == Len(choices)
           first1 == [i \in DOMAIN prefixes |-> Append(prefixes[i], choices[1])]
           ss == [i \in DOMAIN prefixes |->
                    [k \in 1..(Len(choices) - 1) |-> Append(prefixes[i], choices[k + 1])]]
           S == [i \in 1..m |-> AppendedTo({prefixes[i]}, C \ {choices[1]})]
           A == AppendedTo(P, {choices[1]})
           B == AllOf(S, m)
           rest == FlattenSeq(ss)
<1>1. /\ prefixes \in Seq(P) /\ m \in Nat \ {0} /\ DOMAIN prefixes = 1..m
      /\ \A i \in 1..m : prefixes[i] \in P
  BY EmptySeq DEF Lists, EndsWith
<1>2. /\ choices \in Seq(C) /\ q \in Nat \ {0} /\ choices # <<>>
      /\ \A k \in 1..q : choices[k] \in C
  BY EmptySeq DEF Lists, EndsWith
<1>3. Fill(prefixes, choices) = first1 \o rest
  BY DEF Fill
<1>4. choices[1] \in C /\ choices[1] \in T
  BY <1>2
<1>5. Lists(first1, A) /\ Len(first1) = m /\ \A i \in 1..m : first1[i] = Append(prefixes[i], choices[1])
  <2> DEFINE g == [p \in P |-> Append(p, choices[1])]
  <2>1. IsOneToOne(g, P, A)
    <3>1. ASSUME NEW x \in P PROVE g[x] \in A
      <4>1. <<x, choices[1]>> \in P \X {choices[1]}
        OBVIOUS
      <4>2. \A n \in P \X {choices[1]} : Append(n[1], n[2]) \in A
        BY DEF AppendedTo
      <4> QED BY <4>1, <4>2
    <3>2. ASSUME NEW x \in P, NEW y \in P, g[x] = g[y] PROVE x = y
      <4>1. Append(x, choices[1]) = Append(y, choices[1]) /\ x \in Seq(T) /\ y \in Seq(T)
        BY <3>2
      <4> QED BY <1>4, <4>1, AppendIsOneToOne
    <3>3. ASSUME NEW z \in A PROVE \E x \in P : g[x] = z
      <4>1. PICK n \in P \X {choices[1]} : z = Append(n[1], n[2])
        BY <3>3 DEF AppendedTo
      <4>2. n[1] \in P /\ n[2] = choices[1]
        BY <4>1
      <4> QED BY <4>1, <4>2
    <3> QED BY <3>1, <3>2, <3>3, Zenon DEF IsOneToOne
  <2>2. \A i \in 1..m : g[prefixes[i]] = Append(prefixes[i], choices[1])
    BY <1>1
  <2> HIDE DEF g
  <2>3. Lists(Mapped(prefixes, g), A)
    BY <2>1, ListsMapped
  <2>4. Mapped(prefixes, g) = first1
    BY <1>1, <2>2 DEF Mapped
  <2>5. DOMAIN first1 = 1..m /\ \A i \in 1..m : first1[i] = Append(prefixes[i], choices[1])
    BY <1>1
  <2>6. first1 \in Seq(A)
    BY <2>3, <2>4 DEF Lists
  <2> HIDE DEF first1
  <2>7. Len(first1) = m
    <3>1. DOMAIN first1 = 1..Len(first1) /\ Len(first1) \in Nat
      BY <2>6
    <3> QED BY <1>1, <2>5, <3>1
  <2> QED BY <2>3, <2>4, <2>5, <2>7
<1>6. \A i \in 1..m : /\ ss[i] = OtherWays(prefixes[i], choices)
                      /\ Lists(ss[i], S[i]) /\ Len(ss[i]) = q - 1
                      /\ ss[i] \in Seq(S[i])
  <2> TAKE i \in 1..m
  <2>1. ss[i] = OtherWays(prefixes[i], choices)
    BY <1>1 DEF OtherWays
  <2>2. prefixes[i] \in Seq(T)
    BY <1>1
  <2>3. /\ Lists(OtherWays(prefixes[i], choices), AppendedTo({prefixes[i]}, C \ {choices[1]}))
        /\ Len(OtherWays(prefixes[i], choices)) = q - 1
    BY <1>2, <2>2, OtherWaysAreListed
  <2>4. S[i] = AppendedTo({prefixes[i]}, C \ {choices[1]})
    OBVIOUS
  <2> HIDE DEF S, ss
  <2> QED BY <2>1, <2>3, <2>4 DEF Lists
<1>7. \A i \in 1..m : \A x \in S[i] :
        \E u \in C \ {choices[1]} : x = Append(prefixes[i], u)
  BY DEF AppendedTo
<1>8. AreApart(S, m)
  <2> SUFFICES ASSUME NEW i \in 1..m, NEW j \in 1..m, i # j, NEW x \in S[i], x \in S[j]
               PROVE  FALSE
    BY Zenon DEF AreApart
  <2>1. PICK u \in C \ {choices[1]} : x = Append(prefixes[i], u)
    BY <1>7
  <2>2. PICK t \in C \ {choices[1]} : x = Append(prefixes[j], t)
    BY <1>7
  <2>3. prefixes[i] \in Seq(T) /\ prefixes[j] \in Seq(T) /\ u \in T /\ t \in T
    BY <1>1
  <2>4. prefixes[i] = prefixes[j]
    BY <2>1, <2>2, <2>3, AppendIsOneToOne
  <2> QED BY <1>1, <2>4 DEF Lists
<1>9. Lists(rest, B)
  <2>1. ss = [i \in 1..m |-> ss[i]]
    BY <1>1
  <2> HIDE DEF ss, S
  <2>2. AreListed(ss, S, m)
    BY <1>6, <2>1 DEF AreListed
  <2> QED BY <1>1, <1>8, <2>2, FlattenLists
<1>10. A \cap B = {}
  <2> SUFFICES ASSUME NEW x \in A, x \in B PROVE FALSE
    OBVIOUS
  <2>1. PICK i \in 1..m : x \in S[i]
    BY DEF AllOf
  <2>2. PICK u \in C \ {choices[1]} : x = Append(prefixes[i], u)
    BY <1>7, <2>1
  <2>3. PICK n \in P \X {choices[1]} : x = Append(n[1], n[2])
    BY DEF AppendedTo
  <2>4. n[1] \in Seq(T) /\ n[2] = choices[1] /\ prefixes[i] \in Seq(T) /\ u \in T
    BY <1>1
  <2>5. PICK p, e : p = n[1] /\ e = prefixes[i]
    OBVIOUS
  <2>6. Append(e, u) = Append(p, choices[1]) /\ p \in Seq(T) /\ e \in Seq(T)
    BY <2>2, <2>3, <2>4, <2>5
  <2>7. u = choices[1]
    BY <1>4, <2>4, <2>6, AppendIsOneToOne
  <2> QED BY <2>7
<1>11. A \cup B = AppendedTo(P, C)
  <2>1. ASSUME NEW x \in A \cup B PROVE x \in AppendedTo(P, C)
    <3>1. \E p \in P : \E u \in C : x = Append(p, u)
      <4>1. CASE x \in A
        <5>1. PICK n \in P \X {choices[1]} : x = Append(n[1], n[2])
          BY <4>1 DEF AppendedTo
        <5> QED BY <1>4, <5>1
      <4>2. CASE x \in B
        <5>1. PICK i \in 1..m : x \in S[i]
          BY <4>2 DEF AllOf
        <5>2. PICK u \in C \ {choices[1]} : x = Append(prefixes[i], u)
          BY <1>7, <5>1
        <5> QED BY <1>1, <5>2
      <4> QED BY <2>1, <4>1, <4>2
    <3>2. PICK p \in P, u \in C : x = Append(p, u)
      BY <3>1
    <3>3. <<p, u>> \in P \X C
      OBVIOUS
    <3>4. \A n \in P \X C : Append(n[1], n[2]) \in AppendedTo(P, C)
      BY DEF AppendedTo
    <3> QED BY <3>2, <3>3, <3>4
  <2>2. ASSUME NEW x \in AppendedTo(P, C) PROVE x \in A \cup B
    <3>1. PICK n \in P \X C : x = Append(n[1], n[2])
      BY <2>2 DEF AppendedTo
    <3>2. CASE n[2] = choices[1]
      <4>1. n \in P \X {choices[1]}
        BY <3>1, <3>2
      <4> QED BY <3>1, <4>1 DEF AppendedTo
    <3>3. CASE n[2] # choices[1]
      <4>1. PICK i \in 1..m : prefixes[i] = n[1]
        BY <3>1 DEF Lists
      <4>2. <<n[1], n[2]>> \in {prefixes[i]} \X (C \ {choices[1]}) /\ x = Append(<<n[1], n[2]>>[1], <<n[1], n[2]>>[2])
        BY <3>1, <3>3, <4>1
      <4>3. x \in AppendedTo({prefixes[i]}, C \ {choices[1]})
        BY <4>2 DEF AppendedTo
      <4>4. x \in S[i]
        BY <4>3
      <4> QED BY <4>4 DEF AllOf
    <3> QED BY <3>2, <3>3
  <2> QED BY <2>1, <2>2
<1>12. Lists(Fill(prefixes, choices), AppendedTo(P, C))
  <2> HIDE DEF first1, rest, A, B
  <2>1. Lists(first1 \o rest, A \cup B)
    BY <1>5, <1>9, <1>10, ListsBehind
  <2> QED BY <1>3, <1>11, <2>1
<1>13. EndsWith(Fill(prefixes, choices), Append(s, v))
  <2>1. prefixes[m] = s /\ choices[q] = v /\ m \in 1..m
    BY <1>1 DEF EndsWith
  <2>2. PICK U : first1 \in Seq(U) /\ ss \in Seq(Seq(U)) /\ Len(ss) = m /\ rest \in Seq(U)
    <3> DEFINE U == A \cup B
    <3>1. first1 \in Seq(U) /\ rest \in Seq(U)
      <4>1. first1 \in Seq(A) /\ rest \in Seq(B) /\ A \subseteq U /\ B \subseteq U
        BY <1>5, <1>9 DEF Lists
      <4> HIDE DEF first1, rest, A, B, U
      <4> QED BY <4>1, SeqMonotonic
    <3>2. \A i \in 1..m : S[i] \subseteq U
      <4> HIDE DEF S, A
      <4> QED BY DEF AllOf
    <3>3. \A i \in 1..m : ss[i] \in Seq(U)
      <4> HIDE DEF ss, S, U
      <4>1. \A i \in 1..m : ss[i] \in Seq(S[i]) /\ S[i] \subseteq U
        BY <1>6, <3>2
      <4> QED BY <4>1, SeqMonotonic
    <3>4. ss = [i \in 1..m |-> ss[i]]
      BY <1>1
    <3> HIDE DEF U, ss
    <3>5. ss \in Seq(Seq(U)) /\ Len(ss) = m
      BY <1>1, <3>3, <3>4
    <3> QED BY <3>1, <3>5
  <2> DEFINE f == Fill(prefixes, choices)
  <2>3. /\ f \in Seq(U) /\ Len(f) = m + Len(rest)
        /\ \A i \in 1..m + Len(rest) : f[i] = IF i <= m THEN first1[i] ELSE rest[i - m]
    <3> HIDE DEF first1, rest
    <3>1. first1 \in Seq(U) /\ rest \in Seq(U) /\ Len(first1) = m /\ f = first1 \o rest
      BY <1>3, <1>5, <2>2
    <3> HIDE DEF f
    <3>2. /\ first1 \o rest \in Seq(U) /\ Len(first1 \o rest) = Len(first1) + Len(rest)
          /\ \A i \in 1..Len(first1) + Len(rest) :
               (first1 \o rest)[i] = IF i <= Len(first1) THEN first1[i] ELSE rest[i - Len(first1)]
      BY <3>1, ConcatProperties, Zenon
    <3> QED BY <3>1, <3>2
  <2>4. Len(rest) \in Nat
    BY <2>2
  <2> HIDE DEF first1, rest, ss, f, m, q
  <2>5. Len(f) \in 1..m + Len(rest) /\ f # <<>>
    BY <1>1, <2>3, <2>4, EmptySeq
  <2>6. CASE q = 1
    <3>1. \A i \in 1..m : S[i] = {}
      <4>1. C \ {choices[1]} = {}
        <5>1. \A x \in C : \E k \in 1..q : choices[k] = x
          BY DEF Lists, q
        <5>2. \A k \in 1..q : k = 1
          BY <2>6
        <5> QED BY <5>1, <5>2
      <4> QED BY <4>1 DEF AppendedTo
    <3>2. B = {}
      BY <3>1 DEF AllOf
    <3>3. Len(rest) = 0
      <4>1. rest \in Seq({})
        BY <1>9, <3>2 DEF Lists
      <4>2. \A i \in 1..Len(rest) : rest[i] \in {}
        BY <4>1
      <4> QED BY <2>4, <4>2
    <3>4. f[m] = first1[m] /\ Len(f) = m
      BY <1>1, <2>3, <3>3
    <3>5. f[Len(f)] = Append(s, v)
      BY <1>5, <2>1, <2>6, <3>4
    <3> QED BY <2>5, <3>5 DEF EndsWith, f
  <2>7. CASE q # 1
    <3>1. PICK t \in Seq(U) : rest = t \o ss[m]
      <4>1. Len(ss) # 0
        BY <1>1, <2>2
      <4> QED BY <2>2, <4>1, FlattenEnds DEF rest
    <3>2. /\ ss[m] = OtherWays(prefixes[m], choices) /\ Len(ss[m]) = q - 1
          /\ ss[m] \in Seq(U)
      <4>1. m \in 1..Len(ss)
        BY <1>1, <2>2
      <4>2. ss[m] \in Seq(U)
        BY <2>2, <4>1
      <4> QED BY <1>6, <2>1, <4>2
    <3>3. /\ Len(rest) = Len(t) + (q - 1)
          /\ \A i \in 1..Len(t) + (q - 1) : rest[i] = IF i <= Len(t) THEN t[i] ELSE ss[m][i - Len(t)]
      <4>1. PICK z : z = ss[m]
        OBVIOUS
      <4>2. z \in Seq(U) /\ rest = t \o z /\ Len(z) = q - 1
        BY <3>1, <3>2, <4>1
      <4>3. /\ Len(t \o z) = Len(t) + Len(z)
            /\ \A i \in 1..Len(t) + Len(z) : (t \o z)[i] = IF i <= Len(t) THEN t[i] ELSE z[i - Len(t)]
        BY <4>2, ConcatProperties, Zenon
      <4> QED BY <4>1, <4>2, <4>3, Zenon
    <3>4. /\ Len(rest) \in 1..Len(t) + (q - 1) /\ ~(Len(rest) <= Len(t))
          /\ Len(rest) - Len(t) = q - 1 /\ q - 1 \in 1..q - 1 /\ Len(t) \in Nat
      BY <1>2, <2>7, <3>3
    <3>5. rest[Len(rest)] = ss[m][q - 1]
      BY <3>3, <3>4
    <3>6. ss[m][q - 1] = Append(s, v)
      <4>1. ss[m][q - 1] = Append(prefixes[m], choices[(q - 1) + 1])
        BY <3>2, <3>4 DEF OtherWays, q
      <4>2. (q - 1) + 1 = q
        BY <1>2
      <4> QED BY <2>1, <4>1, <4>2
    <3>7. f[Len(f)] = rest[Len(rest)]
      <4>1. ~(m + Len(rest) <= m) /\ (m + Len(rest)) - m = Len(rest)
        BY <1>1, <2>4, <3>4
      <4> QED BY <2>3, <2>5, <4>1
    <3> QED BY <2>5, <3>5, <3>6, <3>7 DEF EndsWith, f
  <2> QED BY <2>6, <2>7
<1> QED
  BY <1>12, <1>13

-----------------------------------------------------------------------------
(* Filling in all arguments. *)

ChoicesAt(base, vpa, i) == IF base.args[i] = Unbound THEN vpa[i] ELSE <<base.args[i]>>

AreFilled(base, vpa, h, n) ==
  /\ h[0] = << <<>> >>
  /\ \A i \in 1..n : h[i] = Fill(h[i - 1], ChoicesAt(base, vpa, i))

AllWithArguments(base, rows) == [k \in DOMAIN rows |-> [base EXCEPT !.args = rows[k]]]

(* The recursion has a solution. *)
LEMMA FillingSolves ==
  ASSUME NEW base, NEW vpa, Len(base.args) \in Nat
  PROVE  \E h : /\ AreFilled(base, vpa, h, Len(base.args))
               /\ GenerateCandidateLiteralsFromAnother(base, vpa)
                    = AllWithArguments(base, h[Len(base.args)])
<1> DEFINE n == Len(base.args)
           Chosen(i) == IF base.args[i] = Unbound THEN vpa[i] ELSE <<base.args[i]>>
           Following(f, i) == IF i = 0 THEN << <<>> >> ELSE Fill(f[i - 1], Chosen(i))
           IsIter(m, f) ==
             f = [i \in 0..m |-> IF i = 0 THEN << <<>> >> ELSE Fill(f[i - 1], Chosen(i))]
           h == CHOOSE f : IsIter(n, f)
<1>1. ASSUME NEW m \in Nat, NEW f, IsIter(m, f)
      PROVE  DOMAIN f = 0..m /\ \A i \in 0..m : f[i] = Following(f, i)
  <2>1. f = [i \in 0..m |-> IF i = 0 THEN << <<>> >> ELSE Fill(f[i - 1], Chosen(i))]
    BY <1>1
  <2> HIDE DEF Chosen
  <2>2. DOMAIN f = 0..m
    BY <2>1, Zenon
  <2>3. \A i \in 0..m : f[i] = IF i = 0 THEN << <<>> >> ELSE Fill(f[i - 1], Chosen(i))
    BY <2>1, Zenon
  <2> QED
    BY <2>2, <2>3
<1>2. ASSUME NEW m \in Nat
      PROVE  \E f : IsIter(m, f)
  <2> DEFINE wrong == {k \in Nat : ~\E f : IsIter(k, f)}
  <2>1. SUFFICES ASSUME wrong # {} PROVE FALSE
    BY Zenon
  <2>2. wrong \in SUBSET Nat
    OBVIOUS
  <2>3. PICK k \in wrong : \A l \in wrong : k <= l
    <3> HIDE DEF wrong
    <3> QED BY <2>1, <2>2, HasLowest
  <2>4. k \in Nat /\ ~\E f : IsIter(k, f)
    BY <2>3
  <2>5. CASE k = 0
    <3> DEFINE g == [i \in 0..0 |-> << <<>> >>]
    <3>1. DOMAIN g = 0..0 /\ \A i \in 0..0 : g[i] = IF i = 0 THEN << <<>> >> ELSE Fill(g[i - 1], Chosen(i))
      OBVIOUS
    <3>2. g = [i \in 0..0 |-> g[i]]
      OBVIOUS
    <3> HIDE DEF g
    <3>3. IsIter(0, g)
      BY <3>1, <3>2, Zenon
    <3> QED BY <2>4, <2>5, <3>3, Zenon
  <2>6. CASE k # 0
    <3>1. k - 1 \in Nat /\ ~(k <= k - 1)
      BY <2>4, <2>6
    <3>2. k - 1 \notin wrong
      BY <2>3, <3>1
    <3>3. PICK f : IsIter(k - 1, f)
      BY <3>1, <3>2
    <3>4. \A i \in 0..k - 1 : f[i] = Following(f, i)
      BY <1>1, <3>1, <3>3
    <3> HIDE DEF Chosen
    <3> DEFINE g == [i \in 0..k |-> Following(f, i)]
    <3>5. ASSUME NEW i \in 0..k
          PROVE  g[i] = Following(g, i)
      <4>1. CASE i = 0
        BY <4>1
      <4>2. CASE i # 0
        <5>1. i - 1 \in 0..k - 1 /\ i - 1 \in 0..k
          BY <2>4, <4>2
        <5>2. g[i - 1] = f[i - 1]
          BY <3>4, <5>1
        <5> QED BY <4>2, <5>2
      <4> QED BY <4>1, <4>2
    <3>6. g = [i \in 0..k |-> g[i]]
      OBVIOUS
    <3> HIDE DEF g
    <3>7. IsIter(k, g)
      <4>1. \A i \in 0..k : g[i] = IF i = 0 THEN << <<>> >> ELSE Fill(g[i - 1], Chosen(i))
        BY <3>5
      <4> QED BY <3>6, <4>1, Zenon
    <3> QED BY <2>4, <3>7, Zenon
  <2> QED BY <2>5, <2>6
<1>3. IsIter(n, h)
  <2>1. \E f : IsIter(n, f)
    BY <1>2
  <2> HIDE DEF IsIter
  <2> QED BY <2>1
<1>4. GenerateCandidateLiteralsFromAnother(base, vpa) = AllWithArguments(base, h[n])
  BY Zenon DEF GenerateCandidateLiteralsFromAnother, AllWithArguments
<1> HIDE DEF h
<1>5. \A i \in 0..n : h[i] = Following(h, i)
  BY <1>1, <1>3
<1>6. AreFilled(base, vpa, h, n)
  <2>1. h[0] = << <<>> >>
    <3>1. 0 \in 0..n
      OBVIOUS
    <3>2. h[0] = Following(h, 0)
      BY <1>5, <3>1
    <3> HIDE DEF Chosen, n
    <3> QED BY <3>2, Zenon
  <2>2. \A i \in 1..n : i \in 0..n /\ i # 0
    OBVIOUS
  <2>3. \A i \in 1..n : h[i] = Fill(h[i - 1], Chosen(i))
    <3> HIDE DEF Chosen
    <3> QED BY <1>5, <2>2
  <2> QED BY <2>1, <2>3, Zenon DEF AreFilled, ChoicesAt
<1> QED
  BY <1>4, <1>6

(* The rows that have one of the choices at each place. *)
Fillings(n, C) == {s \in Seq(Nat) : Len(s) = n /\ \A i \in 1..n : s[i] \in C[i]}

AreChoices(base, vpa, n, C, e) ==
  \A i \in 1..n : /\ Lists(ChoicesAt(base, vpa, i), C[i]) /\ C[i] \subseteq Nat
                  /\ EndsWith(ChoicesAt(base, vpa, i), e[i])

LEMMA FillingsMore ==
  ASSUME NEW k \in Nat, NEW C, C[k + 1] \subseteq Nat
  PROVE  AppendedTo(Fillings(k, C), C[k + 1]) = Fillings(k + 1, C)
<1>1. ASSUME NEW x \in AppendedTo(Fillings(k, C), C[k + 1])
      PROVE  x \in Fillings(k + 1, C)
  <2>1. PICK m \in Fillings(k, C) \X C[k + 1] : x = Append(m[1], m[2])
    BY <1>1 DEF AppendedTo
  <2>2. PICK s, v : s = m[1] /\ v = m[2]
    OBVIOUS
  <2>3. s \in Seq(Nat) /\ Len(s) = k /\ (\A i \in 1..k : s[i] \in C[i]) /\ v \in C[k + 1] /\ v \in Nat
    BY <2>1, <2>2 DEF Fillings
  <2>4. /\ x \in Seq(Nat) /\ Len(x) = k + 1 /\ x[k + 1] = v
        /\ \A i \in 1..k : x[i] = s[i]
    BY <2>1, <2>2, <2>3, AppendProperties
  <2>5. \A i \in 1..k + 1 : i \in 1..k \/ i = k + 1
    OBVIOUS
  <2>6. \A i \in 1..k + 1 : x[i] \in C[i]
    BY <2>3, <2>4, <2>5
  <2> QED BY <2>4, <2>6 DEF Fillings
<1>2. ASSUME NEW x \in Fillings(k + 1, C)
      PROVE  x \in AppendedTo(Fillings(k, C), C[k + 1])
  <2>1. x \in Seq(Nat) /\ Len(x) = k + 1 /\ \A i \in 1..k + 1 : x[i] \in C[i]
    BY <1>2 DEF Fillings
  <2> DEFINE s == [i \in 1..k |-> x[i]]
  <2>2. \A i \in 1..k : i \in 1..k + 1 /\ x[i] \in Nat
    BY <2>1
  <2>3. s \in Seq(Nat) /\ Len(s) = k /\ \A i \in 1..k : s[i] = x[i]
    BY <2>2
  <2>4. k + 1 \in 1..k + 1 /\ x[k + 1] \in C[k + 1] /\ x[k + 1] \in Nat
    BY <2>1
  <2> HIDE DEF s
  <2>5. s \in Fillings(k, C)
    BY <2>1, <2>2, <2>3 DEF Fillings
  <2>6. /\ Append(s, x[k + 1]) \in Seq(Nat) /\ Len(Append(s, x[k + 1])) = k + 1
        /\ Append(s, x[k + 1])[k + 1] = x[k + 1]
        /\ \A i \in 1..k : Append(s, x[k + 1])[i] = s[i]
    BY <2>3, <2>4, AppendProperties
  <2>7. \A i \in 1..k + 1 : Append(s, x[k + 1])[i] = x[i]
    <3>1. \A i \in 1..k + 1 : i \in 1..k \/ i = k + 1
      OBVIOUS
    <3> QED BY <2>3, <2>6, <3>1
  <2>8. Append(s, x[k + 1]) = x
    BY <2>1, <2>6, <2>7, SeqEqual
  <2>9. <<s, x[k + 1]>> \in Fillings(k, C) \X C[k + 1]
    BY <2>4, <2>5
  <2>10. \A m \in Fillings(k, C) \X C[k + 1] : Append(m[1], m[2]) \in AppendedTo(Fillings(k, C), C[k + 1])
    BY DEF AppendedTo
  <2> QED BY <2>8, <2>9, <2>10
<1> QED
  BY <1>1, <1>2

LEMMA FillingsAreListed ==
  ASSUME NEW base, NEW vpa, NEW n \in Nat, NEW h, NEW C, NEW e,
         AreFilled(base, vpa, h, n), AreChoices(base, vpa, n, C, e)
  PROVE  Lists(h[n], Fillings(n, C)) /\ EndsWith(h[n], [i \in 1..n |-> e[i]])
<1> DEFINE Right(k) == Lists(h[k], Fillings(k, C)) /\ EndsWith(h[k], [i \in 1..k |-> e[i]])
           wrong == {k \in 0..n : ~Right(k)}
<1>1. SUFFICES wrong = {}
  <2>1. n \in 0..n
    OBVIOUS
  <2> QED BY <2>1
<1>2. SUFFICES ASSUME wrong # {} PROVE FALSE
  BY Zenon
<1>3. wrong \in SUBSET Nat
  OBVIOUS
<1>4. PICK k \in wrong : \A l \in wrong : k <= l
  <2> HIDE DEF wrong
  <2> QED BY <1>2, <1>3, HasLowest
<1>5. k \in 0..n /\ ~Right(k)
  BY <1>4
<1>6. CASE k = 0
  <2>1. h[0] = << <<>> >>
    BY DEF AreFilled
  <2>2. Fillings(0, C) = {<<>>}
    <3>1. ASSUME NEW s \in Fillings(0, C) PROVE s = <<>>
      <4>1. s \in Seq(Nat) /\ Len(s) = 0
        BY <3>1 DEF Fillings
      <4> QED BY <4>1, EmptySeq
    <3>2. <<>> \in Fillings(0, C)
      <4>1. <<>> \in Seq(Nat) /\ Len(<<>>) = 0 /\ \A i \in 1..0 : FALSE
        BY EmptySeq
      <4> QED BY <4>1 DEF Fillings
    <3> QED BY <3>1, <3>2
  <2>3. [i \in 1..0 |-> e[i]] = <<>>
    <3>1. [i \in 1..0 |-> e[i]] \in Seq({}) /\ Len([i \in 1..0 |-> e[i]]) = 0
      OBVIOUS
    <3> QED BY <3>1, EmptySeq
  <2> DEFINE z == <<>>
             w == <<z>>
  <2> HIDE DEF z
  <2>4. w \in Seq({z}) /\ Len(w) = 1 /\ w[1] = z /\ w # <<>>
    OBVIOUS
  <2> HIDE DEF w
  <2>5. Lists(w, {z})
    BY <2>4 DEF Lists
  <2>6. EndsWith(w, z)
    BY <2>4 DEF EndsWith
  <2> QED BY <1>5, <1>6, <2>1, <2>2, <2>3, <2>5, <2>6, Zenon DEF w, z
<1>7. CASE k # 0
  <2>1. PICK j \in Nat : k = j + 1 /\ j \in 0..n /\ k \in 1..n /\ ~(k <= j) /\ k - 1 = j
    <3>1. k - 1 \in Nat /\ k = (k - 1) + 1 /\ (k - 1) \in 0..n /\ k \in 1..n /\ ~(k <= k - 1)
      BY <1>5, <1>7
    <3> QED BY <3>1
  <2>2. j \notin wrong
    BY <1>4, <2>1
  <2>3. Lists(h[j], Fillings(j, C)) /\ EndsWith(h[j], [i \in 1..j |-> e[i]])
    BY <2>1, <2>2
  <2>4. h[k] = Fill(h[j], ChoicesAt(base, vpa, k))
    BY <2>1 DEF AreFilled
  <2>5. Lists(ChoicesAt(base, vpa, k), C[k]) /\ C[k] \subseteq Nat /\ EndsWith(ChoicesAt(base, vpa, k), e[k])
    BY <2>1 DEF AreChoices
  <2>6. Fillings(j, C) \in SUBSET Seq(Nat)
    BY DEF Fillings
  <2>7. PICK P, D, c, s : /\ P = Fillings(j, C) /\ D = C[k] /\ c = ChoicesAt(base, vpa, k)
                         /\ s = [i \in 1..j |-> e[i]]
    OBVIOUS
  <2>8. Lists(Fill(h[j], c), AppendedTo(P, D)) /\ EndsWith(Fill(h[j], c), Append(s, e[k]))
    <3>1. P \in SUBSET Seq(Nat) /\ D \in SUBSET Nat
      BY <2>5, <2>6, <2>7
    <3>2. Lists(h[j], P) /\ EndsWith(h[j], s) /\ Lists(c, D) /\ EndsWith(c, e[k])
      BY <2>3, <2>5, <2>7
    <3> QED BY <3>1, <3>2, FillLists
  <2>9. AppendedTo(Fillings(j, C), C[k]) = Fillings(k, C)
    BY <2>1, <2>5, FillingsMore
  <2>10. Append(s, e[k]) = [i \in 1..k |-> e[i]]
    <3> DEFINE T == {e[i] : i \in 1..k}
    <3>1. \A i \in 1..k : e[i] \in T
      OBVIOUS
    <3> HIDE DEF T
    <3>2. \A i \in 1..j : i \in 1..k
      BY <2>1
    <3>3. s \in Seq(T) /\ Len(s) = j /\ \A i \in 1..j : s[i] = e[i]
      BY <2>7, <3>1, <3>2
    <3> DEFINE t == [i \in 1..k |-> e[i]]
    <3>4. t \in Seq(T) /\ Len(t) = k /\ \A i \in 1..k : t[i] = e[i]
      BY <2>1, <3>1
    <3>5. /\ Append(s, e[k]) \in Seq(T) /\ Len(Append(s, e[k])) = j + 1
          /\ Append(s, e[k])[j + 1] = e[k]
          /\ \A i \in 1..j : Append(s, e[k])[i] = s[i]
      BY <2>1, <3>1, <3>3, AppendProperties
    <3> HIDE DEF t
    <3>6. \A i \in 1..k : Append(s, e[k])[i] = t[i]
      <4>1. \A i \in 1..k : i \in 1..j \/ i = k
        BY <2>1
      <4> QED BY <2>1, <3>3, <3>4, <3>5, <4>1
    <3>7. Append(s, e[k]) = t
      BY <2>1, <3>4, <3>5, <3>6, SeqEqual
    <3> QED BY <3>7 DEF t
  <2> QED BY <1>5, <2>4, <2>7, <2>8, <2>9, <2>10
<1> QED
  BY <1>5, <1>6, <1>7

(* All of a literal's fillings are generated, each once and itself last. *)
FillingsOf(base, n, C) == {[base EXCEPT !.args = s] : s \in Fillings(n, C)}

LEMMA GeneratedAreListed ==
  ASSUME NEW p, NEW a \in Seq(Nat), NEW vpa, NEW n \in Nat, n = Len(a), NEW C,
         AreChoices([predicate |-> p, args |-> a], vpa, n, C, a)
  PROVE  LET base == [predicate |-> p, args |-> a]
             w == GenerateCandidateLiteralsFromAnother(base, vpa)
         IN  Lists(w, FillingsOf(base, n, C)) /\ EndsWith(w, base)
<1> DEFINE base == [predicate |-> p, args |-> a]
           w == GenerateCandidateLiteralsFromAnother(base, vpa)
           F == Fillings(n, C)
           G == FillingsOf(base, n, C)
<1>1. base.args = a /\ Len(base.args) = n
  OBVIOUS
<1>2. PICK h : AreFilled(base, vpa, h, n) /\ w = AllWithArguments(base, h[n])
  <2> HIDE DEF base
  <2> QED BY <1>1, FillingSolves
<1>3. Lists(h[n], F) /\ EndsWith(h[n], [i \in 1..n |-> a[i]])
  <2>1. AreChoices(base, vpa, n, C, a)
    OBVIOUS
  <2> HIDE DEF base, F
  <2> QED BY <1>2, <2>1, FillingsAreListed DEF F
<1>4. [i \in 1..n |-> a[i]] = a
  BY SeqEqual
<1> DEFINE g == [s \in F |-> [base EXCEPT !.args = s]]
<1>5. \A s \in F : [base EXCEPT !.args = s] = [predicate |-> p, args |-> s]
  OBVIOUS
<1>6. IsOneToOne(g, F, G)
  <2>1. ASSUME NEW x \in F PROVE g[x] \in G
    BY DEF FillingsOf
  <2>2. ASSUME NEW x \in F, NEW y \in F, g[x] = g[y] PROVE x = y
    <3>1. [predicate |-> p, args |-> x] = [predicate |-> p, args |-> y]
      BY <1>5, <2>2
    <3>2. [predicate |-> p, args |-> x].args = [predicate |-> p, args |-> y].args
      BY <3>1
    <3> QED BY <3>2
  <2>3. ASSUME NEW z \in G PROVE \E x \in F : g[x] = z
    BY <2>3 DEF FillingsOf
  <2> QED BY <2>1, <2>2, <2>3, Zenon DEF IsOneToOne
<1>7. Lists(Mapped(h[n], g), G)
  <2> HIDE DEF g, F, G
  <2> QED BY <1>3, <1>6, ListsMapped
<1>8. \A k \in 1..Len(h[n]) : h[n][k] \in F
  BY <1>3 DEF Lists
<1>9. h[n] \in Seq(F) /\ DOMAIN h[n] = 1..Len(h[n])
  BY <1>3 DEF Lists
<1>10. Mapped(h[n], g) = w
  <2>1. \A k \in 1..Len(h[n]) : g[h[n][k]] = [base EXCEPT !.args = h[n][k]]
    <3> HIDE DEF F
    <3> QED BY <1>8
  <2>2. w = [k \in 1..Len(h[n]) |-> [base EXCEPT !.args = h[n][k]]]
    BY <1>2, <1>9, Zenon DEF AllWithArguments
  <2>3. Mapped(h[n], g) = [k \in 1..Len(h[n]) |-> g[h[n][k]]]
    BY DEF Mapped
  <2> HIDE DEF g, w, base
  <2> QED BY <2>1, <2>2, <2>3
<1>11. EndsWith(w, base)
  <2>1. PICK c \in Nat : c = Len(h[n]) /\ c \in 1..c
    <3>1. Len(h[n]) \in Nat /\ Len(h[n]) # 0
      <4> HIDE DEF F
      <4> QED BY <1>3, <1>9, EmptySeq DEF EndsWith
    <3> QED BY <3>1
  <2>2. h[n][c] = a /\ a \in F
    <3> HIDE DEF F
    <3> QED BY <1>3, <1>4, <1>8, <2>1 DEF EndsWith
  <2>3. w \in Seq(G) /\ Len(w) = c /\ w[c] = g[h[n][c]]
    <3> DEFINE v == Mapped(h[n], g)
    <3>1. v \in Seq(G)
      <4> HIDE DEF v, G
      <4> QED BY <1>7 DEF Lists, v
    <3>2. DOMAIN v = 1..c /\ v[c] = g[h[n][c]]
      <4> HIDE DEF g
      <4> QED BY <2>1 DEF Mapped
    <3>3. DOMAIN v = 1..Len(v) /\ Len(v) \in Nat
      <4> HIDE DEF v, G
      <4> QED BY <3>1
    <3> HIDE DEF v, G, w, g
    <3>4. Len(v) = c
      BY <2>1, <3>2, <3>3
    <3> QED BY <1>10, <3>1, <3>2, <3>4 DEF v
  <2>4. g[a] = base
    BY <1>5, <2>2
  <2> HIDE DEF w, g, base, G
  <2>5. w # <<>>
    BY <2>1, <2>3, EmptySeq
  <2> QED BY <2>2, <2>3, <2>4, <2>5 DEF EndsWith
<1> QED
  BY <1>7, <1>10, <1>11

(* Without its last member a sequence lists the others. *)
LEMMA FrontLists ==
  ASSUME NEW S, NEW w, NEW x, Lists(w, S), EndsWith(w, x)
  PROVE  Lists(Front(w), S \ {x})
<1> DEFINE n == Len(w)
           f == Front(w)
<1>1. w \in Seq(S) /\ n \in Nat \ {0} /\ w[n] = x /\ n \in 1..n /\ \A k \in 1..n : w[k] \in S
  BY EmptySeq DEF Lists, EndsWith
<1>2. \A k \in 1..n - 1 : k \in 1..n /\ k # n
  BY <1>1
<1>3. \A k \in 1..n - 1 : w[k] \in S \ {x}
  BY <1>1, <1>2 DEF Lists
<1>4. f \in Seq(S \ {x}) /\ Len(f) = n - 1 /\ \A k \in 1..n - 1 : f[k] = w[k]
  <2>1. f = SubSeq(w, 1, n - 1)
    BY DEF Front
  <2>2. 1 \in Int /\ n - 1 \in Int /\ \A k \in 1 .. n - 1 : w[k] \in S \ {x}
    BY <1>1, <1>3
  <2>3. PICK r : r = n - 1
    OBVIOUS
  <2> HIDE DEF n
  <2>4. /\ SubSeq(w, 1, r) \in Seq(S \ {x})
        /\ Len(SubSeq(w, 1, r)) = IF 1 <= r THEN r - 1 + 1 ELSE 0
        /\ \A i \in 1 .. r - 1 + 1 : SubSeq(w, 1, r)[i] = w[1 + i - 1]
    BY <2>2, <2>3, SubSeqProperties
  <2> QED BY <1>1, <2>1, <2>3, <2>4
<1> HIDE DEF f, n
<1>5. ASSUME NEW y \in S \ {x}
      PROVE  \E k \in 1..n - 1 : f[k] = y
  <2>1. PICK k \in 1..n : w[k] = y
    BY DEF Lists, n
  <2>2. k \in 1..n - 1
    BY <1>1, <2>1
  <2> QED BY <1>4, <2>1, <2>2
<1>6. \A k \in 1..n - 1 : \A l \in 1..n - 1 : f[k] = f[l] => k = l
  BY <1>2, <1>4 DEF Lists, n
<1> QED
  BY <1>4, <1>5, <1>6 DEF Lists, f

-----------------------------------------------------------------------------
(* Clauses. *)

AnyLiteral == [predicate : Predicate, args : Seq(Nat)]

(* The variables up to a literal are numbered from 1. *)
AreNumbered(V) == \E w \in Nat : V = 1..w

IsClause(c) ==
  /\ c.body \in Seq(AnyLiteral) /\ c.types \in Seq(Types)
  /\ \A k \in 1..Len(c.body) : /\ WellFormed(c, c.body[k])
                              /\ PlacesOf(Unbound, c.body[k]) = {}
  /\ \A k \in 0..Len(c.body) : AreNumbered(VariablesOf(SubSeq(c.body, 1, k)))
  /\ VariablesOf(c.body) = 1..NumVariables(c)

LEMMA Arities ==
  ASSUME NEW p \in Predicate
  PROVE  /\ ArgumentTypes[p] \in Seq(Types) /\ Len(ArgumentTypes[p]) \in Nat \ {0}
         /\ DOMAIN ArgumentTypes[p] = 1..Len(ArgumentTypes[p])
         /\ Key[p] \in 0..Len(ArgumentTypes[p])
BY SchemaAssumption, EmptySeq

LEMMA LiteralForm ==
  ASSUME NEW p \in Predicate, NEW n \in Nat, NEW l \in Literals(p, n)
  PROVE  /\ l = [predicate |-> p, args |-> l.args] /\ l.predicate = p
         /\ l.args \in [1..Len(ArgumentTypes[p]) -> 0..n]
         /\ DOMAIN l.args = 1..Len(ArgumentTypes[p])
         /\ l.args \in Seq(Nat) /\ Len(l.args) = Len(ArgumentTypes[p])
         /\ l \in AnyLiteral
<1> DEFINE m == Len(ArgumentTypes[p])
<1>1. m \in Nat /\ DOMAIN ArgumentTypes[p] = 1..m
  BY Arities
<1>2. l \in [predicate : {p}, args : [1..m -> 0..n]]
  BY <1>1 DEF Literals
<1> HIDE DEF m
<1>3. l = [predicate |-> p, args |-> l.args] /\ l.predicate = p /\ l.args \in [1..m -> 0..n]
  BY <1>2
<1>4. \A i \in 1..m : l.args[i] \in Nat
  <2>1. PICK a : a = l.args
    OBVIOUS
  <2>2. a \in [1..m -> 0..n] /\ \A v \in 0..n : v \in Nat
    BY <1>3, <2>1
  <2>3. \A i \in 1..m : a[i] \in 0..n
    BY <2>2
  <2> QED BY <2>1, <2>2, <2>3
<1>5. l.args \in Seq(Nat) /\ Len(l.args) = m
  BY <1>1, <1>3, <1>4
<1>6. l \in AnyLiteral
  BY <1>3, <1>5 DEF AnyLiteral
<1> QED
  BY <1>3, <1>5, <1>6 DEF m

LEMMA WellFormedForm ==
  ASSUME NEW c, NumVariables(c) \in Nat, NEW l, WellFormed(c, l)
  PROVE  /\ l.predicate \in Predicate /\ l \in Literals(l.predicate, NumVariables(c))
         /\ DOMAIN l.args = 1..Len(ArgumentTypes[l.predicate])
         /\ l.args \in Seq(Nat) /\ Len(l.args) = Len(ArgumentTypes[l.predicate])
         /\ l \in AnyLiteral
         /\ \A i \in 1..Len(ArgumentTypes[l.predicate]) :
              /\ l.args[i] \in 0..NumVariables(c)
              /\ l.args[i] # Unbound => c.types[l.args[i]] = ArgumentTypes[l.predicate][i]
<1>1. l.predicate \in Predicate /\ l \in Literals(l.predicate, NumVariables(c))
  BY DEF WellFormed
<1>2. PICK p : p = l.predicate
  OBVIOUS
<1>3. /\ DOMAIN l.args = 1..Len(ArgumentTypes[p]) /\ l.args \in Seq(Nat)
      /\ Len(l.args) = Len(ArgumentTypes[p]) /\ l \in AnyLiteral
      /\ l.args \in [1..Len(ArgumentTypes[p]) -> 0..NumVariables(c)]
  BY <1>1, <1>2, LiteralForm
<1>4. \A i \in DOMAIN l.args : l.args[i] # Unbound => c.types[l.args[i]] = ArgumentTypes[l.predicate][i]
  BY DEF WellFormed, PlacesOf
<1> QED
  BY <1>1, <1>2, <1>3, <1>4

(* The variables up to the k-th literal. *)
VariablesUpTo(body, k) == HeadVariables \cup UNION {Range(body[i].args) : i \in 1..k}

LEMMA VariablesOfPrefix ==
  ASSUME NEW body \in Seq(AnyLiteral), NEW k \in 0..Len(body)
  PROVE  /\ VariablesOf(SubSeq(body, 1, k)) = VariablesUpTo(body, k)
         /\ VariablesOf(body) = VariablesUpTo(body, Len(body))
<1>1. PICK s : s = SubSeq(body, 1, k)
  OBVIOUS
<1>2. s \in Seq(AnyLiteral) /\ Len(s) = k /\ \A i \in 1..k : s[i] = body[i]
  <2>1. 1 \in Int /\ k \in Int /\ \A i \in 1 .. k : body[i] \in AnyLiteral
    OBVIOUS
  <2>2. /\ SubSeq(body, 1, k) \in Seq(AnyLiteral)
        /\ Len(SubSeq(body, 1, k)) = IF 1 <= k THEN k - 1 + 1 ELSE 0
        /\ \A i \in 1 .. k - 1 + 1 : SubSeq(body, 1, k)[i] = body[1 + i - 1]
    BY <2>1, SubSeqProperties
  <2> QED BY <1>1, <2>2
<1>3. DOMAIN s = 1..k /\ DOMAIN body = 1..Len(body)
  BY <1>2
<1>4. {Range(s[i].args) : i \in 1..k} = {Range(body[i].args) : i \in 1..k}
  BY <1>2
<1> QED
  BY <1>1, <1>3, <1>4 DEF VariablesOf, VariablesUpTo

LEMMA VariablesGrow ==
  ASSUME NEW body \in Seq(AnyLiteral), NEW k \in 0..Len(body), NEW j \in 0..k
  PROVE  VariablesOf(SubSeq(body, 1, j)) \subseteq VariablesOf(SubSeq(body, 1, k))
<1>1. j \in 0..Len(body) /\ \A i \in 1..j : i \in 1..k
  OBVIOUS
<1>2. VariablesUpTo(body, j) \subseteq VariablesUpTo(body, k)
  BY <1>1 DEF VariablesUpTo
<1> QED
  BY <1>1, <1>2, VariablesOfPrefix

LEMMA MostGeneralIsClause == IsClause(MostGeneral) /\ NumVariables(MostGeneral) \in Nat
<1>1. MostGeneral.body = <<>> /\ MostGeneral.types = HeadTypes
  BY DEF MostGeneral
<1>2. HeadTypes \in Seq(Types) /\ Len(HeadTypes) \in Nat /\ DOMAIN HeadTypes = 1..Len(HeadTypes)
  BY SchemaAssumption
<1>3. /\ <<>> \in Seq(AnyLiteral) /\ Len(<<>>) = 0
  BY EmptySeq
<1>4. VariablesUpTo(<<>>, 0) = 1..Len(HeadTypes)
  BY <1>2 DEF VariablesUpTo, HeadVariables
<1>5. \A k \in 0..0 : k = 0
  OBVIOUS
<1>6. /\ VariablesOf(SubSeq(<<>>, 1, 0)) = 1..Len(HeadTypes)
      /\ VariablesOf(<<>>) = 1..Len(HeadTypes)
  <2>1. 0 \in 0..Len(<<>>)
    BY <1>3
  <2> QED BY <1>3, <1>4, <2>1, VariablesOfPrefix
<1>7. AreNumbered(VariablesOf(SubSeq(<<>>, 1, 0)))
  BY <1>2, <1>6 DEF AreNumbered
<1> QED
  BY <1>1, <1>2, <1>3, <1>5, <1>6, <1>7 DEF IsClause, NumVariables

(* What a clause has when a literal has been added. *)
HasGrown(c0, b, c) ==
  /\ Len(c.body) = Len(c0.body) + 1
  /\ \A k \in 1..Len(c0.body) : c.body[k] = c0.body[k]
  /\ c.body[Len(c.body)] = [predicate |-> b.predicate, args |-> Numbered(b, NumVariables(c0))]
  /\ NumVariables(c) \in Nat /\ NumVariables(c0) <= NumVariables(c)
  /\ \A v \in 1..NumVariables(c0) : c.types[v] = c0.types[v]

(* Unbound arguments get the variables behind those of the clause. *)
AreBehind(b, c0, c) ==
  \A i \in 1..Len(ArgumentTypes[b.predicate]) :
    LET v == Numbered(b, NumVariables(c0))[i]
    IN  /\ b.args[i] # Unbound => v = b.args[i]
        /\ b.args[i] = Unbound => v \in (NumVariables(c0) + 1)..NumVariables(c)
        /\ c.types[v] = ArgumentTypes[b.predicate][i]

LEMMA LiteralIsAdded ==
  ASSUME NEW c0, IsClause(c0), NEW b, WellFormed(c0, b)
  PROVE  LET c == AddUnBoundBodyLiteral(c0, b)
         IN  /\ HasGrown(c0, b, c) /\ AreBehind(b, c0, c)
             /\ c.types \in Seq(Types)
             /\ Range(Numbered(b, NumVariables(c0)))
                  = (Range(b.args) \ {Unbound}) \cup ((NumVariables(c0) + 1)..NumVariables(c))
<1> DEFINE p == b.predicate
           m == Len(ArgumentTypes[p])
           n0 == NumVariables(c0)
           U == PlacesOf(Unbound, b)
           fresh == RowsIn(ArgumentTypes[p], U)
           c == AddUnBoundBodyLiteral(c0, b)
           a == Numbered(b, n0)
<1>1. c0.body \in Seq(AnyLiteral) /\ c0.types \in Seq(Types) /\ n0 = Len(c0.types) /\ n0 \in Nat
  BY DEF IsClause, NumVariables
<1>2. /\ p \in Predicate /\ DOMAIN b.args = 1..m
      /\ b = [predicate |-> p, args |-> b.args]
      /\ \A i \in 1..m : /\ b.args[i] \in 0..n0
                         /\ b.args[i] # Unbound => c0.types[b.args[i]] = ArgumentTypes[p][i]
  <2>1. p \in Predicate /\ b \in Literals(p, n0)
    BY <1>1, WellFormedForm
  <2>2. b = [predicate |-> p, args |-> b.args]
    BY <1>1, <2>1, LiteralForm
  <2> QED BY <1>1, <2>1, <2>2, WellFormedForm
<1>3. ArgumentTypes[p] \in Seq(Types) /\ m \in Nat
  BY <1>2, Arities
<1>4. U \subseteq 1..m /\ \A i \in 1..m : i \in U <=> b.args[i] = Unbound
  BY <1>2 DEF PlacesOf
<1>5. /\ IsFiniteSet(U) /\ Cardinality(U) \in Nat /\ fresh \in Seq(Types) /\ Len(fresh) = Cardinality(U)
      /\ \A k \in 1..Cardinality(U) : fresh[k] = ArgumentTypes[p][Nth(U, k)]
  <2> HIDE DEF U, m
  <2> QED BY <1>3, <1>4, RowsInType DEF m
<1>6. U \in SUBSET Int
  BY <1>4
<1>7. \A i \in U : Rank(U, i) \in 1..Cardinality(U) /\ Nth(U, Rank(U, i)) = i
  <2> HIDE DEF U
  <2> QED BY <1>5, <1>6, RankBounds, NthOfRank
<1>8. \A k \in 1..Cardinality(U) : Nth(U, k) \in U /\ Rank(U, Nth(U, k)) = k
  <2> HIDE DEF U
  <2> QED BY <1>5, <1>6, NthIsRanked
<1>9. DOMAIN a = 1..m /\ \A i \in 1..m : a[i] = IF b.args[i] = Unbound THEN n0 + Rank(U, i) ELSE b.args[i]
  BY <1>2 DEF Numbered
<1>10. c.body = Append(c0.body, [predicate |-> p, args |-> a]) /\ c.types = c0.types \o fresh
  <2>1. [b EXCEPT !.args = a] = [predicate |-> p, args |-> a]
    <3> HIDE DEF a
    <3>1. PICK r : r = b.args
      OBVIOUS
    <3>2. b = [predicate |-> p, args |-> r]
      BY <1>2, <3>1
    <3>3. [[predicate |-> p, args |-> r] EXCEPT !.args = a] = [predicate |-> p, args |-> a]
      OBVIOUS
    <3> HIDE DEF p
    <3> QED BY <3>2, <3>3
  <2> QED BY <2>1 DEF AddUnBoundBodyLiteral
<1> HIDE DEF U, fresh, c, a, m, n0, p
<1>11. /\ c.types \in Seq(Types) /\ Len(c.types) = n0 + Cardinality(U)
       /\ \A v \in 1..n0 + Cardinality(U) : c.types[v] = IF v <= n0 THEN c0.types[v] ELSE fresh[v - n0]
  <2>1. /\ c0.types \o fresh \in Seq(Types) /\ Len(c0.types \o fresh) = Len(c0.types) + Len(fresh)
        /\ \A v \in 1..Len(c0.types) + Len(fresh) :
             (c0.types \o fresh)[v] = IF v <= Len(c0.types) THEN c0.types[v] ELSE fresh[v - Len(c0.types)]
    BY <1>1, <1>5, ConcatProperties, Zenon
  <2> QED BY <1>1, <1>5, <1>10, <2>1
<1>12. NumVariables(c) = n0 + Cardinality(U) /\ NumVariables(c) \in Nat /\ n0 <= NumVariables(c)
  BY <1>1, <1>5, <1>11 DEF NumVariables
<1>13. \A v \in 1..n0 : c.types[v] = c0.types[v]
  <2>1. \A v \in 1..n0 : v \in 1..n0 + Cardinality(U) /\ v <= n0
    BY <1>1, <1>5
  <2> QED BY <1>11, <2>1
<1>14. /\ Len(c.body) = Len(c0.body) + 1
       /\ \A k \in 1..Len(c0.body) : c.body[k] = c0.body[k]
       /\ c.body[Len(c.body)] = [predicate |-> p, args |-> a]
  <2> DEFINE l == [predicate |-> p, args |-> a]
             T == AnyLiteral \cup {l}
  <2>1. c0.body \in Seq(T)
    <3>1. AnyLiteral \subseteq T
      OBVIOUS
    <3> HIDE DEF T
    <3> QED BY <1>1, <3>1, SeqMonotonic
  <2>2. l \in T
    OBVIOUS
  <2> HIDE DEF l, T
  <2>3. /\ Len(Append(c0.body, l)) = Len(c0.body) + 1
        /\ \A k \in 1..Len(c0.body) : Append(c0.body, l)[k] = c0.body[k]
        /\ Append(c0.body, l)[Len(c0.body) + 1] = l
    BY <2>1, <2>2, AppendProperties
  <2>4. c.body = Append(c0.body, l)
    BY <1>10 DEF l
  <2> QED BY <2>3, <2>4 DEF l
<1>15. HasGrown(c0, b, c)
  BY <1>12, <1>13, <1>14 DEF HasGrown, p, a, n0
<1>16. \A i \in 1..m : /\ b.args[i] # Unbound => a[i] = b.args[i]
                       /\ b.args[i] = Unbound => a[i] \in (n0 + 1)..NumVariables(c)
                       /\ c.types[a[i]] = ArgumentTypes[p][i]
  <2> TAKE i \in 1..m
  <2>1. CASE b.args[i] # Unbound
    <3>1. a[i] = b.args[i] /\ a[i] \in 1..n0
      <4>1. a[i] = b.args[i] /\ b.args[i] \in 0..n0 /\ b.args[i] # 0
        BY <1>2, <1>9, <2>1 DEF Unbound
      <4> QED BY <1>1, <4>1
    <3>2. c.types[a[i]] = ArgumentTypes[p][i]
      BY <1>2, <1>13, <2>1, <3>1
    <3> QED BY <2>1, <3>1, <3>2
  <2>2. CASE b.args[i] = Unbound
    <3>1. i \in U /\ a[i] = n0 + Rank(U, i) /\ Rank(U, i) \in 1..Cardinality(U)
      BY <1>4, <1>7, <1>9, <2>2
    <3>2. /\ a[i] \in (n0 + 1)..NumVariables(c) /\ a[i] \in 1..n0 + Cardinality(U)
          /\ ~(a[i] <= n0) /\ a[i] - n0 = Rank(U, i)
      BY <1>1, <1>5, <1>12, <3>1
    <3>3. c.types[a[i]] = fresh[Rank(U, i)]
      BY <1>11, <3>2
    <3>4. fresh[Rank(U, i)] = ArgumentTypes[p][i]
      BY <1>5, <1>7, <3>1
    <3> QED BY <2>2, <3>2, <3>3, <3>4
  <2> QED BY <2>1, <2>2
<1>17. AreBehind(b, c0, c)
  BY <1>16, Zenon DEF AreBehind, m, p, a, n0
<1>18. Range(a) = (Range(b.args) \ {Unbound}) \cup ((n0 + 1)..NumVariables(c))
  <2>1. ASSUME NEW v \in Range(a)
        PROVE  v \in (Range(b.args) \ {Unbound}) \cup ((n0 + 1)..NumVariables(c))
    <3>1. PICK i \in 1..m : v = a[i]
      BY <1>9, <2>1 DEF Range
    <3>2. b.args[i] \in Range(b.args)
      BY <1>2 DEF Range
    <3> QED BY <1>16, <3>1, <3>2
  <2>2. ASSUME NEW v \in Range(b.args) \ {Unbound}
        PROVE  v \in Range(a)
    <3>1. PICK i \in 1..m : v = b.args[i]
      BY <1>2, <2>2 DEF Range
    <3>2. v = a[i]
      BY <1>16, <2>2, <3>1
    <3> QED BY <1>9, <3>2 DEF Range
  <2>3. ASSUME NEW v \in (n0 + 1)..NumVariables(c)
        PROVE  v \in Range(a)
    <3>1. PICK r \in 1..Cardinality(U) : v = n0 + r
      <4>1. v - n0 \in 1..Cardinality(U) /\ v = n0 + (v - n0)
        BY <1>1, <1>5, <1>12
      <4> QED BY <4>1
    <3>2. PICK i \in 1..m : i = Nth(U, r) /\ i \in U /\ Rank(U, i) = r
      BY <1>4, <1>8
    <3>3. a[i] = v
      BY <1>4, <1>9, <3>1, <3>2
    <3> QED BY <1>9, <3>3 DEF Range
  <2> QED BY <2>1, <2>2, <2>3
<1> QED
  BY <1>11, <1>15, <1>17, <1>18 DEF c, a, n0

LEMMA WellFormedStays ==
  ASSUME NEW c0, NumVariables(c0) \in Nat, NEW b, NEW c, HasGrown(c0, b, c),
         NEW l, WellFormed(c0, l)
  PROVE  WellFormed(c, l)
<1> DEFINE p == l.predicate
           m == Len(ArgumentTypes[p])
<1>1. /\ p \in Predicate /\ l \in Literals(p, NumVariables(c0)) /\ DOMAIN l.args = 1..m
      /\ \A i \in 1..m : /\ l.args[i] \in 0..NumVariables(c0)
                         /\ l.args[i] # Unbound => c0.types[l.args[i]] = ArgumentTypes[p][i]
  BY WellFormedForm
<1>2. NumVariables(c) \in Nat /\ NumVariables(c0) <= NumVariables(c)
  BY DEF HasGrown
<1>3. l \in Literals(p, NumVariables(c))
  <2>1. 0..NumVariables(c0) \subseteq 0..NumVariables(c)
    BY <1>2
  <2>2. PICK A, B, D : /\ A = 0..NumVariables(c0) /\ B = 0..NumVariables(c)
                       /\ D = DOMAIN ArgumentTypes[p]
    OBVIOUS
  <2>3. l \in [predicate : {p}, args : [D -> A]] /\ A \subseteq B
    BY <1>1, <2>1, <2>2 DEF Literals
  <2>4. l \in [predicate : {p}, args : [D -> B]]
    BY <2>3
  <2> QED BY <2>2, <2>4 DEF Literals
<1>4. \A i \in DOMAIN l.args \ PlacesOf(Unbound, l) : c.types[l.args[i]] = ArgumentTypes[p][i]
  <2> TAKE i \in DOMAIN l.args \ PlacesOf(Unbound, l)
  <2>1. i \in 1..m /\ l.args[i] # Unbound
    BY <1>1 DEF PlacesOf
  <2>2. l.args[i] \in 1..NumVariables(c0) /\ c0.types[l.args[i]] = ArgumentTypes[p][i]
    <3>1. PICK v : v = l.args[i]
      OBVIOUS
    <3>2. v \in 0..NumVariables(c0) /\ v # 0
      BY <1>1, <2>1, <3>1 DEF Unbound
    <3>3. v \in 1..NumVariables(c0)
      BY <3>2
    <3> QED BY <1>1, <2>1, <3>1, <3>3
  <2> QED BY <2>2 DEF HasGrown
<1> QED
  BY <1>1, <1>3, <1>4 DEF WellFormed

LEMMA AddedIsWellFormed ==
  ASSUME NEW c0, IsClause(c0), NEW b, WellFormed(c0, b), NEW c, NumVariables(c) \in Nat,
         NumVariables(c0) <= NumVariables(c), AreBehind(b, c0, c), NEW l,
         l = [predicate |-> b.predicate, args |-> Numbered(b, NumVariables(c0))]
  PROVE  WellFormed(c, l) /\ PlacesOf(Unbound, l) = {} /\ l \in AnyLiteral
<1> DEFINE p == b.predicate
           m == Len(ArgumentTypes[p])
           n0 == NumVariables(c0)
           a == Numbered(b, n0)
<1>1. n0 \in Nat
  BY DEF IsClause, NumVariables
<1>2. /\ p \in Predicate /\ DOMAIN b.args = 1..m
      /\ \A i \in 1..m : b.args[i] \in 0..n0
  BY <1>1, WellFormedForm
<1>3. DOMAIN ArgumentTypes[p] = 1..m /\ m \in Nat \ {0}
  BY <1>2, Arities
<1>4. DOMAIN a = 1..m /\ a = [i \in 1..m |-> a[i]]
  BY <1>2 DEF Numbered
<1>5. \A i \in 1..m : /\ b.args[i] # Unbound => a[i] = b.args[i]
                      /\ b.args[i] = Unbound => a[i] \in (n0 + 1)..NumVariables(c)
                      /\ c.types[a[i]] = ArgumentTypes[p][i]
  BY Zenon DEF AreBehind
<1> HIDE DEF a, m, n0, p
<1>6. \A i \in 1..m : a[i] \in 1..NumVariables(c)
  <2> TAKE i \in 1..m
  <2>1. CASE b.args[i] = Unbound
    <3>1. \A v \in (n0 + 1)..NumVariables(c) : v \in 1..NumVariables(c)
      BY <1>1
    <3> QED BY <1>5, <2>1, <3>1
  <2>2. CASE b.args[i] # Unbound
    <3>1. \A v \in 0..n0 : v # 0 => v \in 1..NumVariables(c)
      BY <1>1 DEF n0
    <3> QED BY <1>2, <1>5, <2>2, <3>1 DEF Unbound
  <2> QED BY <2>1, <2>2
<1>7. \A i \in 1..m : a[i] \in 0..NumVariables(c) /\ a[i] # 0 /\ a[i] \in Nat
  <2>1. \A v \in 1..NumVariables(c) : v \in 0..NumVariables(c) /\ v # 0 /\ v \in Nat
    OBVIOUS
  <2> QED BY <1>6, <2>1
<1>8. l = [predicate |-> p, args |-> a] /\ l.predicate = p /\ l.args = a
  <2>1. l = [predicate |-> p, args |-> a]
    BY DEF p, a, n0
  <2> QED BY <2>1
<1>9. a \in [1..m -> 0..NumVariables(c)] /\ a \in Seq(Nat)
  BY <1>3, <1>4, <1>7
<1>10. l \in AnyLiteral
  BY <1>2, <1>8, <1>9 DEF AnyLiteral
<1>11. l \in Literals(p, NumVariables(c))
  BY <1>3, <1>8, <1>9 DEF Literals
<1>12. PlacesOf(Unbound, l) = {} /\ DOMAIN l.args = 1..m /\ 1 \in 1..m
  BY <1>3, <1>4, <1>7, <1>8 DEF PlacesOf, Unbound
<1>13. \A i \in DOMAIN l.args \ PlacesOf(Unbound, l) : c.types[l.args[i]] = ArgumentTypes[l.predicate][i]
  BY <1>5, <1>8, <1>12
<1>14. WellFormed(c, l)
  <2>1. PlacesOf(Unbound, l) # DOMAIN l.args
    BY <1>12
  <2> QED BY <1>2, <1>8, <1>11, <1>13, <2>1 DEF WellFormed
<1> QED
  BY <1>10, <1>12, <1>14

(* The variables a grown clause had before and has now. *)
HasPrefixesOf(c0, c) ==
  /\ \A k \in 0..Len(c0.body) :
       VariablesOf(SubSeq(c.body, 1, k)) = VariablesOf(SubSeq(c0.body, 1, k))
  /\ VariablesOf(SubSeq(c.body, 1, Len(c0.body))) = 1..NumVariables(c0)
  /\ NewVariables(c) = (NumVariables(c0) + 1)..NumVariables(c)

IsStep(c0, b, c) ==
  /\ IsClause(c0) /\ WellFormed(c0, b) /\ IsClause(c)
  /\ HasGrown(c0, b, c) /\ AreBehind(b, c0, c) /\ HasPrefixesOf(c0, c)

LEMMA GrowsByStep ==
  ASSUME NEW c0, IsClause(c0), NEW b, WellFormed(c0, b)
  PROVE  IsStep(c0, b, AddUnBoundBodyLiteral(c0, b))
<1> DEFINE n == Len(c0.body)
           w0 == NumVariables(c0)
<1>1. PICK c : c = AddUnBoundBodyLiteral(c0, b)
  OBVIOUS
<1>2. /\ HasGrown(c0, b, c) /\ AreBehind(b, c0, c) /\ c.types \in Seq(Types)
      /\ Range(Numbered(b, w0)) = (Range(b.args) \ {Unbound}) \cup ((w0 + 1)..NumVariables(c))
  BY <1>1, LiteralIsAdded
<1>3. PICK a, w, l : /\ a = Numbered(b, w0) /\ w = NumVariables(c)
                     /\ l = [predicate |-> b.predicate, args |-> a]
  OBVIOUS
<1>4. c0.body \in Seq(AnyLiteral) /\ n \in Nat /\ w0 \in Nat
  BY DEF IsClause, NumVariables
<1>5. /\ Len(c.body) = n + 1 /\ (\A k \in 1..n : c.body[k] = c0.body[k])
      /\ c.body[n + 1] = l /\ w \in Nat /\ w0 <= w
      /\ \A v \in 1..w0 : c.types[v] = c0.types[v]
  BY <1>2, <1>3 DEF HasGrown
<1>6. WellFormed(c, l) /\ PlacesOf(Unbound, l) = {} /\ l \in AnyLiteral
  BY <1>2, <1>3, <1>5, AddedIsWellFormed
<1> HIDE DEF n, w0
<1>7. c.body \in Seq(AnyLiteral)
  <2>1. PICK e : c.body = Append(c0.body, e)
    BY <1>1 DEF AddUnBoundBodyLiteral
  <2> DEFINE T == AnyLiteral \cup {e}
  <2>2. e \in T /\ AnyLiteral \subseteq T
    OBVIOUS
  <2> HIDE DEF T
  <2>3. c0.body \in Seq(T)
    BY <1>4, <2>2, SeqMonotonic
  <2>4. Append(c0.body, e)[n + 1] = e
    BY <2>2, <2>3, AppendProperties DEF n
  <2>5. e = l
    BY <1>5, <2>1, <2>4
  <2> QED BY <1>4, <1>6, <2>1, <2>5, AppendProperties
<1>8. \A k \in 1..n + 1 : WellFormed(c, c.body[k]) /\ PlacesOf(Unbound, c.body[k]) = {}
  <2> TAKE k \in 1..n + 1
  <2>1. CASE k = n + 1
    BY <1>5, <1>6, <2>1
  <2>2. CASE k # n + 1
    <3>1. k \in 1..n /\ c.body[k] = c0.body[k]
      BY <1>4, <1>5, <2>2
    <3>2. WellFormed(c0, c0.body[k]) /\ PlacesOf(Unbound, c0.body[k]) = {}
      BY <3>1 DEF IsClause, n
    <3>3. WellFormed(c, c0.body[k])
      BY <1>2, <1>4, <3>2, WellFormedStays DEF w0
    <3> QED BY <3>1, <3>2, <3>3
  <2> QED BY <2>1, <2>2
<1>9. \A k \in 0..n : VariablesUpTo(c.body, k) = VariablesUpTo(c0.body, k)
  <2> TAKE k \in 0..n
  <2>1. \A i \in 1..k : i \in 1..n
    BY <1>4
  <2>2. {Range(c.body[i].args) : i \in 1..k} = {Range(c0.body[i].args) : i \in 1..k}
    BY <1>5, <2>1
  <2> QED BY <2>2 DEF VariablesUpTo
<1>10. \A k \in 0..n : /\ VariablesOf(SubSeq(c.body, 1, k)) = VariablesUpTo(c.body, k)
                       /\ VariablesOf(SubSeq(c0.body, 1, k)) = VariablesUpTo(c0.body, k)
  <2> TAKE k \in 0..n
  <2>1. k \in 0..Len(c.body) /\ k \in 0..Len(c0.body)
    BY <1>4, <1>5 DEF n
  <2> QED BY <1>4, <1>7, <2>1, VariablesOfPrefix
<1>11. /\ VariablesOf(SubSeq(c.body, 1, n + 1)) = VariablesUpTo(c.body, n + 1)
       /\ VariablesOf(c.body) = VariablesUpTo(c.body, n + 1)
  <2>1. n + 1 \in 0..Len(c.body)
    BY <1>4, <1>5
  <2> QED BY <1>5, <1>7, <2>1, VariablesOfPrefix
<1>12. VariablesUpTo(c.body, n) = 1..w0
  <2>1. VariablesOf(c0.body) = 1..w0
    BY DEF IsClause, w0
  <2>2. n \in 0..n /\ n \in 0..Len(c0.body)
    BY <1>4 DEF n
  <2>3. VariablesOf(c0.body) = VariablesUpTo(c0.body, n)
    BY <1>4, <2>2, VariablesOfPrefix DEF n
  <2> QED BY <1>9, <2>1, <2>2, <2>3
<1>13. VariablesUpTo(c.body, n + 1) = 1..w
  <2>1. VariablesUpTo(c.body, n + 1) = VariablesUpTo(c.body, n) \cup Range(a)
    <3>1. \A i : i \in 1..n + 1 <=> i \in 1..n \/ i = n + 1
      BY <1>4
    <3>2. c.body[n + 1].args = a
      BY <1>3, <1>5
    <3>3. \A v : v \in VariablesUpTo(c.body, n + 1)
                   <=> v \in HeadVariables \/ \E i \in 1..n + 1 : v \in Range(c.body[i].args)
      BY DEF VariablesUpTo
    <3>4. \A v : v \in VariablesUpTo(c.body, n)
                   <=> v \in HeadVariables \/ \E i \in 1..n : v \in Range(c.body[i].args)
      BY DEF VariablesUpTo
    <3>5. PICK R : /\ R[n + 1] = Range(a)
                   /\ \A i \in 1..n + 1 : R[i] = Range(c.body[i].args)
      <4> DEFINE S == [i \in 1..n + 1 |-> Range(c.body[i].args)]
      <4>1. S[n + 1] = Range(a) /\ \A i \in 1..n + 1 : S[i] = Range(c.body[i].args)
        BY <1>4, <3>2
      <4> QED BY <4>1
    <3>6. n + 1 \in 1..n + 1 /\ \A i \in 1..n : i \in 1..n + 1
      BY <1>4
    <3>7. \A v : v \in VariablesUpTo(c.body, n + 1) <=> v \in VariablesUpTo(c.body, n) \cup Range(a)
      BY <3>1, <3>3, <3>4, <3>5, <3>6
    <3> QED BY <3>7
  <2>2. Range(b.args) \ {Unbound} \subseteq 1..w0
    <3> SUFFICES ASSUME NEW v \in Range(b.args), v # Unbound
                 PROVE  v \in 1..w0
      OBVIOUS
    <3>1. PICK i \in DOMAIN b.args : v = b.args[i]
      BY DEF Range
    <3>2. v \in 0..w0
      BY <1>4, <3>1, WellFormedForm DEF w0
    <3> QED BY <3>2 DEF Unbound
  <2>3. \A v : v \in 1..w <=> v \in 1..w0 \/ v \in (w0 + 1)..w
    BY <1>4, <1>5
  <2>4. Range(a) = (Range(b.args) \ {Unbound}) \cup ((w0 + 1)..w)
    BY <1>2, <1>3
  <2> QED BY <1>12, <2>1, <2>2, <2>3, <2>4
<1>14. \A k \in 0..n + 1 : AreNumbered(VariablesOf(SubSeq(c.body, 1, k)))
  <2> TAKE k \in 0..n + 1
  <2>1. CASE k \in 0..n
    <3>1. AreNumbered(VariablesOf(SubSeq(c0.body, 1, k)))
      BY <2>1 DEF IsClause, n
    <3> QED BY <1>9, <1>10, <2>1, <3>1
  <2>2. CASE k = n + 1
    BY <1>5, <1>11, <1>13, <2>2 DEF AreNumbered
  <2> QED BY <1>4, <2>1, <2>2
<1>15. IsClause(c)
  <2>1. VariablesOf(c.body) = 1..NumVariables(c)
    BY <1>3, <1>11, <1>13
  <2> QED BY <1>2, <1>5, <1>7, <1>8, <1>14, <2>1 DEF IsClause
<1>16. HasPrefixesOf(c0, c)
  <2>1. \A k \in 0..n : VariablesOf(SubSeq(c.body, 1, k)) = VariablesOf(SubSeq(c0.body, 1, k))
    BY <1>9, <1>10
  <2>2. n \in 0..n
    BY <1>4
  <2>3. VariablesOf(SubSeq(c.body, 1, n)) = 1..w0
    BY <1>10, <1>12, <2>2
  <2>4. Front(c.body) = SubSeq(c.body, 1, n)
    <3>1. Len(c.body) - 1 = n
      BY <1>4, <1>5
    <3> QED BY <3>1 DEF Front
  <2>5. NumVariablesBefore(c) = w0
    <3>1. Cardinality(1..w0) = w0
      <4>1. 1 \in Int /\ w0 \in Int
        BY <1>4
      <4>2. Cardinality(1..w0) = IF 1 > w0 THEN 0 ELSE w0 - 1 + 1
        BY <4>1, FS_Interval, Zenon
      <4> QED BY <1>4, <4>2
    <3> QED BY <2>3, <2>4, <3>1 DEF NumVariablesBefore
  <2>6. c.body # <<>>
    BY <1>4, <1>5, EmptySeq
  <2>7. NewVariables(c) = (w0 + 1)..NumVariables(c)
    BY <2>5, <2>6 DEF NewVariables
  <2> QED BY <2>1, <2>3, <2>7 DEF HasPrefixesOf, n, w0
<1> QED
  BY <1>1, <1>2, <1>15, <1>16 DEF IsStep

-----------------------------------------------------------------------------
(* What a literal can become by filling in new variables. *)

CanBe(c, p, i) ==
  {v \in NewVariables(c) \ KeyVariables(c, p) : c.types[v] = ArgumentTypes[p][i]}

BecomesFrom(c, p, o, l) ==
  \A i \in 1..Len(ArgumentTypes[p]) :
    /\ o.args[i] # Unbound => l.args[i] = o.args[i]
    /\ o.args[i] = Unbound => l.args[i] \in CanBe(c, p, i) \cup {Unbound}

Extensions(c, p, o) == {l \in Literals(p, NumVariables(c)) : BecomesFrom(c, p, o, l)}

NoVariables(p) == [predicate |-> p, args |-> [i \in DOMAIN ArgumentTypes[p] |-> Unbound]]

HasNew(c) == NumVariables(c) \in Nat /\ NewVariables(c) \subseteq 1..NumVariables(c)

ChoicesOf(c, p) == VariablesPerArgument(c, p, KeyVariables(c, p))

LEMMA ArgumentsAreListed ==
  ASSUME NEW c, HasNew(c), NEW p \in Predicate, NEW i \in 1..Len(ArgumentTypes[p])
  PROVE  /\ Lists(ChoicesOf(c, p)[i], CanBe(c, p, i) \cup {Unbound})
         /\ EndsWith(ChoicesOf(c, p)[i], Unbound)
         /\ CanBe(c, p, i) \subseteq 1..NumVariables(c)
<1> DEFINE S == CanBe(c, p, i)
           w == InOrder(S)
<1>1. i \in DOMAIN ArgumentTypes[p]
  BY Arities
<1>2. ChoicesOf(c, p)[i] = Append(w, Unbound)
  BY <1>1 DEF ChoicesOf, VariablesPerArgument, CanBe
<1>3. S \subseteq 1..NumVariables(c) /\ NumVariables(c) \in Nat
  BY DEF HasNew, CanBe
<1> HIDE DEF S
<1>4. IsFiniteSet(S) /\ S \in SUBSET Int
  <2>1. 1 \in Int /\ NumVariables(c) \in Int
    BY <1>3
  <2>2. IsFiniteSet(1..NumVariables(c))
    BY <2>1, FS_Interval, Zenon
  <2>3. IsFiniteSet(S)
    BY <1>3, <2>2, FS_Subset
  <2> QED BY <1>3, <2>3
<1>5. Lists(w, S)
  BY <1>4, InOrderLists
<1>6. S \cap {Unbound} = {}
  BY <1>3 DEF Unbound
<1> HIDE DEF w
<1>7. Append(w, Unbound) = w \o <<Unbound>>
  <2>1. PICK T : w \in Seq(T) /\ Unbound \in T
    <3>1. w \in Seq(S \cup {Unbound})
      BY <1>5, SeqMonotonic DEF Lists
    <3> QED BY <3>1
  <2> QED BY <2>1
<1>8. Lists(<<Unbound>>, {Unbound})
  <2>1. <<Unbound>> \in Seq({Unbound}) /\ Len(<<Unbound>>) = 1 /\ <<Unbound>>[1] = Unbound
    OBVIOUS
  <2> QED BY <2>1 DEF Lists
<1>9. Lists(Append(w, Unbound), S \cup {Unbound})
  BY <1>5, <1>6, <1>7, <1>8, ListsBehind
<1>10. EndsWith(Append(w, Unbound), Unbound)
  <2> DEFINE T == S \cup {Unbound}
  <2>1. Unbound \in T /\ w \in Seq(T)
    BY <1>5, SeqMonotonic DEF Lists
  <2> HIDE DEF T
  <2>2. /\ Append(w, Unbound) \in Seq(T) /\ Len(Append(w, Unbound)) = Len(w) + 1
        /\ Append(w, Unbound)[Len(w) + 1] = Unbound /\ Len(w) \in Nat
    BY <2>1, AppendProperties
  <2>3. Append(w, Unbound) # <<>>
    BY <2>2, EmptySeq
  <2> QED BY <2>2, <2>3 DEF EndsWith
<1> QED
  BY <1>2, <1>3, <1>9, <1>10 DEF S

LEMMA ExtensionsAreListed ==
  ASSUME NEW c, HasNew(c), NEW p \in Predicate, NEW o \in Literals(p, NumVariables(c))
  PROVE  LET w == GenerateCandidateLiteralsFromAnother(o, ChoicesOf(c, p))
         IN  Lists(w, Extensions(c, p, o)) /\ EndsWith(w, o)
<1> DEFINE m == Len(ArgumentTypes[p])
           a == o.args
           w == GenerateCandidateLiteralsFromAnother(o, ChoicesOf(c, p))
           C == [i \in 1..m |-> IF a[i] = Unbound THEN CanBe(c, p, i) \cup {Unbound} ELSE {a[i]}]
<1>1. NumVariables(c) \in Nat
  BY DEF HasNew
<1>2. /\ o = [predicate |-> p, args |-> a] /\ a \in Seq(Nat) /\ Len(a) = m
      /\ a \in [1..m -> 0..NumVariables(c)]
  BY <1>1, LiteralForm
<1>3. m \in Nat /\ DOMAIN ArgumentTypes[p] = 1..m
  BY Arities
<1>4. \A i \in 1..m : /\ CanBe(c, p, i) \subseteq 1..NumVariables(c)
                      /\ Lists(ChoicesOf(c, p)[i], CanBe(c, p, i) \cup {Unbound})
                      /\ EndsWith(ChoicesOf(c, p)[i], Unbound)
  BY ArgumentsAreListed
<1>5. \A i \in 1..m : C[i] \subseteq 0..NumVariables(c) /\ C[i] \subseteq Nat
  <2>1. /\ 1..NumVariables(c) \subseteq 0..NumVariables(c) /\ 0 \in 0..NumVariables(c)
        /\ 0..NumVariables(c) \subseteq Nat
    BY <1>1
  <2>2. \A i \in 1..m : a[i] \in 0..NumVariables(c)
    BY <1>2
  <2> QED BY <1>4, <2>1, <2>2 DEF Unbound
<1> HIDE DEF m
<1>6. ASSUME NEW i \in 1..m
      PROVE  /\ Lists(ChoicesAt([predicate |-> p, args |-> a], ChoicesOf(c, p), i), C[i])
             /\ EndsWith(ChoicesAt([predicate |-> p, args |-> a], ChoicesOf(c, p), i), a[i])
  <2>1. PICK base : base = [predicate |-> p, args |-> a] /\ base.args = a
    <3>1. PICK r : r = a
      OBVIOUS
    <3>2. [predicate |-> p, args |-> r].args = r
      OBVIOUS
    <3> QED BY <3>1, <3>2
  <2>2. CASE a[i] = Unbound
    <3>1. /\ ChoicesAt(base, ChoicesOf(c, p), i) = ChoicesOf(c, p)[i]
          /\ C[i] = CanBe(c, p, i) \cup {Unbound}
      BY <2>1, <2>2 DEF ChoicesAt
    <3> QED BY <1>4, <2>1, <2>2, <3>1
  <2>3. CASE a[i] # Unbound
    <3>1. PICK x : x = a[i]
      OBVIOUS
    <3>2. ChoicesAt(base, ChoicesOf(c, p), i) = <<x>> /\ C[i] = {x}
      BY <2>1, <2>3, <3>1 DEF ChoicesAt
    <3>3. <<x>> \in Seq({x}) /\ Len(<<x>>) = 1 /\ <<x>>[1] = x /\ <<x>> # <<>>
      OBVIOUS
    <3>4. Lists(<<x>>, {x}) /\ EndsWith(<<x>>, x)
      BY <3>3 DEF Lists, EndsWith
    <3> QED BY <2>1, <3>1, <3>2, <3>4
  <2> QED BY <2>2, <2>3
<1>7. AreChoices([predicate |-> p, args |-> a], ChoicesOf(c, p), m, C, a)
  <2> HIDE DEF C
  <2> QED BY <1>5, <1>6, Zenon DEF AreChoices
<1>8. Lists(w, FillingsOf(o, m, C)) /\ EndsWith(w, o)
  <2> HIDE DEF C
  <2>1. PICK r : r = a
    OBVIOUS
  <2>2. /\ r \in Seq(Nat) /\ m = Len(r) /\ m \in Nat /\ o = [predicate |-> p, args |-> r]
        /\ AreChoices([predicate |-> p, args |-> r], ChoicesOf(c, p), m, C, r)
    BY <1>2, <1>3, <1>7, <2>1
  <2> QED BY <2>2, GeneratedAreListed
<1>9. FillingsOf(o, m, C) = Extensions(c, p, o)
  <2>1. ASSUME NEW s \in Fillings(m, C)
        PROVE  [o EXCEPT !.args = s] \in Extensions(c, p, o)
    <3>1. s \in Seq(Nat) /\ Len(s) = m /\ \A i \in 1..m : s[i] \in C[i]
      <4> HIDE DEF C
      <4> QED BY <2>1 DEF Fillings
    <3>2. PICK l : l = [predicate |-> p, args |-> s] /\ l = [o EXCEPT !.args = s] /\ l.args = s
      <4> HIDE DEF C
      <4>1. PICK r : r = a
        OBVIOUS
      <4>2. o = [predicate |-> p, args |-> r]
        BY <1>2, <4>1
      <4>3. [[predicate |-> p, args |-> r] EXCEPT !.args = s] = [predicate |-> p, args |-> s]
        OBVIOUS
      <4>4. [predicate |-> p, args |-> s].args = s
        OBVIOUS
      <4> QED BY <4>2, <4>3, <4>4
    <3>3. s \in [1..m -> 0..NumVariables(c)]
      <4> HIDE DEF C
      <4>1. DOMAIN s = 1..m /\ s = [i \in 1..m |-> s[i]]
        BY <3>1
      <4> QED BY <1>5, <3>1, <4>1
    <3>4. l \in Literals(p, NumVariables(c))
      BY <1>3, <3>2, <3>3 DEF Literals
    <3>5. BecomesFrom(c, p, o, l)
      <4> SUFFICES ASSUME NEW i \in 1..m
                   PROVE  /\ o.args[i] # Unbound => l.args[i] = o.args[i]
                          /\ o.args[i] = Unbound => l.args[i] \in CanBe(c, p, i) \cup {Unbound}
        BY Zenon DEF BecomesFrom, m
      <4>1. C[i] = IF a[i] = Unbound THEN CanBe(c, p, i) \cup {Unbound} ELSE {a[i]}
        OBVIOUS
      <4> HIDE DEF C
      <4> QED BY <3>1, <3>2, <4>1
    <3> QED BY <3>2, <3>4, <3>5 DEF Extensions
  <2>2. ASSUME NEW l \in Extensions(c, p, o)
        PROVE  l \in FillingsOf(o, m, C)
    <3>1. l \in Literals(p, NumVariables(c)) /\ BecomesFrom(c, p, o, l)
      BY <2>2 DEF Extensions
    <3>2. l = [predicate |-> p, args |-> l.args] /\ l.args \in Seq(Nat) /\ Len(l.args) = m
      BY <1>1, <3>1, LiteralForm DEF m
    <3>3. ASSUME NEW i \in 1..m PROVE l.args[i] \in C[i]
      <4>1. /\ o.args[i] # Unbound => l.args[i] = o.args[i]
            /\ o.args[i] = Unbound => l.args[i] \in CanBe(c, p, i) \cup {Unbound}
        BY <3>1, Zenon DEF BecomesFrom, m
      <4>2. C[i] = IF a[i] = Unbound THEN CanBe(c, p, i) \cup {Unbound} ELSE {a[i]}
        OBVIOUS
      <4> HIDE DEF C
      <4> QED BY <4>1, <4>2
    <3> HIDE DEF C
    <3>4. l.args \in Fillings(m, C)
      BY <3>2, <3>3 DEF Fillings
    <3>5. [o EXCEPT !.args = l.args] = l
      <4>1. PICK s, t : s = l.args /\ t = a
        OBVIOUS
      <4>2. o = [predicate |-> p, args |-> t] /\ l = [predicate |-> p, args |-> s]
        BY <1>2, <3>2, <4>1
      <4>3. [[predicate |-> p, args |-> t] EXCEPT !.args = s] = [predicate |-> p, args |-> s]
        OBVIOUS
      <4> QED BY <4>1, <4>2, <4>3
    <3> QED BY <3>4, <3>5 DEF FillingsOf
  <2> HIDE DEF C
  <2>3. \A l \in FillingsOf(o, m, C) : \E s \in Fillings(m, C) : l = [o EXCEPT !.args = s]
    BY DEF FillingsOf
  <2> QED BY <2>1, <2>2, <2>3
<1> QED
  BY <1>8, <1>9

-----------------------------------------------------------------------------
(* Keys. *)

LEMMA KeyVariablesAre ==
  ASSUME NEW c, IsClause(c), NEW p, NEW v
  PROVE  v \in KeyVariables(c, p)
           <=> /\ Key[p] # 0
               /\ \E k \in 1..Len(c.body) : c.body[k].predicate = p /\ c.body[k].args[Key[p]] = v
<1> DEFINE S == {k \in DOMAIN c.body : c.body[k].predicate = p}
           r == RowsIn(c.body, S)
<1>1. c.body \in Seq(AnyLiteral) /\ DOMAIN c.body = 1..Len(c.body)
  BY DEF IsClause
<1>2. S \in SUBSET (1..Len(c.body))
  BY <1>1
<1>3. \A k : k \in S <=> k \in 1..Len(c.body) /\ c.body[k].predicate = p
  BY <1>1
<1> HIDE DEF S
<1>4. \A x : Contains(r, x) <=> \E i \in S : c.body[i] = x
  BY <1>1, <1>2, RowsInMembers
<1>5. r \in Seq(AnyLiteral) /\ DOMAIN r = 1..Len(r)
  BY <1>1, <1>2, RowsInType
<1>6. BodyWith(c, p) = r
  BY DEF BodyWith, S
<1> HIDE DEF r
<1>7. \A x : x \in Range(r) <=> \E i \in S : c.body[i] = x
  BY <1>4, <1>5 DEF Range, Contains
<1>8. v \in KeyVariables(c, p) <=> Key[p] # 0 /\ \E b \in Range(r) : b.args[Key[p]] = v
  BY <1>6 DEF KeyVariables
<1> QED
  BY <1>3, <1>7, <1>8

LEMMA StepNumbers ==
  ASSUME NEW c0, NEW b, NEW c, IsStep(c0, b, c)
  PROVE  /\ Len(c0.body) \in Nat /\ Len(c.body) = Len(c0.body) + 1
         /\ NumVariables(c0) \in Nat /\ NumVariables(c) \in Nat /\ NumVariables(c0) <= NumVariables(c)
         /\ NewVariables(c) = (NumVariables(c0) + 1)..NumVariables(c) /\ HasNew(c)
         /\ DOMAIN c0.body = 1..Len(c0.body) /\ DOMAIN c.body = 1..Len(c.body)
         /\ Last(c.body) = c.body[Len(c0.body) + 1]
         /\ c.body[Len(c0.body) + 1] = [predicate |-> b.predicate,
                                        args |-> Numbered(b, NumVariables(c0))]
         /\ \A k \in 1..Len(c0.body) : c.body[k] = c0.body[k]
         /\ \A v \in 1..NumVariables(c0) : c.types[v] = c0.types[v]
<1>1. Len(c0.body) \in Nat /\ DOMAIN c0.body = 1..Len(c0.body) /\ DOMAIN c.body = 1..Len(c.body)
  BY DEF IsStep, IsClause
<1>2. NumVariables(c0) \in Nat
  BY DEF IsStep, IsClause, NumVariables
<1>3. /\ Len(c.body) = Len(c0.body) + 1
      /\ NumVariables(c) \in Nat /\ NumVariables(c0) <= NumVariables(c)
      /\ c.body[Len(c0.body) + 1] = [predicate |-> b.predicate,
                                     args |-> Numbered(b, NumVariables(c0))]
      /\ \A k \in 1..Len(c0.body) : c.body[k] = c0.body[k]
      /\ \A v \in 1..NumVariables(c0) : c.types[v] = c0.types[v]
  BY DEF IsStep, HasGrown
<1>4. NewVariables(c) = (NumVariables(c0) + 1)..NumVariables(c)
  BY DEF IsStep, HasPrefixesOf
<1>5. HasNew(c)
  BY <1>2, <1>3, <1>4 DEF HasNew
<1>6. Last(c.body) = c.body[Len(c0.body) + 1]
  BY <1>3 DEF Last
<1> QED
  BY <1>1, <1>2, <1>3, <1>4, <1>5, <1>6

(* Arguments of a clause's literals are variables of the clause. *)
LEMMA BodyVariables ==
  ASSUME NEW c, IsClause(c), NEW k \in 1..Len(c.body), NEW i \in DOMAIN c.body[k].args
  PROVE  c.body[k].args[i] \in 1..NumVariables(c)
<1>1. NumVariables(c) \in Nat
  BY DEF IsClause, NumVariables
<1>2. WellFormed(c, c.body[k]) /\ PlacesOf(Unbound, c.body[k]) = {}
  BY DEF IsClause
<1>3. c.body[k].args[i] \in 0..NumVariables(c)
  <2>1. DOMAIN c.body[k].args = 1..Len(ArgumentTypes[c.body[k].predicate])
    BY <1>1, <1>2, WellFormedForm
  <2> QED BY <1>1, <1>2, <2>1, WellFormedForm
<1>4. c.body[k].args[i] # 0
  BY <1>2 DEF PlacesOf, Unbound
<1> QED
  BY <1>1, <1>3, <1>4

LEMMA KeyArgument ==
  ASSUME NEW c, IsClause(c), NEW p \in Predicate, Key[p] # 0,
         NEW k \in 1..Len(c.body), c.body[k].predicate = p
  PROVE  c.body[k].args[Key[p]] \in 1..NumVariables(c)
<1>1. NumVariables(c) \in Nat
  BY DEF IsClause, NumVariables
<1>2. WellFormed(c, c.body[k])
  BY DEF IsClause
<1>3. DOMAIN c.body[k].args = 1..Len(ArgumentTypes[p])
  BY <1>1, <1>2, WellFormedForm
<1>4. Key[p] \in 1..Len(ArgumentTypes[p])
  <2>1. Key[p] \in 0..Len(ArgumentTypes[p])
    BY Arities
  <2> QED BY <2>1
<1> QED
  BY <1>3, <1>4, BodyVariables

LEMMA KeysOfStep ==
  ASSUME NEW c0, NEW b, NEW c, IsStep(c0, b, c), NEW p \in Predicate
  PROVE  /\ \A v \in (NumVariables(c0) + 1)..NumVariables(c) :
              IntroducedAsKey(c, v, p) <=> v \in KeyVariables(c, p)
         /\ \A v \in 0..NumVariables(c0) :
              IntroducedAsKey(c, v, p) <=> IntroducedAsKey(c0, v, p)
<1> DEFINE n == Len(c0.body)
           w0 == NumVariables(c0)
           w == NumVariables(c)
           NameHere(d, k, v) == d.body[k].predicate = p /\ Key[p] # 0 /\ d.body[k].args[Key[p]] = v
<1>1. /\ n \in Nat /\ Len(c.body) = n + 1 /\ w0 \in Nat /\ w \in Nat /\ w0 <= w
      /\ DOMAIN c0.body = 1..n /\ DOMAIN c.body = 1..n + 1
      /\ \A k \in 1..n : c.body[k] = c0.body[k]
  <2>1. /\ Len(c0.body) \in Nat /\ Len(c.body) = Len(c0.body) + 1
        /\ NumVariables(c0) \in Nat /\ NumVariables(c) \in Nat /\ NumVariables(c0) <= NumVariables(c)
        /\ DOMAIN c0.body = 1..Len(c0.body) /\ DOMAIN c.body = 1..Len(c.body)
        /\ \A k \in 1..Len(c0.body) : c.body[k] = c0.body[k]
    <3>1. Len(c0.body) \in Nat /\ Len(c.body) = Len(c0.body) + 1
      BY StepNumbers
    <3>2. NumVariables(c0) \in Nat /\ NumVariables(c) \in Nat /\ NumVariables(c0) <= NumVariables(c)
      BY StepNumbers
    <3>3. DOMAIN c0.body = 1..Len(c0.body) /\ DOMAIN c.body = 1..Len(c.body)
      BY StepNumbers
    <3>4. \A k \in 1..Len(c0.body) : c.body[k] = c0.body[k]
      BY DEF IsStep, HasGrown
    <3> QED BY <3>1, <3>2, <3>3, <3>4, Zenon
  <2> QED BY <2>1
<1>2. IsClause(c0) /\ IsClause(c)
  BY DEF IsStep
<1>3. /\ \A k \in 0..n : VariablesOf(SubSeq(c.body, 1, k)) = VariablesOf(SubSeq(c0.body, 1, k))
      /\ VariablesOf(SubSeq(c.body, 1, n)) = 1..w0
  BY DEF IsStep, HasPrefixesOf
<1>4. \A d, v : IntroducedAsKey(d, v, p)
                  <=> \E k \in DOMAIN d.body : NameHere(d, k, v) /\ v \notin VariablesOf(SubSeq(d.body, 1, k - 1))
  BY DEF IntroducedAsKey
<1>5. \A v : v \in KeyVariables(c, p) <=> \E k \in 1..n + 1 : NameHere(c, k, v)
  BY <1>1, <1>2, KeyVariablesAre
<1>6. \A k \in 1..n : \A v : NameHere(c, k, v) => NameHere(c0, k, v) /\ v \in 1..w0
  <2> TAKE k \in 1..n
  <2>1. Key[p] # 0 /\ c0.body[k].predicate = p => c0.body[k].args[Key[p]] \in 1..w0
    BY <1>2, KeyArgument
  <2> QED BY <1>1, <2>1
<1>7. \A v : NameHere(c, n + 1, v) => v \in 1..w
  <2>1. n + 1 \in 1..Len(c.body)
    BY <1>1
  <2>2. Key[p] # 0 /\ c.body[n + 1].predicate = p => c.body[n + 1].args[Key[p]] \in 1..w
    BY <1>2, <2>1, KeyArgument
  <2> QED BY <2>2
<1>8. \A k \in 1..n : \A v : NameHere(c0, k, v) => NameHere(c, k, v)
  BY <1>1
<1>9. (n + 1) - 1 = n /\ n + 1 \in 1..n + 1 /\ \A k \in 1..n + 1 : k = n + 1 \/ k \in 1..n
  BY <1>1
<1>10. \A k \in 1..n : k - 1 \in 0..n /\ k \in 1..n + 1
  BY <1>1
<1>11. \A v \in (w0 + 1)..w : v \notin 1..w0
  BY <1>1
<1> HIDE DEF NameHere, n, w0, w
<1>12. ASSUME NEW v \in (w0 + 1)..w
       PROVE  IntroducedAsKey(c, v, p) <=> v \in KeyVariables(c, p)
  <2>1. ASSUME v \in KeyVariables(c, p) PROVE IntroducedAsKey(c, v, p)
    <3>1. PICK k \in 1..n + 1 : NameHere(c, k, v)
      BY <1>5, <2>1
    <3>2. k = n + 1
      BY <1>6, <1>9, <1>11, <3>1
    <3>3. v \notin VariablesOf(SubSeq(c.body, 1, k - 1))
      BY <1>3, <1>9, <1>11, <3>2
    <3> QED BY <1>1, <1>4, <3>1, <3>3
  <2>2. ASSUME IntroducedAsKey(c, v, p) PROVE v \in KeyVariables(c, p)
    BY <1>1, <1>4, <1>5, <2>2
  <2> QED BY <2>1, <2>2
<1>13. ASSUME NEW v \in 0..w0
       PROVE  IntroducedAsKey(c, v, p) <=> IntroducedAsKey(c0, v, p)
  <2>1. ASSUME IntroducedAsKey(c, v, p) PROVE IntroducedAsKey(c0, v, p)
    <3>1. PICK k \in 1..n + 1 : NameHere(c, k, v) /\ v \notin VariablesOf(SubSeq(c.body, 1, k - 1))
      BY <1>1, <1>4, <2>1
    <3>2. k # n + 1
      <4>1. SUFFICES ASSUME k = n + 1 PROVE FALSE
        OBVIOUS
      <4>2. v \in 1..w /\ v \notin 1..w0
        BY <1>3, <1>7, <1>9, <3>1, <4>1
      <4> QED BY <1>1, <4>2
    <3>3. k \in 1..n
      BY <1>9, <3>2
    <3> QED BY <1>1, <1>3, <1>4, <1>6, <1>10, <3>1, <3>3
  <2>2. ASSUME IntroducedAsKey(c0, v, p) PROVE IntroducedAsKey(c, v, p)
    <3>1. PICK k \in 1..n : NameHere(c0, k, v) /\ v \notin VariablesOf(SubSeq(c0.body, 1, k - 1))
      BY <1>1, <1>4, <2>2
    <3> QED BY <1>1, <1>3, <1>4, <1>8, <1>10, <3>1
  <2> QED BY <2>1, <2>2
<1> QED
  BY <1>12, <1>13 DEF w0, w

-----------------------------------------------------------------------------
(* What a literal was before the last literal was added. *)

(* Of the arguments of a literal, those that are in a set of variables. *)
HeldTo(p, a, V) ==
  [predicate |-> p,
   args |-> [i \in 1..Len(ArgumentTypes[p]) |-> IF a[i] \in V THEN a[i] ELSE Unbound]]

LEMMA WasIsHeld ==
  ASSUME NEW p \in Predicate, NEW n \in Nat, NEW l \in Literals(p, n), NEW c, NEW k
  PROVE  Was(c, l, k) = HeldTo(p, l.args, VariablesOf(SubSeq(c.body, 1, k)))
<1>1. PICK a, V : a = l.args /\ V = VariablesOf(SubSeq(c.body, 1, k))
  OBVIOUS
<1>2. l = [predicate |-> p, args |-> a] /\ DOMAIN a = 1..Len(ArgumentTypes[p])
  BY <1>1, LiteralForm
<1>3. PICK h : h = [i \in DOMAIN a |-> IF a[i] \in V THEN a[i] ELSE Unbound]
  OBVIOUS
<1>4. Was(c, l, k) = [l EXCEPT !.args = h]
  BY <1>1, <1>3 DEF Was
<1>5. [[predicate |-> p, args |-> a] EXCEPT !.args = h] = [predicate |-> p, args |-> h]
  OBVIOUS
<1> QED
  BY <1>1, <1>2, <1>3, <1>4, <1>5 DEF HeldTo

LEMMA HeldIsLiteral ==
  ASSUME NEW p \in Predicate, NEW a, NEW w \in Nat
  PROVE  LET o == HeldTo(p, a, 1..w)
         IN  /\ o \in Literals(p, w) /\ o.predicate = p
             /\ \A i \in 1..Len(ArgumentTypes[p]) :
                  o.args[i] = IF a[i] \in 1..w THEN a[i] ELSE Unbound
<1> DEFINE m == Len(ArgumentTypes[p])
           h == [i \in 1..m |-> IF a[i] \in 1..w THEN a[i] ELSE Unbound]
<1>1. DOMAIN ArgumentTypes[p] = 1..m
  BY Arities
<1>2. h \in [1..m -> 0..w] /\ \A i \in 1..m : h[i] = IF a[i] \in 1..w THEN a[i] ELSE Unbound
  <2>1. \A x \in 1..w : x \in 0..w
    OBVIOUS
  <2>2. Unbound \in 0..w
    BY DEF Unbound
  <2> HIDE DEF m
  <2> QED BY <2>1, <2>2
<1>3. HeldTo(p, a, 1..w) = [predicate |-> p, args |-> h]
  BY DEF HeldTo
<1> HIDE DEF h, m
<1>4. [predicate |-> p, args |-> h] \in [predicate : {p}, args : [1..m -> 0..w]]
  BY <1>2
<1>5. [predicate |-> p, args |-> h].args = h /\ [predicate |-> p, args |-> h].predicate = p
  OBVIOUS
<1> QED
  BY <1>1, <1>2, <1>3, <1>4, <1>5 DEF Literals, m

LEMMA HeldTwice ==
  ASSUME NEW p, NEW a, NEW V, NEW W, W \subseteq V
  PROVE  HeldTo(p, HeldTo(p, a, V).args, W) = HeldTo(p, a, W)
<1> DEFINE I == 1..Len(ArgumentTypes[p])
<1>1. PICK h : h = [i \in I |-> IF a[i] \in V THEN a[i] ELSE Unbound]
  OBVIOUS
<1>2. HeldTo(p, a, V) = [predicate |-> p, args |-> h]
  BY <1>1 DEF HeldTo
<1>3. [predicate |-> p, args |-> h].args = h
  OBVIOUS
<1> HIDE DEF I
<1>4. \A i \in I : (IF h[i] \in W THEN h[i] ELSE Unbound) = IF a[i] \in W THEN a[i] ELSE Unbound
  BY <1>1
<1>5. [i \in I |-> IF h[i] \in W THEN h[i] ELSE Unbound]
        = [i \in I |-> IF a[i] \in W THEN a[i] ELSE Unbound]
  BY <1>4
<1>6. HeldTo(p, h, W) = HeldTo(p, a, W)
  BY <1>5, Zenon DEF HeldTo, I
<1> QED
  BY <1>2, <1>3, <1>6

(* Two literals are the same if they have the same arguments. *)
LEMMA SameLiteral ==
  ASSUME NEW p \in Predicate, NEW n \in Nat, NEW m \in Nat,
         NEW l \in Literals(p, n), NEW o \in Literals(p, m),
         \A i \in 1..Len(ArgumentTypes[p]) : l.args[i] = o.args[i]
  PROVE  l = o
<1>1. PICK a, d : a = l.args /\ d = o.args
  OBVIOUS
<1>2. /\ l = [predicate |-> p, args |-> a] /\ o = [predicate |-> p, args |-> d]
      /\ a \in Seq(Nat) /\ d \in Seq(Nat)
      /\ Len(a) = Len(ArgumentTypes[p]) /\ Len(d) = Len(ArgumentTypes[p])
  BY <1>1, LiteralForm
<1>3. a = d
  BY <1>1, <1>2, SeqEqual
<1> QED
  BY <1>2, <1>3

LEMMA NoVariablesForm ==
  ASSUME NEW p \in Predicate
  PROVE  /\ NoVariables(p).predicate = p
         /\ \A n \in Nat : NoVariables(p) \in Literals(p, n)
         /\ \A i \in 1..Len(ArgumentTypes[p]) : NoVariables(p).args[i] = Unbound
<1> DEFINE m == Len(ArgumentTypes[p])
<1>1. DOMAIN ArgumentTypes[p] = 1..m
  BY Arities
<1>2. PICK h : h = [i \in 1..m |-> Unbound]
  OBVIOUS
<1>3. NoVariables(p) = [predicate |-> p, args |-> h]
  BY <1>1, <1>2 DEF NoVariables
<1>4. [predicate |-> p, args |-> h].args = h /\ [predicate |-> p, args |-> h].predicate = p
  OBVIOUS
<1>5. \A i \in 1..m : h[i] = Unbound
  BY <1>2
<1>6. ASSUME NEW n \in Nat
      PROVE  [predicate |-> p, args |-> h] \in [predicate : {p}, args : [1..m -> 0..n]]
  <2>1. Unbound \in 0..n
    BY DEF Unbound
  <2> HIDE DEF m
  <2> QED BY <1>2, <2>1
<1> QED
  BY <1>1, <1>3, <1>4, <1>5, <1>6 DEF Literals

(* The parts of being listed. *)
NotRuledOut(c, gone, l) == \A k \in 0..Len(c.body) : <<k, Was(c, l, k)>> \notin gone
NotInBody(c, l) == \A k \in DOMAIN c.body : l = c.body[k] => Was(c, l, k - 1) # l
NoKeyUsed(c, p, l) == \A i \in DOMAIN l.args : ~IntroducedAsKey(c, l.args[i], p)

LEMMA ListedParts ==
  ASSUME NEW c, NEW gone, NEW p, NEW l
  PROVE  l \in Listed(c, gone, p)
           <=> /\ l \in Literals(p, NumVariables(c)) /\ WellFormed(c, l)
               /\ NotRuledOut(c, gone, l) /\ NotInBody(c, l) /\ NoKeyUsed(c, p, l)
BY DEF Listed, NotRuledOut, NotInBody, NoKeyUsed

(* Well-formed, argument by argument. *)
LEMMA WellFormedArguments ==
  ASSUME NEW p \in Predicate, NEW c, NumVariables(c) \in Nat, NEW l \in Literals(p, NumVariables(c))
  PROVE  /\ l = NoVariables(p) <=> \A i \in 1..Len(ArgumentTypes[p]) : l.args[i] = Unbound
         /\ l = NoVariables(p) <=> PlacesOf(Unbound, l) = DOMAIN l.args
         /\ WellFormed(c, l) <=>
              /\ l # NoVariables(p)
              /\ \A i \in 1..Len(ArgumentTypes[p]) :
                   l.args[i] # Unbound => c.types[l.args[i]] = ArgumentTypes[p][i]
<1> DEFINE I == 1..Len(ArgumentTypes[p])
<1>1. l.predicate = p /\ DOMAIN l.args = I
  BY LiteralForm
<1>2. NoVariables(p) \in Literals(p, NumVariables(c)) /\ \A i \in I : NoVariables(p).args[i] = Unbound
  BY NoVariablesForm
<1> HIDE DEF I
<1>3. l = NoVariables(p) <=> \A i \in I : l.args[i] = Unbound
  <2>1. ASSUME \A i \in I : l.args[i] = Unbound PROVE l = NoVariables(p)
    <3>1. \A i \in 1..Len(ArgumentTypes[p]) : l.args[i] = NoVariables(p).args[i]
      BY <1>2, <2>1 DEF I
    <3> QED BY <1>2, <3>1, SameLiteral
  <2> QED BY <1>2, <2>1
<1>4. PlacesOf(Unbound, l) = DOMAIN l.args <=> \A i \in I : l.args[i] = Unbound
  BY <1>1 DEF PlacesOf
<1>5. (\A i \in DOMAIN l.args \ PlacesOf(Unbound, l) : c.types[l.args[i]] = ArgumentTypes[l.predicate][i])
        <=> \A i \in I : l.args[i] # Unbound => c.types[l.args[i]] = ArgumentTypes[p][i]
  BY <1>1 DEF PlacesOf
<1>6. l.predicate \in Predicate /\ l \in Literals(l.predicate, NumVariables(c))
  BY <1>1
<1>7. WellFormed(c, l) <=> /\ PlacesOf(Unbound, l) # DOMAIN l.args
                           /\ \A i \in I : l.args[i] # Unbound => c.types[l.args[i]] = ArgumentTypes[p][i]
  BY <1>5, <1>6, Zenon DEF WellFormed
<1> QED
  BY <1>3, <1>4, <1>7 DEF I

LEMMA NeverUnboundKey ==
  ASSUME NEW c, IsClause(c), NEW p \in Predicate
  PROVE  ~IntroducedAsKey(c, Unbound, p)
<1> SUFFICES ASSUME IntroducedAsKey(c, Unbound, p) PROVE FALSE
  OBVIOUS
<1>1. DOMAIN c.body = 1..Len(c.body) /\ NumVariables(c) \in Nat
  BY DEF IsClause, NumVariables
<1>2. PICK k \in 1..Len(c.body) : /\ c.body[k].predicate = p /\ Key[p] # 0
                                 /\ c.body[k].args[Key[p]] = Unbound
  BY <1>1 DEF IntroducedAsKey
<1>3. Unbound \in 1..NumVariables(c)
  BY <1>2, KeyArgument
<1> QED
  BY <1>1, <1>3 DEF Unbound

-----------------------------------------------------------------------------
(* A literal of a grown clause and the one it comes from. *)

(* What an evaluation rules out names a variable. *)
RuledOutBy(gone, m) ==
  \A k, l : <<k, l>> \in gone => k \in 0..m /\ PlacesOf(Unbound, l) # DOMAIN l.args

Suits(c, p, l) ==
  \A i \in 1..Len(ArgumentTypes[p]) :
    /\ l.args[i] # Unbound => c.types[l.args[i]] = ArgumentTypes[p][i]
    /\ ~IntroducedAsKey(c, l.args[i], p)

IsPart(c0, c, p, o, l) ==
  /\ o \in Literals(p, NumVariables(c0))
  /\ \A i \in 1..Len(ArgumentTypes[p]) :
       o.args[i] = IF l.args[i] \in 1..NumVariables(c0) THEN l.args[i] ELSE Unbound
  /\ \A k \in 0..Len(c0.body) : Was(c, l, k) = Was(c0, o, k)

LEMMA ListedMeans ==
  ASSUME NEW p \in Predicate, NEW c, NumVariables(c) \in Nat, NEW gone,
         NEW l \in Literals(p, NumVariables(c))
  PROVE  l \in Listed(c, gone, p)
           <=> /\ l # NoVariables(p) /\ Suits(c, p, l)
               /\ NotRuledOut(c, gone, l) /\ NotInBody(c, l)
<1>1. DOMAIN l.args = 1..Len(ArgumentTypes[p])
  BY LiteralForm
<1>2. NoKeyUsed(c, p, l) <=> \A i \in 1..Len(ArgumentTypes[p]) : ~IntroducedAsKey(c, l.args[i], p)
  BY <1>1 DEF NoKeyUsed
<1>3. WellFormed(c, l)
        <=> /\ l # NoVariables(p)
            /\ \A i \in 1..Len(ArgumentTypes[p]) :
                 l.args[i] # Unbound => c.types[l.args[i]] = ArgumentTypes[p][i]
  BY WellFormedArguments
<1>4. WellFormed(c, l) /\ NoKeyUsed(c, p, l) <=> l # NoVariables(p) /\ Suits(c, p, l)
  BY <1>2, <1>3, Zenon DEF Suits
<1> QED
  BY <1>4, ListedParts

LEMMA WasAtTheEnd ==
  ASSUME NEW c, IsClause(c), NEW p \in Predicate, NEW l \in Literals(p, NumVariables(c))
  PROVE  Was(c, l, Len(c.body)) = l
<1> DEFINE w == NumVariables(c)
<1>1. c.body \in Seq(AnyLiteral) /\ VariablesOf(c.body) = 1..w /\ w \in Nat
  BY DEF IsClause, NumVariables
<1>2. VariablesOf(SubSeq(c.body, 1, Len(c.body))) = 1..w
  <2>1. Len(c.body) \in 0..Len(c.body)
    BY <1>1
  <2> QED BY <1>1, <2>1, VariablesOfPrefix
<1>3. PICK a : a = l.args /\ \A i \in 1..Len(ArgumentTypes[p]) : a[i] \in 0..w
  <2>1. PICK a : a = l.args
    OBVIOUS
  <2>2. a \in [1..Len(ArgumentTypes[p]) -> 0..w]
    BY <1>1, <2>1, LiteralForm
  <2> QED BY <2>1, <2>2
<1>4. PICK h : h = HeldTo(p, a, 1..w)
  OBVIOUS
<1>5. Was(c, l, Len(c.body)) = h
  BY <1>1, <1>2, <1>3, <1>4, WasIsHeld
<1>6. /\ h \in Literals(p, w)
      /\ \A i \in 1..Len(ArgumentTypes[p]) : h.args[i] = IF a[i] \in 1..w THEN a[i] ELSE Unbound
  BY <1>1, <1>4, HeldIsLiteral
<1>7. \A i \in 1..Len(ArgumentTypes[p]) : h.args[i] = l.args[i]
  <2>1. \A x \in 0..w : x \in 1..w \/ x = 0
    BY <1>1
  <2> QED BY <1>3, <1>6, <2>1 DEF Unbound
<1> QED
  BY <1>1, <1>5, <1>6, <1>7, SameLiteral

LEMMA PartOfStep ==
  ASSUME NEW c0, NEW b, NEW c, IsStep(c0, b, c), NEW p \in Predicate,
         NEW l \in Literals(p, NumVariables(c))
  PROVE  IsPart(c0, c, p, Was(c, l, Len(c0.body)), l)
<1> DEFINE n == Len(c0.body)
           w0 == NumVariables(c0)
           w == NumVariables(c)
           V(k) == VariablesOf(SubSeq(c.body, 1, k))
           V0(k) == VariablesOf(SubSeq(c0.body, 1, k))
<1>1. n \in Nat /\ Len(c.body) = n + 1 /\ w0 \in Nat /\ w \in Nat /\ w0 <= w
  BY StepNumbers
<1>2. /\ \A k \in 0..n : V(k) = V0(k)
      /\ V(n) = 1..w0
  BY DEF IsStep, HasPrefixesOf
<1>3. c.body \in Seq(AnyLiteral)
  BY DEF IsStep, IsClause
<1>5. \A k \in 0..n : V(k) \subseteq V(n)
  <2> TAKE k \in 0..n
  <2>1. n \in 0..Len(c.body) /\ k \in 0..n
    BY <1>1
  <2> QED BY <1>3, <2>1, VariablesGrow
<1>6. PICK a : a = l.args /\ \A i \in 1..Len(ArgumentTypes[p]) : a[i] \in 0..w
  <2>1. PICK a : a = l.args
    OBVIOUS
  <2>2. a \in [1..Len(ArgumentTypes[p]) -> 0..w]
    BY <1>1, <2>1, LiteralForm
  <2> QED BY <2>1, <2>2
<1>7. PICK o : o = Was(c, l, n)
  OBVIOUS
<1>8. o = HeldTo(p, a, 1..w0)
  BY <1>1, <1>2, <1>6, <1>7, WasIsHeld
<1>9. /\ o \in Literals(p, w0)
      /\ \A i \in 1..Len(ArgumentTypes[p]) : o.args[i] = IF a[i] \in 1..w0 THEN a[i] ELSE Unbound
  BY <1>1, <1>8, HeldIsLiteral
<1>10. ASSUME NEW k \in 0..n
       PROVE  Was(c, l, k) = Was(c0, o, k)
  <2>1. PICK W : W = V(k) /\ W = V0(k) /\ W \subseteq 1..w0
    BY <1>2, <1>5
  <2>2. Was(c, l, k) = HeldTo(p, a, W)
    BY <1>1, <1>6, <2>1, WasIsHeld
  <2>3. Was(c0, o, k) = HeldTo(p, o.args, W)
    BY <1>1, <1>9, <2>1, WasIsHeld
  <2>4. HeldTo(p, HeldTo(p, a, 1..w0).args, W) = HeldTo(p, a, W)
    BY <2>1, HeldTwice
  <2> QED BY <1>8, <2>2, <2>3, <2>4
<1> QED
  BY <1>6, <1>7, <1>9, <1>10 DEF IsPart

(* The literal without variables is never ruled out and no literal of a
   clause.                                                                 *)
LEMMA NoVariablesStay ==
  ASSUME NEW c, IsClause(c), NEW p \in Predicate, NEW gone, NEW m, RuledOutBy(gone, m)
  PROVE  /\ Suits(c, p, NoVariables(p)) /\ NotRuledOut(c, gone, NoVariables(p))
         /\ NotInBody(c, NoVariables(p))
<1> DEFINE I == 1..Len(ArgumentTypes[p])
<1>1. PICK o : o = NoVariables(p)
  OBVIOUS
<1>2. NumVariables(c) \in Nat /\ DOMAIN c.body = 1..Len(c.body)
  BY DEF IsClause, NumVariables
<1>3. o.predicate = p /\ o \in Literals(p, NumVariables(c)) /\ \A i \in I : o.args[i] = Unbound
  BY <1>1, <1>2, NoVariablesForm
<1>4. DOMAIN o.args = I /\ 1 \in I
  <2>1. Len(ArgumentTypes[p]) \in Nat \ {0}
    BY Arities
  <2> QED BY <1>2, <1>3, <2>1, LiteralForm
<1>5. ~IntroducedAsKey(c, Unbound, p)
  BY NeverUnboundKey
<1>6. Suits(c, p, o)
  BY <1>3, <1>5 DEF Suits
<1>7. ASSUME NEW k \in 0..Len(c.body)
      PROVE  <<k, Was(c, o, k)>> \notin gone
  <2>1. PICK a, V : a = o.args /\ V = VariablesOf(SubSeq(c.body, 1, k))
    OBVIOUS
  <2>2. Was(c, o, k) = HeldTo(p, a, V)
    BY <1>2, <1>3, <2>1, WasIsHeld
  <2>3. PICK h : h = [i \in I |-> IF a[i] \in V THEN a[i] ELSE Unbound]
    OBVIOUS
  <2>4. \A i \in I : h[i] = Unbound
    BY <1>3, <2>1, <2>3
  <2>5. PICK u : u = HeldTo(p, a, V)
    OBVIOUS
  <2>6. u = [predicate |-> p, args |-> h]
    BY <2>3, <2>5 DEF HeldTo
  <2>7. u.args = h
    BY <2>6
  <2>8. PlacesOf(Unbound, u) = DOMAIN u.args
    BY <2>3, <2>4, <2>7 DEF PlacesOf
  <2> QED BY <2>2, <2>5, <2>8 DEF RuledOutBy
<1>8. ASSUME NEW k \in 1..Len(c.body)
      PROVE  o # c.body[k]
  <2>1. SUFFICES ASSUME o = c.body[k] PROVE FALSE
    OBVIOUS
  <2>2. o.args[1] \in 1..NumVariables(c)
    BY <1>4, <2>1, BodyVariables
  <2> QED BY <1>2, <1>3, <1>4, <2>2 DEF Unbound
<1> QED
  BY <1>1, <1>2, <1>6, <1>7, <1>8 DEF NotRuledOut, NotInBody

LEMMA RuledOutOfStep ==
  ASSUME NEW c0, NEW b, NEW c, IsStep(c0, b, c), NEW p \in Predicate,
         NEW gone, RuledOutBy(gone, Len(c0.body)), NEW l, NEW o, IsPart(c0, c, p, o, l)
  PROVE  NotRuledOut(c, gone, l) <=> NotRuledOut(c0, gone, o)
<1> DEFINE n == Len(c0.body)
<1>1. n \in Nat /\ Len(c.body) = n + 1
  BY StepNumbers
<1>2. \A k \in 0..n : Was(c, l, k) = Was(c0, o, k)
  BY DEF IsPart
<1>3. \A x : <<n + 1, x>> \notin gone
  <2>1. n + 1 \notin 0..n
    BY <1>1
  <2> QED BY <2>1 DEF RuledOutBy
<1>4. \A k : k \in 0..Len(c.body) <=> k \in 0..n \/ k = n + 1
  BY <1>1
<1> HIDE DEF n
<1> QED
  BY <1>2, <1>3, <1>4 DEF NotRuledOut, n

LEMMA InBodyOfStep ==
  ASSUME NEW c0, NEW b, NEW c, IsStep(c0, b, c), NEW p \in Predicate,
         NEW l \in Literals(p, NumVariables(c)), NEW o, o = Was(c, l, Len(c0.body))
  PROVE  NotInBody(c, l) <=> NotInBody(c0, o) /\ (l = Last(c.body) => l # o)
<1> DEFINE n == Len(c0.body)
           w0 == NumVariables(c0)
           I == 1..Len(ArgumentTypes[p])
<1>1. n \in Nat /\ Len(c.body) = n + 1 /\ w0 \in Nat /\ NumVariables(c) \in Nat
  BY StepNumbers
<1>2. DOMAIN c0.body = 1..n /\ DOMAIN c.body = 1..n + 1 /\ Last(c.body) = c.body[n + 1]
  BY <1>1, StepNumbers
<1>3. \A k \in 1..n : c.body[k] = c0.body[k]
  BY DEF IsStep, HasGrown
<1>4. IsClause(c0)
  BY DEF IsStep
<1>5. IsPart(c0, c, p, o, l)
  BY PartOfStep
<1>6. /\ o \in Literals(p, w0)
      /\ \A i \in I : o.args[i] = IF l.args[i] \in 1..w0 THEN l.args[i] ELSE Unbound
      /\ \A k \in 0..n : Was(c, l, k) = Was(c0, o, k)
  BY <1>5 DEF IsPart
<1>7. DOMAIN o.args = I /\ DOMAIN l.args = I
  BY <1>1, <1>6, LiteralForm
<1>8. Unbound \notin 1..w0
  BY DEF Unbound
<1>9. ASSUME NEW k \in 1..n, o = c0.body[k] \/ l = c0.body[k]
      PROVE  o = l
  <2>1. CASE o = c0.body[k]
    <3>1. \A i \in I : o.args[i] \in 1..w0
      BY <1>4, <1>7, <2>1, BodyVariables
    <3>2. \A i \in I : o.args[i] = l.args[i]
      BY <1>6, <1>8, <3>1
    <3> QED BY <1>1, <1>6, <3>2, SameLiteral
  <2>2. CASE l = c0.body[k]
    <3>1. \A i \in I : l.args[i] \in 1..w0
      BY <1>4, <1>7, <2>2, BodyVariables
    <3>2. \A i \in I : o.args[i] = l.args[i]
      BY <1>6, <3>1
    <3> QED BY <1>1, <1>6, <3>2, SameLiteral
  <2> QED BY <1>9, <2>1, <2>2
<1>10. ASSUME NEW k \in 1..n
       PROVE  (l = c.body[k] => Was(c, l, k - 1) # l) <=> (o = c0.body[k] => Was(c0, o, k - 1) # o)
  <2>1. k - 1 \in 0..n
    BY <1>1
  <2>2. Was(c, l, k - 1) = Was(c0, o, k - 1)
    BY <1>6, <2>1
  <2> QED BY <1>3, <1>9, <2>2
<1>11. (l = c.body[n + 1] => Was(c, l, (n + 1) - 1) # l) <=> (l = Last(c.body) => l # o)
  <2>1. (n + 1) - 1 = n
    BY <1>1
  <2> QED BY <1>2, <2>1
<1>12. \A k : k \in DOMAIN c.body <=> k \in 1..n \/ k = n + 1
  BY <1>1, <1>2
<1> HIDE DEF n, w0, I
<1>13. NotInBody(c, l) <=> /\ \A k \in 1..n : l = c.body[k] => Was(c, l, k - 1) # l
                           /\ l = c.body[n + 1] => Was(c, l, (n + 1) - 1) # l
  BY <1>12 DEF NotInBody
<1>14. NotInBody(c0, o) <=> \A k \in 1..n : o = c0.body[k] => Was(c0, o, k - 1) # o
  BY <1>2 DEF NotInBody
<1>15. (\A k \in 1..n : l = c.body[k] => Was(c, l, k - 1) # l)
         <=> (\A k \in 1..n : o = c0.body[k] => Was(c0, o, k - 1) # o)
  BY <1>10
<1> QED
  BY <1>11, <1>13, <1>14, <1>15

LEMMA SuitsOfStep ==
  ASSUME NEW c0, NEW b, NEW c, IsStep(c0, b, c), NEW p \in Predicate,
         NEW l \in Literals(p, NumVariables(c)), NEW o, IsPart(c0, c, p, o, l)
  PROVE  Suits(c, p, l) <=> Suits(c0, p, o) /\ BecomesFrom(c, p, o, l)
<1> DEFINE w0 == NumVariables(c0)
           w == NumVariables(c)
           I == 1..Len(ArgumentTypes[p])
<1>1. w0 \in Nat /\ w \in Nat /\ w0 <= w /\ NewVariables(c) = (w0 + 1)..w
  <2>1. w0 \in Nat /\ w \in Nat /\ w0 <= w
    BY StepNumbers
  <2>2. NewVariables(c) = (w0 + 1)..w
    BY DEF IsStep, HasPrefixesOf
  <2> QED BY <2>1, <2>2
<1>2. \A v \in 1..w0 : c.types[v] = c0.types[v]
  BY DEF IsStep, HasGrown
<1>3. IsClause(c0) /\ IsClause(c)
  BY DEF IsStep
<1>4. \A i \in I : o.args[i] = IF l.args[i] \in 1..w0 THEN l.args[i] ELSE Unbound
  BY DEF IsPart
<1>5. \A i \in I : l.args[i] \in 0..w
  <2>1. PICK a : a = l.args
    OBVIOUS
  <2>2. a \in [I -> 0..w]
    BY <1>1, <2>1, LiteralForm
  <2> QED BY <2>1, <2>2
<1>6. \A v \in (w0 + 1)..w : IntroducedAsKey(c, v, p) <=> v \in KeyVariables(c, p)
  BY KeysOfStep
<1>7. \A v \in 0..w0 : IntroducedAsKey(c, v, p) <=> IntroducedAsKey(c0, v, p)
  BY KeysOfStep
<1>8. ~IntroducedAsKey(c, Unbound, p) /\ ~IntroducedAsKey(c0, Unbound, p)
  BY <1>3, NeverUnboundKey
<1>9. Unbound \notin 1..w0 /\ Unbound \notin (w0 + 1)..w
  BY <1>1 DEF Unbound
<1>10. \A v \in 0..w : v = Unbound \/ v \in 1..w0 \/ v \in (w0 + 1)..w
  BY <1>1 DEF Unbound
<1>11. (\A v \in 1..w0 : v \notin (w0 + 1)..w /\ v \in 0..w0)
  BY <1>1
<1>12. ASSUME NEW i \in I
       PROVE  (/\ l.args[i] # Unbound => c.types[l.args[i]] = ArgumentTypes[p][i]
               /\ ~IntroducedAsKey(c, l.args[i], p))
              <=>
              (/\ o.args[i] # Unbound => c0.types[o.args[i]] = ArgumentTypes[p][i]
               /\ ~IntroducedAsKey(c0, o.args[i], p)
               /\ o.args[i] # Unbound => l.args[i] = o.args[i]
               /\ o.args[i] = Unbound => l.args[i] \in CanBe(c, p, i) \cup {Unbound})
  <2>1. PICK x, y : x = l.args[i] /\ y = o.args[i]
    OBVIOUS
  <2>2. x \in 0..w /\ y = IF x \in 1..w0 THEN x ELSE Unbound
    BY <1>4, <1>5, <2>1
  <2>3. x \in CanBe(c, p, i) <=> /\ x \in (w0 + 1)..w /\ x \notin KeyVariables(c, p)
                                 /\ c.types[x] = ArgumentTypes[p][i]
    BY <1>1 DEF CanBe
  <2> HIDE DEF w0, w, I
  <2>4. CASE x = Unbound
    BY <1>8, <1>9, <2>1, <2>2, <2>4
  <2>5. CASE x \in 1..w0
    <3>1. /\ y = x /\ x # Unbound /\ c.types[x] = c0.types[x]
          /\ IntroducedAsKey(c, x, p) <=> IntroducedAsKey(c0, x, p)
      BY <1>2, <1>7, <1>9, <1>11, <2>2, <2>5
    <3> QED BY <2>1, <3>1
  <2>6. CASE x \in (w0 + 1)..w
    <3>1. /\ y = Unbound /\ x # Unbound
          /\ IntroducedAsKey(c, x, p) <=> x \in KeyVariables(c, p)
      BY <1>6, <1>9, <1>11, <2>2, <2>6
    <3> QED BY <1>8, <2>1, <2>3, <2>6, <3>1
  <2> QED BY <1>10, <2>2, <2>4, <2>5, <2>6
<1> HIDE DEF w0, w, I
<1>13. Suits(c, p, l) <=> \A i \in I : /\ l.args[i] # Unbound => c.types[l.args[i]] = ArgumentTypes[p][i]
                                       /\ ~IntroducedAsKey(c, l.args[i], p)
  BY DEF Suits, I
<1>14. Suits(c0, p, o) <=> \A i \in I : /\ o.args[i] # Unbound => c0.types[o.args[i]] = ArgumentTypes[p][i]
                                        /\ ~IntroducedAsKey(c0, o.args[i], p)
  BY DEF Suits, I
<1>15. BecomesFrom(c, p, o, l) <=> \A i \in I : /\ o.args[i] # Unbound => l.args[i] = o.args[i]
                                                /\ o.args[i] = Unbound => l.args[i] \in CanBe(c, p, i) \cup {Unbound}
  BY Zenon DEF BecomesFrom, I
<1> QED
  BY <1>12, <1>13, <1>14, <1>15

(* The literals that could be listed for a grown clause come from those that
   could be listed before, and from the literal without variables.         *)
LEMMA ListedOfStep ==
  ASSUME NEW c0, NEW b, NEW c, IsStep(c0, b, c), NEW p \in Predicate,
         NEW gone, RuledOutBy(gone, Len(c0.body)),
         NEW l \in Literals(p, NumVariables(c)), NEW o, o = Was(c, l, Len(c0.body))
  PROVE  l \in Listed(c, gone, p)
           <=> /\ l # NoVariables(p) /\ BecomesFrom(c, p, o, l)
               /\ o = NoVariables(p) \/ o \in Listed(c0, gone, p)
               /\ l = Last(c.body) => l # o
<1>1. IsClause(c0) /\ NumVariables(c0) \in Nat /\ NumVariables(c) \in Nat
  BY StepNumbers DEF IsStep
<1>2. IsPart(c0, c, p, o, l) /\ o \in Literals(p, NumVariables(c0))
  BY PartOfStep DEF IsPart
<1>3. NotRuledOut(c, gone, l) <=> NotRuledOut(c0, gone, o)
  BY <1>2, RuledOutOfStep
<1>4. NotInBody(c, l) <=> NotInBody(c0, o) /\ (l = Last(c.body) => l # o)
  BY InBodyOfStep
<1>5. Suits(c, p, l) <=> Suits(c0, p, o) /\ BecomesFrom(c, p, o, l)
  BY <1>2, SuitsOfStep
<1>6. l \in Listed(c, gone, p) <=> /\ l # NoVariables(p) /\ Suits(c, p, l)
                                   /\ NotRuledOut(c, gone, l) /\ NotInBody(c, l)
  BY <1>1, ListedMeans
<1>7. o \in Listed(c0, gone, p) <=> /\ o # NoVariables(p) /\ Suits(c0, p, o)
                                    /\ NotRuledOut(c0, gone, o) /\ NotInBody(c0, o)
  BY <1>1, <1>2, ListedMeans
<1>8. o = NoVariables(p) => Suits(c0, p, o) /\ NotRuledOut(c0, gone, o) /\ NotInBody(c0, o)
  BY <1>1, NoVariablesStay
<1> QED
  BY <1>3, <1>4, <1>5, <1>6, <1>7, <1>8

-----------------------------------------------------------------------------
(* What is generated for a clause. *)

LEMMA ExtensionWas ==
  ASSUME NEW c0, NEW b, NEW c, IsStep(c0, b, c), NEW p \in Predicate,
         NEW o \in Literals(p, NumVariables(c0)), NEW l \in Extensions(c, p, o)
  PROVE  /\ l \in Literals(p, NumVariables(c)) /\ BecomesFrom(c, p, o, l)
         /\ Was(c, l, Len(c0.body)) = o
<1> DEFINE w0 == NumVariables(c0)
           w == NumVariables(c)
           I == 1..Len(ArgumentTypes[p])
<1>1. l \in Literals(p, w) /\ BecomesFrom(c, p, o, l)
  BY DEF Extensions
<1>2. w0 \in Nat /\ w \in Nat
  BY StepNumbers
<1>3. NewVariables(c) = (w0 + 1)..w
  BY DEF IsStep, HasPrefixesOf
<1>4. PICK u : u = Was(c, l, Len(c0.body))
  OBVIOUS
<1>5. /\ u \in Literals(p, w0)
      /\ \A i \in I : u.args[i] = IF l.args[i] \in 1..w0 THEN l.args[i] ELSE Unbound
  <2>1. IsPart(c0, c, p, u, l)
    BY <1>1, <1>4, PartOfStep
  <2> QED BY <2>1 DEF IsPart
<1>6. \A i \in I : o.args[i] \in 0..w0
  <2>1. PICK a : a = o.args
    OBVIOUS
  <2>2. a \in [I -> 0..w0]
    BY <1>2, <2>1, LiteralForm
  <2> QED BY <2>1, <2>2
<1>7. ASSUME NEW i \in I
      PROVE  u.args[i] = o.args[i]
  <2>1. /\ o.args[i] # Unbound => l.args[i] = o.args[i]
        /\ o.args[i] = Unbound => l.args[i] \in CanBe(c, p, i) \cup {Unbound}
    BY <1>1, Zenon DEF BecomesFrom
  <2>2. PICK x, y : x = o.args[i] /\ y = l.args[i]
    OBVIOUS
  <2>3. \A v \in 0..w0 : v # Unbound => v \in 1..w0
    BY DEF Unbound
  <2>4. \A v \in CanBe(c, p, i) \cup {Unbound} : v \notin 1..w0
    <3>1. \A v \in (w0 + 1)..w : v \notin 1..w0
      BY <1>2
    <3>2. Unbound \notin 1..w0
      BY DEF Unbound
    <3> QED BY <1>3, <3>1, <3>2 DEF CanBe
  <2> QED BY <1>5, <1>6, <2>1, <2>3, <2>4
<1>8. u = o
  BY <1>2, <1>5, <1>7, SameLiteral
<1> QED
  BY <1>1, <1>4, <1>8

LEMMA NewOnesAreListed ==
  ASSUME NEW c, HasNew(c), NEW p \in Predicate
  PROVE  Lists(WithNewVariablesOnly(c, p), Extensions(c, p, NoVariables(p)) \ {NoVariables(p)})
<1>1. PICK o : o = NoVariables(p)
  OBVIOUS
<1>2. PICK w : w = GenerateCandidateLiteralsFromAnother(o, ChoicesOf(c, p))
  OBVIOUS
<1>3. WithNewVariablesOnly(c, p) = Front(w)
  <2>1. GenerateCandidateLiterals(p, ChoicesOf(c, p)) = w
    BY <1>1, <1>2 DEF GenerateCandidateLiterals, NoVariables
  <2> QED BY <2>1 DEF WithNewVariablesOnly, ChoicesOf
<1>4. o \in Literals(p, NumVariables(c))
  BY <1>1, NoVariablesForm DEF HasNew
<1>5. Lists(w, Extensions(c, p, o)) /\ EndsWith(w, o)
  BY <1>2, <1>4, ExtensionsAreListed
<1>6. Lists(Front(w), Extensions(c, p, o) \ {o})
  BY <1>5, FrontLists
<1> QED
  BY <1>1, <1>3, <1>6

ExtendedFrom(c, p, o) ==
  (Extensions(c, p, o) \ {o}) \cup (IF Last(c.body) = o THEN {} ELSE {o})

LEMMA ExtendedAreListed ==
  ASSUME NEW c, HasNew(c), NEW p \in Predicate, NEW o \in Literals(p, NumVariables(c))
  PROVE  Lists(Extended(c, o), ExtendedFrom(c, p, o))
<1>1. PICK w : w = GenerateCandidateLiteralsFromAnother(o, ChoicesOf(c, p))
  OBVIOUS
<1>2. o.predicate = p
  BY LiteralForm DEF HasNew
<1>3. Lists(w, Extensions(c, p, o)) /\ EndsWith(w, o)
  BY <1>1, ExtensionsAreListed
<1>4. PICK F : F = Extensions(c, p, o) \ {o}
  OBVIOUS
<1>5. Lists(Front(w), F)
  BY <1>3, <1>4, FrontLists
<1>6. PICK t : t = IF Last(c.body) = o THEN <<>> ELSE <<o>>
  OBVIOUS
<1>7. PICK T : T = IF Last(c.body) = o THEN {} ELSE {o}
  OBVIOUS
<1>8. Lists(t, T)
  <2>1. CASE Last(c.body) = o
    <3>1. t = <<>> /\ T = {}
      BY <1>6, <1>7, <2>1
    <3>2. <<>> \in Seq({}) /\ Len(<<>>) = 0
      BY EmptySeq
    <3> QED BY <3>1, <3>2 DEF Lists
  <2>2. CASE Last(c.body) # o
    <3>1. t = <<o>> /\ T = {o}
      BY <1>6, <1>7, <2>2
    <3>2. <<o>> \in Seq({o}) /\ Len(<<o>>) = 1 /\ <<o>>[1] = o
      OBVIOUS
    <3> QED BY <3>1, <3>2 DEF Lists
  <2> QED BY <2>1, <2>2
<1>9. F \cap T = {}
  BY <1>4, <1>7
<1>10. Lists(Front(w) \o t, F \cup T)
  BY <1>5, <1>8, <1>9, ListsBehind
<1>11. Extended(c, o) = Front(w) \o t
  BY <1>1, <1>2, <1>6 DEF Extended, ChoicesOf
<1> QED
  BY <1>4, <1>7, <1>10, <1>11 DEF ExtendedFrom

(* What is generated for a grown clause from a list for the clause before is
   a list again.                                                           *)
LEMMA NextIsListed ==
  ASSUME NEW c0, NEW b, NEW c, IsStep(c0, b, c), NEW p \in Predicate,
         NEW gone, RuledOutBy(gone, Len(c0.body)), NEW old, Lists(old, Listed(c0, gone, p))
  PROVE  Lists(WithNewVariablesOnly(c, p)
                 \o FlattenSeq([k \in DOMAIN old |-> Extended(c, old[k])]),
               Listed(c, gone, p))
<1> DEFINE n == Len(old)
           n0 == Len(c0.body)
           ss == [k \in DOMAIN old |-> Extended(c, old[k])]
           S == [k \in 1..n |-> ExtendedFrom(c, p, old[k])]
           L0 == Listed(c0, gone, p)
           L == Listed(c, gone, p)
           e == NoVariables(p)
           A == Extensions(c, p, e) \ {e}
           B == AllOf(S, n)
<1>1. NumVariables(c0) \in Nat /\ NumVariables(c) \in Nat /\ NumVariables(c0) <= NumVariables(c) /\ HasNew(c)
  BY StepNumbers
<1>2. old \in Seq(L0) /\ n \in Nat /\ DOMAIN old = 1..n /\ \A k \in 1..n : old[k] \in L0
  BY DEF Lists
<1>3. L0 \subseteq Literals(p, NumVariables(c0)) /\ L \subseteq Literals(p, NumVariables(c))
  BY DEF Listed
<1>4. Literals(p, NumVariables(c0)) \subseteq Literals(p, NumVariables(c))
  <2>1. PICK X, Y, D : /\ X = 0..NumVariables(c0) /\ Y = 0..NumVariables(c)
                       /\ D = DOMAIN ArgumentTypes[p]
    OBVIOUS
  <2>2. X \subseteq Y
    BY <1>1, <2>1
  <2>3. [predicate : {p}, args : [D -> X]] \subseteq [predicate : {p}, args : [D -> Y]]
    BY <2>2
  <2> QED BY <2>1, <2>3 DEF Literals
<1>5. e \in Literals(p, NumVariables(c0)) /\ e \notin L0
  <2>1. e \in Literals(p, NumVariables(c0))
    BY <1>1, NoVariablesForm
  <2>2. e \notin L0
    BY <1>1, <2>1, ListedMeans
  <2> QED BY <2>1, <2>2
<1>6. Lists(WithNewVariablesOnly(c, p), A)
  BY <1>1, NewOnesAreListed
<1>7. ASSUME NEW k \in 1..n
      PROVE  Lists(ss[k], S[k])
  <2>1. PICK o : o = old[k] /\ o \in Literals(p, NumVariables(c))
    BY <1>2, <1>3, <1>4
  <2>2. Lists(Extended(c, o), ExtendedFrom(c, p, o))
    BY <1>1, <2>1, ExtendedAreListed
  <2>3. ss[k] = Extended(c, o) /\ S[k] = ExtendedFrom(c, p, o)
    BY <1>2, <2>1
  <2> QED BY <2>2, <2>3
<1>8. ASSUME NEW o \in Literals(p, NumVariables(c0)), NEW l \in ExtendedFrom(c, p, o)
      PROVE  /\ l \in Literals(p, NumVariables(c)) /\ BecomesFrom(c, p, o, l)
             /\ Was(c, l, n0) = o
  <2>1. o \in Extensions(c, p, o)
    <3>1. BecomesFrom(c, p, o, o)
      BY DEF BecomesFrom
    <3> QED BY <1>4, <3>1 DEF Extensions
  <2>2. l \in Extensions(c, p, o)
    BY <2>1 DEF ExtendedFrom
  <2> QED BY <2>2, ExtensionWas
<1>9. \A k \in 1..n : \A l \in S[k] :
        /\ l \in Literals(p, NumVariables(c)) /\ BecomesFrom(c, p, old[k], l)
        /\ Was(c, l, n0) = old[k]
  BY <1>2, <1>3, <1>8
<1>10. \A l \in A : Was(c, l, n0) = e /\ l \in Literals(p, NumVariables(c)) /\ BecomesFrom(c, p, e, l)
  <2> TAKE l \in A
  <2>1. PICK o : o = e
    OBVIOUS
  <2>2. l \in Extensions(c, p, o) /\ o \in Literals(p, NumVariables(c0))
    BY <1>5, <2>1
  <2> QED BY <2>1, <2>2, ExtensionWas
<1>11. AreApart(S, n)
  <2> HIDE DEF S
  <2>1. ASSUME NEW i \in 1..n, NEW j \in 1..n, NEW l, l \in S[i], l \in S[j]
        PROVE  i = j
    <3>1. old[i] = old[j]
      BY <1>9, <2>1
    <3> QED BY <3>1 DEF Lists
  <2> QED BY <2>1 DEF AreApart
<1>12. AreListed(ss, S, n)
  <2>1. ss = [i \in 1..n |-> ss[i]]
    BY <1>2
  <2> HIDE DEF ss, S
  <2> QED BY <1>7, <2>1 DEF AreListed
<1>13. Lists(FlattenSeq(ss), B)
  <2> HIDE DEF ss, S
  <2> QED BY <1>2, <1>11, <1>12, FlattenLists
<1>14. A \cap B = {}
  <2> HIDE DEF S, A, L0
  <2>1. ASSUME NEW l \in A, l \in B PROVE FALSE
    <3>1. PICK k \in 1..n : l \in S[k]
      BY <2>1 DEF AllOf
    <3>2. old[k] = e
      BY <1>9, <1>10, <3>1
    <3> QED BY <1>2, <1>5, <3>2
  <2> QED BY <2>1
<1>15. A \cup B = L
  <2>1. ASSUME NEW l \in A PROVE l \in L
    <3>1. PICK o : o = e /\ o = Was(c, l, Len(c0.body)) /\ l # e
      BY <1>10
    <3> QED BY <1>10, <3>1, ListedOfStep
  <2>2. ASSUME NEW l \in B PROVE l \in L
    <3>1. PICK k \in 1..n : l \in S[k]
      <4> HIDE DEF S
      <4> QED BY <2>2 DEF AllOf
    <3>2. PICK o : o = old[k] /\ o = Was(c, l, Len(c0.body))
      BY <1>9, <3>1
    <3>3. l \in Literals(p, NumVariables(c)) /\ BecomesFrom(c, p, o, l) /\ o \in L0
      BY <1>2, <1>9, <3>1, <3>2
    <3>4. l # e
      <4>1. o # e /\ o \in Literals(p, NumVariables(c0))
        BY <1>3, <1>5, <3>3
      <4>2. PICK i \in 1..Len(ArgumentTypes[p]) : o.args[i] # Unbound
        BY <1>1, <4>1, WellFormedArguments
      <4>3. l.args[i] = o.args[i]
        BY <3>3, <4>2, Zenon DEF BecomesFrom
      <4>4. e.args[i] = Unbound
        BY NoVariablesForm
      <4> QED BY <4>2, <4>3, <4>4
    <3>5. l = Last(c.body) => l # o
      <4>1. l \in ExtendedFrom(c, p, o)
        BY <3>1, <3>2
      <4> QED BY <4>1 DEF ExtendedFrom
    <3> QED BY <3>2, <3>3, <3>4, <3>5, ListedOfStep
  <2>3. ASSUME NEW l \in L PROVE l \in A \cup B
    <3>1. PICK o : o = Was(c, l, Len(c0.body))
      OBVIOUS
    <3>2. /\ l \in Literals(p, NumVariables(c))
          /\ l # e /\ BecomesFrom(c, p, o, l) /\ (o = e \/ o \in L0)
          /\ l = Last(c.body) => l # o
      BY <1>3, <2>3, <3>1, ListedOfStep
    <3>3. l \in Extensions(c, p, o)
      BY <3>2 DEF Extensions
    <3>4. CASE o = e
      BY <3>2, <3>3, <3>4
    <3>5. CASE o \in L0
      <4>1. PICK k \in 1..n : old[k] = o
        BY <3>5 DEF Lists
      <4>2. l \in ExtendedFrom(c, p, o)
        BY <3>2, <3>3 DEF ExtendedFrom
      <4>3. l \in S[k]
        BY <4>1, <4>2
      <4> HIDE DEF S
      <4> QED BY <4>3 DEF AllOf
    <3> QED BY <3>2, <3>4, <3>5
  <2> QED BY <2>1, <2>2, <2>3
<1> HIDE DEF ss, A, B, L
<1>16. Lists(WithNewVariablesOnly(c, p) \o FlattenSeq(ss), A \cup B)
  BY <1>6, <1>13, <1>14, ListsBehind
<1> QED
  BY <1>15, <1>16 DEF ss, L

LEMMA FirstOnesAreListed ==
  ASSUME NEW p \in Predicate
  PROVE  Lists(WithNewVariablesOnly(MostGeneral, p), Listed(MostGeneral, {}, p))
<1> DEFINE I == 1..Len(ArgumentTypes[p])
<1>1. PICK c, e : c = MostGeneral /\ e = NoVariables(p)
  OBVIOUS
<1>2. IsClause(c) /\ NumVariables(c) \in Nat
  BY <1>1, MostGeneralIsClause
<1>3. c.body = <<>> /\ c.types = HeadTypes /\ Len(c.body) = 0 /\ DOMAIN c.body = {}
  <2>1. c.body = <<>> /\ c.types = HeadTypes
    BY <1>1 DEF MostGeneral
  <2> QED BY <2>1, EmptySeq
<1>4. NewVariables(c) = 1..NumVariables(c)
  <2>1. HeadTypes \in Seq(Types)
    BY SchemaAssumption
  <2> QED BY <1>3, <2>1 DEF NewVariables, HeadVariables, NumVariables
<1>5. HasNew(c)
  BY <1>2, <1>4 DEF HasNew
<1>6. KeyVariables(c, p) = {}
  <2>1. \A v : v \notin KeyVariables(c, p)
    <3>1. 1..Len(c.body) = {}
      BY <1>3
    <3> QED BY <1>2, <3>1, KeyVariablesAre
  <2> QED BY <2>1
<1>7. \A v : ~IntroducedAsKey(c, v, p)
  BY <1>3 DEF IntroducedAsKey
<1>8. e \in Literals(p, NumVariables(c)) /\ \A i \in I : e.args[i] = Unbound
  BY <1>1, <1>2, NoVariablesForm
<1>9. ASSUME NEW l \in Literals(p, NumVariables(c))
      PROVE  l \in Listed(c, {}, p) <=> l # e /\ BecomesFrom(c, p, e, l)
  <2>1. NotRuledOut(c, {}, l) /\ NotInBody(c, l)
    BY <1>3 DEF NotRuledOut, NotInBody
  <2>2. \A i \in I : l.args[i] \in 0..NumVariables(c)
    <3>1. PICK a : a = l.args
      OBVIOUS
    <3>2. a \in [I -> 0..NumVariables(c)]
      BY <1>2, <3>1, LiteralForm
    <3> QED BY <3>1, <3>2
  <2>3. \A v \in 0..NumVariables(c) : v = Unbound \/ v \in 1..NumVariables(c)
    BY <1>2 DEF Unbound
  <2>4. Unbound \notin 1..NumVariables(c)
    BY DEF Unbound
  <2>5. \A i \in I : \A v : v \in CanBe(c, p, i) <=> v \in 1..NumVariables(c) /\ c.types[v] = ArgumentTypes[p][i]
    BY <1>4, <1>6 DEF CanBe
  <2> HIDE DEF I
  <2>6. \A i \in I : (l.args[i] # Unbound => c.types[l.args[i]] = ArgumentTypes[p][i])
                        <=> l.args[i] \in CanBe(c, p, i) \cup {Unbound}
    BY <2>2, <2>3, <2>4, <2>5
  <2>7. Suits(c, p, l) <=> \A i \in I : l.args[i] # Unbound => c.types[l.args[i]] = ArgumentTypes[p][i]
    BY <1>7 DEF Suits, I
  <2>8. BecomesFrom(c, p, e, l) <=> \A i \in I : l.args[i] \in CanBe(c, p, i) \cup {Unbound}
    BY <1>8, Zenon DEF BecomesFrom, I
  <2>9. Suits(c, p, l) <=> BecomesFrom(c, p, e, l)
    BY <2>6, <2>7, <2>8
  <2> QED BY <1>1, <1>2, <2>1, <2>9, ListedMeans
<1>10. Listed(c, {}, p) \subseteq Literals(p, NumVariables(c))
  BY DEF Listed
<1>11. Listed(c, {}, p) = Extensions(c, p, e) \ {e}
  BY <1>9, <1>10 DEF Extensions
<1> QED
  BY <1>1, <1>5, <1>11, NewOnesAreListed

(* Taking out the members of a set. *)
LEMMA KeptAreListed ==
  ASSUME NEW S, NEW w, Lists(w, S), NEW R, NEW ss,
         ss = [k \in DOMAIN w |-> IF w[k] \in R THEN <<>> ELSE <<w[k]>>]
  PROVE  Lists(FlattenSeq(ss), S \ R)
<1> DEFINE n == Len(w)
           T == [k \in 1..n |-> IF w[k] \in R THEN {} ELSE {w[k]}]
<1>1. w \in Seq(S) /\ n \in Nat /\ DOMAIN w = 1..n /\ \A k \in 1..n : w[k] \in S
  BY DEF Lists
<1>2. ASSUME NEW k \in 1..n
      PROVE  Lists(ss[k], T[k])
  <2>1. PICK x, y, Y : x = w[k] /\ y = ss[k] /\ Y = T[k]
    OBVIOUS
  <2>2. CASE x \in R
    <3>1. y = <<>> /\ Y = {}
      BY <1>1, <2>1, <2>2
    <3>2. <<>> \in Seq({}) /\ Len(<<>>) = 0
      BY EmptySeq
    <3>3. Lists(y, Y)
      BY <3>1, <3>2 DEF Lists
    <3> QED BY <2>1, <3>3
  <2>3. CASE x \notin R
    <3>1. y = <<x>> /\ Y = {x}
      BY <1>1, <2>1, <2>3
    <3>2. <<x>> \in Seq({x}) /\ Len(<<x>>) = 1 /\ <<x>>[1] = x
      OBVIOUS
    <3>3. Lists(y, Y)
      BY <3>1, <3>2 DEF Lists
    <3> QED BY <2>1, <3>3
  <2> QED BY <2>2, <2>3
<1>3. AreListed(ss, T, n)
  <2>1. ss = [i \in 1..n |-> ss[i]]
    BY <1>1
  <2> HIDE DEF T
  <2> QED BY <1>2, <2>1 DEF AreListed
<1>4. AreApart(T, n)
  <2>1. \A k \in 1..n : \A x \in T[k] : x = w[k]
    OBVIOUS
  <2> HIDE DEF T
  <2> QED BY <2>1 DEF AreApart, Lists
<1>5. AllOf(T, n) = S \ R
  <2>1. ASSUME NEW x \in S \ R PROVE x \in AllOf(T, n)
    <3>1. PICK k \in 1..n : w[k] = x
      BY DEF Lists
    <3>2. x \in T[k]
      BY <3>1
    <3> HIDE DEF T
    <3> QED BY <3>2 DEF AllOf
  <2>2. ASSUME NEW x \in AllOf(T, n) PROVE x \in S \ R
    <3>1. PICK k \in 1..n : x \in T[k]
      <4> HIDE DEF T
      <4> QED BY <2>2 DEF AllOf
    <3> QED BY <1>1, <3>1
  <2> QED BY <2>1, <2>2
<1> HIDE DEF T, n
<1> QED
  BY <1>1, <1>3, <1>4, <1>5, FlattenLists

LEMMA ListsRange ==
  ASSUME NEW w, NEW S, Lists(w, S)
  PROVE  Range(w) = S /\ IsInjective(w)
<1>1. DOMAIN w = 1..Len(w) /\ \A k \in 1..Len(w) : w[k] \in S
  BY DEF Lists
<1>2. Range(w) = S
  BY <1>1 DEF Lists, Range
<1>3. IsInjective(w)
  BY <1>1 DEF Lists, IsInjective
<1> QED
  BY <1>2, <1>3

-----------------------------------------------------------------------------
(* The inductive invariant. *)

StatsOf(c, s) ==
  /\ s.known /\ RuledOutBy(s.gone, Len(c.body))
  /\ \A p \in Predicate : Lists(NotPruned(p, s), Listed(c, s.gone, p))

(* Statistics for the most general clause, if there are any yet. *)
AreForTheHead(s) == (~s.known /\ s.gone = {}) \/ StatsOf(MostGeneral, s)

AreGenerated(c, g, gone) == \A p \in Predicate : Lists(g[p], Listed(c, gone, p))

OfferedAreGenerated == \A p \in Predicate : Range(offered[p]) \subseteq Range(generated[p])

HasComeFrom(c, s) ==
  \/ c = MostGeneral /\ AreForTheHead(s)
  \/ \E c0, b : /\ IsClause(c0) /\ WellFormed(c0, b)
                /\ c = AddUnBoundBodyLiteral(c0, b) /\ StatsOf(c0, s)

EnumeratorInv ==
  /\ pc \in {"enumerate", "evaluate", "grow"} /\ clauses \in 1..MaxClauses
  /\ IsClause(clause) /\ (clause.body = <<>> => clause = MostGeneral)
  /\ AreForTheHead(first) /\ (first.known => last.known)
  /\ OfferedAreGenerated
  /\ pc = "enumerate" => HasComeFrom(clause, last)
  /\ pc = "evaluate" => /\ AreGenerated(clause, generated, last.gone)
                        /\ RuledOutBy(last.gone, Len(clause.body))
  /\ pc = "grow" => /\ StatsOf(clause, last)
                    /\ \E gone : AreGenerated(clause, generated, gone)

LEMMA InitIsRight == Init => EnumeratorInv
<1> SUFFICES ASSUME Init PROVE EnumeratorInv
  OBVIOUS
<1>1. /\ pc = "enumerate" /\ clause = MostGeneral /\ last = NoStats /\ first = NoStats
      /\ generated = NoLiterals /\ offered = NoLiterals /\ clauses = 1
  BY DEF Init
<1>2. clauses \in 1..MaxClauses
  BY <1>1, SchemaAssumption
<1>3. ~NoStats.known /\ NoStats.gone = {}
  BY DEF NoStats
<1>4. AreForTheHead(NoStats)
  BY <1>3, Zenon DEF AreForTheHead
<1>5. HasComeFrom(MostGeneral, NoStats)
  BY <1>4, Zenon DEF HasComeFrom
<1>6. OfferedAreGenerated
  BY <1>1 DEF OfferedAreGenerated
<1> QED
  BY <1>1, <1>2, <1>3, <1>4, <1>5, <1>6, MostGeneralIsClause DEF EnumeratorInv

(* A clause with a literal is not the most general one. *)
LEMMA GrownIsNotEmpty ==
  ASSUME NEW c0, IsClause(c0), NEW b, WellFormed(c0, b)
  PROVE  AddUnBoundBodyLiteral(c0, b).body # <<>>
<1>1. PICK c : c = AddUnBoundBodyLiteral(c0, b)
  OBVIOUS
<1>2. IsStep(c0, b, c)
  BY <1>1, GrowsByStep
<1>3. Len(c0.body) \in Nat /\ Len(c.body) = Len(c0.body) + 1
  BY <1>2, StepNumbers
<1> QED
  BY <1>1, <1>3, EmptySeq

LEMMA EnumerateGenerates ==
  ASSUME EnumeratorInv, Enumerate
  PROVE  /\ \A p \in Predicate : Lists(generated'[p], Listed(clause, last.gone, p))
         /\ RuledOutBy(last.gone, Len(clause.body))
         /\ \A p \in Predicate : Range(offered'[p]) \subseteq Range(generated'[p])
<1>1. HasComeFrom(clause, last)
  BY DEF EnumeratorInv, Enumerate
<1>2. PICK g, h : g = generated' /\ h = offered'
  OBVIOUS
<1>3. CASE clause.body = <<>> /\ ~last.known
  <2>1. EnumerateForMostGeneralClauseFromScratch
    BY <1>3, Zenon DEF Enumerate, EnumerateForMostGeneralClauseFromScratch,
                       EnumerateForMostGeneralClause, EnumerateForNonMostGeneralClause
  <2>2. clause = MostGeneral
    BY <1>3, Zenon DEF EnumeratorInv
  <2>3. g = [p \in Predicate |-> WithNewVariablesOnly(clause, p)] /\ h = g
    BY <1>2, <2>1 DEF EnumerateForMostGeneralClauseFromScratch
  <2>4. last.gone = {}
    <3>1. AreForTheHead(last)
      BY <1>1, <1>3, GrownIsNotEmpty, Zenon DEF HasComeFrom
    <3> QED BY <1>3, <3>1, Zenon DEF AreForTheHead, StatsOf
  <2>5. \A p \in Predicate : Lists(WithNewVariablesOnly(clause, p), Listed(clause, last.gone, p))
    BY <2>2, <2>4, FirstOnesAreListed
  <2>6. RuledOutBy(last.gone, Len(clause.body))
    BY <2>4 DEF RuledOutBy
  <2> QED BY <1>2, <2>3, <2>5, <2>6
<1>4. CASE clause.body = <<>> /\ last.known
  <2>1. EnumerateForMostGeneralClause
    BY <1>4, Zenon DEF Enumerate, EnumerateForMostGeneralClauseFromScratch,
                       EnumerateForMostGeneralClause, EnumerateForNonMostGeneralClause
  <2>2. clause = MostGeneral
    BY <1>4, Zenon DEF EnumeratorInv
  <2>3. g = [p \in Predicate |-> NotPruned(p, last)] /\ h = g
    BY <1>2, <2>1 DEF EnumerateForMostGeneralClause
  <2>4. StatsOf(clause, last)
    <3>1. AreForTheHead(last)
      BY <1>1, <1>4, GrownIsNotEmpty, Zenon DEF HasComeFrom
    <3> QED BY <1>4, <2>2, <3>1, Zenon DEF AreForTheHead
  <2> QED BY <1>2, <2>3, <2>4 DEF StatsOf
<1>5. CASE clause.body # <<>>
  <2>1. EnumerateForNonMostGeneralClause
    BY <1>5, Zenon DEF Enumerate, EnumerateForMostGeneralClauseFromScratch,
                       EnumerateForMostGeneralClause, EnumerateForNonMostGeneralClause
  <2>2. PICK c0, b : /\ IsClause(c0) /\ WellFormed(c0, b)
                     /\ clause = AddUnBoundBodyLiteral(c0, b) /\ StatsOf(c0, last)
    <3>1. clause # MostGeneral
      <4>1. MostGeneral.body = <<>>
        BY DEF MostGeneral
      <4> QED BY <1>5, <4>1
    <3> QED BY <1>1, <3>1, Zenon DEF HasComeFrom
  <2>3. PICK c : c = clause
    OBVIOUS
  <2>4. IsStep(c0, b, c)
    BY <2>2, <2>3, GrowsByStep
  <2>5. ASSUME NEW p \in Predicate
        PROVE  Lists(g[p], Listed(c, last.gone, p)) /\ Range(h[p]) \subseteq Range(g[p])
    <3>1. PICK old, gone : old = NotPruned(p, last) /\ gone = last.gone
      OBVIOUS
    <3>2. RuledOutBy(gone, Len(c0.body)) /\ Lists(old, Listed(c0, gone, p))
      BY <2>2, <3>1 DEF StatsOf
    <3>3. g[p] = WithNewVariablesOnly(c, p)
                   \o FlattenSeq([k \in DOMAIN old |-> Extended(c, old[k])])
      BY <1>2, <2>1, <2>3, <3>1 DEF EnumerateForNonMostGeneralClause
    <3>4. PICK L : L = Listed(c, gone, p) /\ Lists(g[p], L)
      <4>1. Lists(WithNewVariablesOnly(c, p)
                    \o FlattenSeq([k \in DOMAIN old |-> Extended(c, old[k])]),
                  Listed(c, gone, p))
        BY <2>4, <3>2, NextIsListed
      <4> QED BY <3>3, <4>1
    <3>5. PICK all : all = g[p]
      OBVIOUS
    <3>6. h[p] = FlattenSeq([k \in DOMAIN all |->
                   IF CheckReplaceableDuplicate(c, all[k]) THEN <<>> ELSE <<all[k]>>])
      BY <1>2, <2>1, <2>3, <3>5 DEF EnumerateForNonMostGeneralClause
    <3>7. PICK R : R = {x \in L : CheckReplaceableDuplicate(c, x)}
      OBVIOUS
    <3>8. \A k \in DOMAIN all : all[k] \in R <=> CheckReplaceableDuplicate(c, all[k])
      <4>1. \A k \in DOMAIN all : all[k] \in L
        BY <3>4, <3>5 DEF Lists
      <4> QED BY <3>7, <4>1
    <3>9. [k \in DOMAIN all |-> IF CheckReplaceableDuplicate(c, all[k]) THEN <<>> ELSE <<all[k]>>]
            = [k \in DOMAIN all |-> IF all[k] \in R THEN <<>> ELSE <<all[k]>>]
      BY <3>8
    <3>10. Lists(h[p], L \ R)
      <4>1. PICK ss : ss = [k \in DOMAIN all |-> IF all[k] \in R THEN <<>> ELSE <<all[k]>>]
        OBVIOUS
      <4>2. h[p] = FlattenSeq(ss) /\ Lists(all, L)
        BY <3>4, <3>5, <3>6, <3>9, <4>1
      <4>3. Lists(FlattenSeq(ss), L \ R)
        BY <4>1, <4>2, KeptAreListed
      <4> QED BY <4>2, <4>3
    <3>11. Range(h[p]) = L \ R /\ Range(g[p]) = L
      BY <3>4, <3>10, ListsRange
    <3> QED BY <3>1, <3>4, <3>11
  <2>6. RuledOutBy(last.gone, Len(clause.body))
    <3>1. Len(c0.body) \in Nat /\ Len(c.body) = Len(c0.body) + 1
      BY <2>4, StepNumbers
    <3>2. 0..Len(c0.body) \subseteq 0..Len(c.body)
      BY <3>1
    <3>3. RuledOutBy(last.gone, Len(c0.body))
      BY <2>2 DEF StatsOf
    <3> QED BY <2>3, <3>2, <3>3 DEF RuledOutBy
  <2> QED BY <1>2, <2>3, <2>5, <2>6
<1> QED
  BY <1>3, <1>4, <1>5

(* What is ruled out now is what is taken off the list. *)
LEMMA RulingOut ==
  ASSUME NEW c, IsClause(c), NEW p \in Predicate, NEW gone, NEW none
  PROVE  Listed(c, gone \cup ({Len(c.body)} \X none), p) = Listed(c, gone, p) \ none
<1> DEFINE n == Len(c.body)
           now == gone \cup ({n} \X none)
<1>1. n \in Nat /\ NumVariables(c) \in Nat
  BY DEF IsClause, NumVariables
<1>2. ASSUME NEW l \in Literals(p, NumVariables(c))
      PROVE  NotRuledOut(c, now, l) <=> NotRuledOut(c, gone, l) /\ l \notin none
  <2>1. Was(c, l, n) = l
    BY WasAtTheEnd
  <2>2. \A k \in 0..n : <<k, Was(c, l, k)>> \in now
                          <=> <<k, Was(c, l, k)>> \in gone \/ (k = n /\ Was(c, l, k) \in none)
    OBVIOUS
  <2>3. n \in 0..n
    BY <1>1
  <2> HIDE DEF now
  <2>4. (\A k \in 0..n : <<k, Was(c, l, k)>> \notin now)
          <=> (\A k \in 0..n : <<k, Was(c, l, k)>> \notin gone) /\ l \notin none
    BY <2>1, <2>2, <2>3
  <2> QED BY <2>4 DEF NotRuledOut
<1> HIDE DEF now
<1>3. \A g : Listed(c, g, p) \subseteq Literals(p, NumVariables(c))
  BY DEF Listed
<1>4. \A l \in Literals(p, NumVariables(c)) : l \in Listed(c, now, p) <=> l \in Listed(c, gone, p) /\ l \notin none
  BY <1>2, ListedParts
<1>5. Listed(c, now, p) = Listed(c, gone, p) \ none
  BY <1>3, <1>4
<1> QED
  BY <1>5 DEF now

LEMMA AllOfferedAreWellFormed ==
  ASSUME NEW c, NEW gone, AreGenerated(c, generated, gone), OfferedAreGenerated,
         NEW l \in AllOffered
  PROVE  WellFormed(c, l)
<1>1. PICK p \in Predicate : l \in Range(offered[p])
  BY DEF AllOffered
<1>2. l \in Range(generated[p])
  BY <1>1 DEF OfferedAreGenerated
<1>3. Lists(generated[p], Listed(c, gone, p))
  BY DEF AreGenerated
<1>4. Range(generated[p]) = Listed(c, gone, p)
  BY <1>3, ListsRange
<1> QED
  BY <1>2, <1>4 DEF Listed

LEMMA EvaluateKeepsStats ==
  ASSUME EnumeratorInv, Evaluate
  PROVE  StatsOf(clause, last') /\ last'.known
<1>1. pc = "evaluate"
  BY DEF Evaluate
<1>2. IsClause(clause) /\ OfferedAreGenerated
  BY DEF EnumeratorInv
<1>3. AreGenerated(clause, generated, last.gone) /\ RuledOutBy(last.gone, Len(clause.body))
  BY <1>1 DEF EnumeratorInv
<1>4. PICK none, s : /\ none \subseteq AllOffered /\ s = last'
                     /\ s = [known |-> TRUE, generated |-> generated, pruned |-> none,
                             gone |-> last.gone \cup ({Len(clause.body)} \X none)]
  <2>1. PICK G : \E none : /\ none = {l \in AllOffered : \E g \in Range(G) : MoreSpecial(l, g)}
                           /\ last' = [known |-> TRUE, generated |-> generated, pruned |-> none,
                                       gone |-> last.gone \cup ({Len(clause.body)} \X none)]
    BY Zenon DEF Evaluate
  <2>2. PICK none : /\ none = {l \in AllOffered : \E g \in Range(G) : MoreSpecial(l, g)}
                    /\ last' = [known |-> TRUE, generated |-> generated, pruned |-> none,
                                gone |-> last.gone \cup ({Len(clause.body)} \X none)]
    BY <2>1
  <2>3. none \subseteq AllOffered
    BY <2>2
  <2> QED BY <2>2, <2>3
<1>5. PICK gone, c, g : gone = last.gone /\ c = clause /\ g = generated
  OBVIOUS
<1>6. /\ s.known /\ s.generated = g /\ s.pruned = none
      /\ s.gone = gone \cup ({Len(c.body)} \X none)
  BY <1>4, <1>5
<1>7. RuledOutBy(s.gone, Len(c.body))
  <2> SUFFICES ASSUME NEW k, NEW l, <<k, l>> \in s.gone
               PROVE  k \in 0..Len(c.body) /\ PlacesOf(Unbound, l) # DOMAIN l.args
    BY Zenon DEF RuledOutBy
  <2>1. CASE <<k, l>> \in gone
    BY <1>3, <1>5, <2>1 DEF RuledOutBy
  <2>2. CASE <<k, l>> \in {Len(c.body)} \X none
    <3>1. k = Len(c.body) /\ l \in none
      BY <2>2
    <3>2. Len(c.body) \in Nat
      BY <1>2, <1>5 DEF IsClause
    <3>3. WellFormed(clause, l)
      BY <1>2, <1>3, <1>4, <3>1, AllOfferedAreWellFormed
    <3> QED BY <3>1, <3>2, <3>3 DEF WellFormed
  <2> QED BY <1>6, <2>1, <2>2
<1>8. ASSUME NEW p \in Predicate
      PROVE  Lists(NotPruned(p, s), Listed(c, s.gone, p))
  <2>1. PICK all : all = g[p]
    OBVIOUS
  <2>2. Lists(all, Listed(c, gone, p))
    BY <1>3, <1>5, <2>1 DEF AreGenerated
  <2>3. PICK ss, L : /\ ss = [k \in DOMAIN all |-> IF all[k] \in none THEN <<>> ELSE <<all[k]>>]
                     /\ L = Listed(c, gone, p)
    OBVIOUS
  <2>4. Lists(NotPruned(p, s), Listed(c, gone, p) \ none)
    <3>1. NotPruned(p, s) = FlattenSeq(ss)
      BY <1>6, <2>1, <2>3 DEF NotPruned
    <3>2. Lists(FlattenSeq(ss), L \ none)
      BY <2>2, <2>3, KeptAreListed
    <3> QED BY <2>3, <3>1, <3>2
  <2>5. Listed(c, s.gone, p) = Listed(c, gone, p) \ none
    <3>1. IsClause(c)
      BY <1>2, <1>5
    <3>2. Listed(c, gone \cup ({Len(c.body)} \X none), p) = Listed(c, gone, p) \ none
      BY <3>1, RulingOut
    <3> QED BY <1>6, <3>2
  <2> QED BY <2>4, <2>5
<1> QED
  BY <1>4, <1>5, <1>6, <1>7, <1>8 DEF StatsOf

LEMMA EnumeratorStep == EnumeratorInv /\ [Next]_vars => EnumeratorInv'
<1> SUFFICES ASSUME EnumeratorInv, [Next]_vars
             PROVE  EnumeratorInv'
  OBVIOUS
<1>1. /\ pc \in {"enumerate", "evaluate", "grow"} /\ clauses \in 1..MaxClauses
      /\ IsClause(clause) /\ (clause.body = <<>> => clause = MostGeneral)
      /\ AreForTheHead(first) /\ (first.known => last.known) /\ OfferedAreGenerated
  BY DEF EnumeratorInv
<1>2. CASE Enumerate
  <2>1. pc' = "evaluate" /\ UNCHANGED <<clause, last, first, clauses>>
    BY <1>2, Zenon DEF Enumerate
  <2>2. /\ \A p \in Predicate : Lists(generated'[p], Listed(clause, last.gone, p))
        /\ RuledOutBy(last.gone, Len(clause.body))
        /\ \A p \in Predicate : Range(offered'[p]) \subseteq Range(generated'[p])
    BY <1>2, EnumerateGenerates
  <2>3. OfferedAreGenerated'
    BY <2>2 DEF OfferedAreGenerated
  <2>4. AreGenerated(clause, generated, last.gone)'
    BY <2>1, <2>2 DEF AreGenerated
  <2> QED BY <1>1, <2>1, <2>2, <2>3, <2>4 DEF EnumeratorInv
<1>3. CASE Evaluate
  <2>1. pc = "evaluate" /\ pc' = "grow" /\ UNCHANGED <<clause, first, generated, offered, clauses>>
    BY <1>3, Zenon DEF Evaluate
  <2>2. StatsOf(clause, last') /\ last'.known
    BY <1>3, EvaluateKeepsStats
  <2>3. OfferedAreGenerated'
    BY <1>1, <2>1 DEF OfferedAreGenerated
  <2>4. \E gone : AreGenerated(clause', generated', gone)
    BY <2>1 DEF EnumeratorInv
  <2>5. StatsOf(clause, last)'
    BY <2>1, <2>2
  <2> QED BY <1>1, <2>1, <2>2, <2>3, <2>4, <2>5 DEF EnumeratorInv
<1>4. CASE Grow
  <2>1. pc = "grow" /\ pc' = "enumerate" /\ UNCHANGED <<last, generated, offered, clauses>>
    BY <1>4, Zenon DEF Grow
  <2>2. first' = IF clause.body = <<>> THEN last ELSE first
    BY <1>4, Zenon DEF Grow
  <2>3. PICK l \in AllOffered : clause' = AddUnBoundBodyLiteral(clause, l)
    BY <1>4 DEF Grow
  <2>4. StatsOf(clause, last)
    BY <2>1 DEF EnumeratorInv
  <2>5. PICK gone : AreGenerated(clause, generated, gone)
    BY <2>1 DEF EnumeratorInv
  <2>6. PICK c : c = clause
    OBVIOUS
  <2>7. WellFormed(c, l) /\ IsClause(c)
    BY <1>1, <2>5, <2>6, AllOfferedAreWellFormed
  <2>8. IsClause(clause') /\ clause'.body # <<>>
    <3>1. clause' = AddUnBoundBodyLiteral(c, l)
      BY <2>3, <2>6
    <3>2. IsStep(c, l, clause') /\ clause'.body # <<>>
      BY <2>7, <3>1, GrowsByStep, GrownIsNotEmpty
    <3> QED BY <3>2 DEF IsStep
  <2>9. HasComeFrom(clause', last')
    BY <2>1, <2>3, <2>4, <2>6, <2>7 DEF HasComeFrom
  <2>10. AreForTheHead(first')
    BY <1>1, <2>2, <2>4 DEF AreForTheHead
  <2>11. last'.known
    BY <2>1, <2>4 DEF StatsOf
  <2>12. OfferedAreGenerated'
    BY <1>1, <2>1 DEF OfferedAreGenerated
  <2> QED BY <1>1, <2>1, <2>8, <2>9, <2>10, <2>11, <2>12 DEF EnumeratorInv
<1>5. CASE StartClause
  <2>1. /\ pc' = "enumerate" /\ UNCHANGED <<first, generated, offered>>
        /\ clause' = MostGeneral /\ last' = first
        /\ clauses < MaxClauses /\ clauses' = clauses + 1
    BY <1>5, Zenon DEF StartClause
  <2>2. clauses' \in 1..MaxClauses
    BY <1>1, <2>1, SchemaAssumption
  <2>3. HasComeFrom(clause', last')
    BY <1>1, <2>1 DEF HasComeFrom
  <2>4. OfferedAreGenerated'
    BY <1>1, <2>1 DEF OfferedAreGenerated
  <2>5. IsClause(clause') /\ AreForTheHead(first') /\ (first'.known => last'.known)
    BY <1>1, <2>1, MostGeneralIsClause
  <2> QED BY <2>1, <2>2, <2>3, <2>4, <2>5 DEF EnumeratorInv
<1>6. CASE UNCHANGED vars
  <2>1. UNCHANGED <<pc, clause, last, first, generated, offered, clauses>>
    BY <1>6 DEF vars
  <2>2. OfferedAreGenerated'
    BY <1>1, <2>1 DEF OfferedAreGenerated
  <2> QED BY <2>1, <2>2 DEF EnumeratorInv
<1> QED
  BY <1>2, <1>3, <1>4, <1>5, <1>6, Zenon DEF Next

THEOREM EnumeratorInvariant == Spec => []EnumeratorInv
BY InitIsRight, EnumeratorStep, PTL DEF Spec

(* At every step the parts of a list of candidates. *)
LEMMA GeneratedLists ==
  ASSUME EnumeratorInv, pc # "enumerate"
  PROVE  \E gone : AreGenerated(clause, generated, gone)
BY DEF EnumeratorInv

(* The literals of the clause and the candidates are well-formed: each has a
   variable of the clause at an argument of its type, which the evaluator
   joins on (join_key).                                                    *)
THEOREM EnumeratorTypeCorrect == Spec => []TypeOK
<1>1. ASSUME EnumeratorInv PROVE TypeOK
  <2>1. /\ pc \in {"enumerate", "evaluate", "grow"} /\ clauses \in 1..MaxClauses
        /\ IsClause(clause) /\ (first.known => last.known)
    BY <1>1 DEF EnumeratorInv
  <2>2. clause.types \in Seq(Types) /\ \A k \in DOMAIN clause.body : WellFormed(clause, clause.body[k])
    <3>1. DOMAIN clause.body = 1..Len(clause.body)
      BY <2>1 DEF IsClause
    <3> QED BY <2>1, <3>1 DEF IsClause
  <2>3. ASSUME pc # "enumerate", NEW p \in Predicate, NEW l \in Range(generated[p])
        PROVE  l.predicate = p /\ WellFormed(clause, l)
    <3>1. PICK gone : AreGenerated(clause, generated, gone)
      BY <1>1, <2>3, GeneratedLists
    <3>2. Lists(generated[p], Listed(clause, gone, p))
      BY <3>1 DEF AreGenerated
    <3>3. l \in Listed(clause, gone, p)
      BY <2>3, <3>2, ListsRange
    <3>4. NumVariables(clause) \in Nat
      BY <2>1 DEF IsClause, NumVariables
    <3>5. l \in Literals(p, NumVariables(clause)) /\ WellFormed(clause, l)
      BY <3>3 DEF Listed
    <3> QED BY <3>4, <3>5, LiteralForm
  <2> QED BY <2>1, <2>2, <2>3, Zenon DEF TypeOK
<1> QED
  BY <1>1, EnumeratorInvariant, PTL

(* No literal is generated twice: the sequences are filled in argument by
   argument and step by step, and neither way leads to one literal again.  *)
THEOREM NoLiteralTwiceCorrect == Spec => []NoLiteralTwice
<1>1. ASSUME EnumeratorInv PROVE NoLiteralTwice
  <2> SUFFICES ASSUME pc # "enumerate", NEW p \in Predicate
               PROVE  IsInjective(generated[p])
    BY DEF NoLiteralTwice
  <2>1. PICK gone : AreGenerated(clause, generated, gone)
    BY <1>1, GeneratedLists
  <2>2. Lists(generated[p], Listed(clause, gone, p))
    BY <2>1 DEF AreGenerated
  <2> QED BY <2>2, ListsRange
<1> QED
  BY <1>1, EnumeratorInvariant, PTL

(* The candidates built up over the steps are exactly those that could be
   listed for the clause anew.                                             *)
THEOREM GeneratedCompleteCorrect == Spec => []GeneratedIsComplete
<1>1. ASSUME EnumeratorInv PROVE GeneratedIsComplete
  <2> SUFFICES ASSUME pc = "evaluate", NEW p \in Predicate
               PROVE  Range(generated[p]) = Listed(clause, last.gone, p)
    BY DEF GeneratedIsComplete
  <2>1. Lists(generated[p], Listed(clause, last.gone, p))
    BY <1>1 DEF EnumeratorInv, AreGenerated
  <2> QED BY <2>1, ListsRange
<1> QED
  BY <1>1, EnumeratorInvariant, PTL
=============================================================================
