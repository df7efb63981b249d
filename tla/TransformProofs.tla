-------------------------- MODULE TransformProofs --------------------------
(***************************************************************************)
(* What module Transform says of an exchange with a transformer, for any    *)
(* sizes of buffers and pipes, any bodies and any transformer that makes a  *)
(* number of bytes of every byte: that nothing is lost and chunks can be    *)
(* told apart, and that the exchange keeps the promise of module Relay.     *)
(***************************************************************************)
EXTENDS Transform, FiniteSetTheorems, SequenceTheorems, WellFoundedInduction,
        TLAPS

(***************************************************************************)
(* Induction over a set that is to hold every number, or every sequence.    *)
(***************************************************************************)

\* A set of numbers up to n that is not empty has a least one.
LEMMA LeastNumber ==
  ASSUME NEW n \in Nat, NEW S, S \subseteq 0..n, S # {}
  PROVE  \E k \in S : \A m \in S : k <= m
<1> DEFINE Below(k) == {m \in S : m < k}
           T == {Below(k) : k \in S}
<1>1. IsFiniteSet(S)
  <2>1. IsFiniteSet(0..n)
    BY FS_Interval
  <2>2. QED
    BY <2>1, FS_Subset
<1>2. IsWellFoundedOn(StrictSubsetOrdering(S), FiniteSubsetsOf(S))
  BY <1>1, FS_StrictSubsetOrderingWellFounded
<1>3. T \subseteq FiniteSubsetsOf(S)
  BY <1>1, FS_Subset DEF FiniteSubsetsOf
<1>4. T # {}
  OBVIOUS
<1>5. PICK U \in T : \A V \in T : ~(<<V, U>> \in StrictSubsetOrdering(S))
  <2> HIDE DEF T
  <2> QED
    BY <1>2, <1>3, <1>4, WFMin
<1>6. PICK k \in S : U = Below(k)
  BY <1>5
<1>7. ASSUME NEW m \in S, m < k PROVE FALSE
  <2>1. Below(m) \in T /\ k \in 0..n /\ m \in 0..n
    OBVIOUS
  <2>2. Below(m) \subseteq Below(k)
    <3>1. \A l \in S : l < m => l < k
      BY <1>7, <2>1
    <3>2. QED
      BY <3>1
  <2>3. m \in Below(k) /\ m \notin Below(m)
    BY <1>7, <2>1
  <2>4. <<Below(m), U>> \in StrictSubsetOrdering(S)
    BY <1>6, <2>2, <2>3 DEF StrictSubsetOrdering
  <2>5. QED
    BY <1>5, <2>1, <2>4
<1>8. \A m \in S : ~(m < k)
  BY <1>7
<1>9. \A m \in S : k <= m
  BY <1>8
<1>10. QED
  BY <1>9

\* A set that has zero, and with each number the next one, has every number.
LEMMA Induction ==
  ASSUME NEW S, 0 \in S, \A n \in Nat : n \in S => n + 1 \in S
  PROVE  \A n \in Nat : n \in S
<1> SUFFICES ASSUME NEW n \in Nat, n \notin S PROVE FALSE
  OBVIOUS
<1> DEFINE Out == {k \in 0..n : k \notin S}
<1>1. n \in Out /\ Out \subseteq 0..n
  OBVIOUS
<1>2. PICK k \in Out : \A m \in Out : k <= m
  <2> HIDE DEF Out
  <2> QED
    BY <1>1, LeastNumber
<1>3. k \in 0..n /\ k \notin S /\ k # 0
  BY <1>2
<1>4. k - 1 \in Nat /\ k - 1 \in 0..n /\ k = (k - 1) + 1
  BY <1>3
<1>5. k - 1 \in S
  BY <1>2, <1>4
<1>6. QED
  BY <1>3, <1>4, <1>5

\* A sequence that is not empty is one that is shorter, and one element.
LEMMA LastElement ==
  ASSUME NEW T, NEW s \in Seq(T), NEW n \in Nat, Len(s) = n + 1
  PROVE  /\ SubSeq(s, 1, n) \in Seq(T) /\ Len(SubSeq(s, 1, n)) = n
         /\ s[n + 1] \in T
         /\ s = Append(SubSeq(s, 1, n), s[n + 1])
<1> DEFINE f == SubSeq(s, 1, n)
<1>1. /\ f \in Seq(T) /\ Len(f) = n
      /\ \A i \in 1..n : f[i] = s[i]
  <2>1. \A i \in 1..n : s[i] \in T
    OBVIOUS
  <2>2. QED
    BY <2>1, SubSeqProperties
<1>2. s[n + 1] \in T
  OBVIOUS
<1> HIDE DEF f
<1>3. /\ Append(f, s[n + 1]) \in Seq(T) /\ Len(Append(f, s[n + 1])) = Len(s)
      /\ \A i \in 1..Len(s) : Append(f, s[n + 1])[i] = s[i]
  BY <1>1, <1>2, AppendProperties
<1>4. s = Append(f, s[n + 1])
  BY <1>3, SeqEqual
<1>5. QED
  BY <1>1, <1>2, <1>4 DEF f

\* A set that has the empty sequence, and with each sequence those that are
\* longer by one element, has every sequence.
LEMMA SequenceInduction ==
  ASSUME NEW T, NEW P, << >> \in P,
         \A s \in Seq(T), x \in T : s \in P => Append(s, x) \in P
  PROVE  \A s \in Seq(T) : s \in P
<1> DEFINE S == {n \in Nat : \A s \in Seq(T) : Len(s) = n => s \in P}
<1>1. 0 \in S
  <2>1. \A s \in Seq(T) : Len(s) = 0 => s = << >>
    OBVIOUS
  <2>2. QED
    BY <2>1
<1>2. ASSUME NEW n \in Nat, n \in S PROVE n + 1 \in S
  <2>1. ASSUME NEW s \in Seq(T), Len(s) = n + 1 PROVE s \in P
    <3>1. /\ SubSeq(s, 1, n) \in Seq(T) /\ Len(SubSeq(s, 1, n)) = n
          /\ s[n + 1] \in T
          /\ s = Append(SubSeq(s, 1, n), s[n + 1])
      BY <2>1, LastElement
    <3>2. SubSeq(s, 1, n) \in P
      BY <1>2, <3>1
    <3>3. QED
      BY <3>1, <3>2
  <2>2. QED
    BY <2>1
<1>3. \A n \in Nat : n \in S
  <2> HIDE DEF S
  <2> QED
    BY <1>1, <1>2, Induction
<1>4. QED
  BY <1>3

-----------------------------------------------------------------------------
(***************************************************************************)
(* A sequence of sequences made into one.                                   *)
(***************************************************************************)

\* f is what there is of s after each of the first n.
Joins(f, s, n) ==
  f = [i \in 1..n |-> IF i = 1 THEN s[i] ELSE f[i - 1] \o s[i]]

\* However long it is, there is something after each.
LEMMA JoinsExist ==
  ASSUME NEW s, NEW n \in Nat
  PROVE  \E f : Joins(f, s, n)
<1> DEFINE S == {m \in Nat : \E f : Joins(f, s, m)}
<1>1. 0 \in S
  <2> DEFINE f == [i \in 1..0 |-> s[i]]
  <2>1. f = [i \in 1..0 |-> IF i = 1 THEN s[i] ELSE f[i - 1] \o s[i]]
    OBVIOUS
  <2>2. QED
    BY <2>1 DEF Joins
<1>2. ASSUME NEW m \in Nat, m \in S PROVE m + 1 \in S
  <2>1. PICK g : Joins(g, s, m)
    BY <1>2
  <2> DEFINE next == IF m = 0 THEN s[1] ELSE g[m] \o s[m + 1]
             f == [i \in 1..m + 1 |-> IF i = m + 1 THEN next ELSE g[i]]
             h == [i \in 1..m + 1 |-> IF i = 1 THEN s[i] ELSE f[i - 1] \o s[i]]
  <2>2. ASSUME NEW i \in 1..m PROVE g[i] = IF i = 1 THEN s[i] ELSE g[i - 1] \o s[i]
    BY <2>1 DEF Joins
  <2>3. ASSUME NEW i \in 1..m + 1 PROVE f[i] = h[i]
    <3>1. CASE i = m + 1 /\ m = 0
      BY <3>1
    <3>2. CASE i = m + 1 /\ m # 0
      <4>1. i - 1 = m /\ i # 1 /\ m \in 1..m + 1 /\ m # m + 1
        BY <3>2
      <4>2. f[m] = g[m] /\ f[i] = g[m] \o s[m + 1]
        BY <3>2, <4>1
      <4> HIDE DEF f
      <4>3. h[i] = f[i - 1] \o s[i]
        BY <4>1
      <4>4. QED
        BY <3>2, <4>1, <4>2, <4>3
    <3>3. CASE i # m + 1
      <4>1. i \in 1..m /\ f[i] = g[i]
        BY <3>3
      <4>2. i # 1 => i - 1 \in 1..m + 1 /\ i - 1 # m + 1 /\ f[i - 1] = g[i - 1]
        BY <4>1
      <4> HIDE DEF f
      <4>3. QED
        BY <2>2, <4>1, <4>2
    <3>4. QED
      BY <3>1, <3>2, <3>3
  <2>4. f = h
    <3>1. DOMAIN f = 1..m + 1 /\ DOMAIN h = 1..m + 1
      OBVIOUS
    <3> HIDE DEF f, h
    <3>2. /\ f = [i \in 1..m + 1 |-> f[i]]
          /\ h = [i \in 1..m + 1 |-> h[i]]
      BY DEF f, h
    <3>3. QED
      BY <2>3, <3>2
  <2>5. Joins(f, s, m + 1)
    <3> HIDE DEF f
    <3> QED
      BY <2>4 DEF Joins
  <2>6. QED
    BY <2>5
<1>3. \A m \in Nat : m \in S
  <2> HIDE DEF S
  <2> QED
    BY <1>1, <1>2, Induction
<1>4. QED
  BY <1>3

\* Joining nothing.
LEMMA FlattenNone == FlattenSeq(<< >>) = << >>
  BY EmptySeq DEF FlattenSeq

\* Joining one sequence more.
LEMMA FlattenOneMore ==
  ASSUME NEW S, NEW s \in Seq(Seq(S)), NEW e \in Seq(S)
  PROVE  FlattenSeq(s) \in Seq(S) /\ FlattenSeq(Append(s, e)) = FlattenSeq(s) \o e
<1> DEFINE n == Len(s)
           t == Append(s, e)
           g == CHOOSE h : Joins(h, s, n)
           f == CHOOSE h : Joins(h, t, n + 1)
<1>1. /\ n \in Nat /\ t \in Seq(Seq(S)) /\ Len(t) = n + 1 /\ t[n + 1] = e
      /\ \A i \in 1..n : t[i] = s[i] /\ s[i] \in Seq(S)
  BY AppendProperties
<1>2. FlattenSeq(s) = IF n = 0 THEN << >> ELSE g[n]
  BY DEF FlattenSeq, Joins
<1>3. FlattenSeq(t) = f[n + 1]
  <2>1. Len(t) # 0
    BY <1>1
  <2>2. FlattenSeq(t) = (CHOOSE h : Joins(h, t, Len(t)))[Len(t)]
    BY <2>1 DEF FlattenSeq, Joins
  <2>3. QED
    BY <1>1, <2>2
<1>4. Joins(g, s, n) /\ Joins(f, t, n + 1)
  <2>1. (\E h : Joins(h, s, n)) /\ (\E h : Joins(h, t, n + 1))
    <3>1. n \in Nat /\ n + 1 \in Nat
      BY <1>1
    <3> HIDE DEF t, n
    <3>2. QED
      BY <3>1, JoinsExist
  <2> HIDE DEF t, n
  <2>2. QED
    BY <2>1
<1> HIDE DEF n, t, g, f
<1>5. /\ \A i \in 1..n : g[i] = IF i = 1 THEN s[i] ELSE g[i - 1] \o s[i]
      /\ \A i \in 1..n + 1 : f[i] = IF i = 1 THEN t[i] ELSE f[i - 1] \o t[i]
  BY <1>4 DEF Joins
<1> DEFINE P == {i \in Nat : i \in 1..n => f[i] = g[i] /\ g[i] \in Seq(S)}
<1>6. 0 \in P
  OBVIOUS
<1>7. ASSUME NEW i \in Nat, i \in P PROVE i + 1 \in P
  <2> SUFFICES ASSUME i + 1 \in 1..n PROVE f[i + 1] = g[i + 1] /\ g[i + 1] \in Seq(S)
    OBVIOUS
  <2>1. i + 1 \in 1..n + 1 /\ (i + 1) - 1 = i
    BY <1>1
  <2>2. t[i + 1] = s[i + 1] /\ s[i + 1] \in Seq(S)
    BY <1>1
  <2>3. CASE i = 0
    <3>1. i + 1 = 1
      BY <2>3
    <3>2. g[i + 1] = s[i + 1] /\ f[i + 1] = t[i + 1]
      BY <1>5, <2>1, <3>1
    <3>3. QED
      BY <2>2, <3>2
  <2>4. CASE i # 0
    <3>1. f[i] = g[i] /\ g[i] \in Seq(S)
      BY <1>1, <1>7, <2>1, <2>4
    <3>2. i + 1 # 1
      BY <2>4
    <3>3. g[i + 1] = g[i] \o s[i + 1] /\ f[i + 1] = f[i] \o t[i + 1]
      BY <1>5, <2>1, <3>2
    <3>4. QED
      BY <2>2, <3>1, <3>3, ConcatProperties
  <2>5. QED
    BY <2>3, <2>4
<1>8. \A i \in Nat : i \in P
  <2> HIDE DEF P
  <2> QED
    BY <1>6, <1>7, Induction
<1>9. CASE n = 0
  <2>1. f[n + 1] = e
    BY <1>1, <1>5, <1>9
  <2>2. QED
    BY <1>2, <1>3, <1>9, <2>1, ConcatEmptySeq, EmptySeq DEF t
<1>10. CASE n # 0
  <2>1. n \in 1..n /\ n + 1 \in 1..n + 1 /\ (n + 1) - 1 = n /\ n + 1 # 1
    BY <1>1, <1>10
  <2>2. f[n] = g[n] /\ g[n] \in Seq(S)
    BY <1>1, <1>8, <2>1
  <2>3. f[n + 1] = f[n] \o e
    BY <1>1, <1>5, <2>1
  <2>4. QED
    BY <1>2, <1>3, <1>10, <2>2, <2>3 DEF t
<1>11. QED
  BY <1>9, <1>10

-----------------------------------------------------------------------------
(***************************************************************************)
(* What becomes of a stream when every element becomes a sequence.          *)
(***************************************************************************)

Each(s, f) == FlattenSeq([i \in DOMAIN s |-> f[s[i]]])

Maps(T, S) == [T -> Seq(S)]

\* No stream at all.
LEMMA EachNone == ASSUME NEW f PROVE Each(<< >>, f) = << >>
<1>1. [i \in DOMAIN << >> |-> f[<< >>[i]]] = << >>
  OBVIOUS
<1>2. QED
  BY <1>1, FlattenNone DEF Each

\* A stream that is longer by one element.
LEMMA EachOneMore ==
  ASSUME NEW T, NEW S, NEW f \in Maps(T, S), NEW s \in Seq(T), NEW x \in T
  PROVE  /\ Each(s, f) \in Seq(S) /\ f[x] \in Seq(S)
         /\ Each(Append(s, x), f) = Each(s, f) \o f[x]
<1> DEFINE m == [i \in DOMAIN s |-> f[s[i]]]
           a == Append(s, x)
           n == [i \in DOMAIN a |-> f[a[i]]]
<1>1. /\ Len(s) \in Nat /\ DOMAIN s = 1..Len(s) /\ \A i \in 1..Len(s) : s[i] \in T
      /\ f[x] \in Seq(S) /\ \A y \in T : f[y] \in Seq(S)
  BY DEF Maps
<1>2. /\ a \in Seq(T) /\ Len(a) = Len(s) + 1 /\ DOMAIN a = 1..Len(s) + 1
      /\ a[Len(s) + 1] = x /\ \A i \in 1..Len(s) : a[i] = s[i]
  BY AppendProperties
<1>3. m \in Seq(Seq(S)) /\ Len(m) = Len(s) /\ \A i \in 1..Len(s) : m[i] = f[s[i]]
  <2>1. m \in [1..Len(s) -> Seq(S)]
    BY <1>1
  <2>2. QED
    BY <1>1, <2>1
<1>4. n \in Seq(Seq(S)) /\ Len(n) = Len(s) + 1 /\ \A i \in 1..Len(s) + 1 : n[i] = f[a[i]]
  <2> HIDE DEF a
  <2>1. n \in [1..Len(s) + 1 -> Seq(S)]
    BY <1>1, <1>2
  <2>2. QED
    BY <1>1, <1>2, <2>1
<1> HIDE DEF m, n, a
<1>5. n = Append(m, f[x])
  <2>1. /\ Append(m, f[x]) \in Seq(Seq(S)) /\ Len(Append(m, f[x])) = Len(s) + 1
        /\ Append(m, f[x])[Len(s) + 1] = f[x]
        /\ \A i \in 1..Len(s) : Append(m, f[x])[i] = m[i]
    BY <1>1, <1>3, AppendProperties
  <2>2. ASSUME NEW i \in 1..Len(s) + 1 PROVE n[i] = Append(m, f[x])[i]
    <3>1. CASE i \in 1..Len(s)
      BY <1>2, <1>3, <1>4, <2>1, <3>1, ZenonT(40)
    <3>2. CASE i = Len(s) + 1
      <4>1. n[i] = f[a[i]]
        BY <1>4
      <4>2. a[i] = x
        BY <1>2, <3>2
      <4>3. Append(m, f[x])[i] = f[x]
        BY <2>1, <3>2
      <4>4. QED
        BY <4>1, <4>2, <4>3
    <3>3. Len(s) \in Nat
      BY <1>1
    <3>4. i \in 1..Len(s) \/ i = Len(s) + 1
      BY <3>3
    <3>5. QED
      BY <3>1, <3>2, <3>4
  <2>3. QED
    BY <1>4, <2>1, <2>2, SeqEqual
<1>6. Each(s, f) = FlattenSeq(m) /\ Each(Append(s, x), f) = FlattenSeq(n)
  BY DEF Each, m, n, a
<1>7. QED
  BY <1>1, <1>3, <1>5, <1>6, FlattenOneMore

\* Two streams one behind the other.
LEMMA EachConcat ==
  ASSUME NEW T, NEW S, NEW f \in Maps(T, S), NEW s \in Seq(T), NEW t \in Seq(T)
  PROVE  /\ Each(t, f) \in Seq(S)
         /\ Each(s \o t, f) = Each(s, f) \o Each(t, f)
<1> DEFINE P == {u \in Seq(T) : /\ Each(u, f) \in Seq(S)
                                /\ Each(s \o u, f) = Each(s, f) \o Each(u, f)}
<1>0. \A u \in Seq(T), x \in T :
        /\ Each(u, f) \in Seq(S) /\ f[x] \in Seq(S)
        /\ Each(Append(u, x), f) = Each(u, f) \o f[x]
  BY EachOneMore
<1>1. << >> \in P
  <2>1. s \o << >> = s /\ << >> \in Seq(T) /\ << >> \in Seq(S)
    BY ConcatEmptySeq, EmptySeq
  <2>2. Each(<< >>, f) = << >> /\ Each(s, f) \o << >> = Each(s, f)
    <3>1. Each(s, f) \in Seq(S) \/ T = {}
      BY <1>0
    <3>2. T = {} => s = << >>
      OBVIOUS
    <3>3. QED
      BY <2>1, <3>1, <3>2, EachNone, ConcatEmptySeq
  <2>3. QED
    BY <2>1, <2>2
<1>2. ASSUME NEW u \in Seq(T), NEW x \in T, u \in P PROVE Append(u, x) \in P
  <2>1. Append(u, x) \in Seq(T) /\ s \o u \in Seq(T)
    BY ConcatProperties, AppendProperties
  <2>2. /\ Each(u, f) \in Seq(S) /\ Each(s, f) \in Seq(S) /\ f[x] \in Seq(S)
        /\ Each(Append(u, x), f) = Each(u, f) \o f[x]
        /\ Each(Append(s \o u, x), f) = Each(s \o u, f) \o f[x]
    <3> DEFINE v == s \o u
    <3>1. v \in Seq(T)
      BY <2>1
    <3> HIDE DEF v
    <3>2. Each(Append(v, x), f) = Each(v, f) \o f[x]
      BY <1>0, <3>1
    <3>3. /\ Each(u, f) \in Seq(S) /\ Each(s, f) \in Seq(S) /\ f[x] \in Seq(S)
          /\ Each(Append(u, x), f) = Each(u, f) \o f[x]
      BY <1>0
    <3>4. QED
      BY <3>2, <3>3 DEF v
  <2>3. s \o Append(u, x) = Append(s \o u, x)
    OBVIOUS
  <2>4. Each(s \o Append(u, x), f) = (Each(s, f) \o Each(u, f)) \o f[x]
    BY <1>2, <2>2, <2>3
  <2>5. \A p, q, r \in Seq(S) : (p \o q) \o r = p \o (q \o r)
    BY ConcatAssociative, SMTT(40)
  <2>6. Each(Append(u, x), f) \in Seq(S)
    BY <2>2, ConcatProperties
  <2>7. Each(s \o Append(u, x), f) = Each(s, f) \o Each(Append(u, x), f)
    <3>1. (Each(s, f) \o Each(u, f)) \o f[x] = Each(s, f) \o (Each(u, f) \o f[x])
      <4> DEFINE p == Each(s, f)  q == Each(u, f)  r == f[x]
      <4>1. p \in Seq(S) /\ q \in Seq(S) /\ r \in Seq(S)
        BY <2>2
      <4> HIDE DEF p, q, r
      <4>2. (p \o q) \o r = p \o (q \o r)
        BY <2>5, <4>1, Zenon
      <4>3. QED
        BY <4>2 DEF p, q, r
    <3>2. QED
      BY <2>2, <2>4, <3>1
  <2>8. QED
    BY <2>1, <2>6, <2>7
<1>3. \A u \in Seq(T) : u \in P
  <2> HIDE DEF P
  <2> QED
    BY <1>1, <1>2, SequenceInduction
<1>4. QED
  BY <1>3

\* The same of all streams that one function changes.
LEMMA EachPair ==
  ASSUME NEW T, NEW S, NEW f \in Maps(T, S)
  PROVE  \A s \in Seq(T), t \in Seq(T) :
           /\ Each(t, f) \in Seq(S)
           /\ Each(s \o t, f) = Each(s, f) \o Each(t, f)
  BY EachConcat

\* A stream of one element.
LEMMA EachOne ==
  ASSUME NEW T, NEW S, NEW f \in Maps(T, S), NEW x \in T
  PROVE  <<x>> \in Seq(T) /\ f[x] \in Seq(S) /\ Each(<<x>>, f) = f[x]
<1>1. << >> \in Seq(T) /\ <<x>> = Append(<< >>, x) /\ <<x>> \in Seq(T)
  OBVIOUS
<1>2. f[x] \in Seq(S) /\ Each(Append(<< >>, x), f) = Each(<< >>, f) \o f[x]
  <2> DEFINE e == << >>
  <2>1. e \in Seq(T)
    OBVIOUS
  <2> HIDE DEF e
  <2>2. f[x] \in Seq(S) /\ Each(Append(e, x), f) = Each(e, f) \o f[x]
    BY <2>1, EachOneMore
  <2>3. QED
    BY <2>2 DEF e
<1>3. << >> \o f[x] = f[x]
  BY <1>2, ConcatEmptySeq
<1>4. QED
  BY <1>1, <1>2, <1>3, EachNone

\* A stream that stays as it is.
LEMMA EachSame ==
  ASSUME NEW T, NEW S, NEW f \in Maps(T, S), NEW U, U \subseteq T,
         \A x \in U : f[x] = <<x>>, NEW s \in Seq(U)
  PROVE  Each(s, f) = s
<1> DEFINE P == {u \in Seq(U) : Each(u, f) = u}
<1>1. << >> \in P
  BY EachNone, EmptySeq
<1>2. ASSUME NEW u \in Seq(U), NEW x \in U, u \in P PROVE Append(u, x) \in P
  <2>1. Append(u, x) \in Seq(U) /\ Append(u, x) = u \o <<x>>
    OBVIOUS
  <2>2. u \in Seq(T) /\ x \in T
    BY SeqMonotonic
  <2>3. Each(Append(u, x), f) = Each(u, f) \o f[x]
    BY <2>2, EachOneMore
  <2>4. QED
    BY <1>2, <2>1, <2>3
<1>3. \A u \in Seq(U) : u \in P
  <2> HIDE DEF P
  <2> QED
    BY <1>1, <1>2, SequenceInduction
<1>4. QED
  BY <1>3

\* A stream of which nothing stays.
LEMMA EachVoid ==
  ASSUME NEW T, NEW S, NEW f \in Maps(T, S), NEW U, U \subseteq T,
         \A x \in U : f[x] = << >>, NEW s \in Seq(U)
  PROVE  Each(s, f) = << >>
<1> DEFINE P == {u \in Seq(U) : Each(u, f) = << >>}
<1>1. << >> \in P
  BY EachNone, EmptySeq
<1>2. ASSUME NEW u \in Seq(U), NEW x \in U, u \in P PROVE Append(u, x) \in P
  <2>1. Append(u, x) \in Seq(U)
    OBVIOUS
  <2>2. u \in Seq(T) /\ x \in T
    BY SeqMonotonic
  <2>3. Each(Append(u, x), f) = Each(u, f) \o f[x]
    BY <2>2, EachOneMore
  <2>4. Each(Append(u, x), f) = << >> \o << >>
    BY <1>2, <2>3
  <2>5. << >> \o << >> = << >>
    BY ConcatEmptySeq, EmptySeq
  <2>6. QED
    BY <2>1, <2>4, <2>5
<1>3. \A u \in Seq(U) : u \in P
  <2> HIDE DEF P
  <2> QED
    BY <1>1, <1>2, SequenceInduction
<1>4. QED
  BY <1>3

\* A stream that is changed twice is one that is changed once.
LEMMA EachTwice ==
  ASSUME NEW T, NEW S, NEW U, NEW f \in Maps(T, S), NEW g \in Maps(S, U),
         NEW h \in Maps(T, U), \A x \in T : Each(f[x], g) = h[x], NEW s \in Seq(T)
  PROVE  Each(s, f) \in Seq(S) /\ Each(Each(s, f), g) = Each(s, h)
<1> DEFINE P == {u \in Seq(T) : /\ Each(u, f) \in Seq(S)
                                /\ Each(Each(u, f), g) = Each(u, h)}
<1>0. \A v, w \in Seq(S) : Each(v \o w, g) = Each(v, g) \o Each(w, g)
  BY EachConcat, SMTT(40)
<1>1. << >> \in P
  BY EachNone, EmptySeq
<1>2. ASSUME NEW u \in Seq(T), NEW x \in T, u \in P PROVE Append(u, x) \in P
  <2>1. Append(u, x) \in Seq(T)
    OBVIOUS
  <2>2. f[x] \in Seq(S) /\ Each(Append(u, x), f) = Each(u, f) \o f[x]
    BY EachOneMore
  <2>3. Each(Append(u, x), h) = Each(u, h) \o h[x]
    BY EachOneMore
  <2> DEFINE v == Each(u, f)  w == f[x]
  <2>4. v \in Seq(S) /\ w \in Seq(S)
    BY <1>2, <2>2
  <2> HIDE DEF v, w
  <2>5. Each(v \o w, g) = Each(v, g) \o Each(w, g)
    BY <1>0, <2>4
  <2>6. Each(Each(Append(u, x), f), g) = Each(Append(u, x), h)
    BY <1>2, <2>2, <2>3, <2>5 DEF v, w
  <2>7. v \o w \in Seq(S)
    BY <2>4, ConcatProperties
  <2>8. QED
    BY <2>1, <2>2, <2>6, <2>7 DEF v, w
<1>3. \A u \in Seq(T) : u \in P
  <2> HIDE DEF P
  <2> QED
    BY <1>1, <1>2, SequenceInduction
<1>4. QED
  BY <1>3

-----------------------------------------------------------------------------
(***************************************************************************)
(* The bytes of a stream, a stream without the error reply, and what the    *)
(* child makes of it.                                                       *)
(***************************************************************************)

ByteToken == {"byte"} \X Nat
OwnToken == Token \ {ErrorReply}

\* What becomes of an element in each of the three.
Picked == [x \in Token |-> IF x[1] = "byte" THEN <<x>> ELSE << >>]
Spoken == [x \in Token |-> IF x = ErrorReply THEN << >> ELSE <<x>>]
Times(k) == [x \in Token |-> [i \in 1..k |-> x]]

\* Transformed, of any number of bytes for one.
Makes(k, s) == FlattenSeq([i \in DOMAIN s |-> [j \in 1..k |-> s[i]]])

\* What the elements are.
LEMMA Elements ==
  /\ ByteToken \subseteq Token /\ ByteToken \subseteq OwnToken /\ OwnToken \subseteq Token
  /\ ErrorReply \in Token /\ NL \in OwnToken /\ Last0 \in OwnToken
  /\ \A n \in Nat : Byte(n) \in ByteToken /\ Size(n) \in OwnToken
  /\ \A x \in Token : x[1] = "byte" <=> x \in ByteToken
  /\ \A n \in Nat : Size(n) \notin ByteToken
  /\ {ErrorReply, NL, Last0} \intersect ByteToken = {}
  BY DEF ByteToken, OwnToken, Token, ErrorReply, NL, Last0, Byte, Size

\* The three are cases of Each.
LEMMA Cases ==
  /\ Picked \in Maps(Token, ByteToken) /\ Picked \in Maps(Token, Token)
  /\ Spoken \in Maps(Token, OwnToken) /\ Spoken \in Maps(Token, Token)
  /\ \A k \in Nat : Times(k) \in Maps(Token, Token)
  /\ \A s \in Seq(Token) : Payload(s) = Each(s, Picked) /\ Answered(s) = Each(s, Spoken)
  /\ \A s \in Seq(Token), k \in Nat : Makes(k, s) = Each(s, Times(k))
<1>1. Picked \in Maps(Token, ByteToken) /\ Picked \in Maps(Token, Token)
  <2>1. ASSUME NEW x \in Token PROVE Picked[x] \in Seq(ByteToken) /\ Picked[x] \in Seq(Token)
    BY Elements DEF Picked
  <2>2. DOMAIN Picked = Token /\ Picked = [x \in Token |-> Picked[x]]
    BY DEF Picked
  <2>3. QED
    BY <2>1, <2>2 DEF Maps
<1>2. Spoken \in Maps(Token, OwnToken) /\ Spoken \in Maps(Token, Token)
  <2>1. ASSUME NEW x \in Token PROVE Spoken[x] \in Seq(OwnToken) /\ Spoken[x] \in Seq(Token)
    <3>1. CASE x = ErrorReply
      <4>1. Spoken[x] = << >>
        BY <3>1 DEF Spoken
      <4>2. QED
        BY <4>1, EmptySeq
    <3>2. CASE x # ErrorReply
      <4>1. Spoken[x] = <<x>> /\ x \in OwnToken
        BY <3>2 DEF Spoken, OwnToken
      <4>2. QED
        BY <4>1
    <3>3. QED
      BY <3>1, <3>2
  <2>2. DOMAIN Spoken = Token /\ Spoken = [x \in Token |-> Spoken[x]]
    BY DEF Spoken
  <2>3. QED
    BY <2>1, <2>2 DEF Maps
<1>3. ASSUME NEW k \in Nat PROVE Times(k) \in Maps(Token, Token)
  <2>1. ASSUME NEW x \in Token PROVE [i \in 1..k |-> x] \in Seq(Token)
    OBVIOUS
  <2>2. QED
    BY <2>1 DEF Maps, Times
<1>4. ASSUME NEW s \in Seq(Token)
      PROVE  Payload(s) = Each(s, Picked) /\ Answered(s) = Each(s, Spoken)
  <2>1. \A i \in DOMAIN s : s[i] \in Token
    OBVIOUS
  <2>2. [i \in DOMAIN s |-> IF s[i][1] = "byte" THEN <<s[i]>> ELSE << >>]
          = [i \in DOMAIN s |-> Picked[s[i]]]
    BY <2>1 DEF Picked
  <2>3. [i \in DOMAIN s |-> IF s[i] = ErrorReply THEN << >> ELSE <<s[i]>>]
          = [i \in DOMAIN s |-> Spoken[s[i]]]
    BY <2>1 DEF Spoken
  <2>4. QED
    BY <2>2, <2>3 DEF Payload, Answered, Each
<1>5. ASSUME NEW s \in Seq(Token), NEW k \in Nat PROVE Makes(k, s) = Each(s, Times(k))
  <2>1. \A i \in DOMAIN s : s[i] \in Token
    OBVIOUS
  <2>2. [i \in DOMAIN s |-> [j \in 1..k |-> s[i]]] = [i \in DOMAIN s |-> Times(k)[s[i]]]
    BY <2>1 DEF Times
  <2>3. QED
    BY <2>2 DEF Makes, Each
<1>6. QED
  BY <1>1, <1>2, <1>3, <1>4, <1>5

\* The bytes of a stream.
LEMMA Payloads ==
  /\ Payload(<< >>) = << >>
  /\ \A s \in Seq(Token) : Payload(s) \in Seq(ByteToken) /\ Payload(s) \in Seq(Token)
  /\ \A s, t \in Seq(Token) : Payload(s \o t) = Payload(s) \o Payload(t)
  /\ \A s \in Seq(ByteToken) : Payload(s) = s
  /\ \A s \in Seq(Token \ ByteToken) : Payload(s) = << >>
<1>1. Picked \in Maps(Token, ByteToken)
  BY Cases
<1>2. Picked \in Maps(Token, Token)
  BY Cases
<1>3. \A s \in Seq(Token) : Payload(s) = Each(s, Picked)
  BY Cases
<1>4. \A x \in Token : Picked[x] = IF x \in ByteToken THEN <<x>> ELSE << >>
  BY Elements DEF Picked
<1>5. ByteToken \subseteq Token /\ Token \ ByteToken \subseteq Token
  BY Elements
<1>6. Payload(<< >>) = << >>
  <2>1. Payload(<< >>) = Each(<< >>, Picked)
    BY <1>3, EmptySeq
  <2>2. QED
    BY <2>1, EachNone
<1>7. \A s \in Seq(Token), t \in Seq(Token) :
        /\ Each(t, Picked) \in Seq(ByteToken)
        /\ Each(s \o t, Picked) = Each(s, Picked) \o Each(t, Picked)
  BY <1>1, EachPair
<1>8. \A s \in Seq(Token), t \in Seq(Token) : Payload(s \o t) = Payload(s) \o Payload(t)
  <2>1. \A s, t \in Seq(Token) : s \o t \in Seq(Token)
    BY ConcatProperties
  <2>2. QED
    BY <1>3, <1>7, <2>1, Zenon
<1>9. \A s \in Seq(Token) : Payload(s) \in Seq(ByteToken) /\ Payload(s) \in Seq(Token)
  <2>1. Seq(ByteToken) \subseteq Seq(Token)
    BY <1>5, SeqMonotonic
  <2>2. QED
    BY <1>3, <1>7, <2>1, Zenon
<1>10. ASSUME NEW s \in Seq(ByteToken) PROVE Payload(s) = s
  <2>1. \A x \in ByteToken : Picked[x] = <<x>>
    BY <1>4, <1>5
  <2>2. Each(s, Picked) = s
    BY <1>2, <1>5, <2>1, EachSame
  <2>3. s \in Seq(Token)
    BY <1>5, SeqMonotonic
  <2>4. QED
    BY <1>3, <2>2, <2>3
<1>11. ASSUME NEW s \in Seq(Token \ ByteToken) PROVE Payload(s) = << >>
  <2>1. \A x \in Token \ ByteToken : Picked[x] = << >>
    BY <1>4, <1>5
  <2>2. Each(s, Picked) = << >>
    BY <1>2, <1>5, <2>1, EachVoid
  <2>3. s \in Seq(Token)
    BY <1>5, SeqMonotonic
  <2>4. QED
    BY <1>3, <2>2, <2>3
<1>12. QED
  BY <1>6, <1>8, <1>9, <1>10, <1>11, Zenon

\* A stream without the error reply.
LEMMA Answers ==
  /\ Answered(<< >>) = << >> /\ Answered(<<ErrorReply>>) = << >>
  /\ \A s \in Seq(Token) : Answered(s) \in Seq(OwnToken) /\ Answered(s) \in Seq(Token)
  /\ \A s, t \in Seq(Token) : Answered(s \o t) = Answered(s) \o Answered(t)
  /\ \A s \in Seq(OwnToken) : Answered(s) = s
  /\ \A s \in Seq(Token) : Payload(Answered(s)) = Payload(s)
<1>1. Spoken \in Maps(Token, OwnToken)
  BY Cases
<1>2. Spoken \in Maps(Token, Token)
  BY Cases
<1>3. \A s \in Seq(Token) : Answered(s) = Each(s, Spoken)
  BY Cases
<1>4. \A x \in Token : Spoken[x] = IF x \in OwnToken THEN <<x>> ELSE << >>
  BY DEF Spoken, OwnToken
<1>5. OwnToken \subseteq Token /\ ErrorReply \in Token /\ ErrorReply \notin OwnToken
  BY Elements DEF OwnToken
<1>6. Answered(<< >>) = << >>
  <2>1. Answered(<< >>) = Each(<< >>, Spoken)
    BY <1>3, EmptySeq
  <2>2. QED
    BY <2>1, EachNone
<1>7. Answered(<<ErrorReply>>) = << >>
  <2>1. /\ <<ErrorReply>> \in Seq(Token)
        /\ Each(<<ErrorReply>>, Spoken) = Spoken[ErrorReply]
    <3> DEFINE x == ErrorReply
    <3>1. x \in Token
      BY <1>5
    <3> HIDE DEF x
    <3>2. <<x>> \in Seq(Token) /\ Each(<<x>>, Spoken) = Spoken[x]
      BY <1>2, <3>1, EachOne
    <3>3. QED
      BY <3>2 DEF x
  <2>2. Spoken[ErrorReply] = << >>
    BY <1>4, <1>5, Zenon
  <2>3. QED
    BY <1>3, <2>1, <2>2
<1>8. \A s \in Seq(Token), t \in Seq(Token) :
        /\ Each(t, Spoken) \in Seq(OwnToken)
        /\ Each(s \o t, Spoken) = Each(s, Spoken) \o Each(t, Spoken)
  BY <1>1, EachPair
<1>9. \A s \in Seq(Token), t \in Seq(Token) : Answered(s \o t) = Answered(s) \o Answered(t)
  <2>1. \A s, t \in Seq(Token) : s \o t \in Seq(Token)
    BY ConcatProperties
  <2>2. QED
    BY <1>3, <1>8, <2>1, Zenon
<1>10. \A s \in Seq(Token) : Answered(s) \in Seq(OwnToken) /\ Answered(s) \in Seq(Token)
  <2>1. Seq(OwnToken) \subseteq Seq(Token)
    BY <1>5, SeqMonotonic
  <2>2. QED
    BY <1>3, <1>8, <2>1, Zenon
<1>11. ASSUME NEW s \in Seq(OwnToken) PROVE Answered(s) = s
  <2>1. \A x \in OwnToken : Spoken[x] = <<x>>
    BY <1>4, <1>5
  <2>2. Each(s, Spoken) = s
    BY <1>2, <1>5, <2>1, EachSame
  <2>3. s \in Seq(Token)
    BY <1>5, SeqMonotonic
  <2>4. QED
    BY <1>3, <2>2, <2>3
<1>12. ASSUME NEW s \in Seq(Token) PROVE Payload(Answered(s)) = Payload(s)
  <2>1. ASSUME NEW x \in Token PROVE Each(Spoken[x], Picked) = Picked[x]
    <3>1. CASE x = ErrorReply
      <4>1. Picked[x] = << >>
        BY <3>1, Elements DEF Picked
      <4>2. Spoken[x] = << >>
        BY <1>4, <1>5, <3>1
      <4>3. QED
        BY <4>1, <4>2, EachNone
    <3>2. CASE x # ErrorReply
      <4>1. Spoken[x] = <<x>>
        BY <1>4, <3>2 DEF OwnToken
      <4>2. QED
        BY <4>1, Cases, EachOne
    <3>3. QED
      BY <3>1, <3>2
  <2>2. Each(Each(s, Spoken), Picked) = Each(s, Picked) /\ Each(s, Spoken) \in Seq(Token)
    BY <1>2, <2>1, Cases, EachTwice, SMTT(40)
  <2>3. QED
    BY <1>3, <2>2, Cases
<1>13. QED
  BY <1>6, <1>7, <1>9, <1>10, <1>11, <1>12, Zenon

\* What the child makes of a stream.
LEMMA Makings ==
  ASSUME NEW k \in Nat
  PROVE  /\ Makes(k, << >>) = << >>
         /\ \A s \in Seq(Token) : Makes(k, s) \in Seq(Token)
         /\ \A s, t \in Seq(Token) : Makes(k, s \o t) = Makes(k, s) \o Makes(k, t)
         /\ \A x \in Token : Makes(k, <<x>>) = [i \in 1..k |-> x]
<1>1. Times(k) \in Maps(Token, Token)
  BY Cases
<1>2. \A s \in Seq(Token) : Makes(k, s) = Each(s, Times(k))
  BY Cases
<1>3. Makes(k, << >>) = << >>
  <2>1. Makes(k, << >>) = Each(<< >>, Times(k))
    BY <1>2, EmptySeq
  <2>2. QED
    BY <2>1, EachNone
<1>4. ASSUME NEW s \in Seq(Token), NEW t \in Seq(Token)
      PROVE  /\ Makes(k, t) \in Seq(Token)
             /\ Makes(k, s \o t) = Makes(k, s) \o Makes(k, t)
  <2>1. ASSUME NEW S, NEW f \in Maps(Token, S)
        PROVE  /\ Each(t, f) \in Seq(S)
               /\ Each(s \o t, f) = Each(s, f) \o Each(t, f)
    BY EachConcat
  <2>2. /\ Each(t, Times(k)) \in Seq(Token)
        /\ Each(s \o t, Times(k)) = Each(s, Times(k)) \o Each(t, Times(k))
    BY <1>1, <2>1, Zenon
  <2>3. s \o t \in Seq(Token)
    BY ConcatProperties
  <2>4. QED
    BY <1>2, <2>2, <2>3, Zenon
<1>5. ASSUME NEW x \in Token PROVE Makes(k, <<x>>) = [i \in 1..k |-> x]
  <2>1. <<x>> \in Seq(Token) /\ Each(<<x>>, Times(k)) = Times(k)[x]
    BY <1>1, EachOne
  <2>2. Times(k)[x] = [i \in 1..k |-> x]
    BY DEF Times
  <2>3. QED
    BY <1>2, <2>1, <2>2
<1>6. \A s, t \in Seq(Token) : s \o t \in Seq(Token)
  BY ConcatProperties
<1>7. QED
  BY <1>2, <1>3, <1>4, <1>5, <1>6, Zenon

-----------------------------------------------------------------------------
(***************************************************************************)
(* The inductive invariant, part by part.                                   *)
(***************************************************************************)

\* The exchange is one of those given.
BodyType ==
  /\ body.stream \in Seq(Token) /\ body.declared \in Nat
  /\ body.chunked \in BOOLEAN /\ body.close \in BOOLEAN
  /\ IF body.chunked THEN Framed(body.stream)
     ELSE \A i \in DOMAIN body.stream : body.stream[i] \in ByteToken
  /\ factor \in Nat \ {0} /\ fault \subseteq FaultKind

\* What passes through the child is bytes, and the client has no error reply.
StreamType ==
  /\ in \in Seq(ByteToken) /\ out \in Seq(ByteToken)
  /\ held \in Seq(ByteToken) /\ writing \in Seq(ByteToken)
  /\ toClient \in Seq(OwnToken)

\* Who can be where.
Control ==
  /\ infd = "none" => /\ outfd = "none" /\ loop = "select"
                      /\ interest \intersect {"infd", "outfd"} = {}
  /\ infd = "closed" => loop = "select" /\ ~due /\ tb.bytes = << >>
  /\ "infd" \in interest => infd = "open"
  /\ "outfd" \in interest => outfd = "open"
  /\ infd # "none" => outfd # "none"
  /\ due => tb.bytes = << >> /\ loop = "select" /\ "origin" \notin interest
  /\ ~due => ob.bytes = << >>
  /\ loop = "select" => writing = << >>

\* What the child does, and when transDone can be true.
ChildState ==
  /\ child \in {"writing", "ending"} => held # << >>
  /\ child = "ending" => infd = "closed" /\ in = << >>
  /\ Open /\ child = "gone" =>
       \/ "child" \in fault \/ outfd = "cut"
       \/ infd = "closed" /\ held = << >> /\ in = << >>
  /\ "trans" \in done =>
       \/ body.close \/ "idle" \in fault
       \/ Transforming /\ child = "gone" /\ out = << >>

\* How much of the stream is behind the loop: tb and buff hold what follows.
Position == got - Len(tb.bytes) - Len(ob.bytes)

\* tb and buff hold what was received last, and length says what follows.
Placed ==
  Open /\ infd = "open" =>
    /\ Position >= 0
    /\ tb.bytes \o ob.bytes = SubSeq(body.stream, Position + 1, got)
    /\ IF body.chunked
       THEN \A j \in Position + 1 .. Position + length :
              j \in DOMAIN body.stream => body.stream[j] \in ByteToken
       ELSE Position + length = body.declared

\* The pipe to the child is closed behind the last byte of the body.
Ended ==
  Open /\ infd = "closed" =>
    /\ Sized => \A j \in got + 1 .. Len(body.stream) : body.stream[j] \notin ByteToken
    /\ ~body.chunked /\ Sized => got = Len(body.stream)
    /\ body.chunked /\ body.stream # << >> /\ Last(body.stream) = Last0 =>
         got = Len(body.stream)

\* The child has died, or nobody reads what it writes.
Dead == (child = "gone" /\ "child" \in fault) \/ outfd = "cut"

\* What is behind the child, what is before it, and what that must be.
Given == Payload(toClient \o rb.bytes) \o out
Coming == held \o Makes(factor, in \o Payload(Unwritten \o ob.bytes))
Owed == Makes(factor, Payload(SubSeq(body.stream, 1, got)))

\* What is before a child that has died or is cut off does not come any more.
Expected == IF Dead THEN << >> ELSE Coming

\* Nothing gets lost but what a dead child or one that is cut off does not pass
\* on, and what a server sends beyond the length it has declared.
InOrder ==
  Open /\ Transforming =>
    \E lost \in Seq(Token) :
      /\ (Given \o Expected) \o lost = Owed
      /\ lost # << >> => Dead \/ (infd = "closed" /\ ~Sized)

\* Without a transformer the bytes pass as they are.
Direct ==
  Open /\ ~Transforming =>
    Payload(toClient \o rb.bytes \o ob.bytes)
      = Payload(SubSeq(body.stream, 1, got))

IInv ==
  /\ TypeOK /\ BodyType /\ StreamType /\ Control /\ ChildState /\ Placed
  /\ Ended /\ InOrder /\ Direct /\ WellFramed /\ LostOnlyThen

\* The types of what is not data.
ControlType ==
  /\ cst \in {"COPY"} \union Closed
  /\ ost \in {"COPY", "RESPONSE_ERROR", "closed"}
  /\ infd \in {"none", "open", "closed"}
  /\ outfd \in {"none", "open", "closed", "cut"}
  /\ interest \subseteq {"client", "origin", "infd", "outfd"}
  /\ due \in BOOLEAN /\ done \subseteq AllDone
  /\ loop \in {"select", "write"}
  /\ child \in {"reading", "writing", "ending", "gone"}
  /\ crash \in {"none", "freed", "sigpipe"}

\* ... of the buffers, and of what comes and goes.
BuffersType ==
  /\ ob \in Queue /\ tb \in Queue /\ rb \in Queue
  /\ Room(ob) >= 0 /\ Room(tb) >= 0 /\ Room(rb) >= 0
  /\ length \in Nat /\ body_length \in Int /\ got \in 0..Len(body.stream)

PipesType == Len(in) <= PipeSize /\ Len(out) <= PipeSize

\* Steps that leave the buffers, the pipes and the child alone.
Idle ==
  \/ OriginCopyREnds \/ OriginCopyRFreed \/ TransformDrained
  \/ TransformNoRoom \/ PipeBreaks \/ UNCHANGED vars
  \/ ClientDrained /\ ~Finished

\* Steps in which the client's exchange ends.
Quits == ClientCopyRFails \/ (ClientDrained /\ Finished)

\* Every step there is.
LEMMA Steps ==
  ASSUME [Next]_vars
  PROVE  \/ Idle \/ Quits
         \/ FlushBody \/ (\E n \in 0..Capacity : OriginCopyR(n))
         \/ TransformInEnds \/ TransformWrites \/ WriteReturns \/ PipeTakes
         \/ TransformCopyR \/ TransformOutCut \/ TransformOutEnds
         \/ ChildRead \/ ChildEof \/ ChildWrite \/ ChildBreaks \/ ChildDies
         \/ (\E n \in 1..Capacity : ClientCopyW(n)) \/ ClientTimeout
<1>1. OriginReads =>
        Idle \/ \E n \in 0..Capacity : OriginCopyR(n)
  <2>1. 0 \in 0..Capacity /\ \A n \in 1..Capacity : n \in 0..Capacity
    BY CapacityAssumption
  <2>2. QED
    BY <2>1 DEF OriginReads, OriginReadsMore, Idle
<1>2. QED
  BY <1>1 DEF Next, InWrites, OutReads, ClientWrites, Proceeds, ChildProceeds,
              Idle, Quits

\* What idle steps leave alone.
LEMMA IdleStep ==
  ASSUME Idle
  PROVE  /\ UNCHANGED <<body, factor, fault, cst, infd, outfd, due, ob, tb, rb, length,
                        body_length, got, writing, loop, in, out, child, held, toClient>>
         /\ crash' = "none" => crash = "none"
         /\ interest' \subseteq interest \union {"client"}
         /\ "trans" \in done' => "trans" \in done \/ body.close
<1> USE DEF exchange, machines, ends, buffers, process, call
<1>1. CASE OriginCopyREnds
  BY <1>1 DEF OriginCopyREnds, Handle, OriginClosed
<1>2. CASE OriginCopyRFreed \/ PipeBreaks
  BY <1>2 DEF OriginCopyRFreed, PipeBreaks, Handle, Writing, Open
<1>3. CASE TransformDrained
  BY <1>3 DEF TransformDrained, InWritable, Handle
<1>4. CASE TransformNoRoom
  BY <1>4 DEF TransformNoRoom, OutReadable, Handle
<1>5. CASE UNCHANGED vars
  BY <1>5 DEF vars
<1>6. CASE ClientDrained /\ ~Finished
  BY <1>6 DEF ClientDrained, Handle
<1>7. QED
  BY <1>1, <1>2, <1>3, <1>4, <1>5, <1>6 DEF Idle

\* What steps that end the exchange leave of it.
LEMMA QuitsStep ==
  ASSUME Quits
  PROVE  /\ Open /\ loop = "select"
         /\ \E st \in Closed : ClientDone(st)
         /\ UNCHANGED <<body, factor, fault, got, toClient, in, out, child, held,
                        writing, loop, crash>>
         /\ cst' \in Closed /\ ~Open'
  BY DEF Quits, ClientCopyRFails, ClientDrained, Handle, exchange, process, call,
         Open, Closed, ClientDone

\* An exchange that is open was open before.
LEMMA StaysOpen ==
  ASSUME [Next]_vars, Open'
  PROVE  Open
<1> USE DEF Handle, Child, Writing
<1>1. CASE Idle
  BY <1>1, IdleStep DEF Open
<1>2. CASE Quits
  BY <1>2, QuitsStep
<1>3. CASE FlushBody \/ \E n \in 0..Capacity : OriginCopyR(n)
  BY <1>3 DEF FlushBody, OriginCopyR
<1>4. CASE TransformInEnds \/ TransformWrites \/ WriteReturns \/ PipeTakes
  BY <1>4 DEF TransformInEnds, TransformWrites, InWritable, WriteReturns, PipeTakes
<1>5. CASE TransformCopyR \/ TransformOutCut \/ TransformOutEnds
  BY <1>5 DEF TransformCopyR, TransformOutCut, TransformOutEnds, OutReadable
<1>6. CASE ChildRead \/ ChildEof \/ ChildWrite \/ ChildBreaks \/ ChildDies
  BY <1>6 DEF ChildRead, ChildEof, ChildWrite, ChildBreaks, ChildDies
<1>7. CASE (\E n \in 1..Capacity : ClientCopyW(n)) \/ ClientTimeout
  BY <1>7 DEF ClientCopyW, ClientTimeout
<1>8. QED
  BY <1>1, <1>2, <1>3, <1>4, <1>5, <1>6, <1>7, Steps

\* The exchange stays as it is.
LEMMA ExchangeStays ==
  ASSUME [Next]_vars
  PROVE  UNCHANGED <<body, factor, fault>>
<1> USE DEF exchange, Handle, Child, Writing
<1>1. CASE Idle \/ Quits
  BY <1>1, IdleStep, QuitsStep
<1>2. CASE FlushBody \/ \E n \in 0..Capacity : OriginCopyR(n)
  BY <1>2 DEF FlushBody, OriginCopyR
<1>3. CASE TransformInEnds \/ TransformWrites
  BY <1>3 DEF TransformInEnds, TransformWrites, InWritable
<1>4. CASE WriteReturns \/ PipeTakes
  BY <1>4 DEF WriteReturns, PipeTakes
<1>5. CASE TransformCopyR \/ TransformOutCut \/ TransformOutEnds
  BY <1>5 DEF TransformCopyR, TransformOutCut, TransformOutEnds, OutReadable
<1>6. CASE ChildRead \/ ChildEof \/ ChildWrite \/ ChildBreaks \/ ChildDies
  BY <1>6 DEF ChildRead, ChildEof, ChildWrite, ChildBreaks, ChildDies
<1>7. CASE (\E n \in 1..Capacity : ClientCopyW(n)) \/ ClientTimeout
  BY <1>7 DEF ClientCopyW, ClientTimeout
<1>8. QED
  BY <1>1, <1>2, <1>3, <1>4, <1>5, <1>6, <1>7, Steps

\* The types of what is not data are kept.
LEMMA ControlTypeStep == IInv /\ [Next]_vars => ControlType'
<1> SUFFICES ASSUME IInv, [Next]_vars PROVE ControlType'
  OBVIOUS
<1>0. ControlType
  BY DEF IInv, TypeOK, ControlType
<1> USE <1>0 DEF ControlType, Handle, Child, Writing, machines, ends, process,
                 call, buffers, exchange
<1>1. CASE Idle
  <2>1. UNCHANGED <<cst, infd, outfd, due, loop, child>>
    BY <1>1, IdleStep
  <2>2. CASE OriginCopyREnds
    <3>1. /\ ost' = "RESPONSE_ERROR" /\ done' = AllDone /\ crash' = crash
          /\ interest' = (interest \ {"origin"}) \union {"client"}
      BY <2>2 DEF OriginCopyREnds
    <3>2. QED
      BY <2>1, <3>1
  <2>3. CASE OriginCopyRFreed \/ PipeBreaks
    <3>1. crash' \in {"freed", "sigpipe"} /\ UNCHANGED <<ost, interest, done>>
      BY <2>3 DEF OriginCopyRFreed, PipeBreaks
    <3>2. QED
      BY <2>1, <3>1
  <2>4. CASE TransformDrained
    BY <2>1, <2>4 DEF TransformDrained, InWritable
  <2>5. CASE TransformNoRoom
    BY <2>1, <2>5 DEF TransformNoRoom, OutReadable
  <2>6. CASE UNCHANGED vars
    BY <2>6 DEF vars
  <2>7. CASE ClientDrained /\ ~Finished
    <3>1. UNCHANGED <<ost, done, crash>> /\ interest' = interest \ {"client"}
      BY <2>7 DEF ClientDrained
    <3>2. QED
      BY <2>1, <3>1
  <2>8. QED
    BY <1>1, <2>2, <2>3, <2>4, <2>5, <2>6, <2>7 DEF Idle
<1>2. CASE Quits
  BY <1>2, QuitsStep DEF ClientDone
<1>3. CASE FlushBody \/ \E n \in 0..Capacity : OriginCopyR(n)
  <2>1. /\ UNCHANGED <<cst, ost, infd, outfd, loop, child, crash>> /\ due' \in {due, FALSE}
        /\ interest' \subseteq interest \union {"origin", "infd", "client"}
    <3>1. \A s : Store(s) => interest' \subseteq interest \union {"origin", "infd", "client"}
      BY DEF Store
    <3>2. QED
      BY <1>3, <3>1 DEF FlushBody, OriginCopyR
  <2>2. done' \subseteq done \union {"resp"}
    <3>1. \A n : BodyIsDone(n) => done' \subseteq done \union {"resp"}
      BY DEF BodyIsDone
    <3>2. QED
      BY <1>3, <3>1 DEF FlushBody, OriginCopyR
  <2>3. QED
    BY <2>1, <2>2, ZenonT(40) DEF AllDone
<1>4. CASE TransformInEnds
  BY <1>4 DEF TransformInEnds, TransformInDone, InWritable
<1>5. CASE TransformWrites
  BY <1>5 DEF TransformWrites, InWritable
<1>6. CASE WriteReturns
  <2>1. CASE AllWritten
    BY <1>6, <2>1 DEF WriteReturns, TransformInDone
  <2>2. CASE ~AllWritten
    BY <1>6, <2>2 DEF WriteReturns
  <2>3. QED
    BY <2>1, <2>2
<1>7. CASE PipeTakes
  BY <1>7 DEF PipeTakes
<1>8. CASE TransformCopyR \/ TransformOutCut \/ TransformOutEnds
  <2>1. UNCHANGED <<cst, ost, infd, due, loop, child, crash>>
    BY <1>8 DEF TransformCopyR, TransformOutCut, TransformOutEnds
  <2>2. /\ outfd' \in {outfd, "cut", "closed"}
        /\ interest' \subseteq interest \union {"client"}
        /\ done' \subseteq done \union {"trans"}
    BY <1>8 DEF TransformCopyR, TransformOutCut, TransformOutEnds
  <2>3. QED
    BY <2>1, <2>2 DEF AllDone
<1>9. CASE ChildRead \/ ChildEof
  <2>1. child' \in {"reading", "writing", "ending", "gone"}
    BY <1>9 DEF ChildRead, ChildEof
  <2>2. UNCHANGED <<cst, ost, infd, outfd, interest, due, done, loop, crash>>
    BY <1>9 DEF ChildRead, ChildEof
  <2>3. QED
    BY <2>1, <2>2
<1>10. CASE ChildWrite \/ ChildBreaks \/ ChildDies
  BY <1>10, ZenonT(40) DEF ChildWrite, ChildBreaks, ChildDies
<1>11. CASE \E n \in 1..Capacity : ClientCopyW(n)
  BY <1>11 DEF ClientCopyW
<1>12. CASE ClientTimeout
  <2>1. interest' = interest \union {"client"} /\ done' = AllDone
    BY <1>12 DEF ClientTimeout, Reply
  <2>2. UNCHANGED <<cst, ost, due, infd, outfd, loop, child, crash>>
    BY <1>12 DEF ClientTimeout
  <2>3. QED
    BY <2>1, <2>2
<1>13. QED
  BY <1>1, <1>2, <1>3, <1>4, <1>5, <1>6, <1>7, <1>8, <1>9, <1>10, <1>11, <1>12, Steps

\* Who can be where is kept.
LEMMA ControlStep == IInv /\ [Next]_vars => Control'
<1> SUFFICES ASSUME IInv, [Next]_vars PROVE Control'
  OBVIOUS
<1>0. /\ Control
      /\ infd \in {"none", "open", "closed"} /\ due \in BOOLEAN
      /\ loop \in {"select", "write"}
      /\ tb \in Queue /\ ob \in Queue
  BY DEF IInv, TypeOK
<1>a. Pending(tb) > 0 => tb.bytes # << >>
  BY <1>0 DEF Pending, Queue
<1> USE DEF Control, Handle, Child, Writing, machines, ends, process,
            call, buffers, exchange
<1>1. CASE Idle
  <2>1. /\ UNCHANGED <<infd, outfd, due, ob, tb, writing, loop>>
        /\ interest' \subseteq interest \union {"client"}
    BY <1>1, IdleStep
  <2>2. QED
    BY <1>0, <2>1
<1>2. CASE Quits
  <2>1. /\ loop = "select" /\ UNCHANGED <<writing, loop>>
        /\ interest' = {} /\ due' = FALSE
        /\ infd' = (IF Transforming THEN "closed" ELSE "none") /\ outfd' = infd'
        /\ ob' = Empty /\ tb' = Empty
    BY <1>2, QuitsStep DEF ClientDone
  <2>2. QED
    BY <1>0, <2>1 DEF Empty
<1>3. CASE FlushBody
  <2>1. /\ due /\ due' = FALSE /\ ob' = Empty /\ UNCHANGED <<infd, outfd, writing, loop>>
        /\ interest' = interest \union
             {"origin", IF Transforming THEN "infd" ELSE "client"}
    BY <1>3 DEF FlushBody, Store
  <2>2. infd # "none" <=> Transforming
    BY DEF Transforming
  <2>3. QED
    BY <1>0, <2>1, <2>2 DEF Empty
<1>4. CASE \E n \in 0..Capacity : OriginCopyR(n)
  <2>1. /\ infd # "closed" /\ "origin" \in interest
        /\ UNCHANGED <<infd, outfd, due, ob, writing, loop>>
        /\ interest' = interest \union
             {"origin", IF Transforming THEN "infd" ELSE "client"}
    BY <1>4 DEF OriginCopyR, Store
  <2>2. infd # "none" <=> Transforming
    BY DEF Transforming
  <2>3. QED
    BY <1>0, <2>1, <2>2
<1>5. CASE TransformInEnds
  <2>1. /\ "infd" \in interest /\ loop = "select" /\ infd' = "closed" /\ tb' = Empty
        /\ Pending(tb) > 0
        /\ interest' = interest \ {"infd"}
        /\ UNCHANGED <<outfd, due, ob, writing, loop>>
    BY <1>5 DEF TransformInEnds, TransformInDone, InWritable
  <2>2. QED
    BY <1>0, <1>a, <2>1 DEF Empty
<1>6. CASE TransformWrites
  <2>1. /\ "infd" \in interest /\ Pending(tb) > 0
        /\ loop' = IF writing' = << >> THEN "select" ELSE "write"
        /\ UNCHANGED <<interest, due, infd, outfd, ob>>
    BY <1>6 DEF TransformWrites, InWritable
  <2>2. QED
    BY <1>0, <1>a, <2>1
<1>7. CASE WriteReturns
  <2>1. /\ loop = "write" /\ writing = << >> /\ writing' = << >> /\ loop' = "select"
        /\ UNCHANGED <<due, outfd, ob>>
    BY <1>7 DEF WriteReturns, TransformInDone
  <2>2. infd = "open" /\ ~due
    BY <1>0, <2>1
  <2>3. \/ infd' = "closed" /\ tb' = Empty /\ interest' = interest \ {"infd"}
        \/ UNCHANGED <<infd, interest>>
    BY <1>7 DEF WriteReturns, TransformInDone
  <2>4. QED
    BY <1>0, <2>1, <2>2, <2>3 DEF Empty
<1>8. CASE PipeTakes
  <2>1. loop = "write" /\ UNCHANGED <<interest, due, infd, outfd, ob, tb, loop>>
    BY <1>8 DEF PipeTakes
  <2>2. QED
    BY <1>0, <2>1
<1>9. CASE TransformCopyR \/ TransformOutCut \/ TransformOutEnds
  <2>1. /\ "outfd" \in interest /\ UNCHANGED <<due, infd, ob, tb, loop, writing>>
        /\ \/ interest' = interest \union {"client"} /\ outfd' = outfd
           \/ /\ interest' = (interest \ {"outfd"}) \union {"client"}
              /\ outfd' \in {"closed", "cut"}
    BY <1>9 DEF TransformCopyR, TransformOutCut, TransformOutEnds, OutReadable
  <2>2. QED
    BY <1>0, <2>1
<1>10. CASE ChildRead \/ ChildEof \/ ChildWrite \/ ChildBreaks \/ ChildDies
  <2>1. UNCHANGED <<interest, due, infd, outfd, ob, tb, loop, writing>>
    BY <1>10 DEF ChildRead, ChildEof, ChildWrite, ChildBreaks, ChildDies
  <2>2. QED
    BY <1>0, <2>1
<1>11. CASE (\E n \in 1..Capacity : ClientCopyW(n)) \/ ClientTimeout
  <2>1. /\ interest' \subseteq interest \union {"client"}
        /\ UNCHANGED <<due, infd, outfd, ob, tb, loop, writing>>
    BY <1>11 DEF ClientCopyW, ClientTimeout, Reply
  <2>2. QED
    BY <1>0, <2>1
<1>12. QED
  BY <1>1, <1>2, <1>3, <1>4, <1>5, <1>6, <1>7, <1>8, <1>9, <1>10, <1>11, Steps

\* What the child makes of a byte is one at least.
LEMMA MadeOfOne ==
  ASSUME BodyType, NEW S, NEW b \in S
  PROVE  /\ Made(b) \in Seq(S) /\ Len(Made(b)) = factor /\ Made(b) # << >>
         /\ \A s \in Seq(S) : s \o Made(b) \in Seq(S) /\ s \o Made(b) # << >>
<1>1. factor \in Nat \ {0}
  BY DEF BodyType
<1>2. Made(b) \in Seq(S) /\ Len(Made(b)) = factor
  BY <1>1 DEF Made
<1>3. Made(b) # << >>
  BY <1>1, <1>2, EmptySeq
<1>4. ASSUME NEW s \in Seq(S) PROVE s \o Made(b) \in Seq(S) /\ s \o Made(b) # << >>
  <2> DEFINE m == Made(b)
  <2>1. m \in Seq(S) /\ m # << >>
    BY <1>2, <1>3
  <2> HIDE DEF m
  <2>2. s \o m \in Seq(S)
    BY <2>1, ConcatProperties
  <2>3. s \o m = << >> => m = << >>
    BY <2>1, ConcatEqualIffEmpty
  <2>4. QED
    BY <2>1, <2>2, <2>3 DEF m
<1>5. QED
  BY <1>2, <1>3, <1>4

\* What the child does, and when transDone can be true, is kept.
LEMMA ChildStep == IInv /\ [Next]_vars => ChildState'
<1> SUFFICES ASSUME IInv, [Next]_vars PROVE ChildState'
  OBVIOUS
<1>0. /\ ChildState /\ Control /\ BodyType
      /\ infd \in {"none", "open", "closed"}
      /\ child \in {"reading", "writing", "ending", "gone"}
      /\ in \in Seq(ByteToken) /\ held \in Seq(ByteToken)
  BY DEF IInv, TypeOK, StreamType
<1>a. Open' => Open
  BY StaysOpen
<1> USE DEF ChildState, Handle, Child, Writing, machines, ends, process,
            call, buffers, exchange
<1>1. CASE Idle
  <2>1. /\ UNCHANGED <<body, fault, infd, outfd, in, out, child, held>>
        /\ "trans" \in done' => "trans" \in done \/ body.close
    BY <1>1, IdleStep
  <2>2. QED
    BY <1>0, <1>a, <2>1 DEF Transforming
<1>2. CASE Quits
  <2>1. /\ UNCHANGED <<body, fault, in, out, child, held>> /\ done' = {}
        /\ infd' = (IF Transforming THEN "closed" ELSE "none") /\ ~Open'
    BY <1>2, QuitsStep DEF ClientDone
  <2>2. QED
    BY <1>0, <2>1 DEF Transforming
<1>3. CASE FlushBody \/ \E n \in 0..Capacity : OriginCopyR(n)
  <2>1. UNCHANGED <<body, fault, infd, outfd, in, out, child, held>>
    BY <1>3 DEF FlushBody, OriginCopyR
  <2>2. "trans" \in done' => "trans" \in done
    <3>1. \A n : BodyIsDone(n) => done' \subseteq done \union {"resp"}
      BY DEF BodyIsDone
    <3>2. QED
      BY <1>3, <3>1 DEF FlushBody, OriginCopyR
  <2>3. QED
    BY <1>0, <1>a, <2>1, <2>2 DEF Transforming
<1>4. CASE TransformInEnds
  <2>1. /\ "infd" \in interest /\ infd' = "closed"
        /\ UNCHANGED <<body, fault, done, outfd, in, out, child, held>>
    BY <1>4 DEF TransformInEnds, TransformInDone, InWritable
  <2>2. infd = "open"
    BY <1>0, <2>1 DEF Control
  <2>3. QED
    BY <1>0, <1>a, <2>1, <2>2 DEF Transforming
<1>5. CASE TransformWrites
  <2>1. UNCHANGED <<body, fault, done, infd, outfd, in, out, child, held>>
    BY <1>5 DEF TransformWrites, InWritable
  <2>2. QED
    BY <1>0, <1>a, <2>1 DEF Transforming
<1>6. CASE WriteReturns
  <2>1. /\ loop = "write" /\ infd' \in {infd, "closed"}
        /\ UNCHANGED <<body, fault, done, outfd, in, out, child, held>>
    BY <1>6 DEF WriteReturns, TransformInDone
  <2>2. infd = "open"
    BY <1>0, <2>1 DEF Control
  <2>3. QED
    BY <1>0, <1>a, <2>1, <2>2 DEF Transforming
<1>7. CASE PipeTakes
  <2>1. /\ loop = "write" /\ child # "gone"
        /\ UNCHANGED <<body, fault, done, infd, outfd, out, child, held>>
    BY <1>7 DEF PipeTakes
  <2>2. infd = "open"
    BY <1>0, <2>1 DEF Control
  <2>3. QED
    BY <1>0, <1>a, <2>1, <2>2 DEF Transforming
<1>8. CASE TransformCopyR
  <2>1. out # << >> /\ UNCHANGED <<body, fault, done, infd, outfd, in, child, held>>
    BY <1>8 DEF TransformCopyR, OutReadable
  <2>2. QED
    BY <1>0, <1>a, <2>1 DEF Transforming
<1>9. CASE TransformOutEnds
  <2>1. /\ "outfd" \in interest /\ out = << >> /\ child = "gone"
        /\ UNCHANGED <<body, fault, infd, in, out, child, held>>
    BY <1>9 DEF TransformOutEnds, OutReadable
  <2>2. infd # "none" /\ outfd # "cut"
    BY <1>0, <2>1 DEF Control
  <2>3. QED
    BY <1>0, <1>a, <2>1, <2>2 DEF Transforming
<1>10. CASE ChildRead
  <2>1. /\ child = "reading" /\ in # << >> /\ held' = held \o Made(Head(in))
        /\ child' \in {"reading", "writing"}
        /\ UNCHANGED <<body, fault, done, infd, outfd, out>>
    BY <1>10 DEF ChildRead
  <2>2. Head(in) \in ByteToken
    BY <1>0, <2>1, HeadTailProperties
  <2>3. held' # << >>
    BY <1>0, <2>1, <2>2, MadeOfOne
  <2>4. QED
    BY <1>0, <1>a, <2>1, <2>3 DEF Transforming
<1>11. CASE ChildEof
  <2>1. /\ child = "reading" /\ in = << >> /\ infd = "closed"
        /\ child' = (IF held = << >> THEN "gone" ELSE "ending")
        /\ UNCHANGED <<body, fault, done, infd, outfd, in, out, held>>
    BY <1>11 DEF ChildEof
  <2>2. QED
    BY <1>0, <1>a, <2>1 DEF Transforming
<1>12. CASE ChildWrite
  <2>1. /\ child \in {"writing", "ending"}
        /\ child' = IF held' # << >> THEN child
                    ELSE IF child = "ending" THEN "gone" ELSE "reading"
        /\ UNCHANGED <<body, fault, done, infd, outfd, in>>
    BY <1>12 DEF ChildWrite
  <2>2. QED
    BY <1>0, <1>a, <2>1 DEF Transforming
<1>13. CASE ChildDies
  <2>1. /\ child # "gone" /\ "child" \in fault /\ child' = "gone"
        /\ UNCHANGED <<body, fault, done, infd, outfd>>
    BY <1>13 DEF ChildDies
  <2>2. QED
    BY <1>0, <1>a, <2>1 DEF Transforming
<1>14. CASE \E n \in 1..Capacity : ClientCopyW(n)
  <2>1. UNCHANGED <<body, fault, done, infd, outfd, in, out, child, held>>
    BY <1>14 DEF ClientCopyW
  <2>2. QED
    BY <1>0, <1>a, <2>1 DEF Transforming
<1>15. CASE ClientTimeout
  <2>1. "idle" \in fault /\ UNCHANGED <<body, fault, infd, outfd, in, out, child, held>>
    BY <1>15 DEF ClientTimeout
  <2>2. QED
    BY <1>0, <1>a, <2>1 DEF Transforming
<1>16. CASE TransformOutCut
  <2>1. /\ outfd' = "cut" /\ out' = << >>
        /\ UNCHANGED <<body, fault, done, infd, in, child, held>>
    BY <1>16 DEF TransformOutCut, OutReadable
  <2>2. QED
    BY <1>0, <1>a, <2>1 DEF Transforming
<1>17. CASE ChildBreaks
  <2>1. /\ child # "gone" /\ outfd = "cut" /\ child' = "gone"
        /\ UNCHANGED <<body, fault, done, infd, outfd, out>>
    BY <1>17 DEF ChildBreaks
  <2>2. QED
    BY <1>0, <1>a, <2>1 DEF Transforming
<1>18. QED
  BY <1>1, <1>2, <1>3, <1>4, <1>5, <1>6, <1>7, <1>8, <1>9, <1>10, <1>11, <1>12, <1>13,
     <1>14, <1>15, <1>16, <1>17, Steps

-----------------------------------------------------------------------------
(***************************************************************************)
(* Parts of a stream, and buffers.                                          *)
(***************************************************************************)

\* A part of a stream, from behind a to e.
LEMMA Part ==
  ASSUME NEW T, NEW s \in Seq(T), NEW e \in 0..Len(s), NEW a \in 0..e
  PROVE  /\ SubSeq(s, a + 1, e) \in Seq(T)
         /\ Len(SubSeq(s, a + 1, e)) = e - a
         /\ \A i \in 1..e - a : SubSeq(s, a + 1, e)[i] = s[a + i]
<1>1. Len(s) \in Nat /\ \A i \in 1..Len(s) : s[i] \in T
  OBVIOUS
<1>2. \A i \in a + 1 .. e : s[i] \in T
  BY <1>1
<1>3. a + 1 \in Int /\ e \in Int /\ e - (a + 1) + 1 = e - a
  BY <1>1
<1> DEFINE u == SubSeq(s, a + 1, e)
<1>4. /\ u \in Seq(T)
      /\ Len(u) = IF a + 1 <= e THEN e - (a + 1) + 1 ELSE 0
      /\ \A i \in 1..e - (a + 1) + 1 : u[i] = s[a + 1 + i - 1]
  BY <1>2, <1>3, SubSeqProperties
<1> HIDE DEF u
<1>5. Len(u) = e - a
  BY <1>1, <1>4
<1>6. ASSUME NEW i \in 1..e - a PROVE u[i] = s[a + i]
  <2>1. i \in 1..e - (a + 1) + 1 /\ a + 1 + i - 1 = a + i
    BY <1>1
  <2>2. QED
    BY <1>4, <2>1
<1>7. QED
  BY <1>4, <1>5, <1>6 DEF u

\* A part of it is two.
LEMMA TwoParts ==
  ASSUME NEW T, NEW s \in Seq(T), NEW e \in 0..Len(s), NEW a \in 0..e, NEW k \in a..e
  PROVE  SubSeq(s, a + 1, k) \o SubSeq(s, k + 1, e) = SubSeq(s, a + 1, e)
<1>1. Len(s) \in Nat
  OBVIOUS
<1>2. a + 1 \in 1..Len(s) + 1 /\ k \in (a + 1) - 1 .. Len(s) /\ e \in k..Len(s)
  BY <1>1
<1>3. QED
  BY <1>2, ConcatAdjacentSubSeq

\* A part of a part.
LEMMA PartOfPart ==
  ASSUME NEW T, NEW s \in Seq(T), NEW e \in 0..Len(s), NEW a \in 0..e, NEW k \in 0..e - a
  PROVE  SubSeq(SubSeq(s, a + 1, e), k + 1, e - a) = SubSeq(s, (a + k) + 1, e)
<1> DEFINE p == SubSeq(s, a + 1, e)
           q == SubSeq(p, k + 1, e - a)
           r == SubSeq(s, (a + k) + 1, e)
<1>0. Len(s) \in Nat
  OBVIOUS
<1>1. p \in Seq(T) /\ Len(p) = e - a /\ \A i \in 1..e - a : p[i] = s[a + i]
  BY Part
<1>2. /\ r \in Seq(T) /\ Len(r) = e - (a + k)
      /\ \A i \in 1..e - (a + k) : r[i] = s[(a + k) + i]
  <2>1. a + k \in 0..e
    BY <1>0
  <2>2. QED
    BY <2>1, Part
<1> HIDE DEF p
<1>3. /\ q \in Seq(T) /\ Len(q) = (e - a) - k
      /\ \A i \in 1..(e - a) - k : q[i] = p[k + i]
  <2>1. e - a \in 0..Len(p) /\ k \in 0..e - a
    BY <1>0, <1>1
  <2>2. QED
    BY <1>1, <2>1, Part
<1> HIDE DEF q, r
<1>4. ASSUME NEW i \in 1..Len(q) PROVE q[i] = r[i]
  <2>1. i \in 1..(e - a) - k /\ i \in 1..e - (a + k) /\ k + i \in 1..e - a
    BY <1>0, <1>3
  <2>2. a + (k + i) = (a + k) + i
    BY <1>0, <2>1
  <2>3. q[i] = s[a + (k + i)] /\ r[i] = s[(a + k) + i]
    BY <1>1, <1>2, <1>3, <2>1
  <2>4. QED
    BY <2>2, <2>3
<1>5. Len(q) = Len(r)
  BY <1>0, <1>2, <1>3
<1>6. q = r
  BY <1>2, <1>3, <1>4, <1>5, SeqEqual
<1>7. QED
  BY <1>6 DEF q, r, p

\* A stream is its first n elements and the rest.
LEMMA Split ==
  ASSUME NEW T, NEW s \in Seq(T), NEW n \in 0..Len(s)
  PROVE  /\ SubSeq(s, 1, n) \in Seq(T) /\ SubSeq(s, n + 1, Len(s)) \in Seq(T)
         /\ Len(SubSeq(s, 1, n)) = n /\ Len(SubSeq(s, n + 1, Len(s))) = Len(s) - n
         /\ SubSeq(s, 1, n) \o SubSeq(s, n + 1, Len(s)) = s
<1>1. Len(s) \in Nat /\ Len(s) \in 0..Len(s) /\ 0 \in 0..n /\ 0 \in 0..Len(s)
      /\ n \in 0..Len(s) /\ 0 + 1 = 1
  OBVIOUS
<1>2. SubSeq(s, 0 + 1, n) \in Seq(T) /\ Len(SubSeq(s, 0 + 1, n)) = n - 0
  BY <1>1, Part
<1>3. /\ SubSeq(s, n + 1, Len(s)) \in Seq(T)
      /\ Len(SubSeq(s, n + 1, Len(s))) = Len(s) - n
  BY <1>1, Part
<1>4. SubSeq(s, 0 + 1, n) \o SubSeq(s, n + 1, Len(s)) = SubSeq(s, 0 + 1, Len(s))
  BY <1>1, TwoParts
<1>5. SubSeq(s, 1, Len(s)) = s
  BY SubSeqFull
<1>6. 0 + 1 = 1 /\ n - 0 = n
  BY <1>1
<1>7. SubSeq(s, 1, n) \in Seq(T) /\ Len(SubSeq(s, 1, n)) = n
  BY <1>2, <1>6
<1>8. SubSeq(s, 1, n) \o SubSeq(s, n + 1, Len(s)) = s
  BY <1>4, <1>5, <1>6
<1>9. QED
  BY <1>3, <1>7, <1>8

\* The buffer without anything.
LEMMA EmptyType ==
  /\ Empty \in Queue /\ Room(Empty) >= 0 /\ Pending(Empty) = 0 /\ Empty.bytes = << >>
<1>1. << >> \in Seq(Token) /\ Len(<< >>) = 0
  BY EmptySeq
<1>2. Empty.base = 0 /\ Empty.bytes = << >>
  BY DEF Empty
<1>3. Empty \in Queue
  BY <1>1, CapacityAssumption DEF Empty, Queue
<1>4. QED
  BY <1>1, <1>2, <1>3, CapacityAssumption DEF Room, Pending

\* Nothing is pending in a buffer without bytes, and only there.
LEMMA NonePending ==
  ASSUME NEW b \in Queue
  PROVE  /\ b.bytes \in Seq(Token) /\ Pending(b) = Len(b.bytes) /\ Pending(b) \in Nat
         /\ Pending(b) = 0 <=> b.bytes = << >>
         /\ Room(b) \in Int
  BY CapacityAssumption, EmptySeq, LenProperties DEF Queue, Pending, Room

\* What fits in a buffer is put behind what is there.
LEMMA PutType ==
  ASSUME NEW b \in Queue, NEW s \in Seq(Token), Len(s) <= Room(b)
  PROVE  /\ Put(b, s) \in Queue /\ Room(Put(b, s)) >= 0
         /\ Put(b, s).bytes = b.bytes \o s
<1>1. b.base \in 0..Capacity /\ b.bytes \in Seq(Token)
  BY DEF Queue
<1>2. b.bytes \o s \in Seq(Token) /\ Len(b.bytes \o s) = Len(b.bytes) + Len(s)
  BY <1>1, ConcatProperties
<1>3. Len(s) \in Nat /\ Len(b.bytes) \in Nat
  BY <1>1, LenProperties
<1>4. QED
  BY <1>1, <1>2, <1>3, CapacityAssumption DEF Put, Queue, Room

\* What is taken from a buffer and what is left are what was there.
LEMMA DropType ==
  ASSUME NEW b \in Queue, Room(b) >= 0, NEW n \in 0..Pending(b)
  PROVE  /\ Drop(b, n) \in Queue /\ Room(Drop(b, n)) >= 0
         /\ Drop(b, n).bytes = SubSeq(b.bytes, n + 1, Pending(b))
         /\ Pending(Drop(b, n)) = Pending(b) - n
         /\ SubSeq(b.bytes, 1, n) \in Seq(Token)
         /\ SubSeq(b.bytes, 1, n) \o Drop(b, n).bytes = b.bytes
<1>1. b.base \in 0..Capacity /\ b.bytes \in Seq(Token) /\ n \in 0..Len(b.bytes)
      /\ Len(b.bytes) \in Nat /\ Pending(b) = Len(b.bytes)
  BY NonePending DEF Queue
<1> DEFINE rest == SubSeq(b.bytes, n + 1, Len(b.bytes))
<1>2. /\ SubSeq(b.bytes, 1, n) \in Seq(Token) /\ rest \in Seq(Token)
      /\ Len(rest) = Len(b.bytes) - n
      /\ SubSeq(b.bytes, 1, n) \o rest = b.bytes
  BY <1>1, Split
<1> HIDE DEF rest
<1>3. Drop(b, n).bytes = rest
  <2>1. CASE n = Len(b.bytes)
    <3>1. Len(rest) = 0
      BY <1>1, <1>2, <2>1
    <3>2. rest = << >>
      BY <1>2, <3>1, EmptySeq
    <3>3. QED
      BY <2>1, <3>2 DEF Drop, Empty
  <2>2. CASE n # Len(b.bytes)
    BY <2>2 DEF Drop, rest
  <2>3. QED
    BY <2>1, <2>2
<1>4. Drop(b, n).base + Len(rest) <= b.base + Len(b.bytes) /\ Drop(b, n).base \in 0..Capacity
  <2>1. CASE n = Len(b.bytes)
    BY <1>1, <1>2, <2>1, CapacityAssumption DEF Drop, Empty
  <2>2. CASE n # Len(b.bytes)
    <3>1. Drop(b, n).base = b.base + n
      BY <2>2 DEF Drop
    <3>2. Capacity - (b.base + Len(b.bytes)) >= 0
      BY DEF Room
    <3>3. QED
      BY <1>1, <1>2, <3>1, <3>2, CapacityAssumption
  <2>3. QED
    BY <2>1, <2>2
<1>5. Drop(b, n) \in Queue
  <2>1. Drop(b, n) = [base |-> Drop(b, n).base, bytes |-> Drop(b, n).bytes]
    BY DEF Drop, Empty
  <2>2. QED
    BY <1>2, <1>3, <1>4, <2>1 DEF Queue
<1>6. Capacity - (b.base + Len(b.bytes)) >= 0
  BY DEF Room
<1>7. Capacity - (Drop(b, n).base + Len(rest)) >= 0
  BY <1>1, <1>2, <1>4, <1>6, CapacityAssumption, SMTT(30)
<1>8. Room(Drop(b, n)) >= 0 /\ Pending(Drop(b, n)) = Pending(b) - n
  BY <1>1, <1>2, <1>3, <1>7 DEF Room, Pending
<1>9. QED
  BY <1>1, <1>2, <1>3, <1>5, <1>8 DEF rest

-----------------------------------------------------------------------------
(***************************************************************************)
(* What tb has for the pipe.                                                *)
(***************************************************************************)

\* What get_chunk_length passes over.
LEMMA LineEnds ==
  ASSUME NEW s \in Seq(Token), NEW i \in LineEnd(s)
  PROVE  /\ i \in 1..Len(s)
         /\ \A j \in 1..i : s[j] \in Token \ ByteToken
         /\ s[i] # Last0 =>
              i - 1 \in 1..Len(s) /\ s[i - 1][2] \in Nat /\ s[i - 1] = Size(s[i - 1][2])
<1>1. Len(s) \in Nat /\ DOMAIN s = 1..Len(s) /\ \A j \in 1..Len(s) : s[j] \in Token
  OBVIOUS
<1>2. /\ i \in 1..Len(s)
      /\ s[i] = Last0 \/ (i > 1 /\ s[i] = NL /\ s[i - 1][1] = "size")
      /\ \A j \in 1..i - 1 : s[j] = NL \/ (j = i - 1 /\ s[i] # Last0)
  BY <1>1 DEF LineEnd
<1>3. NL \in Token \ ByteToken /\ Last0 \in Token \ ByteToken
      /\ \A x \in Token : x[1] = "size" =>
           x \in Token \ ByteToken /\ x[2] \in Nat /\ x = Size(x[2])
  BY DEF NL, Last0, ByteToken, Token, Size
<1>4. s[i] # Last0 =>
        i - 1 \in 1..Len(s) /\ s[i - 1][2] \in Nat /\ s[i - 1] = Size(s[i - 1][2])
        /\ s[i - 1] \in Token \ ByteToken
  <2>1. i > 1 => i - 1 \in 1..Len(s)
    BY <1>1, <1>2
  <2>2. QED
    BY <1>1, <1>2, <1>3, <2>1
<1>5. ASSUME NEW j \in 1..i PROVE s[j] \in Token \ ByteToken
  <2>1. CASE j = i
    BY <1>2, <1>3, <2>1
  <2>2. CASE j # i
    <3>1. j \in 1..i - 1
      BY <1>1, <1>2, <2>2
    <3>2. QED
      BY <1>2, <1>3, <1>4, <3>1
  <2>3. QED
    BY <2>1, <2>2
<1>6. QED
  BY <1>2, <1>4, <1>5

\* What a token of a framed stream says of those behind it.
LEMMA Behind ==
  ASSUME BodyType, body.chunked, NEW i \in 1..Len(body.stream)
  PROVE  /\ body.stream[i] = Last0 => i = Len(body.stream)
         /\ \A n \in Nat : body.stream[i] = Size(n) =>
              \A j \in i + 2 .. i + 1 + n : j \in DOMAIN body.stream =>
                body.stream[j] \in ByteToken
         /\ body.stream[i] = Size(0) =>
              \A j \in i + 1 .. Len(body.stream) : body.stream[j] = NL
<1>1. /\ DOMAIN body.stream = 1..Len(body.stream) /\ Framed(body.stream)
      /\ \A j \in DOMAIN body.stream : body.stream[j] \in Token
  BY DEF BodyType
<1>2. /\ body.stream[i] = Last0 => i = Len(body.stream)
      /\ body.stream[i] = Size(0) =>
           \A j \in i + 1 .. Len(body.stream) : body.stream[j] = NL
      /\ body.stream[i][1] = "size" =>
           \A j \in i + 2 .. i + 1 + body.stream[i][2] :
             j \in DOMAIN body.stream => body.stream[j][1] = "byte"
  BY <1>1 DEF Framed
<1>3. \A n \in Nat : Size(n)[1] = "size" /\ Size(n)[2] = n
  BY DEF Size
<1>4. \A x \in Token : x[1] = "byte" <=> x \in ByteToken
  BY Elements
<1>5. ASSUME NEW n \in Nat, body.stream[i] = Size(n),
             NEW j \in i + 2 .. i + 1 + n, j \in DOMAIN body.stream
      PROVE  body.stream[j] \in ByteToken
  <2>1. body.stream[i][1] = "size" /\ body.stream[i][2] = n
    BY <1>3, <1>5
  <2>2. body.stream[j][1] = "byte"
    BY <1>2, <1>5, <2>1
  <2>3. QED
    BY <1>1, <1>4, <1>5, <2>2
<1>6. QED
  BY <1>2, <1>5

\* Where tb is in the stream once flush_body has been called.
LEMMA InPlace ==
  ASSUME IInv, Open, infd = "open", ~due
  PROVE  /\ ob.bytes = << >> /\ tb \in Queue /\ Room(tb) >= 0
         /\ tb.bytes \in Seq(Token) /\ Pending(tb) = Len(tb.bytes) /\ Len(tb.bytes) \in Nat
         /\ tb.bytes \o ob.bytes = tb.bytes
         /\ Position = got - Len(tb.bytes) /\ Position \in 0..got
         /\ tb.bytes = SubSeq(body.stream, Position + 1, got)
         /\ \A i \in 1..Len(tb.bytes) : tb.bytes[i] = body.stream[Position + i]
         /\ got \in 0..Len(body.stream) /\ Len(body.stream) \in Nat
         /\ body.stream \in Seq(Token)
         /\ length \in Nat
<1>1. ob.bytes = << >>
  BY DEF IInv, Control
<1>2. /\ tb \in Queue /\ Room(tb) >= 0 /\ got \in 0..Len(body.stream)
      /\ body.stream \in Seq(Token) /\ length \in Nat
  BY DEF IInv, TypeOK, BodyType
<1>3. /\ tb.bytes \in Seq(Token) /\ Pending(tb) = Len(tb.bytes) /\ Len(tb.bytes) \in Nat
      /\ Len(body.stream) \in Nat
  BY <1>2, NonePending, LenProperties
<1>4. tb.bytes \o ob.bytes = tb.bytes
  BY <1>1, <1>3, ConcatEmptySeq
<1>5. Position >= 0 /\ tb.bytes \o ob.bytes = SubSeq(body.stream, Position + 1, got)
  BY DEF IInv, Placed
<1>6. Len(ob.bytes) = 0
  BY <1>1, EmptySeq
<1>7. Position = got - Len(tb.bytes)
  BY <1>2, <1>3, <1>6 DEF Position
<1>8. Position \in 0..got /\ got - Position = Len(tb.bytes)
  BY <1>2, <1>3, <1>5, <1>7
<1>9. \A i \in 1..got - Position :
        SubSeq(body.stream, Position + 1, got)[i] = body.stream[Position + i]
  BY <1>2, <1>8, Part
<1>10. QED
  BY <1>1, <1>2, <1>3, <1>4, <1>5, <1>7, <1>8, <1>9

\* w is what is left of tb behind the first k, and how much of it is wanted.
Remains(w, k) ==
  /\ w.b \in Queue /\ Room(w.b) >= 0 /\ w.n \in Nat
  /\ w.b.bytes = SubSeq(tb.bytes, k + 1, Pending(tb))
  /\ Pending(w.b) = Pending(tb) - k
  /\ SubSeq(tb.bytes, 1, k) \in Seq(Token \ ByteToken)
  /\ SubSeq(tb.bytes, 1, k) \o w.b.bytes = tb.bytes

\* w is all of tb, or what follows the line that gives a size.
Choice(w, k) ==
  /\ Remains(w, k)
  /\ \/ ~AtSize /\ k = 0 /\ w.n = length
     \/ /\ AtSize /\ k \in 1..Pending(tb)
        /\ \/ tb.bytes[k] = Last0 /\ w.n = 0
           \/ k - 1 \in 1..Pending(tb) /\ tb.bytes[k - 1] = Size(w.n)

\* What write is called with is what follows a size, or all there is.
LEMMA Chosen ==
  ASSUME tb \in Queue, Room(tb) >= 0, length \in Nat, NEW w \in ToWrite
  PROVE  \E k \in 0..Pending(tb) : Choice(w, k)
<1>0. tb.bytes \in Seq(Token) /\ Pending(tb) = Len(tb.bytes) /\ Pending(tb) \in Nat
  BY NonePending
<1>1. CASE ~AtSize
  <2>1. w = [b |-> tb, n |-> length]
    BY <1>1 DEF ToWrite
  <2>2. w.b = tb /\ w.n = length
    BY <2>1
  <2>3. /\ SubSeq(tb.bytes, 1, 0) = << >>
        /\ SubSeq(tb.bytes, 0 + 1, Pending(tb)) = tb.bytes
    BY <1>0, SubSeqEmpty, SubSeqFull
  <2>4. << >> \in Seq(Token \ ByteToken) /\ << >> \o tb.bytes = tb.bytes
    BY <1>0, EmptySeq, ConcatEmptySeq
  <2>5. Remains(w, 0)
    <3>1. Pending(tb) = Pending(tb) - 0
      BY <1>0
    <3>2. QED
      BY <2>2, <2>3, <2>4, <3>1 DEF Remains
  <2>6. 0 \in 0..Pending(tb)
    BY <1>0
  <2>7. QED
    BY <1>1, <2>2, <2>5, <2>6 DEF Choice
<1>2. CASE AtSize
  <2>1. PICK i \in LineEnd(tb.bytes) :
          w = [b |-> Drop(tb, i),
               n |-> IF tb.bytes[i] = Last0 THEN 0 ELSE tb.bytes[i - 1][2]]
    BY <1>2 DEF ToWrite
  <2>2. /\ w.b = Drop(tb, i)
        /\ w.n = IF tb.bytes[i] = Last0 THEN 0 ELSE tb.bytes[i - 1][2]
    BY <2>1
  <2>3. /\ i \in 1..Len(tb.bytes)
        /\ \A j \in 1..i : tb.bytes[j] \in Token \ ByteToken
        /\ tb.bytes[i] # Last0 =>
             /\ i - 1 \in 1..Len(tb.bytes) /\ tb.bytes[i - 1][2] \in Nat
             /\ tb.bytes[i - 1] = Size(tb.bytes[i - 1][2])
    BY <1>0, LineEnds
  <2>4. i \in 0..Pending(tb) /\ i \in 1..Pending(tb) /\ i \in Int /\ 1 \in Int
    BY <1>0, <2>3
  <2>5. /\ Drop(tb, i) \in Queue /\ Room(Drop(tb, i)) >= 0
        /\ Drop(tb, i).bytes = SubSeq(tb.bytes, i + 1, Pending(tb))
        /\ Pending(Drop(tb, i)) = Pending(tb) - i
        /\ SubSeq(tb.bytes, 1, i) \o Drop(tb, i).bytes = tb.bytes
    BY <2>4, DropType
  <2>6. SubSeq(tb.bytes, 1, i) \in Seq(Token \ ByteToken)
    BY <2>3, <2>4, SubSeqProperties
  <2>7. w.n \in Nat
    BY <2>2, <2>3
  <2>8. Remains(w, i)
    BY <2>2, <2>5, <2>6, <2>7 DEF Remains
  <2>9. \/ tb.bytes[i] = Last0 /\ w.n = 0
        \/ i - 1 \in 1..Pending(tb) /\ tb.bytes[i - 1] = Size(w.n)
    BY <1>0, <2>2, <2>3
  <2>10. QED
    BY <1>2, <2>4, <2>8, <2>9 DEF Choice
<1>3. QED
  BY <1>1, <1>2

\* No byte is passed over.
LEMMA PassedOver ==
  ASSUME tb \in Queue, NEW w, NEW k \in 0..Pending(tb), Remains(w, k)
  PROVE  Payload(w.b.bytes) = Payload(tb.bytes)
<1> DEFINE a == SubSeq(tb.bytes, 1, k)
           c == w.b.bytes
<1>1. a \in Seq(Token \ ByteToken) /\ a \o c = tb.bytes /\ w.b \in Queue
  BY DEF Remains
<1>2. c \in Seq(Token)
  BY <1>1, NonePending
<1> HIDE DEF a, c
<1>3. a \in Seq(Token)
  BY <1>1, SeqMonotonic
<1>4. Payload(a) = << >>
  BY <1>1, Payloads
<1>5. Payload(a \o c) = Payload(a) \o Payload(c) /\ Payload(c) \in Seq(Token)
  BY <1>2, <1>3, Payloads, ZenonT(40)
<1>6. << >> \o Payload(c) = Payload(c)
  BY <1>5, ConcatEmptySeq
<1>7. QED
  BY <1>1, <1>4, <1>5, <1>6 DEF c

\* Where it is in the stream, and what follows there.
LEMMA Wanted ==
  ASSUME IInv, Open, infd = "open", ~due, NEW w \in ToWrite, NEW k \in 0..Pending(tb),
         Choice(w, k)
  PROVE  /\ w.b.bytes = SubSeq(body.stream, (Position + k) + 1, got)
         /\ IF body.chunked
            THEN \A j \in (Position + k) + 1 .. (Position + k) + w.n :
                   j \in DOMAIN body.stream => body.stream[j] \in ByteToken
            ELSE (Position + k) + w.n = body.declared
<1>0. /\ tb \in Queue /\ Room(tb) >= 0
      /\ Pending(tb) = Len(tb.bytes) /\ Len(tb.bytes) \in Nat
      /\ Position = got - Len(tb.bytes) /\ Position \in 0..got
      /\ tb.bytes = SubSeq(body.stream, Position + 1, got)
      /\ \A i \in 1..Len(tb.bytes) : tb.bytes[i] = body.stream[Position + i]
      /\ got \in 0..Len(body.stream) /\ Len(body.stream) \in Nat
      /\ body.stream \in Seq(Token) /\ length \in Nat
      /\ DOMAIN body.stream = 1..Len(body.stream)
  BY InPlace, LenProperties
<1>n. /\ Position \in Nat /\ got = Position + Pending(tb) /\ Pending(tb) \in Nat
      /\ got \in Nat /\ got <= Len(body.stream) /\ Len(body.stream) \in Nat
      /\ Pending(tb) = Len(tb.bytes)
  BY <1>0
<1>1. w.b.bytes = SubSeq(body.stream, (Position + k) + 1, got)
  <2>0. Pending(tb) = got - Position
    BY <1>n
  <2>1. w.b.bytes = SubSeq(tb.bytes, k + 1, got - Position)
    BY <2>0 DEF Choice, Remains
  <2>2. k \in 0..got - Position
    BY <2>0
  <2>3. SubSeq(SubSeq(body.stream, Position + 1, got), k + 1, got - Position)
          = SubSeq(body.stream, (Position + k) + 1, got)
    BY <1>0, <2>2, PartOfPart
  <2>4. QED
    BY <1>0, <2>1, <2>3
<1>c. /\ Remains(w, k)
      /\ \/ ~AtSize /\ k = 0 /\ w.n = length
         \/ /\ AtSize /\ k \in 1..Pending(tb)
            /\ \/ tb.bytes[k] = Last0 /\ w.n = 0
               \/ k - 1 \in 1..Pending(tb) /\ tb.bytes[k - 1] = Size(w.n)
  BY DEF Choice
<1>2. CASE ~AtSize /\ k = 0 /\ w.n = length
  <2>1. Position + k = Position
    BY <1>0, <1>2
  <2>2. IF body.chunked
        THEN \A j \in Position + 1 .. Position + length :
               j \in DOMAIN body.stream => body.stream[j] \in ByteToken
        ELSE Position + length = body.declared
    BY DEF IInv, Placed
  <2>3. QED
    BY <1>1, <1>2, <2>1, <2>2
<1>3. CASE AtSize /\ k \in 1..Pending(tb) /\ tb.bytes[k] = Last0 /\ w.n = 0
  <2>1. \A j \in (Position + k) + 1 .. (Position + k) + w.n : FALSE
    BY <1>0, <1>3
  <2>2. QED
    BY <1>1, <1>3, <2>1 DEF AtSize
<1>4. CASE AtSize /\ k - 1 \in 1..Pending(tb) /\ tb.bytes[k - 1] = Size(w.n)
  <2> DEFINE i == Position + (k - 1)
  <2>1. i \in 1..Len(body.stream) /\ body.stream[i] = Size(w.n) /\ w.n \in Nat
    <3>1. i \in 1..Len(body.stream)
      BY <1>n, <1>4
    <3>2. body.stream[i] = tb.bytes[k - 1]
      BY <1>0, <1>4
    <3>3. QED
      BY <1>4, <1>c, <3>1, <3>2 DEF Remains
  <2>2. i + 2 = (Position + k) + 1 /\ i + 1 + w.n = (Position + k) + w.n
    BY <1>0, <1>4, <2>1
  <2> HIDE DEF i
  <2>3. body.chunked /\ BodyType
    BY <1>4 DEF AtSize, IInv
  <2>4. \A j \in i + 2 .. i + 1 + w.n : j \in DOMAIN body.stream =>
          body.stream[j] \in ByteToken
    BY <2>1, <2>3, Behind
  <2>5. QED
    BY <1>1, <2>2, <2>3, <2>4
<1>5. QED
  BY <1>c, <1>2, <1>3, <1>4

\* When nothing is wanted of it, the body ends there.
LEMMA NothingWanted ==
  ASSUME IInv, Open, infd = "open", ~due, NEW w \in ToWrite, NEW k \in 0..Pending(tb),
         Choice(w, k), w.n = 0, Pending(tb) > 0, Sized
  PROVE  /\ body.chunked
         /\ tb.bytes \in Seq(Token \ ByteToken)
         /\ \A j \in got + 1 .. Len(body.stream) : body.stream[j] \notin ByteToken
         /\ body.stream # << >> /\ Last(body.stream) = Last0 => got = Len(body.stream)
<1>0. /\ tb.bytes \in Seq(Token)
      /\ Pending(tb) = Len(tb.bytes) /\ Len(tb.bytes) \in Nat
      /\ Position = got - Len(tb.bytes) /\ Position \in 0..got
      /\ \A i \in 1..Len(tb.bytes) : tb.bytes[i] = body.stream[Position + i]
      /\ got \in 0..Len(body.stream) /\ Len(body.stream) \in Nat
      /\ body.stream \in Seq(Token) /\ length \in Nat
  BY InPlace, LenProperties
<1>n. /\ Position \in Nat /\ got = Position + Pending(tb) /\ Pending(tb) \in Nat
      /\ got \in Nat /\ got <= Len(body.stream) /\ Len(body.stream) \in Nat
      /\ Pending(tb) = Len(tb.bytes)
  BY <1>0
<1>1. BodyType /\ body.declared \in Nat
  BY DEF IInv, BodyType
<1>c. /\ Remains(w, k)
      /\ \/ ~AtSize /\ k = 0 /\ w.n = length
         \/ /\ AtSize /\ k \in 1..Pending(tb)
            /\ \/ tb.bytes[k] = Last0 /\ w.n = 0
               \/ k - 1 \in 1..Pending(tb) /\ tb.bytes[k - 1] = Size(w.n)
  BY DEF Choice
<1>2. AtSize
  <2>1. SUFFICES ASSUME ~AtSize PROVE FALSE
    OBVIOUS
  <2>2. length = 0
    BY <1>c, <2>1
  <2>3. ~body.chunked
    BY <2>1, <2>2 DEF AtSize
  <2>4. body.declared >= Len(body.stream)
    BY <2>3 DEF Sized
  <2>5. Position + length = body.declared
    BY <2>3 DEF IInv, Placed
  <2>6. QED
    BY <1>0, <1>1, <2>2, <2>4, <2>5
<1>3. body.chunked
  BY <1>2 DEF AtSize
<1>4. k \in 1..Pending(tb) /\ SubSeq(tb.bytes, 1, k) \in Seq(Token \ ByteToken)
  BY <1>c, <1>2 DEF Remains
<1>5. \A j \in 1..k : tb.bytes[j] \in Token \ ByteToken
  <2>1. k \in 0..Len(tb.bytes) /\ 0 \in 0..k /\ k - 0 = k /\ 0 + 1 = 1
    BY <1>0, <1>4
  <2>2. /\ Len(SubSeq(tb.bytes, 0 + 1, k)) = k - 0
        /\ \A j \in 1..k - 0 : SubSeq(tb.bytes, 0 + 1, k)[j] = tb.bytes[0 + j]
    BY <1>0, <2>1, Part
  <2>3. Len(SubSeq(tb.bytes, 1, k)) = k /\ \A j \in 1..k : SubSeq(tb.bytes, 1, k)[j] = tb.bytes[j]
    <3>1. \A j \in 1..k : 0 + j = j
      BY <1>4
    <3>2. QED
      BY <2>1, <2>2, <3>1
  <2>4. \A j \in 1..k : SubSeq(tb.bytes, 1, k)[j] \in Token \ ByteToken
    BY <1>4, <2>3, ElementOfSeq
  <2>5. QED
    BY <2>3, <2>4
<1>6. CASE tb.bytes[k] = Last0
  <2>0. k \in 1..Len(tb.bytes) /\ Position + k \in 1..Len(body.stream)
    BY <1>n, <1>4
  <2>1. body.stream[Position + k] = Last0
    BY <1>0, <1>6, <2>0
  <2>2. Position + k = Len(body.stream)
    BY <1>1, <1>3, <2>0, <2>1, Behind
  <2>3. got = Len(body.stream) /\ k = Len(tb.bytes)
    BY <1>n, <1>4, <2>2
  <2>4. tb.bytes \in Seq(Token \ ByteToken)
    BY <1>0, <1>4, <2>3, SubSeqFull
  <2>5. \A j \in got + 1 .. Len(body.stream) : FALSE
    BY <1>0, <2>3
  <2>6. QED
    BY <1>3, <2>3, <2>4, <2>5
<1>7. CASE k - 1 \in 1..Pending(tb) /\ tb.bytes[k - 1] = Size(w.n)
  <2> DEFINE i == Position + (k - 1)
  <2>1. i \in 1..Len(body.stream) /\ body.stream[i] = Size(0)
    <3>1. i \in 1..Len(body.stream)
      BY <1>n, <1>7, SMTT(30)
    <3>2. body.stream[i] = tb.bytes[k - 1]
      BY <1>0, <1>7
    <3>3. QED
      BY <1>7, <3>1, <3>2
  <2>2. \A j \in i + 1 .. Len(body.stream) : body.stream[j] = NL
    BY <1>1, <1>3, <2>1, Behind
  <2>3. NL \in Token \ ByteToken /\ NL # Last0
    BY Elements DEF NL, Last0
  <2>4. i + 1 = Position + k /\ i \in Nat
    BY <1>n, <1>4, <1>7
  <2>5. ASSUME NEW j \in 1..Len(tb.bytes) PROVE tb.bytes[j] \in Token \ ByteToken
    <3>1. CASE j \in 1..k
      BY <1>5, <3>1
    <3>2. CASE j \notin 1..k
      <4>1. Position + j \in i + 1 .. Len(body.stream)
        BY <1>n, <1>4, <2>4, <3>2
      <4>2. QED
        BY <1>0, <2>2, <2>3, <4>1
    <3>3. QED
      BY <3>1, <3>2
  <2>6. tb.bytes \in Seq(Token \ ByteToken)
    BY <1>0, <2>5
  <2>7. got + 1 >= i + 1 /\ Position + k \in i + 1 .. Len(body.stream)
    BY <1>n, <1>4, <2>4
  <2>8. \A j \in got + 1 .. Len(body.stream) : body.stream[j] \notin ByteToken
    <3>1. ASSUME NEW j \in got + 1 .. Len(body.stream) PROVE j \in i + 1 .. Len(body.stream)
      BY <1>0, <1>n, <2>4, <2>7
    <3>2. NL \notin ByteToken
      BY <2>3
    <3>3. QED
      BY <2>2, <3>1, <3>2, Zenon
  <2>9. Last(body.stream) = NL
    <3>1. Len(body.stream) \in i + 1 .. Len(body.stream)
      BY <1>n, <2>7
    <3>2. QED
      BY <2>2, <3>1 DEF Last
  <2>10. QED
    BY <1>3, <2>3, <2>6, <2>8, <2>9
<1>8. QED
  BY <1>c, <1>2, <1>6, <1>7

-----------------------------------------------------------------------------
(***************************************************************************)
(* What the steps make of the buffers.                                      *)
(***************************************************************************)

\* What flush_body and copy_r store into.
LEMMA StoreType ==
  ASSUME tb \in Queue, rb \in Queue, Room(tb) >= 0, Room(rb) >= 0,
         NEW s \in Seq(Token), Len(s) <= Room(Target), Store(s)
  PROVE  /\ tb' \in Queue /\ rb' \in Queue /\ Room(tb') >= 0 /\ Room(rb') >= 0
         /\ Transforming => tb'.bytes = tb.bytes \o s /\ rb' = rb
         /\ ~Transforming => rb'.bytes = rb.bytes \o s /\ tb' = tb
<1>1. CASE Transforming
  <2>1. tb' = Put(tb, s) /\ rb' = rb /\ Len(s) <= Room(tb)
    BY <1>1 DEF Store, Target
  <2>2. Put(tb, s) \in Queue /\ Room(Put(tb, s)) >= 0 /\ Put(tb, s).bytes = tb.bytes \o s
    BY <2>1, PutType
  <2>3. QED
    BY <1>1, <2>1, <2>2
<1>2. CASE ~Transforming
  <2>1. rb' = Put(rb, s) /\ tb' = tb /\ Len(s) <= Room(rb)
    BY <1>2 DEF Store, Target
  <2>2. Put(rb, s) \in Queue /\ Room(Put(rb, s)) >= 0 /\ Put(rb, s).bytes = rb.bytes \o s
    BY <2>1, PutType
  <2>3. QED
    BY <1>2, <2>1, <2>2
<1>3. QED
  BY <1>1, <1>2

\* flush_body stores what came with the head.
LEMMA FlushBodyIs ==
  ASSUME IInv, FlushBody
  PROVE  /\ due /\ ~due' /\ loop = "select" /\ infd # "closed"
         /\ tb.bytes = << >> /\ ob' = Empty
         /\ tb' \in Queue /\ rb' \in Queue /\ Room(tb') >= 0 /\ Room(rb') >= 0
         /\ Transforming => tb'.bytes = tb.bytes \o ob.bytes /\ rb' = rb
         /\ ~Transforming => rb'.bytes = rb.bytes \o ob.bytes /\ tb' = tb
         /\ body_length' \in Int
         /\ UNCHANGED <<infd, outfd, length, got, writing, loop, in, out, child, held,
                        toClient, crash, cst>>
<1>1. /\ tb \in Queue /\ rb \in Queue /\ ob \in Queue /\ Room(tb) >= 0 /\ Room(rb) >= 0
      /\ body_length \in Int /\ Control
  BY DEF IInv, TypeOK
<1>2. /\ due /\ due' = FALSE /\ loop = "select" /\ Pending(ob) <= Room(Target)
      /\ Store(ob.bytes) /\ ob' = Empty /\ BodyIsDone(Pending(ob))
      /\ UNCHANGED <<infd, outfd, length, got, writing, loop, in, out, child, held,
                     toClient, crash, cst>>
  BY DEF FlushBody, ends, process, call
<1>3. ob.bytes \in Seq(Token) /\ Len(ob.bytes) <= Room(Target) /\ Pending(ob) \in Nat
  BY <1>1, <1>2, NonePending
<1>4. /\ tb' \in Queue /\ rb' \in Queue /\ Room(tb') >= 0 /\ Room(rb') >= 0
      /\ Transforming => tb'.bytes = tb.bytes \o ob.bytes /\ rb' = rb
      /\ ~Transforming => rb'.bytes = rb.bytes \o ob.bytes /\ tb' = tb
  BY <1>1, <1>2, <1>3, StoreType
<1>5. body_length' \in Int
  BY <1>1, <1>2, <1>3 DEF BodyIsDone
<1>6. tb.bytes = << >> /\ infd # "closed"
  BY <1>1, <1>2 DEF Control
<1>7. QED
  BY <1>2, <1>4, <1>5, <1>6

\* copy_r of the origin stores what it receives.
LEMMA OriginCopyRIs ==
  ASSUME IInv, NEW n \in 0..Capacity, OriginCopyR(n)
  PROVE  /\ ~due /\ loop = "select" /\ infd # "closed" /\ ob.bytes = << >>
         /\ got' = got + n /\ got' \in 0..Len(body.stream)
         /\ SubSeq(body.stream, got + 1, got') \in Seq(Token)
         /\ tb' \in Queue /\ rb' \in Queue /\ Room(tb') >= 0 /\ Room(rb') >= 0
         /\ Transforming =>
              tb'.bytes = tb.bytes \o SubSeq(body.stream, got + 1, got') /\ rb' = rb
         /\ ~Transforming =>
              rb'.bytes = rb.bytes \o SubSeq(body.stream, got + 1, got') /\ tb' = tb
         /\ body_length' \in Int
         /\ UNCHANGED <<infd, outfd, due, ob, length, writing, loop, in, out, child,
                        held, toClient, crash, cst>>
<1>1. /\ tb \in Queue /\ rb \in Queue /\ Room(tb) >= 0 /\ Room(rb) >= 0
      /\ body_length \in Int /\ Control /\ got \in 0..Len(body.stream)
      /\ body.stream \in Seq(Token)
  BY DEF IInv, TypeOK, BodyType
<1>2. /\ "origin" \in interest /\ loop = "select" /\ infd # "closed"
      /\ n \in 0..Least(Room(Target), Len(body.stream) - got)
      /\ got' = got + n
      /\ Store(SubSeq(body.stream, got + 1, got')) /\ BodyIsDone(n)
      /\ UNCHANGED <<infd, outfd, due, ob, length, writing, loop, in, out, child,
                     held, toClient, crash, cst>>
  BY DEF OriginCopyR, Handle, ends, process, call
<1>3. Room(Target) \in Int /\ Len(body.stream) \in Nat
  BY <1>1, NonePending DEF Target
<1>4. n <= Room(Target) /\ got' \in 0..Len(body.stream) /\ got \in 0..got' /\ got' - got = n
  BY <1>1, <1>2, <1>3 DEF Least
<1> DEFINE s == SubSeq(body.stream, got + 1, got')
<1>5. s \in Seq(Token) /\ Len(s) = n
  BY <1>1, <1>4, Part
<1> HIDE DEF s
<1>6. Store(s) /\ Len(s) <= Room(Target)
  BY <1>2, <1>4, <1>5 DEF s
<1>7. /\ tb' \in Queue /\ rb' \in Queue /\ Room(tb') >= 0 /\ Room(rb') >= 0
      /\ Transforming => tb'.bytes = tb.bytes \o s /\ rb' = rb
      /\ ~Transforming => rb'.bytes = rb.bytes \o s /\ tb' = tb
  BY <1>1, <1>5, <1>6, StoreType
<1>8. body_length' \in Int
  BY <1>1, <1>2 DEF BodyIsDone
<1>9. ~due /\ ob.bytes = << >>
  BY <1>1, <1>2 DEF Control
<1>10. QED
  BY <1>2, <1>4, <1>5, <1>7, <1>8, <1>9 DEF s

\* copy_w of tIn ends, with tb as it was.
LEMMA TransformInEndsIs ==
  ASSUME IInv, TransformInEnds
  PROVE  /\ Open /\ infd = "open" /\ ~due /\ loop = "select" /\ Pending(tb) > 0
         /\ infd' = "closed" /\ tb' = Empty
         /\ \E w \in ToWrite : w.n = 0
         /\ UNCHANGED <<outfd, due, ob, rb, length, body_length, got, writing, loop, in,
                        out, child, held, toClient, crash, cst>>
<1>1. /\ Open /\ "infd" \in interest /\ loop = "select" /\ Pending(tb) > 0
      /\ infd' = "closed" /\ tb' = Empty
      /\ \E w \in ToWrite : w.n = 0
      /\ UNCHANGED <<outfd, due, ob, rb, length, body_length, got, writing, loop, in,
                     out, child, held, toClient, crash, cst>>
  BY DEF TransformInEnds, TransformInDone, InWritable, Handle, process, call
<1>2. Control /\ tb \in Queue
  BY DEF IInv, TypeOK
<1>3. infd = "open"
  BY <1>1, <1>2 DEF Control
<1>4. ~due
  <2>1. tb.bytes # << >>
    BY <1>1, <1>2, NonePending
  <2>2. QED
    BY <1>2, <2>1 DEF Control
<1>5. QED
  BY <1>1, <1>3, <1>4

\* The bytes of a stream that are together in it.
LEMMA BytesThere ==
  ASSUME NEW s \in Seq(Token), NEW e \in 0..Len(s), NEW a \in 0..e, NEW n \in 0..e - a,
         \A j \in a + 1 .. a + n : s[j] \in ByteToken
  PROVE  SubSeq(SubSeq(s, a + 1, e), 1, n) \in Seq(ByteToken)
<1> DEFINE u == SubSeq(s, a + 1, e)
<1>1. Len(u) = e - a /\ \A i \in 1..e - a : u[i] = s[a + i]
  BY Part
<1> HIDE DEF u
<1>2. ASSUME NEW i \in 1..n PROVE u[i] \in ByteToken
  <2>1. i \in 1..e - a /\ a + i \in a + 1 .. a + n
    OBVIOUS
  <2>2. QED
    BY <1>1, <2>1
<1>3. SubSeq(u, 1, n) \in Seq(ByteToken)
  BY <1>2, SubSeqProperties
<1>4. QED
  BY <1>3 DEF u

\* What is wanted of tb is bytes.
LEMMA WritesBytes ==
  ASSUME IInv, Open, infd = "open", ~due, NEW w \in ToWrite, NEW k \in 0..Pending(tb),
         Choice(w, k)
  PROVE  /\ Least(Pending(w.b), w.n) \in 0..Pending(w.b)
         /\ SubSeq(w.b.bytes, 1, Least(Pending(w.b), w.n)) \in Seq(ByteToken)
<1>1. /\ w.b.bytes = SubSeq(body.stream, (Position + k) + 1, got)
      /\ IF body.chunked
         THEN \A j \in (Position + k) + 1 .. (Position + k) + w.n :
                j \in DOMAIN body.stream => body.stream[j] \in ByteToken
         ELSE (Position + k) + w.n = body.declared
  BY Wanted
<1>2. /\ Pending(tb) = Len(tb.bytes) /\ Len(tb.bytes) \in Nat
      /\ Position = got - Len(tb.bytes) /\ Position \in 0..got
      /\ got \in 0..Len(body.stream) /\ Len(body.stream) \in Nat
      /\ body.stream \in Seq(Token) /\ DOMAIN body.stream = 1..Len(body.stream)
  BY InPlace, LenProperties
<1>3. Pending(w.b) = Pending(tb) - k /\ w.n \in Nat
  BY DEF Choice, Remains
<1> DEFINE a == Position + k
           n == Least(Pending(w.b), w.n)
<1>4. /\ a \in 0..got /\ n \in 0..got - a /\ n <= w.n /\ n \in 0..Pending(w.b)
  BY <1>2, <1>3 DEF Least
<1>5. ASSUME NEW j \in a + 1 .. a + n PROVE body.stream[j] \in ByteToken
  <2>1. j \in a + 1 .. a + w.n /\ j \in DOMAIN body.stream
    <3>1. /\ w.n \in Nat /\ got \in 0..Len(body.stream) /\ Len(body.stream) \in Nat
          /\ DOMAIN body.stream = 1..Len(body.stream)
      BY <1>2, <1>3
    <3> HIDE DEF a, n
    <3>2. a \in Nat /\ n \in Nat /\ n <= w.n /\ a + n <= Len(body.stream)
      BY <1>4, <3>1
    <3>3. QED
      BY <1>5, <3>1, <3>2
  <2>2. CASE body.chunked
    BY <1>1, <2>1, <2>2
  <2>3. CASE ~body.chunked
    BY <2>1, <2>3 DEF IInv, BodyType
  <2>4. QED
    BY <2>2, <2>3
<1> HIDE DEF a, n
<1>6. SubSeq(SubSeq(body.stream, a + 1, got), 1, n) \in Seq(ByteToken)
  BY <1>2, <1>4, <1>5, BytesThere
<1>7. QED
  BY <1>1, <1>4, <1>6 DEF a, n

\* copy_w of tIn calls write.
LEMMA TransformWritesIs ==
  ASSUME IInv, TransformWrites
  PROVE  /\ Open /\ infd = "open" /\ ~due /\ loop = "select"
         /\ \E w \in ToWrite : \E k \in 0..Pending(tb) :
              /\ Choice(w, k) /\ w.n > 0 /\ tb' = w.b /\ length' = w.n
              /\ writing' = SubSeq(w.b.bytes, 1, Least(Pending(w.b), w.n))
              /\ Least(Pending(w.b), w.n) \in 0..Pending(w.b)
         /\ writing' \in Seq(ByteToken)
         /\ loop' = IF writing' = << >> THEN "select" ELSE "write"
         /\ UNCHANGED <<infd, outfd, due, ob, rb, body_length, got, in, out, child,
                        held, toClient, crash, cst, body>>
<1>1. /\ Open /\ "infd" \in interest /\ loop = "select" /\ Pending(tb) > 0
      /\ loop' = (IF writing' = << >> THEN "select" ELSE "write")
      /\ UNCHANGED <<infd, outfd, due, ob, rb, body_length, got, in, out, child,
                     held, toClient, crash, cst, body>>
  BY DEF TransformWrites, InWritable, Handle, process, ends, machines, exchange
<1>2. Control /\ tb \in Queue /\ Room(tb) >= 0 /\ length \in Nat
  BY DEF IInv, TypeOK
<1>3. infd = "open"
  BY <1>1, <1>2 DEF Control
<1>4. ~due
  <2>1. tb.bytes # << >>
    BY <1>1, <1>2, NonePending
  <2>2. QED
    BY <1>2, <2>1 DEF Control
<1>5. PICK w \in ToWrite :
        /\ w.n > 0 /\ tb' = w.b /\ length' = w.n
        /\ writing' = SubSeq(w.b.bytes, 1, Least(Pending(w.b), w.n))
  BY DEF TransformWrites
<1>6. PICK k \in 0..Pending(tb) : Choice(w, k)
  BY <1>2, Chosen
<1>7. /\ SubSeq(w.b.bytes, 1, Least(Pending(w.b), w.n)) \in Seq(ByteToken)
      /\ Least(Pending(w.b), w.n) \in 0..Pending(w.b)
  BY <1>1, <1>3, <1>4, <1>6, WritesBytes
<1>8. QED
  BY <1>1, <1>3, <1>4, <1>5, <1>6, <1>7

\* The pipe takes a part of what is written.
LEMMA PipeTakesIs ==
  ASSUME IInv, PipeTakes
  PROVE  /\ Open /\ infd = "open" /\ ~due /\ loop = "write" /\ child # "gone"
         /\ \E n \in 0..Len(writing) :
              /\ in' = in \o SubSeq(writing, 1, n)
              /\ writing' = SubSeq(writing, n + 1, Len(writing))
              /\ Len(in) + n <= PipeSize
         /\ UNCHANGED <<infd, outfd, due, ob, tb, rb, length, body_length, got, out,
                        child, held, toClient, crash, cst, loop, body>>
<1>1. /\ Open /\ loop = "write" /\ child # "gone"
      /\ UNCHANGED <<infd, outfd, due, ob, tb, rb, length, body_length, got, out,
                     child, held, toClient, crash, cst, loop, body>>
  BY DEF PipeTakes, Writing, exchange, machines, ends, buffers
<1>2. infd = "open" /\ ~due
  BY <1>1 DEF IInv, TypeOK, Control
<1>3. writing \in Seq(ByteToken) /\ in \in Seq(ByteToken)
  BY DEF IInv, StreamType
<1>4. Len(writing) \in Nat /\ Len(in) \in Nat /\ PipeSize \in Nat
  BY <1>3, LenProperties, PipeAssumption
<1> DEFINE n == Least(PipeSize - Len(in), Len(writing))
<1>5. /\ n > 0 /\ in' = in \o SubSeq(writing, 1, n)
      /\ writing' = SubSeq(writing, n + 1, Len(writing))
  BY DEF PipeTakes
<1>6. n \in 0..Len(writing) /\ Len(in) + n <= PipeSize
  BY <1>4, <1>5 DEF Least
<1> HIDE DEF n
<1>7. QED
  BY <1>1, <1>2, <1>5, <1>6

\* write has returned: tb is behind what was written, or the body is over.
LEMMA WriteReturnsIs ==
  ASSUME IInv, WriteReturns
  PROVE  /\ Open /\ infd = "open" /\ ~due /\ loop = "write" /\ loop' = "select"
         /\ writing = << >> /\ writing' = << >>
         /\ \E n \in 0..Pending(tb) :
              /\ n = Least(Pending(tb), length) /\ length' = length - n /\ length' \in Nat
              /\ \/ infd' = "closed" /\ tb' = Empty /\ ~body.chunked /\ length' = 0
                 \/ infd' = infd /\ tb' = Drop(tb, n)
         /\ UNCHANGED <<outfd, due, ob, rb, body_length, got, in, out,
                        child, held, toClient, crash, cst, body>>
<1>1. /\ Open /\ loop = "write" /\ writing = << >> /\ writing' = << >> /\ loop' = "select"
      /\ UNCHANGED <<outfd, due, ob, rb, body_length, got, in, out,
                     child, held, toClient, crash, cst, body>>
  BY DEF WriteReturns, TransformInDone, Writing, exchange, machines, ends, process
<1>2. infd = "open" /\ ~due /\ length \in Nat /\ Pending(tb) \in Nat
  BY <1>1, NonePending DEF IInv, TypeOK, Control
<1> DEFINE n == Least(Pending(tb), length)
<1>3. /\ length' = length - n
      /\ \/ infd' = "closed" /\ tb' = Empty /\ ~body.chunked /\ length' = 0
         \/ infd' = infd /\ tb' = Drop(tb, n)
  BY DEF WriteReturns, TransformInDone, AllWritten, ends
<1>4. n \in 0..Pending(tb) /\ length - n \in Nat
  BY <1>2 DEF Least
<1>5. n = Least(Pending(tb), length)
  OBVIOUS
<1> HIDE DEF n
<1>6. QED
  BY <1>1, <1>2, <1>3, <1>4, <1>5

\* What a chunk is made of.
LEMMA ChunkType ==
  ASSUME NEW s \in Seq(ByteToken)
  PROVE  /\ Chunk(s) \in Seq(OwnToken) /\ Chunk(s) \in Seq(Token)
         /\ Len(Chunk(s)) = Len(s) + 3
         /\ Chunk(s)[1] = Size(Len(s)) /\ Chunk(s)[2] = NL /\ Chunk(s)[Len(s) + 3] = NL
         /\ \A i \in 1..Len(s) : Chunk(s)[i + 2] = s[i]
         /\ Payload(Chunk(s)) = s
<1>0. /\ Len(s) \in Nat /\ NL \in OwnToken /\ Size(Len(s)) \in OwnToken
      /\ NL \notin ByteToken /\ Size(Len(s)) \notin ByteToken
      /\ ByteToken \subseteq OwnToken /\ OwnToken \subseteq Token
  BY LenProperties, Elements
<1> DEFINE front == <<Size(Len(s)), NL>>
           back == <<NL>>
           m == front \o s
<1>1. /\ front \in Seq(OwnToken) /\ Len(front) = 2 /\ front[1] = Size(Len(s)) /\ front[2] = NL
      /\ back \in Seq(OwnToken) /\ Len(back) = 1 /\ back[1] = NL
      /\ front \in Seq(Token \ ByteToken) /\ back \in Seq(Token \ ByteToken)
  BY <1>0
<1>2. s \in Seq(OwnToken) /\ s \in Seq(Token)
  BY <1>0, SeqMonotonic
<1> HIDE DEF front, back
<1>3. /\ m \in Seq(OwnToken) /\ Len(m) = Len(s) + 2
      /\ \A i \in 1..2 + Len(s) : m[i] = IF i <= 2 THEN front[i] ELSE s[i - 2]
  <2>1. front \in Seq(OwnToken) /\ s \in Seq(OwnToken)
    BY <1>1, <1>2
  <2>2. /\ m \in Seq(OwnToken) /\ Len(m) = Len(front) + Len(s)
        /\ \A i \in 1..Len(front) + Len(s) :
             m[i] = IF i <= Len(front) THEN front[i] ELSE s[i - Len(front)]
    BY <2>1, ConcatProperties
  <2> HIDE DEF m
  <2>3. Len(front) = 2 /\ Len(s) \in Nat
    BY <1>0, <1>1
  <2>4. QED
    BY <2>2, <2>3
<1>4. Chunk(s) = m \o back
  BY DEF Chunk, front, back
<1>a. front \in Seq(Token) /\ back \in Seq(Token)
  BY <1>0, <1>1, SeqMonotonic
<1>5. Payload(Chunk(s)) = s
  <2>1. /\ Payload(m) = Payload(front) \o Payload(s)
        /\ m \in Seq(Token)
    BY <1>2, <1>a, ConcatProperties, Payloads
  <2> HIDE DEF m
  <2>2. Payload(m \o back) = Payload(m) \o Payload(back)
    BY <1>a, <2>1, Payloads
  <2>3. Payload(front) = << >> /\ Payload(back) = << >> /\ Payload(s) = s
    BY <1>1, Payloads
  <2>4. (<< >> \o s) \o << >> = s
    BY <1>2, ConcatEmptySeq
  <2>5. QED
    BY <1>4, <2>1, <2>2, <2>3, <2>4
<1> HIDE DEF m
<1>6. /\ m \o back \in Seq(OwnToken) /\ Len(m \o back) = Len(s) + 3
      /\ \A i \in 1..(Len(s) + 2) + 1 :
           (m \o back)[i] = IF i <= Len(s) + 2 THEN m[i] ELSE back[i - (Len(s) + 2)]
  <2>1. m \in Seq(OwnToken) /\ back \in Seq(OwnToken)
    BY <1>1, <1>3
  <2>2. /\ m \o back \in Seq(OwnToken) /\ Len(m \o back) = Len(m) + Len(back)
        /\ \A i \in 1..Len(m) + Len(back) :
             (m \o back)[i] = IF i <= Len(m) THEN m[i] ELSE back[i - Len(m)]
    BY <2>1, ConcatProperties
  <2>3. Len(m) = Len(s) + 2 /\ Len(back) = 1 /\ Len(s) \in Nat
    BY <1>0, <1>1, <1>3
  <2>4. QED
    BY <2>2, <2>3
<1>7. /\ (m \o back)[1] = Size(Len(s)) /\ (m \o back)[2] = NL
      /\ (m \o back)[Len(s) + 3] = NL
  BY <1>0, <1>1, <1>3, <1>6
<1>8. ASSUME NEW i \in 1..Len(s) PROVE (m \o back)[i + 2] = s[i]
  BY <1>0, <1>3, <1>6
<1>9. Chunk(s) \in Seq(Token)
  BY <1>0, <1>4, <1>6, SeqMonotonic
<1>10. QED
  BY <1>4, <1>5, <1>6, <1>7, <1>8, <1>9

\* copy_r of tOut makes a chunk of the first bytes that the pipe has.
LEMMA FrameIs ==
  ASSUME IInv, OutReadable, MaxChunk > 0, out # << >>,
         Frame(SubSeq(out, 1, Taken))
  PROVE  /\ rb'.bytes = rb.bytes \o Chunk(SubSeq(out, 1, Taken))
         /\ rb' \in Queue /\ Room(rb') >= 0
         /\ Taken \in 1..Len(out)
         /\ SubSeq(out, 1, Taken) \in Seq(ByteToken)
         /\ Len(SubSeq(out, 1, Taken)) = Taken
         /\ SubSeq(out, Taken + 1, Len(out)) \in Seq(ByteToken)
         /\ Len(SubSeq(out, Taken + 1, Len(out))) <= Len(out)
         /\ SubSeq(out, 1, Taken) \o SubSeq(out, Taken + 1, Len(out)) = out
<1>2. /\ out \in Seq(ByteToken) /\ rb \in Queue /\ Room(rb) >= 0
  BY DEF IInv, TypeOK, StreamType
<1> DEFINE n == Taken
           rest == SubSeq(out, n + 1, Len(out))
<1>3. rb' = Put(rb, Chunk(SubSeq(out, 1, n)))
  BY DEF Frame
<1>4. n \in 1..Len(out) /\ n <= MaxChunk /\ n \in 0..Len(out)
  <2>1. Len(out) \in Nat \ {0} /\ Room(rb) \in Int
    BY <1>2, EmptySeq, NonePending
  <2>2. MaxChunk \in Int
    BY <2>1, CapacityAssumption DEF MaxChunk, Least, Overhead
  <2>3. QED
    BY <2>1, <2>2 DEF Least, Taken
<1> HIDE DEF n
<1>5. /\ SubSeq(out, 1, n) \in Seq(ByteToken) /\ rest \in Seq(ByteToken)
      /\ Len(SubSeq(out, 1, n)) = n /\ Len(rest) = Len(out) - n
      /\ SubSeq(out, 1, n) \o rest = out
  BY <1>2, <1>4, Split
<1>6. Len(rest) <= Len(out)
  BY <1>2, <1>4, <1>5, LenProperties
<1> DEFINE c == Chunk(SubSeq(out, 1, n))
<1>7. c \in Seq(Token) /\ Len(c) = n + 3
  BY <1>5, ChunkType
<1> HIDE DEF c
<1>8. Len(c) <= Room(rb)
  <2>1. Room(rb) \in Int
    BY <1>2, NonePending
  <2>2. QED
    BY <1>4, <1>7, <2>1, CapacityAssumption DEF MaxChunk, Least, Overhead
<1>9. rb' \in Queue /\ Room(rb') >= 0 /\ rb'.bytes = rb.bytes \o c
  BY <1>2, <1>3, <1>7, <1>8, PutType DEF c
<1>10. QED
  BY <1>4, <1>5, <1>6, <1>9 DEF c, n

\* What is not in the chunk stays in the pipe.
LEMMA TransformCopyRIs ==
  ASSUME IInv, TransformCopyR
  PROVE  /\ Open /\ outfd = "open" /\ infd # "none"
         /\ \E n \in 1..Len(out) :
              /\ rb'.bytes = rb.bytes \o Chunk(SubSeq(out, 1, n))
              /\ SubSeq(out, 1, n) \in Seq(ByteToken) /\ Len(SubSeq(out, 1, n)) = n
              /\ out' = SubSeq(out, n + 1, Len(out)) /\ out' \in Seq(ByteToken)
              /\ Len(out') <= Len(out)
              /\ SubSeq(out, 1, n) \o out' = out
         /\ rb' \in Queue /\ Room(rb') >= 0
         /\ UNCHANGED <<infd, outfd, due, ob, tb, length, body_length, got, in, child,
                        held, toClient, crash, cst, loop, writing, body>>
<1>1. /\ Open /\ "outfd" \in interest
      /\ UNCHANGED <<infd, outfd, due, ob, tb, length, body_length, got, in, child,
                     held, toClient, crash, cst, loop, writing, body>>
  BY DEF TransformCopyR, OutReadable, Handle, exchange, ends, call
<1>2. outfd = "open" /\ infd # "none"
  BY <1>1 DEF IInv, Control
<1>3. /\ OutReadable /\ MaxChunk > 0 /\ out # << >> /\ Frame(SubSeq(out, 1, Taken))
      /\ out' = SubSeq(out, Taken + 1, Len(out))
  BY DEF TransformCopyR
<1>4. QED
  BY <1>1, <1>2, <1>3, FrameIs

\* ... or is lost with the end of the pipe, once the exchange is marked as over.
LEMMA TransformOutCutIs ==
  ASSUME IInv, TransformOutCut
  PROVE  /\ Open /\ outfd = "open" /\ infd # "none" /\ "trans" \in done
         /\ \E n \in 1..Len(out) :
              /\ rb'.bytes = rb.bytes \o Chunk(SubSeq(out, 1, n))
              /\ SubSeq(out, 1, n) \in Seq(ByteToken) /\ Len(SubSeq(out, 1, n)) = n
              /\ SubSeq(out, n + 1, Len(out)) \in Seq(ByteToken)
              /\ SubSeq(out, 1, n) \o SubSeq(out, n + 1, Len(out)) = out
         /\ out # << >> /\ out' = << >> /\ outfd' = "cut"
         /\ rb' \in Queue /\ Room(rb') >= 0
         /\ UNCHANGED <<infd, due, ob, tb, length, body_length, got, in, child,
                        held, toClient, crash, cst, loop, writing, body>>
<1>1. /\ Open /\ "outfd" \in interest /\ "trans" \in done
      /\ out # << >> /\ out' = << >> /\ outfd' = "cut"
      /\ UNCHANGED <<infd, due, ob, tb, length, body_length, got, in, child,
                     held, toClient, crash, cst, loop, writing, body>>
  BY DEF TransformOutCut, OutReadable, Handle, exchange, call
<1>2. outfd = "open" /\ infd # "none"
  BY <1>1 DEF IInv, Control
<1>3. OutReadable /\ MaxChunk > 0 /\ out # << >> /\ Frame(SubSeq(out, 1, Taken))
  BY DEF TransformOutCut
<1>4. QED
  BY <1>1, <1>2, <1>3, FrameIs

\* ... or, at the end, the last one.
LEMMA TransformOutEndsIs ==
  ASSUME IInv, TransformOutEnds
  PROVE  /\ Open /\ outfd = "open" /\ infd # "none" /\ outfd' = "closed"
         /\ rb'.bytes = rb.bytes \o Chunk(<< >>)
         /\ rb' \in Queue /\ Room(rb') >= 0
         /\ UNCHANGED <<infd, due, ob, tb, length, body_length, got, in, out, child,
                        held, toClient, crash, cst, loop, writing, body>>
<1>1. /\ Open /\ "outfd" \in interest /\ MaxChunk > 0 /\ outfd' = "closed"
      /\ rb' = Put(rb, Chunk(<< >>))
      /\ UNCHANGED <<infd, due, ob, tb, length, body_length, got, in, out, child,
                     held, toClient, crash, cst, loop, writing, body>>
  BY DEF TransformOutEnds, OutReadable, Handle, exchange, call, process
<1>2. outfd = "open" /\ infd # "none" /\ rb \in Queue /\ Room(rb) >= 0
  BY <1>1 DEF IInv, TypeOK, Control
<1> DEFINE c == Chunk(<< >>)
<1>3. c \in Seq(Token) /\ Len(c) = 3
  <2> DEFINE e == << >>
  <2>1. e \in Seq(ByteToken) /\ Len(e) = 0
    BY EmptySeq
  <2> HIDE DEF e
  <2>2. Chunk(e) \in Seq(Token) /\ Len(Chunk(e)) = Len(e) + 3
    BY <2>1, ChunkType
  <2>3. QED
    BY <2>1, <2>2 DEF e
<1> HIDE DEF c
<1>4. Len(c) <= Room(rb)
  <2>1. Room(rb) \in Int
    BY <1>2, NonePending
  <2>2. QED
    BY <1>1, <1>3, <2>1, CapacityAssumption DEF MaxChunk, Least, Overhead
<1>5. rb' \in Queue /\ Room(rb') >= 0 /\ rb'.bytes = rb.bytes \o c
  BY <1>1, <1>2, <1>3, <1>4, PutType DEF c
<1>6. QED
  BY <1>1, <1>2, <1>5 DEF c

\* The child reads a byte.
LEMMA ChildReadIs ==
  ASSUME IInv, ChildRead
  PROVE  /\ child = "reading" /\ child' # "gone"
         /\ Head(in) \in ByteToken /\ Tail(in) \in Seq(ByteToken)
         /\ in = <<Head(in)>> \o Tail(in)
         /\ in' = Tail(in) /\ Len(in') <= Len(in)
         /\ held' = held \o Made(Head(in)) /\ held' \in Seq(ByteToken)
         /\ UNCHANGED <<infd, outfd, due, ob, tb, rb, length, body_length, got, out,
                        toClient, crash, cst, loop, writing, body>>
<1>1. /\ child = "reading" /\ child' # "gone" /\ in # << >> /\ in' = Tail(in)
      /\ held' = held \o Made(Head(in))
      /\ UNCHANGED <<infd, outfd, due, ob, tb, rb, length, body_length, got, out,
                     toClient, crash, cst, loop, writing, body>>
  BY DEF ChildRead, Child, exchange, machines, ends, buffers, call
<1>2. in \in Seq(ByteToken) /\ held \in Seq(ByteToken) /\ BodyType
  BY DEF IInv, StreamType
<1>3. /\ Head(in) \in ByteToken /\ Tail(in) \in Seq(ByteToken) /\ Len(Tail(in)) = Len(in) - 1
      /\ Len(in) \in Nat
  BY <1>1, <1>2, HeadTailProperties, LenProperties
<1>4. in = <<Head(in)>> \o Tail(in)
  BY <1>1, <1>2
<1>5. held' \in Seq(ByteToken)
  BY <1>1, <1>2, <1>3, MadeOfOne
<1>6. Len(in') <= Len(in)
  BY <1>1, <1>3
<1>7. QED
  BY <1>1, <1>3, <1>4, <1>5, <1>6

\* ... and writes one.
LEMMA ChildWriteIs ==
  ASSUME IInv, ChildWrite
  PROVE  /\ child \in {"writing", "ending"}
         /\ out' = out \o <<Head(held)>> /\ out' \in Seq(ByteToken)
         /\ Len(out) < PipeSize /\ Len(out') = Len(out) + 1
         /\ held' = Tail(held) /\ held' \in Seq(ByteToken)
         /\ <<Head(held)>> \in Seq(ByteToken)
         /\ held = <<Head(held)>> \o held'
         /\ UNCHANGED <<infd, outfd, due, ob, tb, rb, length, body_length, got, in,
                        toClient, crash, cst, loop, writing, body>>
<1>1. /\ child \in {"writing", "ending"} /\ Len(out) < PipeSize
      /\ out' = Append(out, Head(held)) /\ held' = Tail(held)
      /\ UNCHANGED <<infd, outfd, due, ob, tb, rb, length, body_length, got, in,
                     toClient, crash, cst, loop, writing, body>>
  BY DEF ChildWrite, Child, exchange, machines, ends, buffers, call
<1>2. out \in Seq(ByteToken) /\ held \in Seq(ByteToken) /\ held # << >>
  BY <1>1 DEF IInv, StreamType, ChildState
<1>3. Head(held) \in ByteToken /\ Tail(held) \in Seq(ByteToken)
  BY <1>2, HeadTailProperties
<1>4. held = <<Head(held)>> \o Tail(held)
  BY <1>2
<1>5. /\ Append(out, Head(held)) \in Seq(ByteToken)
      /\ Append(out, Head(held)) = out \o <<Head(held)>>
      /\ Len(Append(out, Head(held))) = Len(out) + 1
      /\ <<Head(held)>> \in Seq(ByteToken)
  BY <1>2, <1>3, AppendProperties, AppendIsConcat
<1>6. QED
  BY <1>1, <1>3, <1>4, <1>5

\* The client takes a part of write_buffer.
LEMMA ClientCopyWIs ==
  ASSUME IInv, NEW n \in 1..Capacity, ClientCopyW(n)
  PROVE  /\ Open /\ loop = "select"
         /\ rb' \in Queue /\ Room(rb') >= 0
         /\ SubSeq(rb.bytes, 1, n) \in Seq(Token)
         /\ SubSeq(rb.bytes, 1, n) \o rb'.bytes = rb.bytes
         /\ toClient' = toClient \o Answered(SubSeq(rb.bytes, 1, n))
         /\ toClient' \in Seq(OwnToken)
         /\ UNCHANGED <<infd, outfd, due, ob, tb, length, body_length, got, in, out,
                        child, held, crash, cst, loop, writing, body>>
<1>1. /\ Open /\ loop = "select" /\ n \in 1..Pending(rb)
      /\ rb' = Drop(rb, n) /\ toClient' = toClient \o Answered(SubSeq(rb.bytes, 1, n))
      /\ UNCHANGED <<infd, outfd, due, ob, tb, length, body_length, got, in, out,
                     child, held, crash, cst, loop, writing, body>>
  BY DEF ClientCopyW, Handle, exchange, machines, ends, process, call
<1>2. rb \in Queue /\ Room(rb) >= 0 /\ toClient \in Seq(OwnToken) /\ Pending(rb) \in Nat
  BY NonePending DEF IInv, TypeOK, StreamType
<1>3. n \in 0..Pending(rb)
  BY <1>1, <1>2
<1>4. /\ Drop(rb, n) \in Queue /\ Room(Drop(rb, n)) >= 0
      /\ SubSeq(rb.bytes, 1, n) \in Seq(Token)
      /\ SubSeq(rb.bytes, 1, n) \o Drop(rb, n).bytes = rb.bytes
  BY <1>2, <1>3, DropType
<1>5. Answered(SubSeq(rb.bytes, 1, n)) \in Seq(OwnToken)
  BY <1>4, Answers
<1>6. toClient' \in Seq(OwnToken)
  BY <1>1, <1>2, <1>5, ConcatProperties
<1>7. QED
  BY <1>1, <1>4, <1>6

\* client_timeout leaves the error reply behind everything else.
LEMMA ClientTimeoutIs ==
  ASSUME IInv, ClientTimeout
  PROVE  /\ Open /\ loop = "select"
         /\ rb' \in Queue /\ Room(rb') >= 0
         /\ rb'.bytes = rb.bytes \o <<ErrorReply>> /\ <<ErrorReply>> \in Seq(Token)
         /\ UNCHANGED <<infd, outfd, due, ob, tb, length, body_length, got, in, out,
                        child, held, toClient, crash, cst, loop, writing, body>>
<1>1. /\ Open /\ loop = "select" /\ Room(rb) >= 1
      /\ rb' = Put(rb, <<ErrorReply>>)
      /\ UNCHANGED <<infd, outfd, due, ob, tb, length, body_length, got, in, out,
                     child, held, toClient, crash, cst, loop, writing, body>>
  BY DEF ClientTimeout, Reply, exchange, ends, process, call
<1>2. rb \in Queue
  BY DEF IInv, TypeOK
<1> DEFINE e == <<ErrorReply>>
<1>3. e \in Seq(Token) /\ Len(e) = 1
  BY Elements
<1> HIDE DEF e
<1>4. Len(e) <= Room(rb)
  BY <1>1, <1>2, <1>3, NonePending
<1>5. rb' \in Queue /\ Room(rb') >= 0 /\ rb'.bytes = rb.bytes \o e
  BY <1>1, <1>2, <1>3, <1>4, PutType DEF e
<1>6. QED
  BY <1>1, <1>3, <1>5 DEF e

\* The child's other steps.
LEMMA ChildEnds ==
  ASSUME ChildEof \/ ChildBreaks \/ ChildDies
  PROVE  /\ held' = held \/ held' = << >>
         /\ child # "gone"
         /\ ChildDies => "child" \in fault /\ child' = "gone"
         /\ ChildBreaks => outfd = "cut"
         /\ ChildEof => held' = held
         /\ UNCHANGED <<infd, outfd, due, ob, tb, rb, length, body_length, got, in, out,
                        toClient, crash, cst, loop, writing, body>>
  BY DEF ChildEof, ChildBreaks, ChildDies, Child, exchange, machines, ends, buffers,
         call

-----------------------------------------------------------------------------
(***************************************************************************)
(* The parts of the invariant that are about data are kept.                 *)
(***************************************************************************)

\* The types of the buffers are kept.
LEMMA BuffersStep == IInv /\ [Next]_vars => BuffersType'
<1> SUFFICES ASSUME IInv, [Next]_vars PROVE BuffersType'
  OBVIOUS
<1>0. BuffersType /\ Control
  BY DEF IInv, TypeOK, BuffersType
<1>b. UNCHANGED body
  BY ExchangeStays
<1>1. CASE Idle
  BY <1>0, <1>1, IdleStep DEF BuffersType
<1>2. CASE Quits
  <2>1. /\ ob' = Empty /\ tb' = Empty /\ rb' = Empty /\ length' = 0 /\ body_length' = 0
        /\ got' = got
    BY <1>2, QuitsStep DEF ClientDone
  <2>2. QED
    BY <1>0, <1>b, <2>1, EmptyType DEF BuffersType
<1>3. CASE FlushBody
  BY <1>0, <1>b, <1>3, FlushBodyIs, EmptyType DEF BuffersType
<1>4. CASE \E n \in 0..Capacity : OriginCopyR(n)
  BY <1>0, <1>b, <1>4, OriginCopyRIs DEF BuffersType
<1>5. CASE TransformInEnds
  BY <1>0, <1>b, <1>5, TransformInEndsIs, EmptyType DEF BuffersType
<1>6. CASE TransformWrites
  <2>1. PICK w \in ToWrite, k \in 0..Pending(tb) :
          Choice(w, k) /\ tb' = w.b /\ length' = w.n
    BY <1>6, TransformWritesIs
  <2>2. tb' \in Queue /\ Room(tb') >= 0 /\ length' \in Nat
    BY <2>1 DEF Choice, Remains
  <2>3. UNCHANGED <<ob, rb, body_length, got>>
    BY <1>6, TransformWritesIs
  <2>4. QED
    BY <1>0, <1>b, <2>2, <2>3 DEF BuffersType
<1>7. CASE WriteReturns
  <2>1. PICK n \in 0..Pending(tb) :
          length' \in Nat /\ (tb' = Empty \/ tb' = Drop(tb, n))
    BY <1>7, WriteReturnsIs
  <2>2. tb' \in Queue /\ Room(tb') >= 0
    <3>1. Drop(tb, n) \in Queue /\ Room(Drop(tb, n)) >= 0
      BY <1>0, DropType DEF BuffersType
    <3>2. QED
      BY <2>1, <3>1, EmptyType
  <2>3. UNCHANGED <<ob, rb, body_length, got>>
    BY <1>7, WriteReturnsIs
  <2>4. QED
    BY <1>0, <1>b, <2>1, <2>2, <2>3 DEF BuffersType
<1>8. CASE PipeTakes
  BY <1>0, <1>b, <1>8, PipeTakesIs DEF BuffersType
<1>9. CASE TransformCopyR
  BY <1>0, <1>b, <1>9, TransformCopyRIs DEF BuffersType
<1>10. CASE TransformOutEnds
  BY <1>0, <1>b, <1>10, TransformOutEndsIs DEF BuffersType
<1>11. CASE ChildRead
  BY <1>0, <1>b, <1>11, ChildReadIs DEF BuffersType
<1>12. CASE ChildWrite
  BY <1>0, <1>b, <1>12, ChildWriteIs DEF BuffersType
<1>13. CASE ChildEof \/ ChildBreaks \/ ChildDies
  BY <1>0, <1>b, <1>13, ChildEnds DEF BuffersType
<1>14. CASE \E n \in 1..Capacity : ClientCopyW(n)
  BY <1>0, <1>b, <1>14, ClientCopyWIs DEF BuffersType
<1>15. CASE ClientTimeout
  BY <1>0, <1>b, <1>15, ClientTimeoutIs DEF BuffersType
<1>16. CASE TransformOutCut
  BY <1>0, <1>b, <1>16, TransformOutCutIs DEF BuffersType
<1>17. QED
  BY <1>1, <1>2, <1>3, <1>4, <1>5, <1>6, <1>7, <1>8, <1>9, <1>10, <1>11, <1>12, <1>13,
     <1>14, <1>15, <1>16, Steps

\* What passes through the child stays bytes, and the pipes do not overflow.
LEMMA StreamStep == IInv /\ [Next]_vars => StreamType' /\ PipesType'
<1> SUFFICES ASSUME IInv, [Next]_vars PROVE StreamType' /\ PipesType'
  OBVIOUS
<1>0. StreamType /\ PipesType
  BY DEF IInv, TypeOK, PipesType
<1>l. Len(in) \in Nat /\ Len(out) \in Nat /\ PipeSize \in Nat
  BY <1>0, LenProperties, PipeAssumption DEF StreamType
<1> USE DEF StreamType, PipesType
<1>1. CASE Idle
  BY <1>0, <1>1, IdleStep
<1>2. CASE Quits
  BY <1>0, <1>2, QuitsStep
<1>3. CASE FlushBody
  BY <1>0, <1>3, FlushBodyIs
<1>4. CASE \E n \in 0..Capacity : OriginCopyR(n)
  BY <1>0, <1>4, OriginCopyRIs
<1>5. CASE TransformInEnds
  BY <1>0, <1>5, TransformInEndsIs
<1>6. CASE TransformWrites
  <2>1. writing' \in Seq(ByteToken) /\ UNCHANGED <<in, out, held, toClient>>
    BY <1>6, TransformWritesIs
  <2>2. QED
    BY <1>0, <2>1
<1>7. CASE WriteReturns
  <2>1. writing' = writing /\ UNCHANGED <<in, out, held, toClient>>
    BY <1>7, WriteReturnsIs
  <2>2. QED
    BY <1>0, <2>1
<1>8. CASE PipeTakes
  <2>1. PICK n \in 0..Len(writing) :
          /\ in' = in \o SubSeq(writing, 1, n)
          /\ writing' = SubSeq(writing, n + 1, Len(writing))
          /\ Len(in) + n <= PipeSize
    BY <1>8, PipeTakesIs
  <2>2. UNCHANGED <<out, held, toClient>>
    BY <1>8, PipeTakesIs
  <2>3. /\ SubSeq(writing, 1, n) \in Seq(ByteToken) /\ Len(SubSeq(writing, 1, n)) = n
        /\ SubSeq(writing, n + 1, Len(writing)) \in Seq(ByteToken)
    BY <1>0, Split
  <2>4. in' \in Seq(ByteToken) /\ Len(in') = Len(in) + n
    BY <1>0, <2>1, <2>3, ConcatProperties
  <2>5. QED
    BY <1>0, <2>1, <2>2, <2>3, <2>4
<1>9. CASE TransformCopyR
  <2>1. out' \in Seq(ByteToken) /\ Len(out') <= Len(out) /\ Len(out') \in Nat
    BY <1>9, TransformCopyRIs, LenProperties
  <2>2. UNCHANGED <<in, held, writing, toClient>>
    BY <1>9, TransformCopyRIs
  <2>3. QED
    BY <1>0, <1>l, <2>1, <2>2
<1>10. CASE TransformOutEnds
  BY <1>0, <1>10, TransformOutEndsIs
<1>11. CASE ChildRead
  <2>1. /\ in' \in Seq(ByteToken) /\ Len(in') <= Len(in) /\ held' \in Seq(ByteToken)
        /\ UNCHANGED <<out, writing, toClient>>
    BY <1>11, ChildReadIs
  <2>2. Len(in') \in Nat
    BY <2>1, LenProperties
  <2>3. QED
    BY <1>0, <1>l, <2>1, <2>2
<1>12. CASE ChildWrite
  <2>1. /\ out' \in Seq(ByteToken) /\ Len(out) < PipeSize /\ Len(out') = Len(out) + 1
        /\ held' \in Seq(ByteToken) /\ UNCHANGED <<in, writing, toClient>>
    BY <1>12, ChildWriteIs
  <2>2. QED
    BY <1>0, <1>l, <2>1
<1>13. CASE ChildEof \/ ChildBreaks \/ ChildDies
  <2>1. (held' = held \/ held' = << >>) /\ UNCHANGED <<in, out, writing, toClient>>
    BY <1>13, ChildEnds
  <2>2. QED
    BY <1>0, <2>1, EmptySeq
<1>14. CASE \E n \in 1..Capacity : ClientCopyW(n)
  <2>1. /\ toClient' \in Seq(OwnToken)
        /\ UNCHANGED <<in, out, held, writing>>
    BY <1>14, ClientCopyWIs
  <2>2. QED
    BY <1>0, <2>1
<1>15. CASE ClientTimeout
  BY <1>0, <1>15, ClientTimeoutIs
<1>16. CASE TransformOutCut
  <2>1. out' = << >> /\ UNCHANGED <<in, held, writing, toClient>>
    BY <1>16, TransformOutCutIs
  <2>2. << >> \in Seq(ByteToken) /\ Len(<< >>) = 0
    BY EmptySeq
  <2>3. QED
    BY <1>0, <1>l, <2>1, <2>2
<1>17. QED
  BY <1>1, <1>2, <1>3, <1>4, <1>5, <1>6, <1>7, <1>8, <1>9, <1>10, <1>11, <1>12, <1>13,
     <1>14, <1>15, <1>16, Steps

\* Steps that leave tb, and where it is, alone.
LEMMA Elsewhere ==
  ASSUME IInv,
         \/ Idle \/ PipeTakes \/ TransformCopyR \/ TransformOutCut \/ TransformOutEnds
         \/ ChildRead \/ ChildWrite \/ ChildEof \/ ChildBreaks \/ ChildDies
         \/ ClientTimeout
         \/ \E n \in 1..Capacity : ClientCopyW(n)
  PROVE  /\ UNCHANGED <<infd, tb, ob, got, length, body, loop, due>>
         /\ Open' => Open
<1> USE DEF Open
<1>1. CASE Idle
  BY <1>1, IdleStep
<1>2. CASE PipeTakes
  BY <1>2, PipeTakesIs
<1>3. CASE TransformCopyR \/ TransformOutCut
  BY <1>3, TransformCopyRIs, TransformOutCutIs
<1>4. CASE TransformOutEnds
  BY <1>4, TransformOutEndsIs
<1>5. CASE ChildRead
  BY <1>5, ChildReadIs
<1>6. CASE ChildWrite
  BY <1>6, ChildWriteIs
<1>7. CASE ChildEof \/ ChildBreaks \/ ChildDies
  BY <1>7, ChildEnds
<1>8. CASE ClientTimeout
  BY <1>8, ClientTimeoutIs
<1>9. CASE \E n \in 1..Capacity : ClientCopyW(n)
  BY <1>9, ClientCopyWIs
<1>10. QED
  BY <1>1, <1>2, <1>3, <1>4, <1>5, <1>6, <1>7, <1>8, <1>9

\* tb and buff stay where they are in the stream.
LEMMA PlacedStep == IInv /\ [Next]_vars => Placed'
<1> SUFFICES ASSUME IInv, [Next]_vars, Open', infd' = "open"
             PROVE  /\ Position' >= 0
                    /\ tb'.bytes \o ob'.bytes = SubSeq(body'.stream, Position' + 1, got')
                    /\ IF body'.chunked
                       THEN \A j \in Position' + 1 .. Position' + length' :
                              j \in DOMAIN body'.stream => body'.stream[j] \in ByteToken
                       ELSE Position' + length' = body'.declared
  BY DEF Placed
<1>b. body' = body
  BY ExchangeStays
<1>0. /\ got \in 0..Len(body.stream) /\ Len(body.stream) \in Nat
      /\ body.stream \in Seq(Token) /\ ob \in Queue /\ tb \in Queue /\ Room(tb) >= 0
      /\ length \in Nat /\ body.declared \in Nat
      /\ ob.bytes \in Seq(Token) /\ tb.bytes \in Seq(Token)
      /\ Len(ob.bytes) \in Nat /\ Len(tb.bytes) \in Nat
      /\ Pending(tb) = Len(tb.bytes)
  BY NonePending, LenProperties DEF IInv, TypeOK, BodyType
<1>n. /\ Len(ob.bytes) \in Nat /\ Len(tb.bytes) \in Nat /\ length \in Nat /\ got \in Nat
      /\ Len(body.stream) \in Nat /\ got <= Len(body.stream) /\ Pending(tb) = Len(tb.bytes)
  BY <1>0
<1>p. Open /\ infd = "open" =>
        /\ Position >= 0
        /\ tb.bytes \o ob.bytes = SubSeq(body.stream, Position + 1, got)
        /\ IF body.chunked
           THEN \A j \in Position + 1 .. Position + length :
                  j \in DOMAIN body.stream => body.stream[j] \in ByteToken
           ELSE Position + length = body.declared
  BY DEF IInv, Placed
<1>q. Position = got - Len(tb.bytes) - Len(ob.bytes)
      /\ Position' = got' - Len(tb'.bytes) - Len(ob'.bytes)
  BY DEF Position
<1>1. ASSUME UNCHANGED <<infd, tb, ob, got, length, body>>, Open' => Open
      PROVE  Placed'
  BY <1>1, <1>p, <1>q DEF Placed
<1>2. CASE \/ Idle \/ PipeTakes \/ TransformCopyR \/ TransformOutCut \/ TransformOutEnds
           \/ ChildRead \/ ChildWrite \/ ChildEof \/ ChildBreaks \/ ChildDies
           \/ ClientTimeout
           \/ \E n \in 1..Capacity : ClientCopyW(n)
  <2>1. Placed'
    BY <1>1, <1>2, Elsewhere
  <2>2. QED
    BY <2>1 DEF Placed
<1>3. CASE Quits \/ TransformInEnds
  BY <1>3, QuitsStep, TransformInEndsIs
<1>4. CASE FlushBody
  <2>1. /\ infd = "open" /\ Open /\ tb.bytes = << >> /\ ob' = Empty
        /\ tb'.bytes = tb.bytes \o ob.bytes /\ got' = got /\ length' = length
    BY <1>4, FlushBodyIs DEF Open, Transforming
  <2>2. /\ tb'.bytes = ob.bytes /\ ob'.bytes = << >> /\ Len(ob'.bytes) = 0
        /\ tb.bytes \o ob.bytes = ob.bytes /\ tb'.bytes \o ob'.bytes = ob.bytes
        /\ Len(tb.bytes) = 0
    BY <1>0, <2>1, EmptyType, ConcatEmptySeq, EmptySeq
  <2>3. Position' = Position
    BY <1>0, <1>q, <2>1, <2>2
  <2>4. QED
    BY <1>b, <1>p, <2>1, <2>2, <2>3
<1>5. CASE \E n \in 0..Capacity : OriginCopyR(n)
  <2>1. PICK n \in 0..Capacity : OriginCopyR(n)
    BY <1>5
  <2>2. /\ ~due /\ infd = "open" /\ Open /\ ob.bytes = << >> /\ ob' = ob /\ got' = got + n
        /\ got' \in 0..Len(body.stream) /\ length' = length
        /\ tb'.bytes = tb.bytes \o SubSeq(body.stream, got + 1, got')
    BY <2>1, OriginCopyRIs DEF Open, Transforming
  <2>3. /\ Position = got - Len(tb.bytes) /\ Position \in 0..got
        /\ tb.bytes = SubSeq(body.stream, Position + 1, got)
    BY <2>2, InPlace
  <2>4. got \in Position..got' /\ Position \in 0..got' /\ got \in 0..got' /\ got' - got = n
    BY <1>0, <2>2, <2>3, CapacityAssumption
  <2>5. tb'.bytes = SubSeq(body.stream, Position + 1, got')
    BY <1>0, <2>2, <2>3, <2>4, TwoParts
  <2>6. Len(tb'.bytes) = got' - Position /\ tb'.bytes \in Seq(Token)
    <3>1. body.stream \in Seq(Token) /\ got' \in 0..Len(body.stream) /\ Position \in 0..got'
      BY <1>0, <2>2, <2>4
    <3>2. \A e \in 0..Len(body.stream) : \A a \in 0..e :
            /\ SubSeq(body.stream, a + 1, e) \in Seq(Token)
            /\ Len(SubSeq(body.stream, a + 1, e)) = e - a
      BY <3>1, Part
    <3>3. /\ SubSeq(body.stream, Position + 1, got') \in Seq(Token)
          /\ Len(SubSeq(body.stream, Position + 1, got')) = got' - Position
      BY <3>1, <3>2, Zenon
    <3>4. QED
      BY <2>5, <3>3
  <2>7. tb'.bytes \o ob'.bytes = tb'.bytes /\ Len(ob'.bytes) = 0
    BY <2>2, <2>6, ConcatEmptySeq, EmptySeq
  <2>8. Position' = Position
    <3>1. Position \in Int /\ got' \in Int /\ Len(tb'.bytes) = got' - Position
      BY <2>2, <2>3, <2>6
    <3>2. QED
      BY <1>q, <2>7, <3>1
  <2>9. QED
    BY <1>b, <1>p, <2>2, <2>5, <2>7, <2>8
<1>6. CASE TransformWrites
  <2>1. PICK w \in ToWrite, k \in 0..Pending(tb) :
          Choice(w, k) /\ tb' = w.b /\ length' = w.n
    BY <1>6, TransformWritesIs
  <2>2. Open /\ infd = "open" /\ ~due /\ ob' = ob /\ got' = got
    BY <1>6, TransformWritesIs
  <2>3. /\ w.b.bytes = SubSeq(body.stream, (Position + k) + 1, got)
        /\ IF body.chunked
           THEN \A j \in (Position + k) + 1 .. (Position + k) + w.n :
                  j \in DOMAIN body.stream => body.stream[j] \in ByteToken
           ELSE (Position + k) + w.n = body.declared
    BY <2>1, <2>2, Wanted
  <2>4. /\ ob.bytes = << >> /\ Position = got - Len(tb.bytes) /\ Position \in 0..got
    BY <2>2, InPlace
  <2>5. w.b \in Queue /\ Pending(w.b) = Pending(tb) - k
    BY <2>1 DEF Choice, Remains
  <2>6. /\ Len(w.b.bytes) = Len(tb.bytes) - k /\ w.b.bytes \in Seq(Token)
        /\ Len(ob.bytes) = 0
    BY <1>0, <2>4, <2>5, NonePending, EmptySeq
  <2>7. Position' = Position + k /\ Position + k >= 0
    BY <1>0, <1>q, <2>1, <2>2, <2>4, <2>6
  <2>8. tb'.bytes \o ob'.bytes = tb'.bytes
    BY <2>1, <2>2, <2>4, <2>6, ConcatEmptySeq
  <2>9. QED
    BY <1>b, <2>1, <2>2, <2>3, <2>7, <2>8
<1>7. CASE WriteReturns
  <2>1. /\ Open /\ infd = "open" /\ ~due /\ ob' = ob /\ got' = got
    BY <1>7, WriteReturnsIs
  <2>2. PICK n \in 0..Pending(tb) :
          /\ n = Least(Pending(tb), length) /\ length' = length - n /\ length' \in Nat
          /\ tb' = Drop(tb, n)
    BY <1>7, <2>1, WriteReturnsIs
  <2>3. /\ ob.bytes = << >> /\ Position = got - Len(tb.bytes) /\ Position \in 0..got
        /\ tb.bytes = SubSeq(body.stream, Position + 1, got)
    BY <2>1, InPlace
  <2>4. /\ Drop(tb, n) \in Queue
        /\ Drop(tb, n).bytes = SubSeq(tb.bytes, n + 1, Pending(tb))
        /\ Pending(Drop(tb, n)) = Pending(tb) - n
    BY <1>0, <2>2, DropType
  <2>m. Position \in Nat /\ got = Position + Pending(tb) /\ n \in Nat /\ n <= Pending(tb)
        /\ Pending(tb) \in Nat /\ length' = length - n
    <3>1. Position = got - Len(tb.bytes) /\ Position \in 0..got
      BY <2>3
    <3>2. n \in 0..Pending(tb) /\ length' = length - n
      BY <2>2
    <3>3. QED
      BY <1>n, <3>1, <3>2
  <2>5. n \in 0..got - Position /\ Pending(tb) = got - Position
    BY <2>m
  <2>6. SubSeq(SubSeq(body.stream, Position + 1, got), n + 1, got - Position)
          = SubSeq(body.stream, (Position + n) + 1, got)
    BY <1>0, <2>3, <2>5, PartOfPart
  <2>7. tb'.bytes = SubSeq(body.stream, (Position + n) + 1, got)
    BY <2>2, <2>3, <2>4, <2>5, <2>6
  <2>8. Len(tb'.bytes) = Len(tb.bytes) - n /\ tb'.bytes \in Seq(Token) /\ Len(ob.bytes) = 0
    BY <1>0, <2>2, <2>3, <2>4, NonePending, EmptySeq
  <2>9. Position' = Position + n /\ Position + n >= 0
    <3> DEFINE l == Pending(tb)
               o == Position
               q == Position'
    <3>1. q = got - (l - n) - 0
      BY <1>n, <1>q, <2>1, <2>8
    <3>2. o \in Nat /\ got = o + l /\ n \in Nat /\ l \in Nat
      BY <2>m
    <3> HIDE DEF l, o, q
    <3>3. q = o + n /\ o + n >= 0
      BY <3>1, <3>2
    <3>4. QED
      BY <3>3 DEF o, q
  <2>10. tb'.bytes \o ob'.bytes = tb'.bytes
    BY <2>1, <2>3, <2>8, ConcatEmptySeq
  <2>11. Position + n + length' = Position + length /\ Position \in Nat /\ n \in Nat
    BY <1>n, <2>m
  <2>12. \A j \in Position + n + 1 .. Position + n + length' :
           j \in Position + 1 .. Position + length
    BY <1>n, <2>m, <2>11
  <2>13. QED
    BY <1>b, <1>p, <2>1, <2>7, <2>9, <2>10, <2>11, <2>12
<1>8. QED
  BY <1>2, <1>3, <1>4, <1>5, <1>6, <1>7, Steps

\* The pipe is closed behind the last byte.
LEMMA EndedStep == IInv /\ [Next]_vars => Ended'
<1> SUFFICES ASSUME IInv, [Next]_vars PROVE Ended'
  OBVIOUS
<1>b. body' = body
  BY ExchangeStays
<1>0. Ended
  BY DEF IInv
<1>1. CASE \/ Idle \/ PipeTakes \/ TransformCopyR \/ TransformOutCut \/ TransformOutEnds
           \/ ChildRead \/ ChildWrite \/ ChildEof \/ ChildBreaks \/ ChildDies
           \/ ClientTimeout
           \/ \E n \in 1..Capacity : ClientCopyW(n)
  BY <1>0, <1>1, Elsewhere DEF Ended, Sized
<1>2. CASE Quits
  BY <1>2, QuitsStep DEF Ended
<1>3. CASE FlushBody \/ (\E n \in 0..Capacity : OriginCopyR(n)) \/ TransformWrites
  <2>1. infd' # "closed"
    BY <1>3, FlushBodyIs, OriginCopyRIs, TransformWritesIs
  <2>2. QED
    BY <2>1 DEF Ended
<1>4. CASE TransformInEnds
  <2>1. /\ Open /\ infd = "open" /\ ~due /\ Pending(tb) > 0 /\ got' = got
    BY <1>4, TransformInEndsIs
  <2>2. PICK w \in ToWrite : w.n = 0
    BY <1>4, TransformInEndsIs
  <2>3. PICK k \in 0..Pending(tb) : Choice(w, k)
    BY Chosen DEF IInv, TypeOK
  <2>4. Sized =>
          /\ body.chunked
          /\ \A j \in got + 1 .. Len(body.stream) : body.stream[j] \notin ByteToken
          /\ body.stream # << >> /\ Last(body.stream) = Last0 => got = Len(body.stream)
    BY <2>1, <2>2, <2>3, NothingWanted
  <2>5. body.chunked => Sized
    BY DEF Sized
  <2>6. QED
    BY <1>b, <2>1, <2>4, <2>5 DEF Ended, Sized
<1>5. CASE WriteReturns
  <2>1. Open /\ infd = "open" /\ ~due /\ got' = got
    BY <1>5, WriteReturnsIs
  <2>2. PICK n \in 0..Pending(tb) :
          /\ length' = length - n
          /\ \/ ~body.chunked /\ length' = 0
             \/ infd' = infd
    BY <1>5, WriteReturnsIs
  <2>3. CASE infd' = infd
    BY <2>1, <2>3 DEF Ended
  <2>4. CASE ~body.chunked /\ length' = 0
    <3>1. /\ Position = got - Pending(tb) /\ Pending(tb) \in Nat
          /\ got \in 0..Len(body.stream) /\ Len(body.stream) \in Nat /\ length \in Nat
      BY <2>1, InPlace
    <3>2. Position + length = body.declared
      BY <2>1, <2>4 DEF IInv, Placed
    <3>3. Sized => body.declared >= Len(body.stream)
      BY <2>4 DEF Sized
    <3>4. Sized => got = Len(body.stream)
      BY <2>2, <2>4, <3>1, <3>2, <3>3
    <3>5. Sized => \A j \in got + 1 .. Len(body.stream) : FALSE
      BY <3>1, <3>4
    <3>6. QED
      BY <1>b, <2>1, <2>4, <3>4, <3>5 DEF Ended, Sized
  <2>5. QED
    BY <2>2, <2>3, <2>4
<1>6. QED
  BY <1>1, <1>2, <1>3, <1>4, <1>5, Steps

\* The proxy is lost for the reasons given only.
LEMMA LostStep == IInv /\ [Next]_vars => LostOnlyThen'
<1> SUFFICES ASSUME IInv, [Next]_vars PROVE LostOnlyThen'
  OBVIOUS
<1>0. LostOnlyThen /\ Ended /\ Control /\ ChildState /\ loop \in {"select", "write"}
  BY DEF IInv, TypeOK
<1>b. body' = body /\ fault' = fault
  BY ExchangeStays
<1>s. Sized' <=> Sized
  BY <1>b DEF Sized
<1>1. CASE crash' = crash /\ (crash # "none" => outfd' = outfd)
           /\ (outfd' = "cut" => outfd = "cut")
  BY <1>0, <1>1, <1>b, <1>s DEF LostOnlyThen
<1>2. CASE OriginCopyRFreed
  <2>1. /\ Open /\ infd = "closed" /\ crash' = "freed" /\ outfd' = outfd
        /\ got < Len(body.stream) \/ body.close
    BY <1>2 DEF OriginCopyRFreed, Handle, OriginClosed, ends
  <2>2. got < Len(body.stream) => got # Len(body.stream)
    BY DEF IInv, TypeOK
  <2>3. CASE body.close \/ ~Sized
    BY <1>0, <1>b, <1>s, <2>1, <2>3 DEF LostOnlyThen
  <2>4. CASE Sized /\ got < Len(body.stream)
    BY <1>0, <1>b, <2>1, <2>2, <2>4 DEF LostOnlyThen, Ended
  <2>5. QED
    BY <2>1, <2>3, <2>4
<1>3. CASE PipeBreaks
  <2>1. Open /\ loop = "write" /\ child = "gone" /\ crash' = "sigpipe" /\ outfd' = outfd
    BY <1>3 DEF PipeBreaks, Writing, ends
  <2>2. "child" \in fault \/ outfd = "cut"
    BY <1>0, <2>1 DEF Control, ChildState
  <2>3. QED
    BY <1>0, <1>b, <2>1, <2>2 DEF LostOnlyThen
<1>4. CASE Idle
  <2>1. CASE OriginCopyREnds \/ TransformDrained \/ TransformNoRoom
    BY <1>1, <2>1 DEF OriginCopyREnds, TransformDrained, TransformNoRoom, ends
  <2>2. CASE UNCHANGED vars \/ (ClientDrained /\ ~Finished)
    BY <1>1, <2>2 DEF vars, ClientDrained, ends
  <2>3. QED
    BY <1>2, <1>3, <1>4, <2>1, <2>2 DEF Idle
<1>5. CASE ~Idle
  <2>1. CASE Quits
    <3>1. crash = "none" /\ crash' = crash /\ outfd' \in {"none", "closed"}
      BY <2>1, QuitsStep DEF ClientDone, Open
    <3>2. QED
      BY <1>1, <3>1
  <2>2. CASE FlushBody \/ (\E n \in 0..Capacity : OriginCopyR(n))
    BY <1>1, <2>2, FlushBodyIs, OriginCopyRIs
  <2>3. CASE TransformInEnds \/ TransformWrites \/ WriteReturns \/ PipeTakes
    BY <1>1, <2>3, TransformInEndsIs, TransformWritesIs, WriteReturnsIs, PipeTakesIs
  <2>4. CASE TransformCopyR \/ TransformOutEnds
    BY <1>1, <2>4, TransformCopyRIs, TransformOutEndsIs DEF Open
  <2>5. CASE ChildRead \/ ChildEof \/ ChildWrite \/ ChildBreaks \/ ChildDies
    BY <1>1, <2>5, ChildReadIs, ChildWriteIs, ChildEnds
  <2>6. CASE (\E n \in 1..Capacity : ClientCopyW(n)) \/ ClientTimeout
    BY <1>1, <2>6, ClientCopyWIs, ClientTimeoutIs
  <2>7. CASE TransformOutCut
    <3>1. /\ Open /\ Transforming /\ "trans" \in done /\ out # << >>
          /\ crash' = crash /\ outfd' = "cut"
      BY <2>7, TransformOutCutIs DEF Transforming
    <3>2. body.close \/ "idle" \in fault
      BY <1>0, <3>1 DEF ChildState
    <3>3. crash' = "none"
      BY <3>1 DEF Open
    <3>4. QED
      BY <1>b, <3>1, <3>2, <3>3 DEF LostOnlyThen
  <2>8. QED
    BY <1>5, <2>1, <2>2, <2>3, <2>4, <2>5, <2>6, <2>7, Steps
<1>6. QED
  BY <1>4, <1>5

-----------------------------------------------------------------------------
(***************************************************************************)
(* Nothing gets lost on the way.                                            *)
(***************************************************************************)

\* Streams one behind the other.
LEMMA Concats ==
  /\ << >> \in Seq(Token)
  /\ \A a, b \in Seq(Token) : a \o b \in Seq(Token)
  /\ \A a, b, c \in Seq(Token) : (a \o b) \o c = a \o (b \o c)
  /\ \A a \in Seq(Token) : a \o << >> = a /\ << >> \o a = a
  BY EmptySeq, ConcatProperties, ConcatAssociative, ConcatEmptySeq

\* The two of them that are needed most.
LEMMA Regroup ==
  /\ \A a, b \in Seq(Token) : a \o b \in Seq(Token)
  /\ \A a, b, c \in Seq(Token) : (a \o b) \o c = a \o (b \o c)
  BY Concats

\* What waits for the pipe, with what waits in buff.
Waiting == Unwritten \o ob.bytes

\* What there is on the way is streams.
LEMMA OnTheWay ==
  ASSUME IInv
  PROVE  /\ in \in Seq(Token) /\ out \in Seq(Token) /\ held \in Seq(Token)
         /\ writing \in Seq(Token) /\ toClient \in Seq(Token)
         /\ ob.bytes \in Seq(Token) /\ tb.bytes \in Seq(Token) /\ rb.bytes \in Seq(Token)
         /\ Unwritten \in Seq(Token) /\ Waiting \in Seq(Token)
         /\ factor \in Nat /\ body.stream \in Seq(Token) /\ got \in 0..Len(body.stream)
         /\ Given \in Seq(Token) /\ Coming \in Seq(Token) /\ Expected \in Seq(Token)
         /\ Payload(toClient \o rb.bytes) \in Seq(Token)
         /\ Payload(Waiting) \in Seq(Token)
<1>1. /\ in \in Seq(Token) /\ out \in Seq(Token) /\ held \in Seq(Token)
      /\ writing \in Seq(Token) /\ toClient \in Seq(Token)
  <2>1. Seq(ByteToken) \subseteq Seq(Token) /\ Seq(OwnToken) \subseteq Seq(Token)
    BY Elements, SeqMonotonic
  <2>2. QED
    BY <2>1 DEF IInv, StreamType
<1>2. /\ ob.bytes \in Seq(Token) /\ tb.bytes \in Seq(Token) /\ rb.bytes \in Seq(Token)
      /\ Pending(tb) = Len(tb.bytes) /\ length \in Nat
  BY NonePending DEF IInv, TypeOK
<1>3. factor \in Nat /\ body.stream \in Seq(Token) /\ got \in 0..Len(body.stream)
  BY DEF IInv, BodyType, TypeOK
<1>4. SubSeq(tb.bytes, Least(Pending(tb), length) + 1, Pending(tb)) \in Seq(Token)
  <2>1. Least(Pending(tb), length) \in 0..Len(tb.bytes)
    BY <1>2, LenProperties DEF Least
  <2>2. QED
    BY <1>2, <2>1, Split
<1>5. Unwritten \in Seq(Token)
  BY <1>1, <1>2, <1>4, Concats DEF Unwritten
<1>6. Waiting \in Seq(Token)
  BY <1>2, <1>5, Concats DEF Waiting
<1>7. Payload(Waiting) \in Seq(Token) /\ Payload(toClient \o rb.bytes) \in Seq(Token)
  BY <1>1, <1>2, <1>6, Concats, Payloads
<1>8. Given \in Seq(Token)
  BY <1>1, <1>7, Concats DEF Given
<1>9. Coming \in Seq(Token)
  <2>1. in \o Payload(Waiting) \in Seq(Token)
    BY <1>1, <1>7, Concats
  <2>2. Makes(factor, in \o Payload(Waiting)) \in Seq(Token)
    BY <1>3, <2>1, Makings
  <2>3. QED
    BY <1>1, <2>2, Concats DEF Coming, Waiting
<1>10. Expected \in Seq(Token)
  BY <1>9, Concats DEF Expected
<1>11. QED
  BY <1>1, <1>2, <1>3, <1>5, <1>6, <1>7, <1>8, <1>9, <1>10

\* When y is lost, with what was lost before.
LEMMA Loses ==
  ASSUME IInv, Open, Transforming, body' = body, fault' = fault, Owed' = Owed,
         Given' \in Seq(Token), Expected' \in Seq(Token),
         NEW y \in Seq(Token), (Given' \o Expected') \o y = Given \o Expected,
         y # << >> => Dead' \/ (infd' = "closed" /\ ~Sized),
         Dead => Dead', infd = "closed" => infd' = "closed"
  PROVE  InOrder'
<1>1. PICK lost \in Seq(Token) :
        /\ (Given \o Expected) \o lost = Owed
        /\ lost # << >> => Dead \/ (infd = "closed" /\ ~Sized)
  BY DEF IInv, InOrder
<1> DEFINE x == Given' \o Expected'
           l == y \o lost
<1>2. x \in Seq(Token) /\ l \in Seq(Token)
  BY Concats
<1>3. x \o l = (x \o y) \o lost
  BY <1>2, Regroup, ZenonT(40)
<1>4. x \o l = Owed'
  BY <1>1, <1>3
<1>5. l # << >> => y # << >> \/ lost # << >>
  BY Concats
<1>6. Sized' <=> Sized
  BY DEF Sized
<1>7. l # << >> => Dead' \/ (infd' = "closed" /\ ~Sized')
  BY <1>1, <1>5, <1>6
<1> HIDE DEF l
<1>8. QED
  BY <1>2, <1>4, <1>7 DEF InOrder

\* What is owed changes with what was received.
LEMMA OwedStays ==
  ASSUME body' = body, factor' = factor, got' = got
  PROVE  Owed' = Owed
  BY DEF Owed

\* What is given changes with what leaves the child.
LEMMA GivenStays ==
  ASSUME toClient' = toClient, rb' = rb, out' = out
  PROVE  Given' = Given
  BY DEF Given

\* Putting a chunk, or the error reply, behind what waits for the client.
LEMMA GivenMore ==
  ASSUME IInv, NEW c \in Seq(Token), toClient' = toClient, rb'.bytes = rb.bytes \o c
  PROVE  Payload(toClient' \o rb'.bytes) = Payload(toClient \o rb.bytes) \o Payload(c)
<1>1. toClient \in Seq(Token) /\ rb.bytes \in Seq(Token)
  BY OnTheWay
<1>2. toClient \o (rb.bytes \o c) = (toClient \o rb.bytes) \o c
  BY <1>1, Concats
<1>3. toClient \o rb.bytes \in Seq(Token)
  BY <1>1, Concats
<1>4. Payload((toClient \o rb.bytes) \o c) = Payload(toClient \o rb.bytes) \o Payload(c)
  BY <1>3, Payloads, ZenonT(40)
<1>5. QED
  BY <1>2, <1>4

\* Sending to the client does not change what it is given.
LEMMA GivenSent ==
  ASSUME IInv, NEW n \in 1..Capacity, ClientCopyW(n)
  PROVE  /\ Payload(toClient' \o rb'.bytes) = Payload(toClient \o rb.bytes)
         /\ Answered(toClient' \o rb'.bytes) = Answered(toClient \o rb.bytes)
<1> DEFINE a == SubSeq(rb.bytes, 1, n)
           b == rb'.bytes
           c == toClient
<1>1. /\ a \in Seq(Token) /\ a \o b = rb.bytes /\ rb' \in Queue
      /\ toClient' = c \o Answered(a)
  BY ClientCopyWIs
<1>2. b \in Seq(Token) /\ c \in Seq(Token) /\ c \in Seq(OwnToken)
  BY <1>1, NonePending, OnTheWay DEF IInv, StreamType
<1> HIDE DEF a, b, c
<1>3. Answered(a) \in Seq(Token) /\ Answered(a) \in Seq(OwnToken)
  BY <1>1, Answers
<1> DEFINE d == Answered(a)
<1>4. /\ Payload((c \o d) \o b) = (Payload(c) \o Payload(d)) \o Payload(b)
      /\ Payload(c \o (a \o b)) = Payload(c) \o (Payload(a) \o Payload(b))
  <2>1. c \o d \in Seq(Token) /\ a \o b \in Seq(Token)
    BY <1>1, <1>2, <1>3, Concats
  <2>2. Payload((c \o d) \o b) = Payload(c \o d) \o Payload(b)
    BY <1>2, <2>1, Payloads, ZenonT(40)
  <2>3. Payload(c \o d) = Payload(c) \o Payload(d)
    BY <1>2, <1>3, Payloads, ZenonT(40)
  <2>4. Payload(c \o (a \o b)) = Payload(c) \o Payload(a \o b)
    BY <1>2, <2>1, Payloads, ZenonT(40)
  <2>5. Payload(a \o b) = Payload(a) \o Payload(b)
    BY <1>1, <1>2, Payloads, ZenonT(40)
  <2>6. QED
    BY <2>2, <2>3, <2>4, <2>5, Zenon
<1>5. Payload(d) = Payload(a) /\ Answered(d) = d /\ Answered(c) = c
  BY <1>1, <1>2, <1>3, Answers
<1>6. Payload(a) \in Seq(Token) /\ Payload(b) \in Seq(Token) /\ Payload(c) \in Seq(Token)
  BY <1>1, <1>2, Payloads
<1>7. Payload((c \o d) \o b) = Payload(c \o (a \o b))
  <2>1. (Payload(c) \o Payload(a)) \o Payload(b) = Payload(c) \o (Payload(a) \o Payload(b))
    BY <1>6, Concats
  <2>2. QED
    BY <1>4, <1>5, <2>1
<1>8. /\ Answered((c \o d) \o b) = (Answered(c) \o Answered(d)) \o Answered(b)
      /\ Answered(c \o (a \o b)) = Answered(c) \o (Answered(a) \o Answered(b))
  <2>1. c \o d \in Seq(Token) /\ a \o b \in Seq(Token)
    BY <1>1, <1>2, <1>3, Concats
  <2>2. Answered((c \o d) \o b) = Answered(c \o d) \o Answered(b)
    BY <1>2, <2>1, Answers, Zenon
  <2>3. Answered(c \o d) = Answered(c) \o Answered(d)
    BY <1>2, <1>3, Answers, Zenon
  <2>4. Answered(c \o (a \o b)) = Answered(c) \o Answered(a \o b)
    BY <1>2, <2>1, Answers, Zenon
  <2>5. Answered(a \o b) = Answered(a) \o Answered(b)
    BY <1>1, <1>2, Answers, Zenon
  <2>6. QED
    BY <2>2, <2>3, <2>4, <2>5, Zenon
<1>9. Answered((c \o d) \o b) = Answered(c \o (a \o b))
  <2>1. Answered(b) \in Seq(Token)
    BY <1>2, Answers
  <2>2. (c \o d) \o Answered(b) = c \o (d \o Answered(b))
    BY <1>2, <1>3, <2>1, Regroup, ZenonT(40)
  <2>3. QED
    BY <1>5, <1>8, <2>2
<1>10. QED
  BY <1>1, <1>7, <1>9 DEF b, c

\* When what was behind the child stays, and of what is to come y is lost.
LEMMA Moves ==
  ASSUME IInv, Open, Transforming, UNCHANGED <<body, factor, fault, got>>,
         Given' = Given, NEW y \in Seq(Token), Coming' \in Seq(Token),
         Coming' \o y = Coming, Dead' <=> Dead,
         y # << >> => infd' = "closed" /\ ~Sized,
         infd = "closed" => infd' = "closed"
  PROVE  InOrder'
<1>1. Owed' = Owed
  BY OwedStays
<1>2. Given \in Seq(Token) /\ Coming \in Seq(Token) /\ << >> \in Seq(Token)
  BY OnTheWay, Concats
<1>4. CASE Dead
  <2>1. Expected = << >> /\ Expected' = << >>
    BY <1>4 DEF Expected
  <2>2. (Given' \o Expected') \o << >> = Given \o Expected
    BY <1>2, <2>1, Concats
  <2>3. QED
    BY <1>1, <1>2, <2>1, <2>2, Loses
<1>5. CASE ~Dead
  <2>1. Expected = Coming /\ Expected' = Coming'
    BY <1>5 DEF Expected
  <2>2. (Given \o Coming') \o y = Given \o (Coming' \o y)
    <3> DEFINE c == Coming'
               g == Given
    <3>1. c \in Seq(Token) /\ g \in Seq(Token) /\ y \in Seq(Token)
      BY <1>2
    <3> HIDE DEF c, g
    <3>2. (g \o c) \o y = g \o (c \o y)
      BY <3>1, Regroup, ZenonT(40)
    <3>3. QED
      BY <3>2 DEF c, g
  <2>3. (Given' \o Expected') \o y = Given \o Expected
    BY <2>1, <2>2
  <2>4. QED
    BY <1>1, <1>2, <1>5, <2>1, <2>3, Loses
<1>6. QED
  BY <1>4, <1>5

\* When the same is to come.
LEMMA MovesOn ==
  ASSUME IInv, Open, Transforming, UNCHANGED <<body, factor, fault, got>>,
         Given' = Given, Coming' = Coming, Dead' <=> Dead,
         infd = "closed" => infd' = "closed"
  PROVE  InOrder'
<1>1. << >> \in Seq(Token) /\ Coming \in Seq(Token)
  BY Concats, OnTheWay
<1>2. Coming' \o << >> = Coming
  BY <1>1, Concats
<1>3. QED
  BY <1>1, <1>2, Moves

\* What is to come depends on the bytes only that wait for the pipe.
LEMMA ComingStays ==
  ASSUME factor' = factor, held' = held, in' = in,
         Payload(Unwritten' \o ob'.bytes) = Payload(Waiting)
  PROVE  Coming' = Coming
  BY DEF Coming, Waiting

\* What waits while the loop is not in write.
LEMMA WaitingIs ==
  ASSUME IInv, loop = "select", ~due
  PROVE  Waiting = tb.bytes
<1>1. ob.bytes = << >> /\ tb.bytes \in Seq(Token)
  BY OnTheWay DEF IInv, Control
<1>2. Unwritten = tb.bytes
  BY DEF Unwritten
<1>3. QED
  BY <1>1, <1>2, Concats DEF Waiting

\* flush_body.
LEMMA FlushBodyInOrder ==
  ASSUME IInv, FlushBody, UNCHANGED <<body, factor, fault>>, Transforming
  PROVE  InOrder'
<1>1. /\ loop = "select" /\ loop' = "select" /\ ob' = Empty
      /\ tb'.bytes = tb.bytes \o ob.bytes /\ rb' = rb
      /\ UNCHANGED <<infd, outfd, got, in, out, child, held, toClient>>
  BY FlushBodyIs
<1>2. Open
  BY DEF FlushBody
<1>3. Unwritten = tb.bytes /\ Unwritten' = tb.bytes \o ob.bytes
  BY <1>1 DEF Unwritten
<1>4. ob'.bytes = << >>
  BY <1>1, EmptyType
<1>5. tb.bytes \o ob.bytes \in Seq(Token)
  BY OnTheWay, Concats
<1>6. Unwritten' \o ob'.bytes = Waiting
  BY <1>3, <1>4, <1>5, Concats DEF Waiting
<1>7. Coming' = Coming
  BY <1>1, <1>6, ComingStays
<1>8. Given' = Given /\ (Dead' <=> Dead)
  BY <1>1, GivenStays DEF Dead
<1>9. QED
  BY <1>1, <1>2, <1>7, <1>8, MovesOn

\* What the child makes of two parts, one behind the other.
LEMMA TwoComing ==
  ASSUME NEW k \in Nat, NEW h \in Seq(Token), NEW i \in Seq(Token), NEW p \in Seq(Token)
  PROVE  /\ Makes(k, i) \in Seq(Token) /\ Makes(k, p) \in Seq(Token)
         /\ h \o Makes(k, i) \in Seq(Token)
         /\ h \o Makes(k, i \o p) = (h \o Makes(k, i)) \o Makes(k, p)
<1>1. Makes(k, i) \in Seq(Token) /\ Makes(k, p) \in Seq(Token)
  BY Makings
<1>2. Makes(k, i \o p) = Makes(k, i) \o Makes(k, p)
  BY Makings, Zenon
<1> DEFINE a == Makes(k, i)
           b == Makes(k, p)
           c == Makes(k, i \o p)
<1>3. a \in Seq(Token) /\ b \in Seq(Token) /\ c = a \o b
  BY <1>1, <1>2
<1> HIDE DEF a, b, c
<1>4. h \o a \in Seq(Token)
  BY <1>3, Regroup, ZenonT(40)
<1>5. (h \o a) \o b = h \o (a \o b)
  BY <1>3, Regroup, ZenonT(40)
<1>6. h \o c = (h \o a) \o b
  BY <1>3, <1>5, Zenon
<1>7. QED
  BY <1>3, <1>4, <1>6 DEF a, b, c

\* The pipe is closed: what is in tb is lost, which is no byte of a body of the
\* length declared.
LEMMA ClosesInOrder ==
  ASSUME IInv, UNCHANGED <<body, factor, fault, got, ob, rb, in, out, child, held, toClient,
                           outfd>>,
         Open, infd = "open", infd' = "closed", tb' = Empty, loop' = "select", ~due,
         Sized => Payload(Waiting) = << >>
  PROVE  InOrder'
<1>1. Given' = Given /\ (Dead' <=> Dead)
  BY GivenStays DEF Dead
<1>2. Unwritten' = << >> /\ ob'.bytes = << >>
  BY EmptyType DEF Unwritten, IInv, Control
<1>3. Payload(Unwritten' \o ob'.bytes) = << >>
  BY <1>2, Concats, Payloads
<1>4. /\ in \in Seq(Token) /\ held \in Seq(Token) /\ factor \in Nat
      /\ Payload(Waiting) \in Seq(Token)
  BY OnTheWay
<1> DEFINE c == held \o Makes(factor, in)
           y == Makes(factor, Payload(Waiting))
<1>5. c \in Seq(Token) /\ y \in Seq(Token) /\ Coming = c \o y
  BY <1>4, TwoComing, ZenonT(40) DEF Coming, Waiting
<1>6. Coming' = c
  BY <1>3, <1>4, Concats DEF Coming
<1>7. Sized => y = << >>
  BY <1>4, Makings
<1> HIDE DEF c, y
<1>8. Transforming
  BY DEF Transforming
<1>9. QED
  BY <1>1, <1>5, <1>6, <1>7, <1>8, Moves

\* copy_w of tIn comes to an end.
LEMMA TransformInEndsInOrder ==
  ASSUME IInv, TransformInEnds, UNCHANGED <<body, factor, fault>>
  PROVE  InOrder'
<1>1. /\ Open /\ infd = "open" /\ ~due /\ loop = "select" /\ Pending(tb) > 0
      /\ infd' = "closed" /\ tb' = Empty
      /\ UNCHANGED <<outfd, ob, rb, got, loop, in, out, child, held, toClient>>
  BY TransformInEndsIs
<1>2. PICK w \in ToWrite : w.n = 0
  BY TransformInEndsIs
<1>3. PICK k \in 0..Pending(tb) : Choice(w, k)
  BY Chosen DEF IInv, TypeOK
<1>4. Sized => Payload(tb.bytes) = << >>
  BY <1>1, <1>2, <1>3, NothingWanted, Payloads
<1>5. Waiting = tb.bytes
  BY <1>1, WaitingIs
<1>6. QED
  BY <1>1, <1>4, <1>5, ClosesInOrder

\* copy_w of tIn calls write.
LEMMA TransformWritesInOrder ==
  ASSUME IInv, TransformWrites, UNCHANGED <<body, factor, fault>>
  PROVE  InOrder'
<1>1. /\ Open /\ infd = "open" /\ ~due /\ loop = "select"
      /\ loop' = IF writing' = << >> THEN "select" ELSE "write"
      /\ UNCHANGED <<infd, outfd, ob, rb, got, in, out, child, held, toClient>>
  BY TransformWritesIs
<1>2. PICK w \in ToWrite, k \in 0..Pending(tb) :
        /\ Choice(w, k) /\ tb' = w.b /\ length' = w.n
        /\ writing' = SubSeq(w.b.bytes, 1, Least(Pending(w.b), w.n))
        /\ Least(Pending(w.b), w.n) \in 0..Pending(w.b)
  BY TransformWritesIs
<1> DEFINE n == Least(Pending(w.b), w.n)
           s == w.b.bytes
<1>3. Payload(s) = Payload(tb.bytes) /\ w.b \in Queue
  BY <1>2, PassedOver DEF Choice, Remains, IInv, TypeOK
<1>4. s \in Seq(Token) /\ Pending(w.b) = Len(s) /\ n \in 0..Len(s)
  BY <1>2, <1>3, NonePending
<1>5. SubSeq(s, 1, n) \o SubSeq(s, n + 1, Len(s)) = s
  BY <1>4, Split
<1>6. Unwritten' = s
  <2>1. CASE writing' = << >>
    BY <1>1, <1>2, <2>1 DEF Unwritten
  <2>2. CASE writing' # << >>
    <3>1. Unwritten' = writing' \o SubSeq(tb'.bytes, Least(Pending(tb'), length') + 1,
                                          Pending(tb'))
      BY <1>1, <2>2 DEF Unwritten
    <3>2. QED
      BY <1>2, <1>4, <1>5, <3>1
  <2>3. QED
    BY <2>1, <2>2
<1>7. ob'.bytes = << >> /\ Waiting = tb.bytes
  BY <1>1, WaitingIs DEF IInv, Control
<1>8. Payload(Unwritten' \o ob'.bytes) = Payload(Waiting)
  BY <1>3, <1>4, <1>6, <1>7, Concats
<1>9. Coming' = Coming /\ Given' = Given
  BY <1>1, <1>8, ComingStays, GivenStays
<1>10. Transforming /\ (Dead' <=> Dead)
  BY <1>1 DEF Transforming, Dead
<1>11. QED
  BY <1>1, <1>9, <1>10, MovesOn

\* Bytes of the pipe count like bytes that wait for it.
LEMMA PipeCounts ==
  \A q \in Seq(Token) : \A i \in Seq(Token) : \A e \in Seq(Token) :
    \A a \in Seq(ByteToken), b \in Seq(ByteToken) :
      (i \o a) \o Payload((b \o q) \o e) = i \o Payload(((a \o b) \o q) \o e)
<1> SUFFICES ASSUME NEW q \in Seq(Token), NEW i \in Seq(Token), NEW e \in Seq(Token),
                    NEW a \in Seq(ByteToken), NEW b \in Seq(ByteToken)
             PROVE  (i \o a) \o Payload((b \o q) \o e)
                      = i \o Payload(((a \o b) \o q) \o e)
  OBVIOUS
<1>1. a \in Seq(Token) /\ b \in Seq(Token) /\ Payload(a) = a
  BY Elements, SeqMonotonic, Payloads
<1>2. q \o e \in Seq(Token)
  BY Regroup, ZenonT(40)
<1>3. b \o (q \o e) \in Seq(Token)
  BY <1>1, <1>2, Regroup, ZenonT(40)
<1>4. (b \o q) \o e = b \o (q \o e)
  BY <1>1, Regroup, ZenonT(40)
<1>5. ((a \o b) \o q) \o e = a \o (b \o (q \o e))
  <2>1. a \o b \in Seq(Token)
    BY <1>1, Regroup, ZenonT(40)
  <2>2. ((a \o b) \o q) \o e = (a \o b) \o (q \o e)
    BY <2>1, Regroup, ZenonT(40)
  <2>3. (a \o b) \o (q \o e) = a \o (b \o (q \o e))
    BY <1>1, <1>2, Regroup, ZenonT(40)
  <2>4. QED
    BY <2>2, <2>3, Zenon
<1>6. Payload(a \o (b \o (q \o e))) = a \o Payload(b \o (q \o e))
  <2>1. Payload(a \o (b \o (q \o e))) = Payload(a) \o Payload(b \o (q \o e))
    BY <1>1, <1>3, Payloads, ZenonT(40)
  <2>2. QED
    BY <1>1, <2>1, Zenon
<1>7. Payload(b \o (q \o e)) \in Seq(Token)
  BY <1>3, Payloads, ZenonT(40)
<1>8. (i \o a) \o Payload(b \o (q \o e)) = i \o (a \o Payload(b \o (q \o e)))
  <2> DEFINE p == Payload(b \o (q \o e))
  <2>1. p \in Seq(Token) /\ a \in Seq(Token)
    BY <1>1, <1>7
  <2> HIDE DEF p
  <2>2. (i \o a) \o p = i \o (a \o p)
    BY <2>1, Regroup, ZenonT(40)
  <2>3. QED
    BY <2>2 DEF p
<1>9. QED
  BY <1>4, <1>5, <1>6, <1>8, Zenon

\* The pipe takes a part of what is written.
LEMMA PipeTakesInOrder ==
  ASSUME IInv, PipeTakes, UNCHANGED <<body, factor, fault>>
  PROVE  InOrder'
<1>1. /\ Open /\ infd = "open" /\ loop = "write"
      /\ UNCHANGED <<infd, outfd, ob, tb, rb, length, got, out, child, held, toClient,
                     loop>>
  BY PipeTakesIs
<1>2. PICK n \in 0..Len(writing) :
        /\ in' = in \o SubSeq(writing, 1, n)
        /\ writing' = SubSeq(writing, n + 1, Len(writing))
  BY PipeTakesIs
<1> DEFINE a == SubSeq(writing, 1, n)
           b == SubSeq(writing, n + 1, Len(writing))
           q == SubSeq(tb.bytes, Least(Pending(tb), length) + 1, Pending(tb))
<1>3. a \in Seq(ByteToken) /\ b \in Seq(ByteToken) /\ a \o b = writing
  BY Split DEF IInv, StreamType
<1>4. q \in Seq(Token)
  <2>1. tb \in Queue /\ length \in Nat
    BY DEF IInv, TypeOK
  <2>2. tb.bytes \in Seq(Token) /\ Pending(tb) = Len(tb.bytes) /\ Pending(tb) \in Nat
    BY <2>1, NonePending
  <2>3. Least(Pending(tb), length) \in 0..Pending(tb)
    BY <2>1, <2>2 DEF Least
  <2>4. QED
    BY <2>2, <2>3, Split
<1>5. in \in Seq(Token) /\ ob.bytes \in Seq(Token)
  BY OnTheWay
<1>6. (in \o a) \o Payload((b \o q) \o ob.bytes)
        = in \o Payload(((a \o b) \o q) \o ob.bytes)
  <2>1. \A x \in Seq(ByteToken), y \in Seq(ByteToken) :
          (in \o x) \o Payload((y \o q) \o ob.bytes)
            = in \o Payload(((x \o y) \o q) \o ob.bytes)
    <3> DEFINE e == ob.bytes
    <3>1. e \in Seq(Token)
      BY <1>5
    <3> HIDE DEF a, b, q, e
    <3>2. \A z \in Seq(Token) : \A x \in Seq(ByteToken), y \in Seq(ByteToken) :
            (in \o x) \o Payload((y \o q) \o z) = in \o Payload(((x \o y) \o q) \o z)
      <4>1. \A i \in Seq(Token) :
              \A z \in Seq(Token) : \A x \in Seq(ByteToken), y \in Seq(ByteToken) :
                (i \o x) \o Payload((y \o q) \o z) = i \o Payload(((x \o y) \o q) \o z)
        BY <1>4, PipeCounts, Zenon
      <4>2. QED
        BY <1>5, <4>1, Zenon
    <3>3. QED
      BY <3>1, <3>2, Zenon DEF e
  <2>2. a \in Seq(ByteToken) /\ b \in Seq(ByteToken)
    BY <1>3
  <2> HIDE DEF a, b, q
  <2>3. QED
    BY <2>1, <2>2, Zenon
<1>7. Waiting = (writing \o q) \o ob.bytes
  BY <1>1 DEF Unwritten, Waiting
<1>8. Unwritten' \o ob'.bytes = (b \o q) \o ob.bytes
  BY <1>1, <1>2 DEF Unwritten
<1> HIDE DEF q
<1>9. in' \o Payload(Unwritten' \o ob'.bytes) = in \o Payload(Waiting)
  BY <1>2, <1>3, <1>6, <1>7, <1>8
<1>10. Coming' = Coming
  BY <1>1, <1>9 DEF Coming, Waiting
<1>11. Given' = Given /\ Transforming /\ (Dead' <=> Dead)
  BY <1>1, GivenStays DEF Transforming, Dead
<1>12. QED
  BY <1>1, <1>10, <1>11, MovesOn

\* write returns: tb is behind what was written, or the body is over.
LEMMA WriteReturnsInOrder ==
  ASSUME IInv, WriteReturns, UNCHANGED <<body, factor, fault>>
  PROVE  InOrder'
<1>1. /\ Open /\ infd = "open" /\ ~due /\ loop = "write" /\ loop' = "select"
      /\ writing = << >>
      /\ UNCHANGED <<outfd, ob, rb, got, in, out, child, held, toClient>>
  BY WriteReturnsIs
<1>2. PICK n \in 0..Pending(tb) :
        /\ n = Least(Pending(tb), length) /\ length' = length - n
        /\ \/ infd' = "closed" /\ tb' = Empty /\ ~body.chunked /\ length' = 0
           \/ infd' = infd /\ tb' = Drop(tb, n)
  BY WriteReturnsIs
<1>3. /\ tb \in Queue /\ Room(tb) >= 0 /\ length \in Nat
      /\ tb.bytes \in Seq(Token) /\ Pending(tb) = Len(tb.bytes)
      /\ ob.bytes = << >> /\ Pending(tb) \in Nat
  BY <1>1, InPlace, NonePending
<1> DEFINE r == SubSeq(tb.bytes, n + 1, Pending(tb))
<1>4. r \in Seq(Token) /\ Len(r) = Pending(tb) - n
  BY <1>3, Split
<1>5. Drop(tb, n).bytes = r
  BY <1>3, DropType
<1>6. Unwritten = r
  <2>1. Unwritten = << >> \o r
    BY <1>1, <1>2 DEF Unwritten
  <2> HIDE DEF r
  <2>2. QED
    BY <2>1, <1>4, Concats
<1> HIDE DEF r
<1>7. Waiting = r
  BY <1>3, <1>4, <1>6, Concats DEF Waiting
<1>8. CASE infd' = "closed" /\ tb' = Empty /\ ~body.chunked /\ length' = 0
  <2>1. ASSUME Sized PROVE Payload(Waiting) = << >>
    <3>1. Position + length = body.declared /\ body.declared >= Len(body.stream)
      BY <1>1, <1>8, <2>1 DEF IInv, Placed, Sized
    <3>2. Position = got - Len(tb.bytes) /\ got \in 0..Len(body.stream)
          /\ Len(body.stream) \in Nat /\ body.declared \in Nat
      BY <1>1, InPlace DEF IInv, BodyType
    <3>3. length >= Pending(tb)
      <4> DEFINE d == body.declared
                 l == Len(body.stream)
                 p == Len(tb.bytes)
                 o == Position
      <4>1. o + length = d /\ d >= l /\ o = got - p /\ got \in 0..l /\ l \in Nat
            /\ d \in Nat /\ length \in Nat /\ p \in Nat /\ Pending(tb) = p
        BY <1>3, <3>1, <3>2, LenProperties
      <4> HIDE DEF d, l, p, o
      <4>2. length >= p
        BY <4>1
      <4>3. QED
        BY <4>1, <4>2
    <3>4. n = Pending(tb)
      BY <1>2, <1>3, <3>3 DEF Least
    <3>5. r = << >>
      BY <1>4, <1>3, <3>4, EmptySeq
    <3>6. QED
      BY <1>7, <3>5, Payloads
  <2>2. QED
    BY <1>1, <1>8, <2>1, ClosesInOrder
<1>9. CASE infd' = infd /\ tb' = Drop(tb, n)
  <2>1. Unwritten' = r
    BY <1>1, <1>5, <1>9 DEF Unwritten
  <2>2. Unwritten' \o ob'.bytes = Waiting
    BY <1>1, <1>3, <1>4, <1>7, <2>1, Concats
  <2>3. Coming' = Coming /\ Given' = Given /\ Transforming /\ (Dead' <=> Dead)
    BY <1>1, <2>2, ComingStays, GivenStays DEF Transforming, Dead
  <2>4. QED
    BY <1>1, <1>9, <2>3, MovesOn
<1>10. QED
  BY <1>2, <1>8, <1>9

\* The error reply has no bytes of the body.
LEMMA ReplySaysNothing == <<ErrorReply>> \in Seq(Token) /\ Payload(<<ErrorReply>>) = << >>
<1>1. <<ErrorReply>> \in Seq(Token)
  BY Elements
<1>2. Payload(<<ErrorReply>>) = Payload(Answered(<<ErrorReply>>))
  BY <1>1, Answers
<1>3. QED
  BY <1>1, <1>2, Answers, Payloads

\* Steps that leave what is before the child alone.
LEMMA BehindInOrder ==
  ASSUME IInv, UNCHANGED <<body, factor, fault, infd, ob, tb, length, got, in, held, loop,
                           writing>>,
         Open, Transforming, Given' = Given, Dead' <=> Dead
  PROVE  InOrder'
<1>1. Waiting' = Waiting
  BY DEF Waiting, Unwritten
<1>2. Coming' = Coming
  BY <1>1 DEF Coming, Waiting
<1>3. QED
  BY <1>2, MovesOn

\* copy_r of tOut.
LEMMA TransformCopyRInOrder ==
  ASSUME IInv, TransformCopyR, UNCHANGED <<body, factor, fault>>
  PROVE  InOrder'
<1>1. /\ Open /\ infd # "none"
      /\ UNCHANGED <<infd, outfd, ob, tb, length, got, in, child, held, toClient, loop,
                     writing>>
  BY TransformCopyRIs
<1>2. PICK n \in 1..Len(out) :
        /\ rb'.bytes = rb.bytes \o Chunk(SubSeq(out, 1, n))
        /\ SubSeq(out, 1, n) \in Seq(ByteToken)
        /\ out' = SubSeq(out, n + 1, Len(out)) /\ out' \in Seq(ByteToken)
        /\ SubSeq(out, 1, n) \o out' = out
  BY TransformCopyRIs
<1> DEFINE s == SubSeq(out, 1, n)
           c == Chunk(s)
<1>3. s \in Seq(ByteToken) /\ s \o out' = out /\ rb'.bytes = rb.bytes \o c
  BY <1>2
<1> HIDE DEF s
<1>4. c \in Seq(Token) /\ Payload(c) = s
  BY <1>3, ChunkType
<1> HIDE DEF c
<1>5. Payload(toClient' \o rb'.bytes) = Payload(toClient \o rb.bytes) \o s
  BY <1>1, <1>3, <1>4, GivenMore
<1>6. s \in Seq(Token) /\ out' \in Seq(Token)
  BY <1>2, <1>3, Elements, SeqMonotonic
<1> DEFINE g == Payload(toClient \o rb.bytes)
<1>7. g \in Seq(Token)
  BY OnTheWay
<1> HIDE DEF g
<1>8. (g \o s) \o out' = g \o (s \o out')
  BY <1>6, <1>7, Regroup, ZenonT(40)
<1>9. Given' = Given
  BY <1>3, <1>5, <1>8 DEF Given, g
<1>10. QED
  BY <1>1, <1>9, BehindInOrder DEF Transforming, Dead

\* ... when the end is cut: what is not in the chunk is lost, and so is what was
\* still to come.
LEMMA TransformOutCutInOrder ==
  ASSUME IInv, TransformOutCut, UNCHANGED <<body, factor, fault>>
  PROVE  InOrder'
<1>1. /\ Open /\ infd # "none" /\ out' = << >> /\ outfd = "open" /\ outfd' = "cut"
      /\ UNCHANGED <<infd, got, toClient>>
  BY TransformOutCutIs
<1>2. PICK n \in 1..Len(out) :
        /\ rb'.bytes = rb.bytes \o Chunk(SubSeq(out, 1, n))
        /\ SubSeq(out, 1, n) \in Seq(ByteToken)
        /\ SubSeq(out, n + 1, Len(out)) \in Seq(ByteToken)
        /\ SubSeq(out, 1, n) \o SubSeq(out, n + 1, Len(out)) = out
  BY TransformOutCutIs
<1> DEFINE s == SubSeq(out, 1, n)
           x == SubSeq(out, n + 1, Len(out))
           c == Chunk(s)
           g == Payload(toClient \o rb.bytes)
           e == Expected
<1>3. s \in Seq(ByteToken) /\ s \o x = out /\ rb'.bytes = rb.bytes \o c
  BY <1>2
<1>4. s \in Seq(Token) /\ x \in Seq(Token)
  BY <1>2, Elements, SeqMonotonic
<1> HIDE DEF s, x
<1>5. c \in Seq(Token) /\ Payload(c) = s
  BY <1>3, ChunkType
<1> HIDE DEF c
<1>6. Payload(toClient' \o rb'.bytes) = g \o s
  BY <1>1, <1>3, <1>5, GivenMore
<1>7. g \in Seq(Token) /\ e \in Seq(Token) /\ << >> \in Seq(Token)
  BY OnTheWay, Concats
<1>8. Dead' /\ Expected' = << >>
  BY <1>1 DEF Dead, Expected
<1>9. Given' = (g \o s) \o << >> /\ Given = g \o (s \o x)
  BY <1>1, <1>3, <1>6 DEF Given
<1> HIDE DEF g, e
<1>10. g \o s \in Seq(Token) /\ x \o e \in Seq(Token)
  BY <1>4, <1>7, Regroup, ZenonT(40)
<1>11. Given' = g \o s
  BY <1>9, <1>10, Concats
<1>12. (g \o s) \o (x \o e) = (g \o (s \o x)) \o e
  <2>1. (g \o s) \o (x \o e) = ((g \o s) \o x) \o e
    BY <1>4, <1>7, <1>10, Regroup, ZenonT(40)
  <2>2. (g \o s) \o x = g \o (s \o x)
    BY <1>4, <1>7, Regroup, ZenonT(40)
  <2>3. QED
    BY <2>1, <2>2, Zenon
<1>13. (Given' \o Expected') \o (x \o e) = Given \o Expected
  BY <1>8, <1>9, <1>10, <1>11, <1>12, Concats DEF e
<1>14. Owed' = Owed /\ Transforming
  BY <1>1, OwedStays DEF Transforming
<1>15. QED
  BY <1>1, <1>7, <1>8, <1>10, <1>11, <1>13, <1>14, Loses

\* ... at the end of file.
LEMMA TransformOutEndsInOrder ==
  ASSUME IInv, TransformOutEnds, UNCHANGED <<body, factor, fault>>
  PROVE  InOrder'
<1>1. /\ Open /\ infd # "none" /\ outfd = "open" /\ outfd' = "closed"
      /\ rb'.bytes = rb.bytes \o Chunk(<< >>)
      /\ UNCHANGED <<infd, ob, tb, length, got, in, out, child, held, toClient, loop,
                     writing>>
  BY TransformOutEndsIs
<1>2. Chunk(<< >>) \in Seq(Token) /\ Payload(Chunk(<< >>)) = << >>
  BY EmptySeq, ChunkType
<1>3. Payload(toClient' \o rb'.bytes) = Payload(toClient \o rb.bytes) \o << >>
  BY <1>1, <1>2, GivenMore
<1>4. Payload(toClient \o rb.bytes) \in Seq(Token)
  BY OnTheWay
<1>5. Payload(toClient' \o rb'.bytes) = Payload(toClient \o rb.bytes)
  BY <1>3, <1>4, Concats
<1>6. Given' = Given
  BY <1>1, <1>5 DEF Given
<1>7. QED
  BY <1>1, <1>6, BehindInOrder DEF Transforming, Dead

\* copy_w of the client, and client_timeout.
LEMMA ClientInOrder ==
  ASSUME IInv, UNCHANGED <<body, factor, fault>>, Transforming,
         (\E n \in 1..Capacity : ClientCopyW(n)) \/ ClientTimeout
  PROVE  InOrder'
<1>1. CASE \E n \in 1..Capacity : ClientCopyW(n)
  <2>1. PICK n \in 1..Capacity : ClientCopyW(n)
    BY <1>1
  <2>2. /\ Open
        /\ UNCHANGED <<infd, outfd, ob, tb, length, got, in, out, child, held, loop,
                       writing>>
    BY <2>1, ClientCopyWIs
  <2>3. Payload(toClient' \o rb'.bytes) = Payload(toClient \o rb.bytes)
    BY <2>1, GivenSent
  <2>4. Given' = Given
    BY <2>2, <2>3 DEF Given
  <2>5. QED
    BY <2>2, <2>4, BehindInOrder DEF Dead
<1>2. CASE ClientTimeout
  <2>1. /\ Open /\ rb'.bytes = rb.bytes \o <<ErrorReply>> /\ <<ErrorReply>> \in Seq(Token)
        /\ UNCHANGED <<infd, outfd, ob, tb, length, got, in, out, child, held, loop,
                       writing, toClient>>
    BY <1>2, ClientTimeoutIs
  <2>2. Payload(<<ErrorReply>>) = << >>
    BY ReplySaysNothing
  <2>3. Payload(toClient \o rb.bytes) \in Seq(Token)
    BY OnTheWay
  <2>4. Payload(toClient' \o rb'.bytes) = Payload(toClient \o rb.bytes) \o << >>
    BY <2>1, <2>2, GivenMore
  <2>5. Payload(toClient' \o rb'.bytes) = Payload(toClient \o rb.bytes)
    BY <2>3, <2>4, Concats
  <2>6. Given' = Given
    BY <2>1, <2>5 DEF Given
  <2>7. QED
    BY <2>1, <2>6, BehindInOrder DEF Dead
<1>3. QED
  BY <1>1, <1>2

\* The child reads a byte.
LEMMA ChildReadInOrder ==
  ASSUME IInv, ChildRead, UNCHANGED <<body, factor, fault>>
  PROVE  InOrder'
<1>1. /\ Open /\ Transforming /\ child = "reading" /\ child' # "gone"
      /\ Head(in) \in ByteToken /\ Tail(in) \in Seq(ByteToken)
      /\ in = <<Head(in)>> \o Tail(in) /\ in' = Tail(in)
      /\ held' = held \o Made(Head(in))
      /\ UNCHANGED <<infd, outfd, ob, tb, rb, length, got, out, toClient, loop, writing>>
  BY ChildReadIs DEF ChildRead, Child
<1> DEFINE h == held
           x == <<Head(in)>>
           i == Tail(in)
           p == Payload(Waiting)
           m == Makes(factor, x)
           l == Makes(factor, i \o p)
<1>2. Head(in) \in Token /\ x \in Seq(Token) /\ i \in Seq(Token)
  BY <1>1, Elements, SeqMonotonic
<1>3. h \in Seq(Token) /\ p \in Seq(Token) /\ factor \in Nat
  BY OnTheWay
<1>4. Made(Head(in)) = m
  BY <1>2, <1>3, Makings DEF Made
<1>5. Waiting' = Waiting
  BY <1>1 DEF Waiting, Unwritten
<1>6. Coming' = (h \o m) \o l
  BY <1>1, <1>4, <1>5 DEF Coming, Waiting
<1>7. Coming = h \o (m \o l)
  <2> HIDE DEF x, i, p
  <2>1. i \o p \in Seq(Token)
    BY <1>2, <1>3, Regroup, ZenonT(40)
  <2>2. (x \o i) \o p = x \o (i \o p)
    BY <1>2, <1>3, Regroup, ZenonT(40)
  <2>3. Makes(factor, x \o (i \o p)) = m \o l
    BY <1>2, <1>3, <2>1, Makings, Zenon
  <2>4. in \o p = x \o (i \o p)
    BY <1>1, <2>2 DEF x, i
  <2>5. QED
    BY <2>3, <2>4 DEF Coming, Waiting, p
<1>8. m \in Seq(Token) /\ l \in Seq(Token)
  <2> HIDE DEF x, i, p
  <2>1. i \o p \in Seq(Token)
    BY <1>2, <1>3, Regroup, ZenonT(40)
  <2>2. QED
    BY <1>2, <1>3, <2>1, Makings
<1> HIDE DEF m, l
<1>9. Coming' = Coming
  BY <1>3, <1>6, <1>7, <1>8, Regroup
<1>10. Given' = Given
  BY <1>1, GivenStays
<1>11. Dead' <=> Dead
  BY <1>1 DEF Dead
<1>12. QED
  BY <1>1, <1>9, <1>10, <1>11, MovesOn

\* ... and writes one: it may then have died, for all one can tell.
LEMMA ChildWriteInOrder ==
  ASSUME IInv, ChildWrite, UNCHANGED <<body, factor, fault>>
  PROVE  InOrder'
<1>1. /\ Open /\ Transforming /\ child \in {"writing", "ending"} /\ outfd # "cut"
      /\ out' = out \o <<Head(held)>> /\ out' \in Seq(ByteToken)
      /\ held' \in Seq(ByteToken) /\ <<Head(held)>> \in Seq(ByteToken)
      /\ held = <<Head(held)>> \o held'
      /\ UNCHANGED <<infd, ob, tb, rb, length, got, in, toClient, loop, writing>>
  BY ChildWriteIs DEF ChildWrite, Child
<1> DEFINE g == Payload(toClient \o rb.bytes)
           x == <<Head(held)>>
           m == Makes(factor, in \o Payload(Waiting))
           e == held'
<1>2. x \in Seq(Token) /\ e \in Seq(Token) /\ out' \in Seq(Token)
  BY <1>1, Elements, SeqMonotonic
<1>3. g \in Seq(Token) /\ out \in Seq(Token)
  BY OnTheWay
<1>4. m \in Seq(Token)
  <2>1. in \in Seq(Token) /\ Payload(Waiting) \in Seq(Token) /\ factor \in Nat
    BY OnTheWay
  <2>2. in \o Payload(Waiting) \in Seq(Token)
    BY <2>1, Regroup, ZenonT(40)
  <2>3. QED
    BY <2>1, <2>2, Makings
<1>5. Waiting' = Waiting
  BY <1>1 DEF Waiting, Unwritten
<1>6. Coming' = e \o m /\ Coming = held \o m
  BY <1>1, <1>5 DEF Coming, Waiting
<1>7. Given' = g \o (out \o x) /\ Given = g \o out
  BY <1>1 DEF Given
<1>8. held = x \o e
  BY <1>1
<1> HIDE DEF g, x, m, e
<1>9. Coming' \in Seq(Token)
  BY <1>2, <1>4, <1>6, Regroup
<1>10. Given' = Given \o x
  BY <1>2, <1>3, <1>7, Regroup
<1>11. Coming = x \o Coming'
  BY <1>2, <1>4, <1>6, <1>8, Regroup
<1>12. Given \in Seq(Token) /\ Given' \in Seq(Token) /\ << >> \in Seq(Token)
  <2>1. Given \in Seq(Token) /\ << >> \in Seq(Token)
    BY OnTheWay, Concats
  <2>2. QED
    BY <1>2, <1>10, <2>1, Regroup
<1> DEFINE c == Coming'
           f == Given'
<1>13. f \o c = Given \o Coming
  <2>1. c \in Seq(Token) /\ f = Given \o x /\ Coming = x \o c
    BY <1>9, <1>10, <1>11
  <2> HIDE DEF c, f
  <2>2. (Given \o x) \o c = Given \o (x \o c)
    BY <1>2, <1>12, <2>1, Regroup, ZenonT(40)
  <2>3. QED
    BY <2>1, <2>2
<1>14. ~Dead /\ Expected = Coming
  BY <1>1 DEF Dead, Expected
<1>15. Owed' = Owed
  BY <1>1, OwedStays
<1>16. CASE Dead'
  <2>1. Expected' = << >>
    BY <1>16 DEF Expected
  <2>2. (Given' \o Expected') \o c = Given \o Expected
    BY <1>12, <1>13, <1>14, <2>1, Concats
  <2>3. QED
    BY <1>1, <1>9, <1>12, <1>15, <1>16, <2>1, <2>2, Loses
<1>17. CASE ~Dead'
  <2>1. Expected' = c
    BY <1>17 DEF Expected
  <2>2. f \o c \in Seq(Token)
    BY <1>9, <1>12, Regroup
  <2>3. (Given' \o Expected') \o << >> = Given \o Expected
    BY <1>13, <1>14, <2>1, <2>2, Concats
  <2>4. QED
    BY <1>1, <1>9, <1>12, <1>14, <1>15, <2>1, <2>3, Loses
<1>18. QED
  BY <1>16, <1>17

\* The child ends: nothing is lost unless it has died.
LEMMA ChildEndsInOrder ==
  ASSUME IInv, ChildEof \/ ChildBreaks \/ ChildDies,
         UNCHANGED <<body, factor, fault>>
  PROVE  InOrder'
<1>1. /\ Open /\ Transforming /\ child # "gone"
      /\ ChildDies => "child" \in fault /\ child' = "gone"
      /\ ChildBreaks => outfd = "cut"
      /\ ChildEof => held' = held
      /\ UNCHANGED <<infd, outfd, ob, tb, rb, length, got, in, out, toClient, loop,
                     writing>>
  BY ChildEnds DEF ChildEof, ChildBreaks, ChildDies, Child
<1>2. Given' = Given /\ Owed' = Owed
  BY <1>1, GivenStays, OwedStays
<1>3. Dead => Dead'
  BY <1>1 DEF Dead
<1>4. CASE ~Dead /\ Dead'
  <2>1. Expected' = << >> /\ Expected = Coming
    BY <1>4 DEF Expected
  <2>2. Given \in Seq(Token) /\ Coming \in Seq(Token) /\ << >> \in Seq(Token)
    BY OnTheWay, Concats
  <2>3. (Given' \o Expected') \o Coming = Given \o Expected
    BY <1>2, <2>1, <2>2, Concats
  <2>4. QED
    BY <1>1, <1>2, <1>4, <2>1, <2>2, <2>3, Loses
<1>5. CASE ~Dead'
  <2>1. held' = held
    BY <1>1, <1>5 DEF Dead
  <2>2. Waiting' = Waiting
    BY <1>1 DEF Waiting, Unwritten
  <2>3. Coming' = Coming
    BY <1>1, <2>1, <2>2 DEF Coming, Waiting
  <2>4. QED
    BY <1>1, <1>2, <1>3, <1>5, <2>3, MovesOn
<1>6. CASE Dead
  <2>1. Dead' /\ Expected = << >> /\ Expected' = << >>
    BY <1>3, <1>6 DEF Expected
  <2>2. Given \in Seq(Token) /\ << >> \in Seq(Token)
    BY OnTheWay, Concats
  <2>3. (Given' \o Expected') \o << >> = Given \o Expected
    BY <1>2, <2>1, <2>2, Concats
  <2>4. QED
    BY <1>1, <1>2, <2>1, <2>2, <2>3, Loses
<1>7. QED
  BY <1>4, <1>5, <1>6

\* More behind what waits.
LEMMA ComingMore ==
  \A k \in Nat : \A h \in Seq(Token) : \A i \in Seq(Token) :
    \A v \in Seq(Token) : \A w \in Seq(Token) :
      h \o Makes(k, i \o (v \o w)) = (h \o Makes(k, i \o v)) \o Makes(k, w)
<1> SUFFICES ASSUME NEW k \in Nat, NEW h \in Seq(Token), NEW i \in Seq(Token),
                    NEW v \in Seq(Token), NEW w \in Seq(Token)
             PROVE  h \o Makes(k, i \o (v \o w)) = (h \o Makes(k, i \o v)) \o Makes(k, w)
  OBVIOUS
<1>1. (i \o v) \o w = i \o (v \o w)
  BY Regroup
<1> DEFINE y == i \o v
<1>2. y \in Seq(Token) /\ y \o w = i \o (v \o w)
  BY <1>1, Regroup
<1> HIDE DEF y
<1> DEFINE a == Makes(k, y)
           b == Makes(k, w)
           c == Makes(k, y \o w)
<1>3. a \in Seq(Token) /\ b \in Seq(Token) /\ c = a \o b
  BY <1>2, Makings
<1> HIDE DEF a, b, c
<1>4. (h \o a) \o b = h \o (a \o b)
  BY <1>3, Regroup, ZenonT(40)
<1>5. QED
  BY <1>2, <1>3, <1>4 DEF a, b, c, y

\* More of the stream has been received, z is what the child is to make of it.
LEMMA OwedMore ==
  ASSUME IInv, NEW n \in 0..Capacity, OriginCopyR(n), UNCHANGED <<body, factor, fault>>,
         Transforming
  PROVE  \E z \in Seq(Token) : Owed' = Owed \o z /\ Coming' = Coming \o z
<1>1. /\ ~due /\ loop = "select" /\ ob.bytes = << >>
      /\ got' = got + n /\ got' \in 0..Len(body.stream)
      /\ SubSeq(body.stream, got + 1, got') \in Seq(Token)
      /\ tb'.bytes = tb.bytes \o SubSeq(body.stream, got + 1, got')
      /\ UNCHANGED <<ob, loop, in, held, writing>>
  BY OriginCopyRIs
<1> DEFINE s == body.stream
           a == SubSeq(s, 1, got)
           r == SubSeq(s, got + 1, got')
           b == tb.bytes
           z == Makes(factor, Payload(r))
<1>2. /\ factor \in Nat /\ s \in Seq(Token) /\ got \in 0..Len(s) /\ b \in Seq(Token)
      /\ in \in Seq(Token) /\ held \in Seq(Token)
  BY OnTheWay
<1>3. r \in Seq(Token)
  BY <1>1
<1>4. a \in Seq(Token) /\ a \o r = SubSeq(s, 1, got')
  <2>1. got \in 0..got' /\ got' \in 0..Len(s) /\ 0 \in 0..got'
    BY <1>1, <1>2
  <2>2. SubSeq(s, 0 + 1, got) \o SubSeq(s, got + 1, got') = SubSeq(s, 0 + 1, got')
    BY <1>2, <2>1, TwoParts
  <2>3. a \in Seq(Token)
    BY <1>2, Split
  <2>4. 0 + 1 = 1
    OBVIOUS
  <2>5. QED
    BY <2>2, <2>3, <2>4, Zenon
<1>5. Owed = Makes(factor, Payload(a)) /\ Owed' = Makes(factor, Payload(a \o r))
  <2>1. Owed' = Makes(factor, Payload(SubSeq(s, 1, got')))
    BY DEF Owed
  <2>2. Owed = Makes(factor, Payload(a))
    BY DEF Owed
  <2> HIDE DEF a, r
  <2>3. QED
    BY <1>4, <2>1, <2>2
<1>6. Waiting = b /\ Waiting' = b \o r
  <2>1. Waiting = b
    BY <1>1, WaitingIs
  <2>2. Unwritten' = b \o r /\ ob'.bytes = << >>
    BY <1>1 DEF Unwritten
  <2>3. b \o r \in Seq(Token)
    BY <1>2, <1>3, Regroup
  <2> HIDE DEF b, r
  <2>4. QED
    BY <2>1, <2>2, <2>3, Concats DEF Waiting
<1>7. /\ Coming = held \o Makes(factor, in \o Payload(b))
      /\ Coming' = held \o Makes(factor, in \o Payload(b \o r))
  <2> HIDE DEF b, r
  <2>1. QED
    BY <1>1, <1>6 DEF Coming, Waiting
<1> HIDE DEF s, a, r, b
<1>8. Payload(a \o r) = Payload(a) \o Payload(r) /\ Payload(b \o r) = Payload(b) \o Payload(r)
  BY <1>2, <1>3, <1>4, Payloads
<1> DEFINE u == Payload(a)
           v == Payload(b)
           w == Payload(r)
<1>9. u \in Seq(Token) /\ v \in Seq(Token) /\ w \in Seq(Token)
  BY <1>2, <1>3, <1>4, Payloads
<1>10. /\ Owed = Makes(factor, u) /\ Owed' = Makes(factor, u \o w)
       /\ Coming = held \o Makes(factor, in \o v)
       /\ Coming' = held \o Makes(factor, in \o (v \o w))
       /\ z = Makes(factor, w)
  BY <1>5, <1>7, <1>8
<1> HIDE DEF u, v, w, z
<1>11. Owed' = Owed \o z
  BY <1>2, <1>9, <1>10, Makings
<1>12. Coming' = Coming \o z
  <2>1. in \in Seq(Token) /\ held \in Seq(Token) /\ factor \in Nat
    BY <1>2
  <2>2. \A x \in Seq(Token) : \A y \in Seq(Token) :
          held \o Makes(factor, in \o (x \o y))
            = (held \o Makes(factor, in \o x)) \o Makes(factor, y)
    BY <2>1, ComingMore, Zenon
  <2>3. held \o Makes(factor, in \o (v \o w))
          = (held \o Makes(factor, in \o v)) \o Makes(factor, w)
    BY <1>9, <2>2, Zenon
  <2>4. QED
    BY <1>10, <2>3, Zenon
<1>13. z \in Seq(Token)
  BY <1>2, <1>9, <1>10, Makings
<1>14. QED
  BY <1>11, <1>12, <1>13

\* copy_r of the origin.
LEMMA OriginCopyRInOrder ==
  ASSUME IInv, NEW n \in 0..Capacity, OriginCopyR(n), UNCHANGED <<body, factor, fault>>,
         Transforming
  PROVE  InOrder'
<1>1. /\ infd # "closed"
      /\ UNCHANGED <<outfd, rb, out, child, toClient>>
  BY OriginCopyRIs
<1>2. Open
  BY DEF OriginCopyR, Handle
<1>3. PICK z \in Seq(Token) : Owed' = Owed \o z /\ Coming' = Coming \o z
  BY OwedMore
<1>4. PICK lost \in Seq(Token) :
        (Given \o Expected) \o lost = Owed /\ (lost # << >> => Dead)
  BY <1>1, <1>2 DEF IInv, InOrder
<1>5. Given' = Given /\ (Dead' <=> Dead)
  BY <1>1, GivenStays DEF Dead
<1>6. Given \in Seq(Token) /\ Coming \in Seq(Token) /\ << >> \in Seq(Token)
  BY OnTheWay, Concats
<1>7. CASE Dead
  <2>1. Expected = << >> /\ Expected' = << >>
    BY <1>5, <1>7 DEF Expected
  <2>2. Given \o << >> = Given
    BY <1>6, Concats
  <2>3. lost \o z \in Seq(Token) /\ Given \o (lost \o z) = (Given \o lost) \o z
    BY <1>6, Regroup, ZenonT(40)
  <2>4. (Given' \o Expected') \o (lost \o z) = Owed'
    BY <1>3, <1>4, <1>5, <2>1, <2>2, <2>3
  <2>5. QED
    BY <1>5, <1>7, <2>3, <2>4 DEF InOrder
<1>8. CASE ~Dead
  <2>1. Expected = Coming /\ Expected' = Coming \o z
    BY <1>3, <1>5, <1>8 DEF Expected
  <2>2. Given \o Coming \in Seq(Token) /\ (Given \o Coming) \o << >> = Given \o Coming
    BY <1>6, Concats
  <2>3. Given \o (Coming \o z) = (Given \o Coming) \o z
    BY <1>6, Regroup, ZenonT(40)
  <2>4. Given \o (Coming \o z) = Owed'
    BY <1>3, <1>4, <1>8, <2>1, <2>2, <2>3
  <2>5. Coming \o z \in Seq(Token) /\ Given \o (Coming \o z) \in Seq(Token)
    BY <1>6, Regroup
  <2>6. (Given' \o Expected') \o << >> = Owed'
    BY <1>5, <2>1, <2>4, <2>5, Concats
  <2>7. QED
    BY <1>6, <2>6 DEF InOrder
<1>9. QED
  BY <1>7, <1>8

\* Nothing gets lost.
LEMMA InOrderStep == IInv /\ [Next]_vars => InOrder'
<1> SUFFICES ASSUME IInv, [Next]_vars PROVE InOrder'
  OBVIOUS
<1>1. UNCHANGED <<body, factor, fault>>
  BY ExchangeStays
<1>2. CASE Idle
  <2>1. /\ UNCHANGED <<infd, outfd, ob, tb, rb, length, got, in, out, child, held, loop,
                       writing, toClient>>
        /\ Open' => Open
    BY <1>2, IdleStep DEF Open
  <2>2. Given' = Given
    BY <2>1, GivenStays
  <2>3. CASE Open /\ Transforming
    BY <1>1, <2>1, <2>2, <2>3, BehindInOrder DEF Dead
  <2>4. CASE ~(Open /\ Transforming)
    BY <2>1, <2>4 DEF InOrder, Transforming
  <2>5. QED
    BY <2>3, <2>4
<1>3. CASE Quits
  BY <1>3, QuitsStep DEF InOrder
<1>4. CASE FlushBody
  <2>1. CASE Transforming
    BY <1>1, <1>4, <2>1, FlushBodyInOrder
  <2>2. CASE ~Transforming
    BY <1>4, <2>2, FlushBodyIs DEF InOrder, Transforming
  <2>3. QED
    BY <2>1, <2>2
<1>5. CASE \E n \in 0..Capacity : OriginCopyR(n)
  <2>1. CASE Transforming
    BY <1>1, <1>5, <2>1, OriginCopyRInOrder
  <2>2. CASE ~Transforming
    BY <1>5, <2>2, OriginCopyRIs DEF InOrder, Transforming
  <2>3. QED
    BY <2>1, <2>2
<1>6. CASE TransformInEnds \/ TransformWrites \/ WriteReturns \/ PipeTakes
  BY <1>1, <1>6, TransformInEndsInOrder, TransformWritesInOrder, WriteReturnsInOrder,
     PipeTakesInOrder
<1>7. CASE TransformCopyR \/ TransformOutCut \/ TransformOutEnds
  BY <1>1, <1>7, TransformCopyRInOrder, TransformOutCutInOrder, TransformOutEndsInOrder
<1>8. CASE ChildRead \/ ChildEof \/ ChildWrite \/ ChildBreaks \/ ChildDies
  BY <1>1, <1>8, ChildReadInOrder, ChildWriteInOrder, ChildEndsInOrder
<1>9. CASE (\E n \in 1..Capacity : ClientCopyW(n)) \/ ClientTimeout
  <2>1. CASE Transforming
    BY <1>1, <1>9, <2>1, ClientInOrder
  <2>2. CASE ~Transforming
    BY <1>9, <2>2, ClientCopyWIs, ClientTimeoutIs DEF InOrder, Transforming
  <2>3. QED
    BY <2>1, <2>2
<1>10. QED
  BY <1>2, <1>3, <1>4, <1>5, <1>6, <1>7, <1>8, <1>9, Steps

\* What there is without a transformer, in two parts.
LEMMA DirectIs ==
  ASSUME NEW c \in Seq(Token), NEW r \in Seq(Token), NEW o \in Seq(Token)
  PROVE  /\ Payload((c \o r) \o o) = Payload(c \o r) \o Payload(o)
         /\ Payload(c \o (r \o o)) = Payload((c \o r) \o o)
         /\ c \o r \in Seq(Token) /\ r \o o \in Seq(Token)
         /\ Payload(c \o r) \in Seq(Token)
<1>1. c \o r \in Seq(Token) /\ r \o o \in Seq(Token) /\ (c \o r) \o o = c \o (r \o o)
  BY Regroup
<1>2. Payload((c \o r) \o o) = Payload(c \o r) \o Payload(o) /\ Payload(c \o r) \in Seq(Token)
  BY <1>1, Payloads
<1>3. QED
  BY <1>1, <1>2

\* More of the stream has been received.
LEMMA ReceivedMore ==
  ASSUME NEW s \in Seq(Token), NEW g \in 0..Len(s), NEW h \in g..Len(s)
  PROVE  Payload(SubSeq(s, 1, h)) = Payload(SubSeq(s, 1, g)) \o Payload(SubSeq(s, g + 1, h))
<1> DEFINE a == SubSeq(s, 1, g)
           b == SubSeq(s, g + 1, h)
<1>1. h \in 0..Len(s) /\ g \in 0..h /\ 0 \in 0..h
  BY LenProperties
<1>2. a \in Seq(Token) /\ b \in Seq(Token)
  BY <1>1, Split, Part
<1>3. SubSeq(s, 0 + 1, g) \o SubSeq(s, g + 1, h) = SubSeq(s, 0 + 1, h)
  BY <1>1, TwoParts
<1>4. 0 + 1 = 1
  OBVIOUS
<1>5. a \o b = SubSeq(s, 1, h)
  BY <1>3, <1>4, Zenon
<1> HIDE DEF a, b
<1>6. Payload(a \o b) = Payload(a) \o Payload(b)
  BY <1>2, Payloads
<1>7. QED
  BY <1>5, <1>6 DEF a, b

\* Without a transformer the bytes pass as they are.
LEMMA DirectStep == IInv /\ [Next]_vars => Direct'
<1> SUFFICES ASSUME IInv, [Next]_vars, Open', ~Transforming'
             PROVE  Payload(toClient' \o rb'.bytes \o ob'.bytes)
                      = Payload(SubSeq(body'.stream, 1, got'))
  BY DEF Direct
<1>1. body' = body
  BY ExchangeStays
<1>2. /\ toClient \in Seq(Token) /\ rb.bytes \in Seq(Token) /\ ob.bytes \in Seq(Token)
      /\ body.stream \in Seq(Token) /\ got \in 0..Len(body.stream)
  BY OnTheWay
<1>3. Payload(toClient \o rb.bytes \o ob.bytes)
        = Payload(toClient \o rb.bytes) \o Payload(ob.bytes)
  <2>1. toClient \o rb.bytes \in Seq(Token)
    BY <1>2, Regroup
  <2>2. QED
    BY <1>2, <2>1, Payloads, ZenonT(40)
<1> DEFINE D == Open /\ ~Transforming =>
                  Payload(toClient \o rb.bytes) \o Payload(ob.bytes)
                    = Payload(SubSeq(body.stream, 1, got))
<1>4. D
  BY <1>3 DEF IInv, Direct
<1>5. CASE Idle
  <2>1. UNCHANGED <<infd, ob, rb, got, toClient>> /\ Open
    BY <1>5, IdleStep DEF Open
  <2>2. QED
    BY <1>1, <1>3, <1>4, <2>1 DEF Transforming
<1>6. CASE Quits
  BY <1>6, QuitsStep
<1>7. CASE FlushBody
  <2>1. UNCHANGED <<infd, got, toClient>> /\ ob' = Empty
    BY <1>7, FlushBodyIs
  <2>2. Open /\ ~Transforming
    BY <1>7, <2>1 DEF FlushBody, Transforming
  <2>3. rb'.bytes = rb.bytes \o ob.bytes /\ ob'.bytes = << >>
    BY <1>7, <2>1, <2>2, FlushBodyIs, EmptyType
  <2> DEFINE r == rb.bytes
             o == ob.bytes
             c == toClient
  <2>4. r \in Seq(Token) /\ o \in Seq(Token) /\ c \in Seq(Token)
    BY <1>2
  <2>5. toClient' \o rb'.bytes = c \o (r \o o)
    BY <2>1, <2>3
  <2>6. Payload((c \o r) \o o) = Payload(SubSeq(body'.stream, 1, got'))
    BY <1>1, <1>3, <1>4, <2>1, <2>2
  <2> HIDE DEF r, o, c
  <2>7. c \o (r \o o) \in Seq(Token)
    BY <2>4, Regroup
  <2>8. (c \o (r \o o)) \o << >> = c \o (r \o o)
    BY <2>7, Concats
  <2>9. Payload(c \o (r \o o)) = Payload((c \o r) \o o)
    BY <2>4, DirectIs
  <2>10. QED
    BY <2>3, <2>5, <2>6, <2>8, <2>9
<1>8. CASE \E n \in 0..Capacity : OriginCopyR(n)
  <2>1. PICK n \in 0..Capacity : OriginCopyR(n)
    BY <1>8
  <2>2. /\ UNCHANGED <<infd, ob, toClient>> /\ ob.bytes = << >>
        /\ got' = got + n /\ got' \in 0..Len(body.stream)
        /\ SubSeq(body.stream, got + 1, got') \in Seq(Token)
    BY <2>1, OriginCopyRIs
  <2>3. Open /\ ~Transforming
    BY <2>1, <2>2 DEF OriginCopyR, Handle, Transforming
  <2>4. rb'.bytes = rb.bytes \o SubSeq(body.stream, got + 1, got')
    BY <2>1, <2>3, OriginCopyRIs
  <2> DEFINE x == SubSeq(body.stream, got + 1, got')
             r == rb.bytes
             c == toClient
             w == Payload(SubSeq(body.stream, 1, got))
  <2>5. got' \in got..Len(body.stream)
    BY <1>2, <2>2
  <2>6. Payload(SubSeq(body'.stream, 1, got')) = w \o Payload(x)
    BY <1>1, <1>2, <2>5, ReceivedMore
  <2>7. Payload(c \o r) \o << >> = w
    BY <1>4, <2>2, <2>3, Payloads
  <2>8. r \in Seq(Token) /\ c \in Seq(Token) /\ x \in Seq(Token)
    BY <1>2, <2>2
  <2>9. toClient' \o rb'.bytes = c \o (r \o x) /\ ob'.bytes = << >>
    BY <2>2, <2>4
  <2> HIDE DEF x, r, c, w
  <2>10. c \o r \in Seq(Token) /\ c \o (r \o x) \in Seq(Token)
    BY <2>8, Regroup
  <2>11. Payload(c \o r) = w
    <3>1. Payload(c \o r) \in Seq(Token)
      BY <2>10, Payloads
    <3>2. QED
      BY <2>7, <3>1, Concats
  <2>12. Payload(c \o (r \o x)) = w \o Payload(x)
    <3>1. (c \o r) \o x = c \o (r \o x)
      BY <2>8, Regroup
    <3>2. Payload((c \o r) \o x) = Payload(c \o r) \o Payload(x)
      BY <2>8, <2>10, Payloads, ZenonT(40)
    <3>3. QED
      BY <2>11, <3>1, <3>2
  <2>13. (c \o (r \o x)) \o << >> = c \o (r \o x)
    BY <2>10, Concats
  <2>14. QED
    BY <2>6, <2>9, <2>12, <2>13
<1>9. CASE TransformInEnds \/ TransformWrites \/ WriteReturns \/ PipeTakes
  BY <1>9, TransformInEndsIs, TransformWritesIs, WriteReturnsIs, PipeTakesIs
     DEF Transforming
<1>10. CASE TransformCopyR \/ TransformOutCut \/ TransformOutEnds
  BY <1>10, TransformCopyRIs, TransformOutCutIs, TransformOutEndsIs DEF Transforming
<1>11. CASE ChildRead \/ ChildEof \/ ChildWrite \/ ChildBreaks \/ ChildDies
  <2>1. Transforming
    BY <1>11 DEF ChildRead, ChildEof, ChildWrite, ChildBreaks, ChildDies, Child
  <2>2. infd' = infd
    BY <1>11, ChildReadIs, ChildWriteIs, ChildEnds
  <2>3. QED
    BY <2>1, <2>2 DEF Transforming
<1>12. CASE (\E n \in 1..Capacity : ClientCopyW(n)) \/ ClientTimeout
  <2>1. /\ UNCHANGED <<infd, ob, got>> /\ Open
    BY <1>12, ClientCopyWIs, ClientTimeoutIs
  <2>2. Payload(toClient' \o rb'.bytes) = Payload(toClient \o rb.bytes)
    <3>1. CASE \E n \in 1..Capacity : ClientCopyW(n)
      BY <3>1, GivenSent
    <3>2. CASE ClientTimeout
      <4>1. /\ rb'.bytes = rb.bytes \o <<ErrorReply>> /\ <<ErrorReply>> \in Seq(Token)
            /\ toClient' = toClient
        BY <3>2, ClientTimeoutIs
      <4>2. Payload(<<ErrorReply>>) = << >>
        BY <4>1, ReplySaysNothing
      <4>3. Payload(toClient \o rb.bytes) \in Seq(Token)
        BY OnTheWay
      <4>4. Payload(toClient' \o rb'.bytes) = Payload(toClient \o rb.bytes) \o << >>
        BY <4>1, <4>2, GivenMore
      <4>5. QED
        BY <4>3, <4>4, Concats
    <3>3. QED
      BY <1>12, <3>1, <3>2
  <2>3. toClient' \in Seq(Token) /\ rb'.bytes \in Seq(Token) /\ ob'.bytes \in Seq(Token)
    <3>1. StreamType' /\ BuffersType'
      BY StreamStep, BuffersStep
    <3>2. toClient' \in Seq(OwnToken) /\ rb' \in Queue
      BY <3>1 DEF StreamType, BuffersType
    <3>3. QED
      BY <1>2, <2>1, <3>2, NonePending, Elements, SeqMonotonic
  <2>4. Payload(toClient' \o rb'.bytes \o ob'.bytes)
          = Payload(toClient' \o rb'.bytes) \o Payload(ob'.bytes)
    <3>1. toClient' \o rb'.bytes \in Seq(Token)
      BY <2>3, Regroup
    <3>2. QED
      BY <2>3, <3>1, Payloads, ZenonT(40)
  <2>5. QED
    BY <1>1, <1>4, <2>1, <2>2, <2>4 DEF Transforming
<1>13. QED
  BY <1>5, <1>6, <1>7, <1>8, <1>9, <1>10, <1>11, <1>12, Steps

-----------------------------------------------------------------------------
(***************************************************************************)
(* The client can tell the chunks apart.                                    *)
(***************************************************************************)

Sizes(s) == {i \in DOMAIN s : s[i][1] = "size"}

\* Behind the size z at i come as many bytes up to end, and the next size if any.
Block(s, i, z, end, over) ==
  /\ end \in DOMAIN s /\ s[i + 1] = NL /\ s[end] = NL
  /\ \A j \in i + 2 .. end - 1 : s[j][1] = "byte"
  /\ end = Len(s) \/ end + 1 \in Sizes(s)
  /\ z = 0 <=> end = Len(s) /\ over

Delimited(s, i, over) == Block(s, i, s[i][2], i + 2 + s[i][2], over)

\* s is a number of chunks, the last one of size 0 if it is over.
Chunked(s, over) ==
  /\ s # << >> => 1 \in Sizes(s)
  /\ \A i \in Sizes(s) : Delimited(s, i, over)

\* What WellFramed says.
LEMMA WellFramedIs ==
  WellFramed <=>
    (Open /\ Transforming => Chunked(Answered(toClient \o rb.bytes), outfd = "closed"))
  BY DEF WellFramed, Chunked, Sizes, Delimited, Block

\* One chunk more; it is the last one if nothing is in it.
LEMMA OneChunkMore ==
  ASSUME NEW s \in Seq(OwnToken), Chunked(s, FALSE), NEW b \in Seq(ByteToken)
  PROVE  Chunked(s \o Chunk(b), Len(b) = 0)
<1> DEFINE l == Len(s)
           n == Len(b)
           c == Chunk(b)
           t == s \o c
<1>1. /\ c \in Seq(OwnToken) /\ Len(c) = n + 3
      /\ c[1] = Size(n) /\ c[2] = NL /\ c[n + 3] = NL
      /\ \A i \in 1..n : c[i + 2] = b[i]
  BY ChunkType
<1>2. l \in Nat /\ n \in Nat /\ DOMAIN s = 1..l
  BY LenProperties
<1> HIDE DEF c
<1>3. /\ Len(t) = l + (n + 3) /\ DOMAIN t = 1..Len(t)
      /\ \A i \in 1..l : t[i] = s[i]
      /\ \A i \in 1..n + 3 : t[l + i] = c[i]
  <2>1. /\ t \in Seq(OwnToken) /\ Len(t) = l + (n + 3)
        /\ \A i \in 1 .. l + (n + 3) : t[i] = IF i <= l THEN s[i] ELSE c[i - l]
    <3>1. /\ s \o c \in Seq(OwnToken) /\ Len(s \o c) = Len(s) + Len(c)
          /\ \A i \in 1 .. Len(s) + Len(c) :
               (s \o c)[i] = IF i <= Len(s) THEN s[i] ELSE c[i - Len(s)]
      BY <1>1, ConcatProperties
    <3>2. QED
      BY <1>1, <3>1, Zenon
  <2>2. DOMAIN t = 1..Len(t)
    BY <2>1, LenProperties
  <2> HIDE DEF t, l, n
  <2>3. \A i \in 1..l : t[i] = s[i]
    BY <1>2, <2>1
  <2>4. ASSUME NEW i \in 1..n + 3 PROVE t[l + i] = c[i]
    <3>1. l + i \in 1 .. l + (n + 3) /\ ~(l + i <= l) /\ (l + i) - l = i
      BY <1>2
    <3>2. QED
      BY <2>1, <3>1
  <2>5. QED
    BY <2>1, <2>2, <2>3, <2>4
<1>4. /\ t[l + 1] = Size(n) /\ t[l + 2] = NL /\ t[l + (n + 3)] = NL
      /\ \A i \in 1..n : t[l + (i + 2)] = b[i]
  <2> HIDE DEF t, l, n
  <2>1. 1 \in 1..n + 3 /\ 2 \in 1..n + 3 /\ n + 3 \in 1..n + 3
    BY <1>2
  <2>2. \A i \in 1..n : i + 2 \in 1..n + 3
    BY <1>2
  <2>3. QED
    BY <1>1, <1>3, <2>1, <2>2
<1>5. \A i \in 1..n : b[i][1] = "byte"
  BY Elements DEF ByteToken
<1>6. Size(n)[1] = "size" /\ Size(n)[2] = n /\ NL[1] # "size"
  BY DEF Size, NL
<1> HIDE DEF t, l, n
<1>7. Sizes(t) = Sizes(s) \union {l + 1}
  <2>1. ASSUME NEW i \in Sizes(s) PROVE i \in Sizes(t)
    BY <1>2, <1>3, <2>1 DEF Sizes
  <2>2. l + 1 \in Sizes(t)
    BY <1>2, <1>3, <1>4, <1>6 DEF Sizes
  <2>3. ASSUME NEW i \in Sizes(t), i # l + 1 PROVE i \in Sizes(s)
    <3>1. i \in 1 .. l + (n + 3) /\ t[i][1] = "size"
      BY <1>3 DEF Sizes
    <3>2. CASE i \in 1..l
      BY <1>2, <1>3, <3>1, <3>2 DEF Sizes
    <3>3. CASE i = l + 2 \/ i = l + (n + 3)
      BY <1>4, <1>6, <3>1, <3>3
    <3>4. CASE i - (l + 2) \in 1..n
      <4> DEFINE k == i - (l + 2)
      <4>1. k \in 1..n /\ l + (k + 2) = i
        BY <1>2, <3>1, <3>4
      <4> HIDE DEF k
      <4>2. t[i][1] = "byte"
        BY <1>4, <1>5, <4>1
      <4>3. QED
        BY <3>1, <4>2
    <3>5. QED
      <4>1. i \in 1..l \/ i = l + 2 \/ i = l + (n + 3) \/ i - (l + 2) \in 1..n
        BY <1>2, <2>3, <3>1
      <4>2. QED
        BY <3>2, <3>3, <3>4, <4>1
  <2>4. QED
    BY <2>1, <2>2, <2>3
<1>8. t # << >> => 1 \in Sizes(t)
  <2>1. CASE s = << >>
    <3>1. l = 0
      BY <2>1, EmptySeq DEF l
    <3>2. QED
      BY <1>7, <3>1
  <2>2. CASE s # << >>
    BY <1>7, <2>2 DEF Chunked
  <2>3. QED
    BY <2>1, <2>2
<1>9. ASSUME NEW i \in Sizes(s) PROVE Delimited(t, i, n = 0)
  <2> DEFINE z == s[i][2]
             end == i + 2 + z
  <2>1. i \in 1..l /\ Delimited(s, i, FALSE)
    BY <1>2, <1>9 DEF Sizes, Chunked
  <2>2. s[i] \in Token
    BY <1>2, <2>1, Elements DEF l
  <2>3. z \in Nat /\ t[i] = s[i]
    BY <1>3, <2>1, <2>2 DEF Token
  <2>4. /\ end \in 1..l /\ s[i + 1] = NL /\ s[end] = NL
        /\ \A j \in i + 2 .. end - 1 : s[j][1] = "byte"
        /\ end = l \/ end + 1 \in Sizes(s)
        /\ z # 0
    <3>1. Block(s, i, z, end, FALSE) /\ Len(s) = l
      BY <2>1 DEF Delimited, l
    <3> HIDE DEF z, end
    <3>2. QED
      BY <1>2, <3>1 DEF Block
  <2> HIDE DEF z
  <2>5. end \in 1 .. l + (n + 3) /\ i + 1 \in 1..l /\ end # l + (n + 3)
    BY <1>2, <2>1, <2>3, <2>4
  <2>6. t[i + 1] = NL /\ t[end] = NL
    BY <1>3, <2>4, <2>5
  <2>7. ASSUME NEW j \in i + 2 .. end - 1 PROVE t[j][1] = "byte"
    <3>1. j \in 1..l
      BY <1>2, <2>1, <2>3, <2>4
    <3>2. QED
      BY <1>3, <2>4, <3>1
  <2>8. end + 1 \in Sizes(t)
    BY <1>7, <2>4
  <2>9. t[i][2] = z
    BY <2>3 DEF z
  <2>10. Block(t, i, z, end, n = 0)
    <3> HIDE DEF end
    <3>1. end \in DOMAIN t /\ end # Len(t)
      BY <1>3, <2>5
    <3>2. QED
      BY <2>4, <2>6, <2>7, <2>8, <3>1 DEF Block
  <2>11. QED
    BY <2>9, <2>10 DEF Delimited
<1>10. Delimited(t, l + 1, n = 0)
  <2> DEFINE i == l + 1
             end == i + 2 + n
  <2>1. t[i][2] = n
    BY <1>4, <1>6
  <2>2. end = l + (n + 3) /\ end \in 1..Len(t) /\ i + 1 = l + 2
    BY <1>2, <1>3
  <2>3. ASSUME NEW j \in i + 2 .. end - 1 PROVE t[j][1] = "byte"
    <3> DEFINE k == j - (l + 2)
    <3>1. k \in 1..n /\ l + (k + 2) = j
      BY <1>2
    <3> HIDE DEF k
    <3>2. t[j] = b[k]
      BY <1>4, <3>1
    <3>3. QED
      BY <1>5, <3>1, <3>2
  <2>4. t[i + 1] = NL /\ t[end] = NL
    BY <1>4, <2>2
  <2>5. Block(t, i, n, end, n = 0)
    <3>1. end \in DOMAIN t /\ end = Len(t)
      BY <1>3, <2>2
    <3> HIDE DEF i, end
    <3>2. QED
      BY <2>3, <2>4, <3>1 DEF Block
  <2>6. QED
    BY <2>1, <2>5 DEF Delimited
<1>11. QED
  BY <1>7, <1>8, <1>9, <1>10 DEF Chunked, n, t, c

\* Putting a chunk, or the error reply, behind what waits for the client.
LEMMA AnsweredMore ==
  ASSUME IInv, NEW c \in Seq(Token), toClient' = toClient, rb'.bytes = rb.bytes \o c
  PROVE  Answered(toClient' \o rb'.bytes) = Answered(toClient \o rb.bytes) \o Answered(c)
<1>1. toClient \in Seq(Token) /\ rb.bytes \in Seq(Token)
  BY OnTheWay
<1>2. toClient \o (rb.bytes \o c) = (toClient \o rb.bytes) \o c
  BY <1>1, Concats
<1>3. toClient \o rb.bytes \in Seq(Token)
  BY <1>1, Concats
<1>4. Answered((toClient \o rb.bytes) \o c) = Answered(toClient \o rb.bytes) \o Answered(c)
  BY <1>3, Answers, Zenon
<1>5. QED
  BY <1>2, <1>4

\* What the client is answered.
LEMMA AnsweredType ==
  ASSUME IInv
  PROVE  /\ Answered(toClient \o rb.bytes) \in Seq(OwnToken)
         /\ Answered(toClient \o rb.bytes) \in Seq(Token)
<1>1. toClient \o rb.bytes \in Seq(Token)
  BY OnTheWay, Regroup
<1>2. QED
  BY <1>1, Answers

\* The chunks stay as they are.
LEMMA FramedStays ==
  ASSUME IInv, Open, Transforming, outfd' = outfd,
         Answered(toClient' \o rb'.bytes) = Answered(toClient \o rb.bytes)
  PROVE  Chunked(Answered(toClient' \o rb'.bytes), outfd' = "closed")
<1>1. Chunked(Answered(toClient \o rb.bytes), outfd = "closed")
  BY WellFramedIs DEF IInv
<1>2. QED
  BY <1>1, Zenon

\* The client can tell the chunks apart.
LEMMA WellFramedStep == IInv /\ [Next]_vars => WellFramed'
<1> SUFFICES ASSUME IInv, [Next]_vars, Open', Transforming'
             PROVE  Chunked(Answered(toClient' \o rb'.bytes), outfd' = "closed")
  BY DEF WellFramed, Chunked, Sizes, Delimited, Block
<1>1. ASSUME UNCHANGED <<infd, outfd, rb, toClient>>, Open
      PROVE  Chunked(Answered(toClient' \o rb'.bytes), outfd' = "closed")
  BY <1>1, FramedStays DEF Transforming
<1>2. CASE Idle
  BY <1>1, <1>2, IdleStep DEF Open
<1>3. CASE Quits
  BY <1>3, QuitsStep
<1>4. CASE FlushBody
  <2>1. UNCHANGED <<infd, outfd, toClient>> /\ Open
    BY <1>4, FlushBodyIs DEF FlushBody
  <2>2. rb' = rb
    BY <1>4, <2>1, FlushBodyIs DEF Transforming
  <2>3. QED
    BY <1>1, <2>1, <2>2
<1>5. CASE \E n \in 0..Capacity : OriginCopyR(n)
  <2>1. UNCHANGED <<infd, outfd, toClient>> /\ Open
    BY <1>5, OriginCopyRIs DEF OriginCopyR, Handle
  <2>2. rb' = rb
    BY <1>5, <2>1, OriginCopyRIs DEF Transforming
  <2>3. QED
    BY <1>1, <2>1, <2>2
<1>6. CASE TransformInEnds \/ TransformWrites \/ WriteReturns \/ PipeTakes
  <2>1. UNCHANGED <<outfd, rb, toClient>> /\ Open /\ infd = "open"
    BY <1>6, TransformInEndsIs, TransformWritesIs, WriteReturnsIs, PipeTakesIs
  <2>2. QED
    BY <2>1, FramedStays DEF Transforming
<1>7. CASE TransformCopyR \/ TransformOutCut
  <2>1. /\ Open /\ Transforming /\ outfd = "open" /\ outfd' \in {"open", "cut"}
        /\ toClient' = toClient
    BY <1>7, TransformCopyRIs, TransformOutCutIs DEF Transforming
  <2>2. PICK n \in 1..Len(out) :
          /\ rb'.bytes = rb.bytes \o Chunk(SubSeq(out, 1, n))
          /\ SubSeq(out, 1, n) \in Seq(ByteToken) /\ Len(SubSeq(out, 1, n)) = n
    BY <1>7, TransformCopyRIs, TransformOutCutIs
  <2> DEFINE b == SubSeq(out, 1, n)
             c == Chunk(b)
             s == Answered(toClient \o rb.bytes)
  <2>3. /\ b \in Seq(ByteToken) /\ Len(b) = n /\ n # 0 /\ rb'.bytes = rb.bytes \o c
    <3>1. n # 0
      OBVIOUS
    <3>2. QED
      BY <2>2, <3>1
  <2> HIDE DEF b
  <2>4. c \in Seq(Token) /\ Answered(c) = c
    BY <2>3, ChunkType, Answers
  <2>5. Answered(toClient' \o rb'.bytes) = s \o c
    BY <2>1, <2>3, <2>4, AnsweredMore
  <2>6. s \in Seq(OwnToken) /\ Chunked(s, FALSE)
    BY <2>1, AnsweredType, WellFramedIs DEF IInv
  <2> HIDE DEF s
  <2>7. Chunked(s \o Chunk(b), Len(b) = 0)
    BY <2>3, <2>6, OneChunkMore
  <2>8. Chunked(s \o Chunk(b), FALSE)
    BY <2>3, <2>7
  <2>9. QED
    BY <2>1, <2>5, <2>8
<1>8. CASE TransformOutEnds
  <2>1. /\ Open /\ Transforming /\ outfd = "open" /\ outfd' = "closed"
        /\ toClient' = toClient /\ rb'.bytes = rb.bytes \o Chunk(<< >>)
    BY <1>8, TransformOutEndsIs DEF Transforming
  <2> DEFINE b == << >>
             c == Chunk(b)
             s == Answered(toClient \o rb.bytes)
  <2>2. b \in Seq(ByteToken) /\ Len(b) = 0
    BY EmptySeq
  <2>3. rb'.bytes = rb.bytes \o c
    BY <2>1
  <2> HIDE DEF b
  <2>4. c \in Seq(Token) /\ Answered(c) = c
    BY <2>2, ChunkType, Answers
  <2>5. Answered(toClient' \o rb'.bytes) = s \o c
    BY <2>1, <2>3, <2>4, AnsweredMore
  <2>6. s \in Seq(OwnToken) /\ Chunked(s, FALSE)
    BY <2>1, AnsweredType, WellFramedIs DEF IInv
  <2> HIDE DEF s
  <2>7. Chunked(s \o Chunk(b), Len(b) = 0)
    BY <2>2, <2>6, OneChunkMore
  <2>8. Chunked(s \o Chunk(b), TRUE)
    BY <2>2, <2>7
  <2>9. QED
    BY <2>1, <2>5, <2>8
<1>9. CASE ChildRead \/ ChildEof \/ ChildWrite \/ ChildBreaks \/ ChildDies
  <2>1. Open
    BY <1>9 DEF ChildRead, ChildEof, ChildWrite, ChildBreaks, ChildDies, Child
  <2>2. UNCHANGED <<infd, outfd, rb, toClient>>
    BY <1>9, ChildReadIs, ChildWriteIs, ChildEnds
  <2>3. QED
    BY <1>1, <2>1, <2>2
<1>10. CASE (\E n \in 1..Capacity : ClientCopyW(n)) \/ ClientTimeout
  <2>1. UNCHANGED <<infd, outfd>> /\ Open
    BY <1>10, ClientCopyWIs, ClientTimeoutIs
  <2>2. Answered(toClient' \o rb'.bytes) = Answered(toClient \o rb.bytes)
    <3>1. CASE \E n \in 1..Capacity : ClientCopyW(n)
      BY <3>1, GivenSent
    <3>2. CASE ClientTimeout
      <4>1. /\ rb'.bytes = rb.bytes \o <<ErrorReply>> /\ <<ErrorReply>> \in Seq(Token)
            /\ toClient' = toClient
        BY <3>2, ClientTimeoutIs
      <4>2. Answered(<<ErrorReply>>) = << >>
        BY Answers
      <4>3. Answered(toClient \o rb.bytes) \in Seq(Token)
        BY AnsweredType
      <4>4. Answered(toClient' \o rb'.bytes) = Answered(toClient \o rb.bytes) \o << >>
        BY <4>1, <4>2, AnsweredMore
      <4>5. QED
        BY <4>3, <4>4, Concats
    <3>3. QED
      BY <1>10, <3>1, <3>2
  <2>3. Transforming
    BY <2>1 DEF Transforming
  <2>4. QED
    BY <2>1, <2>2, <2>3, FramedStays
<1>11. QED
  BY <1>2, <1>3, <1>4, <1>5, <1>6, <1>7, <1>8, <1>9, <1>10, Steps

-----------------------------------------------------------------------------
(***************************************************************************)
(* The invariant holds.                                                     *)
(***************************************************************************)

\* In an exchange that is given the types are those of BodyType.
LEMMA InitBody == Init => BodyType
<1> SUFFICES ASSUME Init PROVE BodyType
  OBVIOUS
<1>1. PICK x \in Exchange : body = x[1] /\ factor = x[2] /\ fault = x[3]
  BY DEF Init
<1>2. /\ body.stream \in Seq(Token) /\ body.declared \in Nat
      /\ body.chunked \in BOOLEAN /\ body.close \in BOOLEAN
      /\ factor \in Nat \ {0} /\ fault \subseteq FaultKind
      /\ body.chunked => Framed(body.stream)
      /\ ~body.chunked => \A i \in DOMAIN body.stream : body.stream[i][1] = "byte"
  BY <1>1, ExchangeAssumption
<1>3. ASSUME ~body.chunked, NEW i \in DOMAIN body.stream
      PROVE  body.stream[i] \in ByteToken
  <2>1. body.stream[i] \in Token
    BY <1>2, <1>3, ElementOfSeq, LenProperties
  <2>2. QED
    BY <1>2, <1>3, <2>1, Elements
<1>4. QED
  BY <1>2, <1>3 DEF BodyType

\* What there is at the start.
LEMMA InitIs ==
  ASSUME Init
  PROVE  /\ cst = "COPY" /\ ost = "COPY" /\ due = TRUE /\ done = {"req"}
         /\ got \in 0..Len(body.stream) /\ body.stream \in Seq(Token)
         /\ ob \in Queue /\ Room(ob) >= 0 /\ tb = Empty /\ rb = Empty
         /\ ob.bytes = SubSeq(body.stream, 1, got) /\ ob.bytes \in Seq(Token)
         /\ Len(ob.bytes) = got
         /\ length \in Nat /\ (IF body.chunked THEN length = 0 ELSE length = body.declared)
         /\ body_length \in Int
         /\ \/ infd = "open" /\ outfd = "open" /\ interest = {"outfd"}
            \/ infd = "none" /\ outfd = "none" /\ interest = {}
         /\ writing = << >> /\ loop = "select" /\ in = << >> /\ out = << >>
         /\ child = "reading" /\ held = << >> /\ toClient = << >> /\ crash = "none"
<1>1. BodyType
  BY InitBody
<1>2. /\ cst = "COPY" /\ ost = "COPY" /\ due = TRUE /\ done = {"req"}
      /\ got \in 0..Least(Len(body.stream), Capacity - 1)
      /\ ob = Put(Empty, SubSeq(body.stream, 1, got)) /\ tb = Empty /\ rb = Empty
      /\ length = (IF body.chunked THEN 0 ELSE body.declared) /\ body_length = length
      /\ \/ infd = "open" /\ outfd = "open" /\ interest = {"outfd"}
         \/ infd = "none" /\ outfd = "none" /\ interest = {}
      /\ writing = << >> /\ loop = "select" /\ in = << >> /\ out = << >>
      /\ child = "reading" /\ held = << >> /\ toClient = << >> /\ crash = "none"
  BY DEF Init
<1>3. body.stream \in Seq(Token) /\ length \in Nat /\ body_length \in Int
  BY <1>1, <1>2 DEF BodyType
<1>4. got \in 0..Len(body.stream) /\ got \in 0..Capacity
  <2>1. Len(body.stream) \in Nat
    BY <1>3, LenProperties
  <2>2. QED
    BY <1>2, <2>1, CapacityAssumption DEF Least
<1> DEFINE s == SubSeq(body.stream, 1, got)
<1>5. s \in Seq(Token) /\ Len(s) = got
  BY <1>3, <1>4, Split
<1> HIDE DEF s
<1>6. Room(Empty) = Capacity /\ Empty \in Queue
  BY EmptyType, CapacityAssumption, EmptySeq DEF Room, Empty
<1>7. ob \in Queue /\ Room(ob) >= 0 /\ ob.bytes = Empty.bytes \o s
  <2>1. Len(s) <= Room(Empty)
    BY <1>4, <1>5, <1>6
  <2>2. ob = Put(Empty, s)
    BY <1>2 DEF s
  <2>3. QED
    BY <1>5, <1>6, <2>1, <2>2, PutType
<1>8. ob.bytes = s
  BY <1>5, <1>7, EmptyType, Concats
<1>9. QED
  BY <1>2, <1>3, <1>4, <1>5, <1>7, <1>8 DEF s

\* ... and where it goes.
LEMMA InitOnTheWay ==
  ASSUME Init
  PROVE  InOrder /\ Direct /\ WellFramed
<1>1. /\ got \in 0..Len(body.stream) /\ tb.bytes = << >> /\ rb.bytes = << >>
      /\ ob.bytes = SubSeq(body.stream, 1, got) /\ ob.bytes \in Seq(Token)
      /\ writing = << >> /\ loop = "select" /\ in = << >> /\ out = << >>
      /\ child = "reading" /\ held = << >> /\ toClient = << >>
      /\ outfd # "closed" /\ outfd # "cut"
  BY InitIs, EmptyType
<1>2. /\ << >> \in Seq(Token) /\ << >> \o << >> = << >>
      /\ Payload(<< >>) = << >> /\ Answered(<< >>) = << >>
  BY Concats, Payloads, Answers
<1>3. InOrder
  <2>1. Given = << >>
    BY <1>1, <1>2 DEF Given
  <2>2. Unwritten \o ob.bytes = ob.bytes
    BY <1>1, Concats DEF Unwritten
  <2> DEFINE m == Makes(factor, Payload(ob.bytes))
  <2>3. Payload(ob.bytes) \in Seq(Token) /\ factor \in Nat
    BY <1>1, Payloads, InitBody DEF BodyType
  <2>4. m \in Seq(Token)
    BY <2>3, Makings
  <2>5. in \o Payload(ob.bytes) = Payload(ob.bytes)
    BY <1>1, <2>3, Concats
  <2>6. Coming = << >> \o m
    BY <1>1, <2>2, <2>5 DEF Coming
  <2>7. Owed = m
    BY <1>1 DEF Owed
  <2> HIDE DEF m
  <2>8. Expected = m
    BY <1>1, <2>4, <2>6, Concats DEF Expected, Dead
  <2>9. (Given \o Expected) \o << >> = Owed
    BY <2>1, <2>4, <2>7, <2>8, Concats
  <2>10. QED
    BY <1>2, <2>9 DEF InOrder
<1>4. Direct
  <2>1. toClient \o rb.bytes \o ob.bytes = ob.bytes
    BY <1>1, <1>2, Concats
  <2>2. QED
    BY <1>1, <2>1 DEF Direct
<1>5. WellFramed
  <2>1. Answered(toClient \o rb.bytes) = << >>
    BY <1>1, <1>2
  <2>2. Sizes(<< >>) = {}
    BY EmptySeq DEF Sizes
  <2>3. Chunked(<< >>, outfd = "closed")
    BY <2>2 DEF Chunked
  <2>4. QED
    BY <2>1, <2>3, WellFramedIs
<1>6. QED
  BY <1>3, <1>4, <1>5

\* The invariant holds at the start.
LEMMA InitInv == Init => IInv
<1> SUFFICES ASSUME Init PROVE IInv
  OBVIOUS
<1>1. BodyType /\ InOrder /\ Direct /\ WellFramed
  BY InitBody, InitOnTheWay
<1>2. Len(<< >>) = 0 /\ \A T : << >> \in Seq(T)
  BY EmptySeq
<1>3. TypeOK
  BY <1>2, InitIs, EmptyType, PipeAssumption DEF TypeOK, Closed, AllDone
<1>4. StreamType
  BY <1>2, InitIs DEF StreamType
<1>5. Control /\ ChildState /\ Ended /\ LostOnlyThen
  <2>1. Control
    BY InitIs, EmptyType DEF Control
  <2>2. ChildState
    BY InitIs DEF ChildState
  <2>3. Ended /\ LostOnlyThen
    BY InitIs DEF Ended, LostOnlyThen
  <2>4. QED
    BY <2>1, <2>2, <2>3
<1>6. Placed
  <2>1. /\ tb.bytes = << >> /\ ob.bytes = SubSeq(body.stream, 1, got)
        /\ ob.bytes \in Seq(Token) /\ Len(ob.bytes) = got /\ got \in Nat
        /\ length \in Nat /\ (IF body.chunked THEN length = 0 ELSE length = body.declared)
    BY InitIs, EmptyType
  <2>2. Position = 0
    BY <1>2, <2>1 DEF Position
  <2>3. tb.bytes \o ob.bytes = ob.bytes
    BY <2>1, Concats
  <2>4. tb.bytes \o ob.bytes = SubSeq(body.stream, Position + 1, got)
    <3>1. Position + 1 = 1
      BY <2>2
    <3>2. QED
      BY <2>1, <2>3, <3>1, Zenon
  <2>5. body.chunked => \A j \in Position + 1 .. Position + length :
                          j \in DOMAIN body.stream => body.stream[j] \in ByteToken
    BY <2>1, <2>2
  <2>6. ~body.chunked => Position + length = body.declared
    BY <2>1, <2>2
  <2>7. Position >= 0
    BY <2>2
  <2>8. QED
    BY <2>4, <2>5, <2>6, <2>7 DEF Placed
<1>7. QED
  BY <1>1, <1>3, <1>4, <1>5, <1>6 DEF IInv

\* TypeOK is what its parts say.
LEMMA TypeParts ==
  ASSUME ControlType', BuffersType', StreamType', PipesType'
  PROVE  TypeOK'
<1>1. /\ writing' \in Seq(Token) /\ in' \in Seq(Token) /\ out' \in Seq(Token)
      /\ held' \in Seq(Token) /\ toClient' \in Seq(Token)
  <2>1. Seq(ByteToken) \subseteq Seq(Token) /\ Seq(OwnToken) \subseteq Seq(Token)
    BY Elements, SeqMonotonic
  <2>2. QED
    BY <2>1 DEF StreamType
<1>2. QED
  BY <1>1 DEF TypeOK, ControlType, BuffersType, PipesType

\* It is kept by every step.
LEMMA NextInv == IInv /\ [Next]_vars => IInv'
<1> SUFFICES ASSUME IInv, [Next]_vars PROVE IInv'
  OBVIOUS
<1>1. TypeOK'
  BY ControlTypeStep, BuffersStep, StreamStep, TypeParts
<1>2. BodyType'
  BY ExchangeStays DEF IInv, BodyType
<1>3. StreamType' /\ Control' /\ ChildState'
  BY StreamStep, ControlStep, ChildStep
<1>4. Placed' /\ Ended' /\ LostOnlyThen'
  BY PlacedStep, EndedStep, LostStep
<1>5. InOrder' /\ Direct' /\ WellFramed'
  BY InOrderStep, DirectStep, WellFramedStep
<1>6. QED
  BY <1>1, <1>2, <1>3, <1>4, <1>5 DEF IInv

\* The inductive invariant holds in every state of every exchange.
THEOREM Invariance == Spec => []IInv
<1>1. Init => IInv
  BY InitInv
<1>2. IInv /\ [Next]_vars => IInv'
  BY NextInv
<1>3. QED
  BY <1>1, <1>2, PTL DEF Spec

\* The variables keep their types: no buffer and no pipe is overrun, whatever
\* their sizes are.
THEOREM TransformTypes == Spec => []TypeOK
<1>1. IInv => TypeOK
  BY DEF IInv
<1>2. QED
  BY <1>1, Invariance, PTL

\* The output of a transformer is cut, and the proxy is lost to one, for the
\* reasons given and for no other.
THEOREM LostForReasons == Spec => []LostOnlyThen
<1>1. IInv => LostOnlyThen
  BY DEF IInv
<1>2. QED
  BY <1>1, Invariance, PTL

\* The client can tell the chunks apart that tOut makes, at any time, and has
\* the last one just when the transformer was read to its end.
THEOREM ChunksApart == Spec => []WellFramed
<1>1. IInv => WellFramed
  BY DEF IInv
<1>2. QED
  BY <1>1, Invariance, PTL

\* What Transformed means.
LEMMA TransformedIs ==
  ASSUME NEW s \in Seq(Token)
  PROVE  Transformed(s) = Makes(factor, s)
  BY DEF Transformed, Made, Makes

\* No byte is lost, doubled or overtaken between the origin and the client, as
\* long as the child lives and its output is not cut.
THEOREM AllOnTheWay == Spec => []NothingLost
<1>1. IInv => NothingLost
  <2> SUFFICES ASSUME IInv, Open, Transforming, Sized, "child" \notin fault,
                      outfd # "cut"
               PROVE  Payload(toClient \o rb.bytes) \o out \o held
                          \o Transformed(in \o Payload(Unwritten \o ob.bytes))
                        = Transformed(Payload(SubSeq(body.stream, 1, got)))
    BY DEF NothingLost
  <2> DEFINE w == in \o Payload(Waiting)
             r == Payload(SubSeq(body.stream, 1, got))
             g == Payload(toClient \o rb.bytes)
             m == Makes(factor, w)
  <2>1. /\ in \in Seq(Token) /\ Payload(Waiting) \in Seq(Token) /\ factor \in Nat
        /\ out \in Seq(Token) /\ held \in Seq(Token) /\ g \in Seq(Token)
        /\ body.stream \in Seq(Token) /\ got \in 0..Len(body.stream)
    BY OnTheWay
  <2>2. w \in Seq(Token) /\ r \in Seq(Token)
    <3>1. SubSeq(body.stream, 1, got) \in Seq(Token)
      BY <2>1, Split
    <3>2. QED
      BY <2>1, <3>1, Regroup, Payloads
  <2>3. Transformed(w) = m /\ Transformed(r) = Owed
    BY <2>2, TransformedIs DEF Owed
  <2>4. m \in Seq(Token)
    BY <2>1, <2>2, Makings
  <2>5. (Given \o Expected) \o << >> = Owed /\ Expected = Coming
    BY DEF IInv, InOrder, Dead, Expected
  <2>6. Given = g \o out /\ Coming = held \o m
    BY DEF Given, Coming, Waiting
  <2> HIDE DEF m, g, w, r
  <2>7. /\ g \o out \in Seq(Token) /\ held \o m \in Seq(Token)
        /\ ((g \o out) \o held) \o m = (g \o out) \o (held \o m)
    <3> DEFINE h == g \o out
    <3>1. h \in Seq(Token) /\ held \o m \in Seq(Token)
      BY <2>1, <2>4, Regroup
    <3> HIDE DEF h
    <3>2. held \in Seq(Token)
      BY <2>1
    <3>3. (h \o held) \o m = h \o (held \o m)
      BY <2>4, <3>1, <3>2, Regroup
    <3>4. QED
      BY <3>1, <3>3 DEF h
  <2>8. (g \o out) \o (held \o m) = Owed
    <3>1. (g \o out) \o (held \o m) \in Seq(Token)
      BY <2>7, Regroup
    <3>2. QED
      BY <2>5, <2>6, <3>1, Concats
  <2>9. g \o out \o held \o Transformed(w) = Transformed(r)
    BY <2>3, <2>7, <2>8
  <2>10. QED
    BY <2>9 DEF w, r, g, Waiting
<1>2. QED
  BY <1>1, Invariance, PTL

-----------------------------------------------------------------------------
(***************************************************************************)
(* The exchange keeps the promise of module Relay.                          *)
(***************************************************************************)

\* What the client is to be given.
Answer == IF Transforming THEN Transformed(Payload(body.stream)) ELSE Payload(body.stream)

\* Whether there is a transformer does not change.
LEMMA TransformingStays ==
  ASSUME IInv, [Next]_vars
  PROVE  Transforming' <=> Transforming
<1>1. CASE Idle \/ Quits
  BY <1>1, IdleStep, QuitsStep DEF ClientDone, Transforming
<1>2. CASE FlushBody \/ \E n \in 0..Capacity : OriginCopyR(n)
  BY <1>2, FlushBodyIs, OriginCopyRIs DEF Transforming
<1>3. CASE TransformInEnds \/ TransformWrites \/ WriteReturns \/ PipeTakes
  BY <1>3, TransformInEndsIs, TransformWritesIs, WriteReturnsIs, PipeTakesIs
     DEF Transforming
<1>4. CASE TransformCopyR \/ TransformOutCut \/ TransformOutEnds
  BY <1>4, TransformCopyRIs, TransformOutCutIs, TransformOutEndsIs DEF Transforming
<1>5. CASE ChildRead \/ ChildEof \/ ChildWrite \/ ChildBreaks \/ ChildDies
  BY <1>5, ChildReadIs, ChildWriteIs, ChildEnds DEF Transforming
<1>6. CASE (\E n \in 1..Capacity : ClientCopyW(n)) \/ ClientTimeout
  BY <1>6, ClientCopyWIs, ClientTimeoutIs DEF Transforming
<1>7. QED
  BY <1>1, <1>2, <1>3, <1>4, <1>5, <1>6, Steps

\* What the client is to be given stays the same.
LEMMA AnswerStays ==
  ASSUME IInv, [Next]_vars
  PROVE  Answer' = Answer
<1>1. body' = body /\ factor' = factor
  BY ExchangeStays
<1>2. Transforming' <=> Transforming
  BY TransformingStays
<1>3. Transformed(Payload(body.stream))' = Transformed(Payload(body.stream))
  BY <1>1 DEF Transformed, Made
<1>4. QED
  BY <1>1, <1>2, <1>3 DEF Answer

\* What a step that is not one of the client's changes for it: nothing.
LEMMA OutOfSight ==
  ASSUME IInv, [Next]_vars, ~(ClientDrained /\ Finished),
         ~\E n \in 1..Capacity : ClientCopyW(n)
  PROVE  toClient' = toClient /\ (cst' = "DONE" <=> cst = "DONE")
<1>1. CASE Idle
  BY <1>1, IdleStep
<1>2. CASE Quits
  BY <1>2 DEF Quits, ClientCopyRFails, ClientDone, Open
<1>3. CASE FlushBody \/ \E n \in 0..Capacity : OriginCopyR(n)
  BY <1>3, FlushBodyIs, OriginCopyRIs
<1>4. CASE TransformInEnds \/ TransformWrites \/ WriteReturns \/ PipeTakes
  BY <1>4, TransformInEndsIs, TransformWritesIs, WriteReturnsIs, PipeTakesIs
<1>5. CASE TransformCopyR \/ TransformOutCut \/ TransformOutEnds
  BY <1>5, TransformCopyRIs, TransformOutCutIs, TransformOutEndsIs
<1>6. CASE ChildRead \/ ChildEof \/ ChildWrite \/ ChildBreaks \/ ChildDies
  BY <1>6, ChildReadIs, ChildWriteIs, ChildEnds
<1>7. CASE ClientTimeout
  BY <1>7, ClientTimeoutIs
<1>8. QED
  BY <1>1, <1>2, <1>3, <1>4, <1>5, <1>6, <1>7, Steps

\* The bytes of all that was sent are those received, and those behind.
LEMMA StreamParts ==
  ASSUME IInv
  PROVE  /\ Payload(SubSeq(body.stream, 1, got)) \in Seq(Token)
         /\ Payload(SubSeq(body.stream, got + 1, Len(body.stream))) \in Seq(Token)
         /\ Payload(body.stream)
              = Payload(SubSeq(body.stream, 1, got))
                  \o Payload(SubSeq(body.stream, got + 1, Len(body.stream)))
<1> DEFINE s == body.stream
           a == SubSeq(s, 1, got)
           b == SubSeq(s, got + 1, Len(s))
<1>1. s \in Seq(Token) /\ got \in 0..Len(s)
  BY OnTheWay
<1>2. a \in Seq(Token) /\ b \in Seq(Token) /\ a \o b = s
  BY <1>1, Split
<1> HIDE DEF a, b
<1>3. Payload(a) \in Seq(Token) /\ Payload(b) \in Seq(Token)
  BY <1>2, Payloads
<1>4. Payload(a \o b) = Payload(a) \o Payload(b)
  BY <1>2, Payloads, ZenonT(40)
<1>5. QED
  BY <1>2, <1>3, <1>4 DEF a, b

\* What is given to the client is the beginning of that.
LEMMA AnswerBegins ==
  ASSUME IInv, Open
  PROVE  \E rest \in Seq(Token) : Answer = Payload(toClient \o rb.bytes) \o rest
<1> DEFINE a == Payload(SubSeq(body.stream, 1, got))
           b == Payload(SubSeq(body.stream, got + 1, Len(body.stream)))
           p == Payload(toClient \o rb.bytes)
<1>1. a \in Seq(Token) /\ b \in Seq(Token) /\ Payload(body.stream) = a \o b
  BY StreamParts
<1>2. p \in Seq(Token) /\ factor \in Nat /\ out \in Seq(Token)
  BY OnTheWay
<1>3. CASE Transforming
  <2>1. PICK lost \in Seq(Token) : (Given \o Expected) \o lost = Owed
    BY <1>3 DEF IInv, InOrder
  <2>2. Given = p \o out /\ Owed = Makes(factor, a)
    BY DEF Given, Owed
  <2> HIDE DEF a, b, p
  <2>3. a \o b \in Seq(Token) /\ Answer = Makes(factor, a \o b)
    <3>1. a \o b \in Seq(Token)
      BY <1>1, Regroup
    <3>2. Answer = Transformed(a \o b)
      BY <1>1, <1>3 DEF Answer
    <3>3. QED
      BY <3>1, <3>2, TransformedIs
  <2> DEFINE z == Makes(factor, b)
             o == Owed
             e == Expected
  <2>4. Makes(factor, a \o b) = o \o z /\ z \in Seq(Token)
    BY <1>1, <1>2, <2>2, Makings
  <2>5. e \in Seq(Token) /\ ((p \o out) \o e) \o lost = o
    BY <2>1, <2>2, OnTheWay
  <2> HIDE DEF z, o, e
  <2> DEFINE r == (out \o (e \o lost)) \o z
  <2>6. e \o lost \in Seq(Token) /\ out \o (e \o lost) \in Seq(Token)
    BY <1>2, <2>5, Regroup
  <2>7. r \in Seq(Token)
    BY <2>4, <2>6, Regroup
  <2>8. o = p \o (out \o (e \o lost))
    <3>1. p \o out \in Seq(Token)
      BY <1>2, Regroup
    <3>2. ((p \o out) \o e) \o lost = (p \o out) \o (e \o lost)
      BY <2>5, <3>1, Regroup
    <3>3. (p \o out) \o (e \o lost) = p \o (out \o (e \o lost))
      BY <1>2, <2>6, Regroup
    <3>4. QED
      BY <2>5, <3>2, <3>3
  <2>9. o \o z = p \o r
    <3> DEFINE y == out \o (e \o lost)
    <3>1. y \in Seq(Token) /\ o = p \o y /\ r = y \o z
      BY <2>6, <2>8
    <3> HIDE DEF y, r
    <3>2. (p \o y) \o z = p \o (y \o z)
      BY <1>2, <2>4, <3>1, Regroup
    <3>3. QED
      BY <3>1, <3>2
  <2> HIDE DEF r
  <2>10. Answer = p \o r
    BY <2>3, <2>4, <2>9
  <2>11. QED
    BY <2>7, <2>10 DEF p
<1>4. CASE ~Transforming
  <2>1. toClient \in Seq(Token) /\ rb.bytes \in Seq(Token) /\ ob.bytes \in Seq(Token)
    BY OnTheWay
  <2>2. Payload(toClient \o rb.bytes \o ob.bytes) = p \o Payload(ob.bytes)
    <3>1. toClient \o rb.bytes \in Seq(Token)
      BY <2>1, Regroup
    <3>2. QED
      BY <2>1, <3>1, Payloads, ZenonT(40)
  <2> DEFINE q == Payload(ob.bytes)
  <2>3. q \in Seq(Token)
    BY <2>1, Payloads
  <2>4. p \o q = a
    BY <1>4, <2>2 DEF IInv, Direct
  <2>5. Answer = a \o b
    BY <1>1, <1>4 DEF Answer
  <2> HIDE DEF a, b, p, q
  <2>6. q \o b \in Seq(Token) /\ (p \o q) \o b = p \o (q \o b)
    BY <1>1, <1>2, <2>3, Regroup
  <2>7. QED
    BY <2>4, <2>5, <2>6 DEF p
<1>5. QED
  BY <1>3, <1>4

\* When everything is done and sent, the client has all of it, unless there is
\* an excuse.
LEMMA AllGiven ==
  ASSUME IInv, Open, done = AllDone, rb.bytes = << >>,
         ~body.close, Sized, "child" \notin fault, "idle" \notin fault
  PROVE  Payload(toClient) = Answer
<1> DEFINE a == Payload(SubSeq(body.stream, 1, got))
           s == SubSeq(body.stream, got + 1, Len(body.stream))
<1>1. /\ Transforming /\ child = "gone" /\ out = << >>
      /\ outfd # "cut"
  BY DEF IInv, ChildState, AllDone, LostOnlyThen
<1>2. infd = "closed" /\ held = << >> /\ in = << >>
  BY <1>1 DEF IInv, ChildState
<1>3. loop = "select" /\ tb.bytes = << >> /\ ob.bytes = << >>
  BY <1>2 DEF IInv, Control
<1>4. Given \o Expected = Owed /\ Expected = Coming
  <2>1. ~Dead
    BY <1>1 DEF Dead
  <2>2. PICK lost \in Seq(Token) :
          (Given \o Expected) \o lost = Owed /\ (lost # << >> => Dead)
    BY <1>1 DEF IInv, InOrder
  <2>3. Given \o Expected \in Seq(Token)
    BY OnTheWay, Regroup
  <2>4. (Given \o Expected) \o << >> = Given \o Expected
    BY <2>3, Concats
  <2>5. QED
    BY <2>1, <2>2, <2>4 DEF Expected
<1>5. Coming = << >>
  <2>1. Unwritten \o ob.bytes = << >>
    BY <1>3, Concats DEF Unwritten
  <2>2. in \o Payload(Unwritten \o ob.bytes) = << >>
    BY <1>2, <2>1, Concats, Payloads
  <2>3. Makes(factor, << >>) = << >>
    BY OnTheWay, Makings
  <2>4. QED
    BY <1>2, <2>2, <2>3, Concats DEF Coming
<1>6. Given = Payload(toClient) /\ Given \in Seq(Token)
  <2>1. toClient \in Seq(Token)
    BY OnTheWay
  <2>2. toClient \o rb.bytes = toClient
    BY <2>1, Concats
  <2>3. Payload(toClient) \in Seq(Token)
    BY <2>1, Payloads
  <2>4. QED
    BY <1>1, <2>2, <2>3, Concats DEF Given
<1>7. Payload(toClient) = Makes(factor, a)
  <2>1. Given \o << >> = Given
    BY <1>6, Concats
  <2>2. Payload(toClient) = Owed
    BY <1>4, <1>5, <1>6, <2>1
  <2>3. QED
    BY <2>2 DEF Owed
<1>8. Payload(s) = << >>
  <2>1. \A j \in got + 1 .. Len(body.stream) : body.stream[j] \notin ByteToken
    BY <1>2 DEF IInv, Ended
  <2>2. body.stream \in Seq(Token) /\ got \in 0..Len(body.stream) /\ Len(body.stream) \in Nat
    BY OnTheWay, LenProperties
  <2>3. /\ s \in Seq(Token) /\ Len(s) = Len(body.stream) - got
        /\ \A i \in 1..Len(body.stream) - got : s[i] = body.stream[got + i]
    <3>1. Len(body.stream) \in 0..Len(body.stream) /\ got \in 0..Len(body.stream)
      BY <2>2
    <3>2. QED
      BY <2>2, <3>1, Part
  <2> HIDE DEF s
  <2>4. ASSUME NEW i \in 1..Len(s) PROVE s[i] \in Token \ ByteToken
    <3>1. i \in 1..Len(body.stream) - got /\ got + i \in got + 1 .. Len(body.stream)
      BY <2>2, <2>3
    <3>2. s[i] \notin ByteToken
      BY <2>1, <2>3, <3>1
    <3>3. s[i] \in Token
      BY <2>3, ElementOfSeq
    <3>4. QED
      BY <3>2, <3>3
  <2>5. s \in Seq(Token \ ByteToken)
    BY <2>3, <2>4, IsASeq, LenProperties
  <2>6. QED
    BY <2>5, Payloads
<1>9. Payload(body.stream) = a /\ a \in Seq(Token)
  <2>1. a \in Seq(Token) /\ Payload(body.stream) = a \o Payload(s)
    BY StreamParts
  <2> HIDE DEF a, s
  <2>2. QED
    BY <1>8, <2>1, Concats
<1>10. Answer = Makes(factor, a)
  <2> HIDE DEF a
  <2>1. QED
    BY <1>1, <1>9, TransformedIs DEF Answer
<1>11. QED
  BY <1>7, <1>10

\* The beginning of a stream.
LEMMA Beginning ==
  ASSUME NEW e \in Seq(Token), NEW r \in Seq(Token)
  PROVE  /\ Len(e \o r) = Len(e) + Len(r) /\ Len(e) \in Nat /\ Len(r) \in Nat
         /\ SubSeq(e \o r, 1, Len(e)) = e
<1>1. Len(e) \in Nat /\ Len(r) \in Nat
  BY LenProperties
<1>2. Len(e \o r) = Len(e) + Len(r)
  BY ConcatProperties
<1>3. SubSeq(e \o r, 1, Len(e)) = SubSeq(e, 1, Len(e))
  <2>1. 1 \in 1 .. Len(e) + 1 /\ Len(e) \in 1 - 1 .. Len(e)
    BY <1>1
  <2>2. QED
    BY <2>1, SubSeqOfConcat1
<1>4. SubSeq(e, 1, Len(e)) = e
  BY SubSeqFull
<1>5. QED
  BY <1>1, <1>2, <1>3, <1>4

\* What is sent is a part of the answer from its beginning.
LEMMA SentDelivers ==
  ASSUME IInv, NEW n \in 1..Capacity, ClientCopyW(n)
  PROVE  \/ Payload(toClient') = Payload(toClient)
         \/ \E k \in Len(Payload(toClient)) + 1 .. Len(Answer) :
              Payload(toClient') = SubSeq(Answer, 1, k)
<1>1. /\ Open /\ SubSeq(rb.bytes, 1, n) \in Seq(Token) /\ rb' \in Queue
      /\ toClient' = toClient \o Answered(SubSeq(rb.bytes, 1, n))
      /\ toClient' \in Seq(OwnToken)
  BY ClientCopyWIs
<1> DEFINE d == Payload(toClient)
           e == Payload(toClient')
           x == Payload(Answered(SubSeq(rb.bytes, 1, n)))
           y == Payload(rb'.bytes)
<1>2. toClient \in Seq(Token) /\ toClient' \in Seq(Token) /\ rb'.bytes \in Seq(Token)
  BY <1>1, OnTheWay, NonePending, Elements, SeqMonotonic
<1>3. Answered(SubSeq(rb.bytes, 1, n)) \in Seq(Token)
  BY <1>1, Answers
<1>4. d \in Seq(Token) /\ e \in Seq(Token) /\ x \in Seq(Token) /\ y \in Seq(Token)
  BY <1>2, <1>3, Payloads
<1>5. e = d \o x
  BY <1>1, <1>2, <1>3, Payloads, ZenonT(40)
<1>6. PICK rest \in Seq(Token) : Answer = Payload(toClient \o rb.bytes) \o rest
  BY <1>1, AnswerBegins
<1>7. Payload(toClient \o rb.bytes) = e \o y
  <2>1. Payload(toClient \o rb.bytes) = Payload(toClient' \o rb'.bytes)
    BY GivenSent
  <2>2. Payload(toClient' \o rb'.bytes) = e \o y
    BY <1>2, Payloads, ZenonT(40)
  <2>3. QED
    BY <2>1, <2>2, Zenon
<1> HIDE DEF d, e, x, y
<1> DEFINE r == y \o rest
<1>8. r \in Seq(Token) /\ Answer = e \o r
  <2>1. Answer = (e \o y) \o rest
    BY <1>6, <1>7, Zenon
  <2>2. e \in Seq(Token) /\ y \in Seq(Token) /\ rest \in Seq(Token)
    BY <1>4, <1>6
  <2>3. (e \o y) \o rest = e \o r /\ r \in Seq(Token)
    BY <2>2, Regroup, ZenonT(40)
  <2>4. QED
    BY <2>1, <2>3, Zenon
<1> HIDE DEF r
<1>9. Len(e) = Len(d) + Len(x) /\ Len(d) \in Nat /\ Len(x) \in Nat
  BY <1>4, <1>5, Beginning
<1>10. Len(Answer) = Len(e) + Len(r) /\ Len(r) \in Nat /\ SubSeq(Answer, 1, Len(e)) = e
  BY <1>4, <1>8, Beginning
<1>11. CASE x = << >>
  BY <1>4, <1>5, <1>11, Concats DEF d, e
<1>12. CASE x # << >>
  <2>1. Len(x) > 0
    BY <1>4, <1>9, <1>12, EmptySeq
  <2>2. Len(e) \in Len(d) + 1 .. Len(Answer)
    BY <1>9, <1>10, <2>1
  <2>3. QED
    BY <1>10, <2>2 DEF d, e
<1>13. QED
  BY <1>11, <1>12

\* Every step is one of those that module Relay allows.
LEMMA RelayStep ==
  ASSUME IInv, [Next]_vars
  PROVE  [R!Deliver \/ R!Finish]_<<Answer, Payload(toClient), cst = "DONE">>
<1>1. Answer' = Answer
  BY AnswerStays
<1>2. CASE \E n \in 1..Capacity : ClientCopyW(n)
  <2>1. PICK n \in 1..Capacity : ClientCopyW(n)
    BY <1>2
  <2>2. cst = "COPY" /\ cst' = cst
    BY <2>1, ClientCopyWIs DEF Open
  <2>3. Payload(toClient)' = Payload(toClient')
    BY DEF Payload
  <2>4. CASE Payload(toClient') = Payload(toClient)
    BY <1>1, <2>2, <2>3, <2>4
  <2>5. CASE \E k \in Len(Payload(toClient)) + 1 .. Len(Answer) :
               Payload(toClient') = SubSeq(Answer, 1, k)
    BY <1>1, <2>2, <2>3, <2>5 DEF R!Deliver, Answer
  <2>6. QED
    BY <2>1, <2>4, <2>5, SentDelivers
<1>3. CASE ClientDrained /\ Finished
  <2>1. /\ Open /\ Pending(rb) = 0 /\ done = AllDone /\ ClientDone("DONE")
        /\ toClient' = toClient
    BY <1>3 DEF ClientDrained, Finished, Handle
  <2>2. cst = "COPY" /\ cst' = "DONE"
    BY <2>1 DEF Open, ClientDone
  <2>3. rb.bytes = << >>
    BY <2>1, NonePending DEF IInv, TypeOK
  <2>4. \/ Payload(toClient) = Answer
        \/ body.close \/ ~Sized \/ {"child", "idle"} \intersect fault # {}
    BY <2>1, <2>3, AllGiven
  <2>5. Payload(toClient)' = Payload(toClient)
    BY <2>1 DEF Payload
  <2>6. R!Finish
    BY <1>1, <2>2, <2>4, <2>5 DEF R!Finish, Answer
  <2>7. QED
    BY <2>6
<1>4. CASE /\ ~\E n \in 1..Capacity : ClientCopyW(n)
           /\ ~(ClientDrained /\ Finished)
  <2>1. toClient' = toClient /\ (cst' = "DONE" <=> cst = "DONE")
    BY <1>4, OutOfSight
  <2>2. Payload(toClient)' = Payload(toClient)
    BY <2>1 DEF Payload
  <2>3. (cst = "DONE")' = (cst = "DONE")
    BY <2>1
  <2>4. QED
    BY <1>1, <2>2, <2>3
<1>5. QED
  BY <1>2, <1>3, <1>4

\* The exchange keeps the promise of module Relay: the client is given what is
\* to be made of the body, from its beginning and without holes, and all of it
\* before the exchange is over, unless the server or the child left, the server
\* sent more than it declared or the client was given up.
THEOREM KeepsThePromise == Spec => Relayed
<1>1. Init => R!RelayInit
  <2> SUFFICES ASSUME Init PROVE R!RelayInit
    OBVIOUS
  <2>1. toClient = << >> /\ cst = "COPY"
    BY InitIs
  <2>2. Payload(toClient) = << >>
    BY <2>1, Payloads
  <2>3. QED
    BY <2>1, <2>2 DEF R!RelayInit
<1>2. IInv /\ [Next]_vars => [R!Deliver \/ R!Finish]_<<Answer, Payload(toClient), cst = "DONE">>
  BY RelayStep
<1>3. QED
  BY <1>1, <1>2, Invariance, PTL DEF Spec, Relayed, R!RelaySpec, Answer
=============================================================================
