------------------------- MODULE AdministrationProofs -------------------------
(***************************************************************************)
(* What module Administration says of the counters, of the table and of the *)
(* replies, for any units, any sizes of what is logged, any media types and *)
(* requests and any number of sessions; and what module AdminClient says of *)
(* its user, for any arguments.                                             *)
(***************************************************************************)
EXTENDS AdminClient, FiniteSetTheorems, SequenceTheorems,
        WellFoundedInduction, TLAPS

(***************************************************************************)
(* The inductive invariant.                                                 *)
(***************************************************************************)

\* Counters and what they are compared with are numbers.
CountersType ==
  /\ metrics \in [Metric -> [round : Nat, carry : Nat]]
  /\ logged \in [Metric -> Nat]
  /\ open \in Nat /\ peak \in Nat

IInv == CountersType /\ CountersAreExact

-----------------------------------------------------------------------------
(***************************************************************************)
(* Operators of metrics.c.                                                  *)
(***************************************************************************)

\* Dividing is what multiplying undoes.
LEMMA Division ==
  ASSUME NEW n \in Nat, NEW cos \in Nat \ {0}
  PROVE  /\ n \div cos \in Nat /\ n % cos \in Nat
         /\ n % cos < cos /\ (n \div cos) * cos + (n % cos) = n
<1>1. n \div cos \in Int /\ n % cos \in Nat
  OBVIOUS
<1>2. n \div cos >= 0
  OBVIOUS
<1>3. n % cos < cos
  OBVIOUS
<1>4. (n \div cos) * cos + (n % cos) = n
  OBVIOUS
<1>5. QED
  BY <1>1, <1>2, <1>3, <1>4

\* Two summands, multiplied together or one by one.
LEMMA TwoTimes ==
  ASSUME NEW a \in Int, NEW b \in Int, NEW cos \in Int
  PROVE  (a + b) * cos = a * cos + b * cos
  BY SMTT(30)

\* Three of them.
LEMMA ThreeTimes ==
  ASSUME NEW a \in Int, NEW b \in Int, NEW c \in Int, NEW cos \in Int
  PROVE  (a + b + c) * cos = a * cos + b * cos + c * cos
<1>1. a + b \in Int
  OBVIOUS
<1>2. (a + b) * cos = a * cos + b * cos
  BY TwoTimes
<1>3. ((a + b) + c) * cos = (a + b) * cos + c * cos
  BY <1>1, TwoTimes
<1>4. QED
  BY <1>2, <1>3

\* Units shown before, of what has come and of what was over, and the rest.
LEMMA Addition ==
  ASSUME NEW sum \in Int, NEW was \in Int, NEW whole \in Int, NEW over \in Int,
         NEW rest \in Int, NEW left \in Int, NEW carry \in Int, NEW n \in Int,
         sum = was + whole + over, over + left = carry + rest, whole + rest = n
  PROVE  sum + left = was + carry + n
  OBVIOUS

\* The same, with the units in multiples of what makes one of them.
LEMMA Units ==
  ASSUME NEW p \in Int, NEW q \in Int, NEW d \in Int, NEW cos \in Int,
         NEW carry \in Int, NEW s \in Int, NEW r \in Int, NEW n \in Int,
         d * cos + s = carry + r, q * cos + r = n
  PROVE  (p + q + d) * cos + s = p * cos + carry + n
<1>1. /\ p * cos \in Int /\ q * cos \in Int /\ d * cos \in Int
      /\ (p + q + d) * cos \in Int
  OBVIOUS
<1>2. (p + q + d) * cos = p * cos + q * cos + d * cos
  BY ThreeTimes
<1>3. QED
  BY <1>1, <1>2, Addition

\* log_util: what is shown and what is carried make up what was there and what
\* has come.
LEMMA Logged ==
  ASSUME NEW pack \in [round : Nat, carry : Nat], NEW n \in Nat,
         NEW cos \in Nat \ {0}
  PROVE  LET new == LogUtil(pack, n, cos) IN
         /\ new \in [round : Nat, carry : Nat]
         /\ new.carry < cos
         /\ new.round * cos + new.carry = pack.round * cos + pack.carry + n
<1> DEFINE q == n \div cos
           r == n % cos
           c == pack.carry + r
           d == c \div cos
           s == c % cos
<1>1. /\ q \in Nat /\ r \in Nat /\ q * cos + r = n
  BY Division
<1>2. c \in Nat /\ pack.round \in Nat /\ pack.carry \in Nat
  BY <1>1
<1>3. d \in Nat /\ s \in Nat /\ s < cos /\ d * cos + s = c
  BY <1>2, Division
<1>4. LogUtil(pack, n, cos) = [round |-> pack.round + q + d, carry |-> s]
  BY DEF LogUtil
<1> HIDE DEF q, r, d, s
<1>5. cos \in Int
  OBVIOUS
<1>6. (pack.round + q + d) * cos + s = pack.round * cos + pack.carry + n
  BY <1>1, <1>2, <1>3, <1>5, Units
<1>7. /\ pack.round + q + d \in Nat
      /\ [round |-> pack.round + q + d, carry |-> s] \in [round : Nat, carry : Nat]
  BY <1>1, <1>2, <1>3
<1>8. QED
  BY <1>3, <1>4, <1>6, <1>7

-----------------------------------------------------------------------------
(***************************************************************************)
(* Every step keeps it.                                                     *)
(***************************************************************************)

\* Exchanges count and are counted; sessions only read.
LEMMA CountersStep == IInv /\ [AdminNext]_vars => IInv'
<1> SUFFICES ASSUME IInv, [AdminNext]_vars PROVE IInv'
  OBVIOUS
<1>1. /\ {"TRAFFIC", "CONNECTIONS", "MAX_CONNECTIONS", "CLIENTS"} \subseteq Metric
      /\ \A m \in Metric : Cos[m] \in Nat \ {0}
      /\ Amount \subseteq Nat
  BY CosAssumption, AmountAssumption
<1>2. CASE UNCHANGED exchanges
  BY <1>2 DEF IInv, CountersType, CountersAreExact, exchanges
<1>3. CASE SocksPassiveAccept
  <2>1. CountersType'
    BY <1>1, <1>3 DEF IInv, CountersType, CountersAreExact, SocksPassiveAccept, AddClient
  <2>2. CountersAreExact'
    BY <1>1, <1>3 DEF IInv, CountersType, CountersAreExact, SocksPassiveAccept, AddClient
  <2>3. QED
    BY <2>1, <2>2 DEF IInv
<1>4. ASSUME NEW n \in Amount, Transferred(n) PROVE IInv'
  <2> DEFINE new == LogUtil(metrics["TRAFFIC"], n, Cos["TRAFFIC"])
  <2>1. /\ new \in [round : Nat, carry : Nat]
        /\ new.carry < Cos["TRAFFIC"]
        /\ new.round * Cos["TRAFFIC"] + new.carry
             = metrics["TRAFFIC"].round * Cos["TRAFFIC"] + metrics["TRAFFIC"].carry + n
    BY <1>1, Logged DEF IInv, CountersType
  <2>2. /\ metrics' = [metrics EXCEPT !["TRAFFIC"] = new]
        /\ logged' = [logged EXCEPT !["TRAFFIC"] = @ + n]
        /\ UNCHANGED <<open, peak>>
    BY <1>4 DEF Transferred, LogMetric
  <2> HIDE DEF new
  <2>3. CountersType'
    BY <1>1, <2>1, <2>2 DEF IInv, CountersType
  <2>4. CountersAreExact'
    BY <1>1, <2>1, <2>2 DEF IInv, CountersType, CountersAreExact
  <2>5. QED
    BY <2>3, <2>4 DEF IInv
<1>5. CASE ClientDone
  <2> DEFINE new == LogUtil(metrics["CLIENTS"], 1, Cos["CLIENTS"])
             logs == [metrics EXCEPT !["CLIENTS"] = new]
  <2>1. /\ new \in [round : Nat, carry : Nat]
        /\ new.carry < Cos["CLIENTS"]
        /\ new.round * Cos["CLIENTS"] + new.carry
             = metrics["CLIENTS"].round * Cos["CLIENTS"] + metrics["CLIENTS"].carry + 1
    BY <1>1, Logged DEF IInv, CountersType
  <2>2. /\ open > 0 /\ open' = open - 1 /\ UNCHANGED peak
        /\ metrics' = RemoveClient(logs)
        /\ logged' = [logged EXCEPT !["CLIENTS"] = @ + 1]
    BY <1>5 DEF ClientDone, LogMetric
  <2> HIDE DEF new
  <2>3. logs["CONNECTIONS"].round = open
    BY <1>1 DEF IInv, CountersType, CountersAreExact
  <2>4. metrics' = [logs EXCEPT !["CONNECTIONS"].round = @ - 1]
    BY <2>2, <2>3 DEF RemoveClient
  <2>5. logs \in [Metric -> [round : Nat, carry : Nat]] /\ logs["CLIENTS"] = new
    BY <1>1, <2>1 DEF IInv, CountersType
  <2>6. \A m \in Metric : m # "CLIENTS" => logs[m] = metrics[m]
    BY DEF IInv, CountersType
  <2> HIDE DEF logs
  <2>7. /\ \A m \in Metric : m # "CONNECTIONS" => metrics'[m] = logs[m]
        /\ metrics'["CONNECTIONS"].round = open'
    BY <1>1, <2>2, <2>3, <2>4, <2>5
  <2>8. open' \in Nat /\ logged' \in [Metric -> Nat]
    BY <1>1, <2>2 DEF IInv, CountersType
  <2>9. metrics' \in [Metric -> [round : Nat, carry : Nat]]
    <3>1. logs["CONNECTIONS"].round - 1 \in Nat
      BY <2>2, <2>3, <2>8
    <3>2. QED
      BY <1>1, <2>4, <2>5, <3>1
  <2>10. CountersAreExact'
    BY <1>1, <2>1, <2>2, <2>5, <2>6, <2>7 DEF IInv, CountersType, CountersAreExact
  <2>11. QED
    BY <2>2, <2>8, <2>9, <2>10 DEF IInv, CountersType
<1>6. ASSUME NEW a \in Admin,
             \/ SctpSocksAccept(a) \/ SctpRequestReadFails(a) \/ SctpRequestWrite(a)
             \/ \E request \in Request : SctpRequestRead(a, request)
      PROVE  UNCHANGED exchanges
  BY <1>6 DEF SctpSocksAccept, SctpRequestRead, SctpRequestReadFails, SctpRequestWrite
<1>7. CASE UNCHANGED vars
  BY <1>2, <1>7 DEF vars, exchanges
<1>8. QED
  BY <1>2, <1>3, <1>4, <1>5, <1>6, <1>7 DEF AdminNext

\* Nothing has been logged when the program starts.
LEMMA InitInv == AdminInit => IInv
  BY CosAssumption
     DEF AdminInit, MetricsStart, IInv, CountersType, CountersAreExact

(***************************************************************************)
(* What it is for.                                                          *)
(***************************************************************************)

\* Whatever the units of the counters, in however small or large pieces bytes
\* are logged, and whoever reads them meanwhile: nothing is lost by log_util in
\* the rounding, and the counters of exchanges are those of the exchanges.
THEOREM CountersStayExact == AdminSpec => []CountersAreExact
<1>1. IInv => CountersAreExact
  BY DEF IInv
<1>2. QED
  BY <1>1, InitInv, CountersStep, PTL DEF AdminSpec

-----------------------------------------------------------------------------
(***************************************************************************)
(* The table.  An entry is never of a type that an entry before it is taken *)
(* for: that is why each type has one entry, and is found in its own.       *)
(***************************************************************************)

Entry == [mediaType : MediaType, type : Transformer \union {NoTransformer}]

\* One entry, as far as an earlier one is concerned.
Apart(entries) ==
  \A i, k \in 1..Len(entries) :
    i < k => ~Matches(entries[i].mediaType, entries[k].mediaType)

TableInv(table) ==
  /\ table \in [entries : Seq(Entry), size : Nat]
  /\ Apart(table.entries)
  /\ Len(table.entries) <= table.size

\* A finite set of numbers that is not empty has a least element.
LEMMA LeastNumber ==
  ASSUME NEW S, S \subseteq Nat, IsFiniteSet(S), S # {}
  PROVE  \E n \in S : \A m \in S : n <= m
<1> DEFINE Below(n) == {m \in S : m < n}
           T == {Below(n) : n \in S}
<1>1. IsWellFoundedOn(StrictSubsetOrdering(S), FiniteSubsetsOf(S))
  BY FS_StrictSubsetOrderingWellFounded
<1>2. T \subseteq FiniteSubsetsOf(S)
  BY FS_Subset DEF FiniteSubsetsOf
<1>3. T # {}
  OBVIOUS
<1>4. PICK U \in T : \A V \in T : ~(<<V, U>> \in StrictSubsetOrdering(S))
  <2> HIDE DEF T
  <2> QED
    BY <1>1, <1>2, <1>3, WFMin
<1>5. PICK n \in S : U = Below(n)
  BY <1>4
<1>6. ASSUME NEW m \in S, m < n PROVE FALSE
  <2>1. Below(m) \in T
    OBVIOUS
  <2>2. Below(m) \subseteq Below(n)
    <3>1. ASSUME NEW k \in S, k < m PROVE k < n
      <4>1. k \in Nat /\ m \in Nat /\ n \in Nat
        OBVIOUS
      <4>2. QED
        BY <1>6, <3>1, <4>1
    <3>2. QED
      BY <3>1
  <2>3. m \in Below(n) /\ m \notin Below(m)
    BY <1>6
  <2>4. <<Below(m), U>> \in StrictSubsetOrdering(S)
    BY <1>5, <2>2, <2>3 DEF StrictSubsetOrdering
  <2>5. QED
    BY <1>4, <2>1, <2>4
<1>7. QED
  <2>1. \A m \in S : ~(m < n)
    BY <1>6
  <2>2. \A m \in S : n <= m
    BY <2>1
  <2>3. QED
    BY <2>2

\* The same of an interval, which is what all inductions below come down to.
LEMMA LeastBelow ==
  ASSUME NEW top \in Nat, NEW S, S \subseteq 0..top, S # {}
  PROVE  \E n \in S : \A m \in 0..n - 1 : m \notin S
<1>1. IsFiniteSet(0..top)
  BY FS_Interval
<1>2. IsFiniteSet(S) /\ S \subseteq Nat
  <2>1. \A T \in SUBSET (0..top) : IsFiniteSet(T)
    BY <1>1, FS_Subset
  <2>2. QED
    BY <2>1
<1>3. PICK n \in S : \A m \in S : n <= m
  BY <1>2, LeastNumber
<1>4. \A m \in 0..n - 1 : m \notin S
  BY <1>2, <1>3
<1>5. QED
  BY <1>4

\* Every type is the beginning of itself.
LEMMA MatchesItself ==
  ASSUME NEW mediaType \in MediaType
  PROVE  Matches(mediaType, mediaType)
  BY DEF Matches, IsPrefix

\* get_transformation finds the first entry that matches, if there is one.
LEMMA Found ==
  ASSUME NEW table, TableInv(table), NEW mediaType \in MediaType
  PROVE  LET i == GetTransformation(table, mediaType) IN
         /\ i \in 0..Len(table.entries)
         /\ i = 0 => \A k \in 1..Len(table.entries) :
                       ~Matches(table.entries[k].mediaType, mediaType)
         /\ i # 0 => /\ Matches(table.entries[i].mediaType, mediaType)
                     /\ \A k \in 1..i - 1 :
                          ~Matches(table.entries[k].mediaType, mediaType)
<1> DEFINE I == {k \in 1..Len(table.entries) :
                   Matches(table.entries[k].mediaType, mediaType)}
<1>1. Len(table.entries) \in Nat
  BY DEF TableInv
<1>2. GetTransformation(table, mediaType) = IF I # {} THEN Min(I) ELSE 0
  BY DEF GetTransformation, SelectInSeq
<1>3. CASE I = {}
  BY <1>1, <1>2, <1>3
<1>4. CASE I # {}
  <2>1. I \subseteq Nat /\ IsFiniteSet(I)
    <3>1. IsFiniteSet(1..Len(table.entries))
      BY <1>1, FS_Interval
    <3>2. QED
      BY <1>1, <3>1, FS_Subset
  <2>2. \E n \in I : \A m \in I : n <= m
    <3> HIDE DEF I
    <3> QED
      BY <1>4, <2>1, LeastNumber
  <2>3. Min(I) \in I /\ \A m \in I : Min(I) <= m
    <3> HIDE DEF I
    <3> QED
      BY <2>2 DEF Min
  <2>4. GetTransformation(table, mediaType) = Min(I)
    BY <1>2, <1>4
  <2>5. \A k \in 1..Min(I) - 1 : k \notin I
    <3>1. Min(I) \in Nat
      BY <2>1, <2>3
    <3> HIDE DEF I
    <3>2. QED
      BY <2>3, <3>1
  <2>6. \A k \in 1..Min(I) - 1 : k \in 1..Len(table.entries)
    BY <1>1, <2>3
  <2>7. QED
    BY <1>1, <2>3, <2>4, <2>5, <2>6
<1>5. QED
  BY <1>3, <1>4

\* Entries have different types: none of them has a second one.
LEMMA Different ==
  ASSUME NEW table, TableInv(table),
         NEW i \in 1..Len(table.entries), NEW k \in 1..Len(table.entries),
         table.entries[i].mediaType = table.entries[k].mediaType
  PROVE  i = k
<1>1. Len(table.entries) \in Nat /\ i \in Nat /\ k \in Nat
  BY DEF TableInv
<1>2. table.entries[i].mediaType \in MediaType
  <2>1. table.entries[i] \in Entry
    BY DEF TableInv
  <2>2. QED
    BY <2>1 DEF Entry
<1>3. Matches(table.entries[i].mediaType, table.entries[k].mediaType)
  BY <1>2, MatchesItself
<1>4. Matches(table.entries[k].mediaType, table.entries[i].mediaType)
  BY <1>2, MatchesItself
<1>5. ~(i < k) /\ ~(k < i)
  BY <1>3, <1>4 DEF TableInv, Apart
<1>6. QED
  BY <1>1, <1>5

\* register_transformation changes the type of the entry that is found, or adds
\* one behind all the others.
LEMMA Registering ==
  ASSUME NEW table, TableInv(table), NEW mediaType \in MediaType,
         NEW type \in Transformer \union {NoTransformer}
  PROVE  LET new == RegisterTransformation(table, mediaType, type) IN
         /\ TableInv(new)
         /\ TypeOf(new, mediaType) = type
<1> DEFINE i == GetTransformation(table, mediaType)
           new == RegisterTransformation(table, mediaType, type)
           added == [mediaType |-> mediaType, type |-> type]
<1>1. /\ table.entries \in Seq(Entry) /\ table.size \in Nat
      /\ Len(table.entries) \in Nat /\ Len(table.entries) <= table.size
      /\ table \in [entries : Seq(Entry), size : Nat] /\ Apart(table.entries)
  BY DEF TableInv
<1>2. added \in Entry
  BY DEF Entry
<1>3. CASE i # 0
  <2>1. /\ i \in 1..Len(table.entries)
        /\ Matches(table.entries[i].mediaType, mediaType)
        /\ \A k \in 1..i - 1 : ~Matches(table.entries[k].mediaType, mediaType)
    BY <1>1, <1>3, Found
  <2>2. new = [table EXCEPT !.entries[i].type = type]
    BY <1>3 DEF RegisterTransformation
  <2> HIDE DEF i
  <2>3. table.entries[i] \in Entry
    BY <1>1, <2>1
  <2>4. /\ new.entries = [table.entries EXCEPT ![i].type = type]
        /\ new.size = table.size /\ new = [entries |-> new.entries, size |-> new.size]
    BY <1>1, <2>2
  <2>5. [table.entries[i] EXCEPT !.type = type] \in Entry
    BY <2>3 DEF Entry
  <2>6. new.entries \in Seq(Entry) /\ Len(new.entries) = Len(table.entries)
    BY <1>1, <2>1, <2>4, <2>5, ExceptSeq
  <2>7. /\ \A k \in 1..Len(table.entries) :
             new.entries[k].mediaType = table.entries[k].mediaType
        /\ new.entries[i].type = type
    BY <1>1, <2>1, <2>3, <2>4 DEF Entry
  <2> HIDE DEF new
  <2>8. TableInv(new)
    BY <1>1, <2>4, <2>6, <2>7 DEF TableInv, Apart
  <2>9. GetTransformation(new, mediaType) = i
    <3> DEFINE at == GetTransformation(new, mediaType)
    <3>1. /\ at \in 0..Len(new.entries)
          /\ at = 0 => \A k \in 1..Len(new.entries) :
                        ~Matches(new.entries[k].mediaType, mediaType)
          /\ at # 0 => /\ Matches(new.entries[at].mediaType, mediaType)
                      /\ \A k \in 1..at - 1 : ~Matches(new.entries[k].mediaType, mediaType)
      BY <2>8, Found
    <3> HIDE DEF at
    <3>2. at # 0
      BY <2>1, <2>6, <2>7, <3>1
    <3>3. Matches(table.entries[at].mediaType, mediaType) /\ at \in 1..Len(table.entries)
      BY <1>1, <2>6, <2>7, <3>1, <3>2
    <3>4. ~(at < i)
      BY <1>1, <2>1, <3>3
    <3>5. ~(i < at)
      BY <1>1, <2>1, <2>6, <2>7, <3>1, <3>2
    <3>6. at = i
      BY <1>1, <2>1, <3>3, <3>4, <3>5
    <3>7. QED
      BY <3>6 DEF at
  <2>10. TypeOf(new, mediaType) = type
    BY <1>3, <2>7, <2>9 DEF TypeOf, IsActive, i
  <2>11. QED
    BY <2>8, <2>10 DEF new
<1>4. CASE i = 0
  <2>1. \A k \in 1..Len(table.entries) : ~Matches(table.entries[k].mediaType, mediaType)
    BY <1>4, Found
  <2>2. new = [entries |-> Append(table.entries, added),
               size |-> table.size +
                          IF Len(table.entries) = table.size THEN BLOCK ELSE 0]
    BY <1>4 DEF RegisterTransformation
  <2> HIDE DEF i, added
  <2>3. /\ new.entries = Append(table.entries, added)
        /\ new.entries \in Seq(Entry) /\ Len(new.entries) = Len(table.entries) + 1
        /\ \A k \in 1..Len(table.entries) : new.entries[k] = table.entries[k]
        /\ new.entries[Len(table.entries) + 1] = added
    <3>1. new.entries = Append(table.entries, added)
      BY <2>2
    <3> HIDE DEF new
    <3>2. QED
      BY <1>1, <1>2, <3>1, AppendProperties
  <2>4. new.size \in Nat /\ Len(table.entries) + 1 <= new.size
    BY <1>1, <2>2, BlockAssumption
  <2>5. new = [entries |-> new.entries, size |-> new.size]
    BY <2>2
  <2> HIDE DEF new
  <2>6. added.mediaType = mediaType /\ added.type = type
    BY DEF added
  <2>7. Apart(new.entries)
    <3> SUFFICES ASSUME NEW k \in 1..Len(new.entries), NEW l \in 1..Len(new.entries),
                        k < l
                 PROVE  ~Matches(new.entries[k].mediaType, new.entries[l].mediaType)
      BY DEF Apart
    <3>1. k \in 1..Len(table.entries)
      BY <1>1, <2>3
    <3>2. CASE l \in 1..Len(table.entries)
      BY <1>1, <2>3, <3>1, <3>2 DEF Apart
    <3>3. CASE l = Len(table.entries) + 1
      BY <2>1, <2>3, <2>6, <3>1, <3>3
    <3>4. QED
      BY <1>1, <2>3, <3>2, <3>3
  <2>8. TableInv(new)
    BY <2>3, <2>4, <2>5, <2>7 DEF TableInv
  <2>9. GetTransformation(new, mediaType) = Len(table.entries) + 1
    <3> DEFINE at == GetTransformation(new, mediaType)
    <3>1. /\ at \in 0..Len(new.entries)
          /\ at = 0 => \A k \in 1..Len(new.entries) :
                        ~Matches(new.entries[k].mediaType, mediaType)
          /\ at # 0 => Matches(new.entries[at].mediaType, mediaType)
      BY <2>8, Found
    <3> HIDE DEF at
    <3>2. Matches(new.entries[Len(table.entries) + 1].mediaType, mediaType)
      BY <2>3, <2>6, MatchesItself
    <3>3. at # 0
      BY <1>1, <2>3, <3>1, <3>2
    <3>4. at \notin 1..Len(table.entries)
      BY <2>1, <2>3, <3>1, <3>3
    <3>5. at = Len(table.entries) + 1
      BY <1>1, <2>3, <3>1, <3>3, <3>4
    <3>6. QED
      BY <3>5 DEF at
  <2>10. TypeOf(new, mediaType) = type
    BY <1>1, <2>3, <2>6, <2>9 DEF TypeOf, IsActive
  <2>11. QED
    BY <2>8, <2>10 DEF new
<1>5. QED
  BY <1>3, <1>4

\* A sequence without its i-th element: those before it stay where they are,
\* those behind it move up by one.
LEMMA Removing ==
  ASSUME NEW S, NEW s \in Seq(S), NEW i \in 1..Len(s)
  PROVE  /\ RemoveAt(s, i) \in Seq(S) /\ Len(RemoveAt(s, i)) = Len(s) - 1
         /\ \A k \in 1..i - 1 : RemoveAt(s, i)[k] = s[k]
         /\ \A k \in i..Len(s) - 1 : RemoveAt(s, i)[k] = s[k + 1]
<1> DEFINE front == SubSeq(s, 1, i - 1)
           back == SubSeq(s, i + 1, Len(s))
<1>1. Len(s) \in Nat /\ i \in Nat /\ 1 <= i /\ i <= Len(s)
  OBVIOUS
<1>2. /\ front \in Seq(S) /\ Len(front) = i - 1
      /\ \A k \in 1..i - 1 : front[k] = s[k]
  <2>1. \A k \in 1..i - 1 : s[k] \in S
    BY <1>1
  <2>2. QED
    BY <1>1, <2>1, SubSeqProperties
<1>3. /\ back \in Seq(S) /\ Len(back) = Len(s) - i
      /\ \A k \in 1..Len(s) - i : back[k] = s[i + k]
  <2>1. \A k \in i + 1..Len(s) : s[k] \in S
    BY <1>1
  <2>2. back \in Seq(S) /\ Len(back) = IF i + 1 <= Len(s) THEN Len(s) - (i + 1) + 1 ELSE 0
    BY <1>1, <2>1, SubSeqProperties
  <2>3. Len(back) = Len(s) - i
    BY <1>1, <2>2
  <2>4. \A k \in 1..Len(s) - (i + 1) + 1 : back[k] = s[i + 1 + k - 1]
    BY <1>1, <2>1, SubSeqProperties
  <2>5. ASSUME NEW k \in 1..Len(s) - i PROVE back[k] = s[i + k]
    <3>1. k \in 1..Len(s) - (i + 1) + 1 /\ i + 1 + k - 1 = i + k
      BY <1>1
    <3>2. QED
      BY <2>4, <3>1
  <2>6. QED
    BY <2>2, <2>3, <2>5
<1>4. RemoveAt(s, i) = front \o back
  BY DEF RemoveAt
<1> HIDE DEF front, back
<1>5. /\ front \o back \in Seq(S) /\ Len(front \o back) = Len(front) + Len(back)
      /\ \A k \in 1..Len(front) + Len(back) :
           (front \o back)[k] = IF k <= Len(front) THEN front[k] ELSE back[k - Len(front)]
  BY <1>2, <1>3, ConcatProperties
<1>6. Len(front \o back) = Len(s) - 1
  BY <1>1, <1>2, <1>3, <1>5
<1>7. ASSUME NEW k \in 1..i - 1 PROVE (front \o back)[k] = s[k]
  <2>1. k \in 1..Len(front) + Len(back) /\ k <= Len(front)
    BY <1>1, <1>2, <1>3
  <2>2. QED
    BY <1>2, <1>5, <2>1
<1>8. ASSUME NEW k \in i..Len(s) - 1 PROVE (front \o back)[k] = s[k + 1]
  <2>1. /\ k \in 1..Len(front) + Len(back) /\ ~(k <= Len(front))
        /\ k - Len(front) \in 1..Len(s) - i /\ i + (k - Len(front)) = k + 1
    BY <1>1, <1>2, <1>3
  <2>2. QED
    BY <1>3, <1>5, <2>1
<1>9. QED
  BY <1>4, <1>5, <1>6, <1>7, <1>8

\* unregister_transformation takes the first entry that matches out; for a type
\* that is in the table that is its own entry.
LEMMA Unregistering ==
  ASSUME NEW table, TableInv(table), NEW mediaType \in MediaType
  PROVE  LET new == UnregisterTransformation(table, mediaType) IN
         /\ TableInv(new)
         /\ mediaType \in Registered(table) =>
              Registered(new) = Registered(table) \ {mediaType}
<1> DEFINE i == GetTransformation(table, mediaType)
           new == UnregisterTransformation(table, mediaType)
           n == Len(table.entries)
<1>1. /\ table.entries \in Seq(Entry) /\ table.size \in Nat /\ n \in Nat
      /\ n <= table.size /\ Apart(table.entries)
      /\ table \in [entries : Seq(Entry), size : Nat]
      /\ DOMAIN table.entries = 1..n
  BY DEF TableInv
<1>2. CASE i = 0
  <2>1. \A k \in 1..n : ~Matches(table.entries[k].mediaType, mediaType)
    BY <1>2, Found
  <2>2. \A k \in 1..n : table.entries[k].mediaType # mediaType
    BY <2>1, MatchesItself
  <2>3. mediaType \notin Registered(table)
    BY <1>1, <2>2 DEF Registered
  <2>4. new = table
    BY <1>2 DEF UnregisterTransformation, IsActive
  <2>5. QED
    BY <2>3, <2>4
<1>3. CASE i # 0
  <2>1. /\ i \in 1..n /\ Matches(table.entries[i].mediaType, mediaType)
        /\ \A k \in 1..i - 1 : ~Matches(table.entries[k].mediaType, mediaType)
    BY <1>1, <1>3, Found
  <2>2. new = [table EXCEPT !.entries = RemoveAt(@, i)]
    BY <1>3 DEF UnregisterTransformation, IsActive
  <2>3. /\ new.entries = RemoveAt(table.entries, i) /\ new.size = table.size
        /\ new = [entries |-> new.entries, size |-> new.size]
    BY <1>1, <2>2
  <2> HIDE DEF i, new
  <2>4. /\ new.entries \in Seq(Entry) /\ Len(new.entries) = n - 1
        /\ \A k \in 1..i - 1 : new.entries[k] = table.entries[k]
        /\ \A k \in i..n - 1 : new.entries[k] = table.entries[k + 1]
    BY <1>1, <2>1, <2>3, Removing
  <2> DEFINE was(k) == IF k < i THEN k ELSE k + 1
  <2> HIDE DEF n
  <2>5. ASSUME NEW k \in 1..n - 1
        PROVE  /\ new.entries[k] = table.entries[was(k)]
               /\ was(k) \in 1..n /\ was(k) # i
    <3>1. CASE k < i
      <4>1. k \in 1..i - 1 /\ k \in 1..n /\ k # i /\ was(k) = k
        BY <1>1, <2>1, <3>1
      <4>2. QED
        BY <2>4, <4>1
    <3>2. CASE ~(k < i)
      <4>1. k \in i..n - 1 /\ k + 1 \in 1..n /\ k + 1 # i /\ was(k) = k + 1
        BY <1>1, <2>1, <3>2
      <4>2. QED
        BY <2>4, <4>1
    <3>3. QED
      BY <3>1, <3>2
  <2>6. \A k, l \in 1..n - 1 : k < l => was(k) < was(l)
    BY <1>1, <2>1
  <2>7. \A l \in 1..n : l # i => \E k \in 1..n - 1 : l = was(k)
    <3> SUFFICES ASSUME NEW l \in 1..n, l # i PROVE \E k \in 1..n - 1 : l = was(k)
      OBVIOUS
    <3>1. CASE l < i
      <4>1. l \in 1..n - 1 /\ l = was(l)
        BY <1>1, <2>1, <3>1
      <4>2. QED
        BY <4>1
    <3>2. CASE i < l
      <4>1. l - 1 \in 1..n - 1 /\ l = was(l - 1)
        BY <1>1, <2>1, <3>2
      <4>2. QED
        BY <4>1
    <3>3. QED
      BY <1>1, <2>1, <3>1, <3>2
  <2> HIDE DEF was
  <2>8. Apart(new.entries)
    <3> SUFFICES ASSUME NEW k \in 1..n - 1, NEW l \in 1..n - 1, k < l
                 PROVE  ~Matches(new.entries[k].mediaType, new.entries[l].mediaType)
      BY <2>4 DEF Apart
    <3>1. was(k) \in 1..n /\ was(l) \in 1..n /\ was(k) < was(l)
      BY <2>5, <2>6
    <3>2. ~Matches(table.entries[was(k)].mediaType, table.entries[was(l)].mediaType)
      BY <1>1, <3>1 DEF Apart, n
    <3>3. QED
      BY <2>5, <3>2
  <2>9. TableInv(new)
    BY <1>1, <2>3, <2>4, <2>8 DEF TableInv
  <2>10. ASSUME mediaType \in Registered(table)
         PROVE  Registered(new) = Registered(table) \ {mediaType}
    <3>1. PICK k \in 1..n : table.entries[k].mediaType = mediaType
      BY <1>1, <2>10 DEF Registered, n
    <3>2. k = i
      <4>1. Matches(table.entries[k].mediaType, mediaType)
        BY <3>1, MatchesItself
      <4>2. ~(k < i)
        BY <1>1, <2>1, <3>1, <4>1
      <4>3. ~(i < k)
        BY <1>1, <2>1, <3>1 DEF Apart, n
      <4>4. QED
        BY <1>1, <2>1, <4>2, <4>3
    <3>3. DOMAIN new.entries = 1..n - 1
      BY <2>4
    <3>4. ASSUME NEW x \in Registered(new) PROVE x \in Registered(table) \ {mediaType}
      <4>1. PICK l \in 1..n - 1 : new.entries[l].mediaType = x
        BY <3>3 DEF Registered
      <4>2. was(l) \in 1..n /\ was(l) # i /\ table.entries[was(l)].mediaType = x
        BY <2>5, <4>1
      <4>3. x # mediaType
        BY <2>1, <3>1, <3>2, <4>2, Different DEF n
      <4>4. QED
        BY <1>1, <4>2, <4>3 DEF Registered, n
    <3>5. ASSUME NEW x \in Registered(table) \ {mediaType} PROVE x \in Registered(new)
      <4>1. PICK l \in 1..n : table.entries[l].mediaType = x
        BY <1>1 DEF Registered, n
      <4>2. l # i
        BY <3>1, <3>2, <4>1
      <4>3. PICK m \in 1..n - 1 : l = was(m)
        BY <2>7, <4>2
      <4>4. new.entries[m].mediaType = x
        BY <2>5, <4>1, <4>3
      <4>5. QED
        BY <3>3, <4>4 DEF Registered
    <3>6. QED
      BY <3>4, <3>5
  <2>11. QED
    BY <2>9, <2>10 DEF new
<1>4. QED
  BY <1>2, <1>3

\* As many types as entries.
LEMMA Counting ==
  ASSUME NEW table, TableInv(table)
  PROVE  Cardinality(Registered(table)) = Len(table.entries)
<1> DEFINE n == Len(table.entries)
           typeOf == [k \in 1..n |-> table.entries[k].mediaType]
<1>1. n \in Nat /\ DOMAIN table.entries = 1..n
  BY DEF TableInv
<1>2. typeOf \in Bijection(1..n, Registered(table))
  <2>1. typeOf \in [1..n -> Registered(table)]
    BY <1>1 DEF Registered
  <2>2. \A k, l \in 1..n : typeOf[k] = typeOf[l] => k = l
    BY Different
  <2>3. \A x \in Registered(table) : \E k \in 1..n : typeOf[k] = x
    BY <1>1 DEF Registered
  <2> HIDE DEF typeOf, n
  <2>4. QED
    BY <2>1, <2>2, <2>3 DEF Bijection, Injection, Surjection, IsInjective
<1>3. IsFiniteSet(1..n) /\ Cardinality(1..n) = n
  <2> HIDE DEF n
  <2>1. 1 \in Int /\ n \in Int
    BY <1>1
  <2>2. IsFiniteSet(1..n) /\ Cardinality(1..n) = IF 1 > n THEN 0 ELSE n - 1 + 1
    BY <2>1, FS_Interval
  <2>3. QED
    BY <1>1, <2>2
<1>4. QED
  <2> HIDE DEF n, typeOf
  <2>1. Cardinality(Registered(table)) = Cardinality(1..n)
    BY <1>2, <1>3, FS_Bijection DEF ExistsBijection
  <2>2. QED
    BY <1>3, <2>1 DEF n

-----------------------------------------------------------------------------
(***************************************************************************)
(* A request: its commands one after the other.                             *)
(***************************************************************************)

Shown == [kind : {"METRIC"}, type : Metric, value : Nat]

Answer ==
  Shown \union [kind : {"CONFIGURATION"}, type : Transformer \union {NoTransformer}]
        \union [kind : {"PASSWORD"}]

\* What commands have made of a table and of a reply.
Done == [registry : [entries : Seq(Entry), size : Nat], answers : Seq(Answer)]

Start == [registry |-> registry, answers |-> << >>]

\* f is what there is after each of the first m commands.
Follows(f, commands, m) ==
  f = [k \in 0..m |-> IF k = 0 THEN Start ELSE Command(f[k - 1], commands[k])]

\* However many commands there are, there is something after each of them.
LEMMA Recursion ==
  ASSUME NEW commands, NEW n \in Nat
  PROVE  \E f : Follows(f, commands, n)
<1> DEFINE S == {m \in 0..n : ~\E f : Follows(f, commands, m)}
<1>1. SUFFICES ASSUME S # {} PROVE FALSE
  <2>1. n \in 0..n
    OBVIOUS
  <2>2. QED
    BY <1>1, <2>1
<1>2. PICK m \in S : \A l \in 0..m - 1 : l \notin S
  <2>1. S \subseteq 0..n
    OBVIOUS
  <2> HIDE DEF S
  <2>2. QED
    BY <1>1, <2>1, LeastBelow
<1>3. m \in 0..n /\ ~\E f : Follows(f, commands, m)
  BY <1>2
<1>4. CASE m = 0
  <2> DEFINE f == [k \in 0..0 |-> Start]
  <2>1. f = [k \in 0..0 |-> IF k = 0 THEN Start ELSE Command(f[k - 1], commands[k])]
    OBVIOUS
  <2>2. Follows(f, commands, 0)
    BY <2>1 DEF Follows
  <2>3. QED
    BY <1>3, <1>4, <2>2
<1>5. CASE m # 0
  <2>1. m - 1 \in 0..n /\ m - 1 \in 0..m - 1
    BY <1>3, <1>5
  <2>2. PICK g : Follows(g, commands, m - 1)
    BY <1>2, <2>1
  <2> DEFINE next == Command(g[m - 1], commands[m])
             f == [k \in 0..m |-> IF k = m THEN next ELSE g[k]]
             h == [k \in 0..m |-> IF k = 0 THEN Start ELSE Command(f[k - 1], commands[k])]
  <2>3. ASSUME NEW k \in 0..m - 1
        PROVE  g[k] = IF k = 0 THEN Start ELSE Command(g[k - 1], commands[k])
    BY <2>2 DEF Follows
  <2>4. ASSUME NEW k \in 0..m PROVE f[k] = h[k]
    <3>1. CASE k = m
      <4>1. k - 1 = m - 1 /\ k - 1 \in 0..m /\ k - 1 # m /\ k # 0
        BY <1>3, <1>5, <3>1
      <4>2. f[k - 1] = g[m - 1] /\ f[k] = next
        BY <3>1, <4>1
      <4> HIDE DEF f
      <4>3. h[k] = Command(f[k - 1], commands[k])
        BY <4>1
      <4>4. QED
        BY <3>1, <4>2, <4>3
    <3>2. CASE k # m
      <4>1. k \in 0..m - 1
        BY <1>3, <3>2
      <4>2. f[k] = g[k]
        BY <3>2
      <4>3. k # 0 => k - 1 \in 0..m /\ k - 1 # m
        BY <1>3
      <4>4. k # 0 => f[k - 1] = g[k - 1]
        BY <4>3
      <4> HIDE DEF f
      <4>5. h[k] = IF k = 0 THEN Start ELSE Command(f[k - 1], commands[k])
        OBVIOUS
      <4>6. QED
        BY <2>3, <4>1, <4>2, <4>4, <4>5
    <3>3. QED
      BY <3>1, <3>2
  <2>5. f = h
    <3>1. DOMAIN f = 0..m /\ DOMAIN h = 0..m
      OBVIOUS
    <3>2. f = [k \in 0..m |-> f[k]] /\ h = [k \in 0..m |-> h[k]]
      OBVIOUS
    <3> HIDE DEF f, h
    <3>3. QED
      BY <2>4, <3>2
  <2>6. Follows(f, commands, m)
    BY <2>5 DEF Follows
  <2>7. QED
    BY <1>3, <2>6
<1>6. QED
  BY <1>4, <1>5

\* What commands have made so far is a table as it should be, and a reply that
\* shows the metrics as they are.
Sound(now) ==
  /\ now \in Done /\ TableInv(now.registry)
  /\ \A i \in 1..Len(now.answers) :
       now.answers[i].kind = "METRIC" =>
         now.answers[i].value = metrics[now.answers[i].type].round

\* One command more.
LEMMA OneCommand ==
  ASSUME CountersType, NEW now, Sound(now), NEW command \in Order
  PROVE  Sound(Command(now, command))
<1> DEFINE new == Command(now, command)
<1>1. /\ now \in Done /\ TableInv(now.registry)
      /\ now.answers \in Seq(Answer) /\ Len(now.answers) \in Nat
      /\ \A i \in 1..Len(now.answers) :
           now.answers[i].kind = "METRIC" =>
             now.answers[i].value = metrics[now.answers[i].type].round
  BY DEF Sound, Done
<1>2. ASSUME NEW answer \in Answer, NEW table, TableInv(table),
             new = [registry |-> table, answers |-> Append(now.answers, answer)],
             answer.kind = "METRIC" => answer.value = metrics[answer.type].round
      PROVE  Sound(new)
  <2>1. new.registry = table /\ new.answers = Append(now.answers, answer)
    BY <1>2
  <2> HIDE DEF new
  <2>2. /\ new.answers \in Seq(Answer)
        /\ Len(new.answers) = Len(now.answers) + 1
        /\ \A i \in 1..Len(now.answers) : new.answers[i] = now.answers[i]
        /\ new.answers[Len(now.answers) + 1] = answer
    BY <1>1, <2>1, AppendProperties
  <2>3. table \in [entries : Seq(Entry), size : Nat]
    BY <1>2 DEF TableInv
  <2>4. new \in Done
    BY <1>2, <2>1, <2>2, <2>3 DEF Done
  <2>5. ASSUME NEW i \in 1..Len(new.answers), new.answers[i].kind = "METRIC"
        PROVE  new.answers[i].value = metrics[new.answers[i].type].round
    <3>1. CASE i \in 1..Len(now.answers)
      BY <1>1, <2>2, <2>5, <3>1
    <3>2. CASE i = Len(now.answers) + 1
      BY <1>2, <2>2, <2>5, <3>2
    <3>3. QED
      BY <1>1, <2>2, <3>1, <3>2
  <2>6. QED
    BY <1>2, <2>1, <2>4, <2>5 DEF Sound
<1>3. CASE command.kind = "METRIC"
  <2> DEFINE answer == [kind |-> "METRIC", type |-> command.type,
                        value |-> metrics[command.type].round]
  <2>1. command.type \in Metric
    BY <1>3 DEF Order
  <2>2. answer \in Answer
    BY <2>1 DEF CountersType, Answer, Shown
  <2>3. new = [now EXCEPT !.answers = Append(@, answer)]
    BY <1>3 DEF Command
  <2>4. now = [registry |-> now.registry, answers |-> now.answers]
    BY <1>1 DEF Done
  <2>5. answer.kind = "METRIC" => answer.value = metrics[answer.type].round
    OBVIOUS
  <2> HIDE DEF answer, new
  <2>6. new = [registry |-> now.registry, answers |-> Append(now.answers, answer)]
    BY <2>3, <2>4
  <2>7. QED
    BY <1>1, <1>2, <2>2, <2>5, <2>6 DEF new
<1>4. CASE command.kind = "CONFIGURATION"
  <2> DEFINE answer == [kind |-> "CONFIGURATION", type |-> command.type]
             table == IF command.type = NoTransformer
                      THEN UnregisterTransformation(now.registry, command.mediaType)
                      ELSE RegisterTransformation(now.registry, command.mediaType,
                                                  command.type)
  <2>1. /\ command.mediaType \in MediaType
        /\ command.type \in Transformer \union {NoTransformer}
    BY <1>4 DEF Order
  <2>2. answer \in Answer /\ answer.kind # "METRIC"
    BY <2>1 DEF Answer
  <2>3. TableInv(table)
    BY <1>1, <2>1, Registering, Unregistering
  <2>4. new = [registry |-> table, answers |-> Append(now.answers, answer)]
    BY <1>4 DEF Command
  <2> HIDE DEF answer, table, new
  <2>5. QED
    BY <1>2, <2>2, <2>3, <2>4 DEF new
<1>5. QED
  BY <1>3, <1>4 DEF Order

\* A whole request, or one with a wrong password.
LEMMA AllCommands ==
  ASSUME CountersType, TableInv(registry), NEW request \in Request
  PROVE  Sound(SctpRequestParser(request))
<1> DEFINE commands == request.commands
           n == Len(commands)
           after == CHOOSE f : Follows(f, commands, n)
<1>1. /\ commands \in Seq(Order) /\ n \in Nat
      /\ \A k \in 1..n : commands[k] \in Order
  BY RequestAssumption
<1>2. SctpRequestParser(request) =
        IF request.password THEN after[n]
        ELSE [registry |-> registry, answers |-> <<[kind |-> "PASSWORD"]>>]
  BY DEF SctpRequestParser, Follows, Start
<1> HIDE DEF commands, n
<1>3. Follows(after, commands, n)
  BY <1>1, Recursion
<1> HIDE DEF after
<1>4. ASSUME NEW k \in 0..n
      PROVE  after[k] = IF k = 0 THEN Start ELSE Command(after[k - 1], commands[k])
  BY <1>3 DEF Follows
<1>5. Sound(Start)
  <2>1. registry \in [entries : Seq(Entry), size : Nat]
    BY DEF TableInv
  <2>2. << >> \in Seq(Answer) /\ Len(<< >>) = 0
    OBVIOUS
  <2>3. Start \in Done /\ Start.registry = registry /\ Start.answers = << >>
    BY <2>1, <2>2 DEF Start, Done
  <2>4. QED
    BY <2>2, <2>3 DEF Sound
<1>6. Sound(after[n])
  <2> DEFINE S == {k \in 0..n : ~Sound(after[k])}
  <2>1. SUFFICES ASSUME S # {} PROVE FALSE
    <3>1. n \in 0..n
      BY <1>1
    <3>2. QED
      BY <2>1, <3>1
  <2>2. PICK k \in S : \A l \in 0..k - 1 : l \notin S
    <3>1. S \subseteq 0..n
      OBVIOUS
    <3> HIDE DEF S
    <3>2. QED
      BY <1>1, <2>1, <3>1, LeastBelow
  <2>3. k \in 0..n /\ ~Sound(after[k])
    BY <2>2
  <2>4. k # 0
    BY <1>4, <1>5, <2>3
  <2>5. k - 1 \in 0..n /\ k - 1 \in 0..k - 1 /\ k \in 1..n
    BY <1>1, <2>3, <2>4
  <2>6. Sound(after[k - 1])
    BY <2>2, <2>5
  <2>7. Sound(Command(after[k - 1], commands[k]))
    BY <1>1, <2>5, <2>6, OneCommand
  <2>8. QED
    BY <1>4, <2>3, <2>4, <2>7
<1>7. ASSUME ~request.password PROVE Sound(SctpRequestParser(request))
  <2> DEFINE refused == [registry |-> registry, answers |-> <<[kind |-> "PASSWORD"]>>]
  <2>1. SctpRequestParser(request) = refused
    BY <1>2, <1>7
  <2>2. registry \in [entries : Seq(Entry), size : Nat]
    BY DEF TableInv
  <2>3. [kind |-> "PASSWORD"] \in Answer
    BY DEF Answer
  <2>4. /\ <<[kind |-> "PASSWORD"]>> \in Seq(Answer)
        /\ Len(<<[kind |-> "PASSWORD"]>>) = 1
        /\ <<[kind |-> "PASSWORD"]>>[1].kind # "METRIC"
    BY <2>3
  <2>5. refused \in Done
    BY <2>2, <2>4 DEF Done
  <2>6. Sound(refused)
    BY <2>4, <2>5 DEF Sound
  <2>7. QED
    BY <2>1, <2>6
<1>8. QED
  BY <1>2, <1>6, <1>7

-----------------------------------------------------------------------------
(***************************************************************************)
(* What replies show while they wait to be sent.                            *)
(***************************************************************************)

\* No more exchanges now than at most, and no reply that shows more than that,
\* or more than has been counted by now.
Shows(answers, counters) ==
  /\ \A i \in 1..Len(answers) :
       answers[i].kind = "METRIC" /\ answers[i].type # "CONNECTIONS" =>
         answers[i].value <= counters[answers[i].type].round
  /\ \A i, k \in 1..Len(answers) :
       /\ answers[i].kind = "METRIC" /\ answers[i].type = "CONNECTIONS"
       /\ answers[k].kind = "METRIC" /\ answers[k].type = "MAX_CONNECTIONS"
       => answers[i].value <= answers[k].value

RepliesStand ==
  /\ open <= peak
  /\ \A a \in Admin : /\ reply[a].answers \in Seq(Answer)
                       /\ Shows(reply[a].answers, metrics)
  /\ DOMAIN reply = Admin

AdminInv == IInv /\ TableInv(registry) /\ RepliesStand

\* But for the exchanges that are open now, counters only grow.
LEMMA CountersGrow ==
  ASSUME IInv, open <= peak, [AdminNext]_vars
  PROVE  /\ open' <= peak'
         /\ \A m \in Metric \ {"CONNECTIONS"} : metrics[m].round <= metrics'[m].round
<1>1. /\ {"TRAFFIC", "CONNECTIONS", "MAX_CONNECTIONS", "CLIENTS"} \subseteq Metric
      /\ \A m \in Metric : Cos[m] \in Nat \ {0}
      /\ Amount \subseteq Nat
  BY CosAssumption, AmountAssumption
<1>2. /\ metrics \in [Metric -> [round : Nat, carry : Nat]]
      /\ open \in Nat /\ peak \in Nat
      /\ \A m \in Metric : metrics[m].round \in Nat /\ metrics[m].carry \in Nat
      /\ metrics["CONNECTIONS"].round = open /\ metrics["MAX_CONNECTIONS"].round = peak
  BY <1>1 DEF IInv, CountersType, CountersAreExact
<1>3. CASE UNCHANGED exchanges
  <2>1. metrics' = metrics /\ open' = open /\ peak' = peak
    BY <1>3 DEF exchanges
  <2>2. \A m \in Metric : metrics[m].round <= metrics[m].round
    BY <1>2
  <2>3. QED
    BY <2>1, <2>2
<1>4. CASE SocksPassiveAccept
  <2>1. open' = open + 1 /\ peak' = IF peak < open' THEN open' ELSE peak
    BY <1>4 DEF SocksPassiveAccept
  <2>2. open' <= peak'
    BY <1>2, <2>1
  <2>3. metrics' = [metrics EXCEPT
                      !["CONNECTIONS"].round = open + 1,
                      !["MAX_CONNECTIONS"].round = IF @ < open + 1 THEN open + 1 ELSE @]
    BY <1>2, <1>4 DEF SocksPassiveAccept, AddClient
  <2>4. ASSUME NEW m \in Metric \ {"CONNECTIONS"}
        PROVE  metrics[m].round <= metrics'[m].round
    <3>1. CASE m = "MAX_CONNECTIONS"
      <4>1. metrics'[m].round = IF peak < open + 1 THEN open + 1 ELSE peak
        BY <1>1, <1>2, <2>3, <3>1
      <4>2. QED
        BY <1>2, <3>1, <4>1
    <3>2. CASE m # "MAX_CONNECTIONS"
      <4>1. metrics'[m] = metrics[m]
        BY <1>2, <2>3, <3>2
      <4>2. QED
        BY <1>2, <4>1
    <3>3. QED
      BY <3>1, <3>2
  <2>5. QED
    BY <2>2, <2>4
<1>5. ASSUME NEW pack \in [round : Nat, carry : Nat], NEW n \in Nat,
             NEW cos \in Nat \ {0}
      PROVE  pack.round <= LogUtil(pack, n, cos).round
  <2>1. /\ pack.round \in Nat /\ n \div cos \in Nat /\ n % cos \in Nat
        /\ pack.carry \in Nat
    BY Division
  <2>2. pack.carry + (n % cos) \in Nat
    BY <2>1
  <2>3. (pack.carry + (n % cos)) \div cos \in Nat
    BY <2>2, Division
  <2>4. LogUtil(pack, n, cos).round
          = pack.round + (n \div cos) + ((pack.carry + (n % cos)) \div cos)
    BY DEF LogUtil
  <2>5. QED
    BY <2>1, <2>3, <2>4
<1>6. ASSUME NEW n \in Amount, Transferred(n)
      PROVE  /\ open' <= peak'
             /\ \A m \in Metric \ {"CONNECTIONS"} : metrics[m].round <= metrics'[m].round
  <2>1. /\ open' = open /\ peak' = peak
        /\ metrics' = [metrics EXCEPT !["TRAFFIC"] = LogUtil(@, n, Cos["TRAFFIC"])]
    BY <1>6 DEF Transferred, LogMetric
  <2>2. metrics["TRAFFIC"].round <= metrics'["TRAFFIC"].round
    BY <1>1, <1>2, <1>5, <2>1
  <2>3. \A m \in Metric \ {"TRAFFIC"} : metrics'[m] = metrics[m]
    BY <1>2, <2>1
  <2>4. \A m \in Metric \ {"TRAFFIC"} : metrics[m].round <= metrics[m].round
    BY <1>2
  <2>5. QED
    BY <2>1, <2>2, <2>3, <2>4
<1>7. CASE ClientDone
  <2> DEFINE logs == [metrics EXCEPT !["CLIENTS"] = LogUtil(@, 1, Cos["CLIENTS"])]
  <2>1. /\ open' = open - 1 /\ peak' = peak /\ metrics' = RemoveClient(logs)
    BY <1>7 DEF ClientDone, LogMetric
  <2>2. metrics["CLIENTS"].round <= logs["CLIENTS"].round
    BY <1>1, <1>2, <1>5
  <2>3. \A m \in Metric \ {"CLIENTS"} : logs[m] = metrics[m]
    BY <1>2
  <2> HIDE DEF logs
  <2>4. \A m \in Metric \ {"CONNECTIONS"} : metrics'[m] = logs[m]
    BY <2>1 DEF RemoveClient
  <2>5. \A m \in Metric : metrics[m].round <= metrics[m].round
    BY <1>2
  <2>6. open' <= peak'
    BY <1>2, <2>1
  <2>7. QED
    BY <2>2, <2>3, <2>4, <2>5, <2>6
<1>8. ASSUME NEW a \in Admin,
             \/ SctpSocksAccept(a) \/ SctpRequestReadFails(a) \/ SctpRequestWrite(a)
             \/ \E request \in Request : SctpRequestRead(a, request)
      PROVE  UNCHANGED exchanges
  BY <1>8 DEF SctpSocksAccept, SctpRequestRead, SctpRequestReadFails, SctpRequestWrite
<1>9. CASE UNCHANGED vars
  BY <1>3, <1>9 DEF vars, exchanges
<1>10. QED
  BY <1>3, <1>4, <1>6, <1>7, <1>8, <1>9 DEF AdminNext

\* A reply is true when it is made, and stays so while counters change.
LEMMA RepliesStep == AdminInv /\ [AdminNext]_vars => AdminInv'
<1> SUFFICES ASSUME AdminInv, [AdminNext]_vars PROVE AdminInv'
  OBVIOUS
<1>1. IInv' /\ IInv
  BY CountersStep DEF AdminInv
<1>2. /\ open' <= peak'
      /\ \A m \in Metric \ {"CONNECTIONS"} : metrics[m].round <= metrics'[m].round
  BY CountersGrow DEF AdminInv, RepliesStand
<1>3. /\ {"CONNECTIONS", "MAX_CONNECTIONS"} \subseteq Metric
      /\ \A m \in Metric : metrics[m].round \in Nat /\ metrics'[m].round \in Nat
      /\ metrics["CONNECTIONS"].round = open /\ metrics["MAX_CONNECTIONS"].round = peak
  BY <1>1, CosAssumption DEF IInv, CountersType, CountersAreExact
<1>4. ASSUME NEW answers \in Seq(Answer), Shows(answers, metrics)
      PROVE  Shows(answers, metrics')
  <2>1. ASSUME NEW k \in 1..Len(answers),
               answers[k].kind = "METRIC", answers[k].type # "CONNECTIONS"
        PROVE  answers[k].value <= metrics'[answers[k].type].round
    <3>1. answers[k].value <= metrics[answers[k].type].round
      BY <1>4, <2>1 DEF Shows
    <3>2. answers[k].type \in Metric \ {"CONNECTIONS"} /\ answers[k].value \in Nat
      <4>1. answers[k] \in Answer
        BY <1>4
      <4>2. QED
        BY <2>1, <4>1 DEF Answer, Shown
    <3>3. QED
      BY <1>2, <1>3, <3>1, <3>2
  <2>2. QED
    BY <1>4, <2>1 DEF Shows
<1>5. ASSUME NEW a \in Admin
      PROVE  /\ reply[a].answers \in Seq(Answer)
             /\ Shows(reply[a].answers, metrics')
  BY <1>4 DEF AdminInv, RepliesStand
<1>6. CASE UNCHANGED <<registry, reply>>
  <2>1. RepliesStand'
    BY <1>2, <1>5, <1>6 DEF AdminInv, RepliesStand
  <2>2. QED
    BY <1>1, <1>6, <2>1 DEF AdminInv
<1>7. ASSUME NEW a \in Admin, NEW new, reply' = [reply EXCEPT ![a] = new],
             TableInv(registry'), new.answers \in Seq(Answer),
             Shows(new.answers, metrics')
      PROVE  AdminInv'
  <2>1. DOMAIN reply = Admin
    BY DEF AdminInv, RepliesStand
  <2>2. ASSUME NEW b \in Admin
        PROVE  /\ reply'[b].answers \in Seq(Answer)
               /\ Shows(reply'[b].answers, metrics')
    <3>1. CASE b = a
      BY <1>7, <2>1, <3>1
    <3>2. CASE b # a
      <4>1. reply'[b] = reply[b]
        BY <1>7, <2>1, <3>2
      <4>2. QED
        BY <1>5, <4>1
    <3>3. QED
      BY <3>1, <3>2
  <2>3. DOMAIN reply' = Admin
    BY <1>7, <2>1
  <2>4. RepliesStand'
    BY <1>2, <2>2, <2>3 DEF RepliesStand
  <2>5. QED
    BY <1>1, <1>7, <2>4 DEF AdminInv
<1>8. ASSUME NEW a \in Admin, SctpClientDone(a), UNCHANGED registry
      PROVE  AdminInv'
  <2>1. reply' = [reply EXCEPT ![a] = NoReply] /\ TableInv(registry')
    BY <1>8 DEF SctpClientDone, AdminInv
  <2>2. NoReply.answers = << >> /\ << >> \in Seq(Answer) /\ Len(<< >>) = 0
    BY DEF NoReply
  <2>3. Shows(NoReply.answers, metrics')
    BY <2>2 DEF Shows
  <2>4. QED
    BY <1>7, <2>1, <2>2, <2>3
<1>9. ASSUME NEW a \in Admin, NEW request \in Request, SctpRequestRead(a, request)
      PROVE  AdminInv'
  <2> DEFINE made == SctpRequestParser(request)
  <2>1. Sound(made)
    BY <1>1, AllCommands DEF AdminInv, IInv
  <2>2. PICK tail \in Tails(made.answers) :
          reply' = [reply EXCEPT ![a] = [answers |-> made.answers, tail |-> tail]]
    BY <1>9 DEF SctpRequestRead
  <2>3. registry' = made.registry /\ metrics' = metrics
    BY <1>9 DEF SctpRequestRead, exchanges
  <2> HIDE DEF made
  <2>4. made.answers \in Seq(Answer) /\ TableInv(made.registry)
    BY <2>1 DEF Sound, Done
  <2>5. Shows(made.answers, metrics)
    <3>1. \A i \in 1..Len(made.answers) : made.answers[i] \in Answer
      BY <2>4
    <3>2. ASSUME NEW i \in 1..Len(made.answers), made.answers[i].kind = "METRIC"
          PROVE  /\ made.answers[i].type \in Metric
                 /\ made.answers[i].value = metrics[made.answers[i].type].round
      <4>1. made.answers[i].value = metrics[made.answers[i].type].round
        BY <2>1, <3>2 DEF Sound
      <4>2. QED
        BY <3>1, <3>2, <4>1 DEF Answer, Shown
    <3>3. open <= peak
      BY DEF AdminInv, RepliesStand
    <3>4. \A m \in Metric : metrics[m].round <= metrics[m].round
      BY <1>3
    <3>5. QED
      BY <1>3, <3>2, <3>3, <3>4 DEF Shows
  <2> DEFINE new == [answers |-> made.answers, tail |-> tail]
  <2>6. new.answers = made.answers /\ reply' = [reply EXCEPT ![a] = new]
    BY <2>2
  <2> HIDE DEF new
  <2>7. new.answers \in Seq(Answer) /\ TableInv(registry')
    BY <2>3, <2>4, <2>6
  <2>8. Shows(new.answers, metrics')
    BY <2>3, <2>5, <2>6
  <2>9. QED
    BY <1>7, <2>6, <2>7, <2>8
<1>10. CASE UNCHANGED vars
  BY <1>6, <1>10 DEF vars
<1>11. CASE SocksPassiveAccept \/ (\E n \in Amount : Transferred(n)) \/ ClientDone
  BY <1>6, <1>11 DEF SocksPassiveAccept, Transferred, ClientDone
<1>12. ASSUME NEW a \in Admin,
              SctpSocksAccept(a) \/ SctpRequestReadFails(a) \/ SctpRequestWrite(a)
       PROVE  AdminInv'
  <2>1. CASE SctpSocksAccept(a)
    BY <1>6, <2>1 DEF SctpSocksAccept
  <2>2. CASE SctpRequestReadFails(a) \/ SctpRequestWrite(a)
    BY <1>8, <2>2 DEF SctpRequestReadFails, SctpRequestWrite
  <2>3. QED
    BY <1>12, <2>1, <2>2
<1>13. QED
  BY <1>9, <1>10, <1>11, <1>12 DEF AdminNext

\* The table is empty and nobody is answered when the program starts.
LEMMA RepliesStart == AdminInit => AdminInv
<1> SUFFICES ASSUME AdminInit PROVE AdminInv
  OBVIOUS
<1>1. << >> \in Seq(Entry) /\ << >> \in Seq(Answer) /\ Len(<< >>) = 0
  OBVIOUS
<1>2. TableInv(registry)
  BY <1>1 DEF AdminInit, RegistryStart, TableInv, Apart
<1>3. RepliesStand
  <2>1. reply = [a \in Admin |-> NoReply] /\ open = 0 /\ peak = 0
    BY DEF AdminInit
  <2>2. NoReply.answers = << >>
    BY DEF NoReply
  <2>3. \A a \in Admin : reply[a].answers = << >>
    BY <2>1, <2>2
  <2>4. Shows(<< >>, metrics)
    BY <1>1 DEF Shows
  <2>5. ASSUME NEW a \in Admin
        PROVE  reply[a].answers \in Seq(Answer) /\ Shows(reply[a].answers, metrics)
    <3>1. reply[a].answers = << >>
      BY <2>3
    <3>2. QED
      BY <1>1, <2>4, <3>1
  <2>6. open <= peak /\ DOMAIN reply = Admin
    BY <2>1
  <2>7. QED
    BY <2>5, <2>6 DEF RepliesStand
<1>4. QED
  BY <1>2, <1>3, InitInv DEF AdminInv

(***************************************************************************)
(* What it is for.                                                          *)
(***************************************************************************)

\* A reply on its way shows no more than has happened, and the two counters of
\* exchanges in it agree, whatever else a request asks for.
THEOREM RepliesStayTrue == AdminSpec => []RepliesAreTrue
<1>1. AdminInv => RepliesAreTrue
  <2> SUFFICES ASSUME AdminInv, NEW a \in Admin
               PROVE  LET answers == reply[a].answers
                          Told(type) ==
                            {answers[i].value : i \in
                               {k \in DOMAIN answers :
                                  answers[k].kind = "METRIC" /\ answers[k].type = type}} IN
                      /\ \A m \in Metric \ {"CONNECTIONS"} :
                           \A value \in Told(m) : value <= metrics[m].round
                      /\ \A now \in Told("CONNECTIONS") :
                           \A most \in Told("MAX_CONNECTIONS") : now <= most
    BY DEF RepliesAreTrue
  <2>1. /\ Shows(reply[a].answers, metrics)
        /\ DOMAIN reply[a].answers = 1..Len(reply[a].answers)
    BY DEF AdminInv, RepliesStand
  <2>2. QED
    BY <2>1 DEF Shows
<1>2. QED
  BY <1>1, RepliesStart, RepliesStep, PTL DEF AdminSpec

\* Whatever is registered and unregistered, in requests of any length: each
\* registered media type has one entry.
THEOREM OneEntryForEach == AdminSpec => []OneEntryEach
<1>1. AdminInv => OneEntryEach
  BY Counting DEF AdminInv, OneEntryEach
<1>2. QED
  BY <1>1, RepliesStart, RepliesStep, PTL DEF AdminSpec

\* The entries stay inside the memory of the table, by whatever it grows.
THEOREM TableAlwaysFits == AdminSpec => []TableFits
<1>1. AdminInv => TableFits
  BY DEF AdminInv, TableInv, TableFits
<1>2. QED
  BY <1>1, RepliesStart, RepliesStep, PTL DEF AdminSpec

\* In every table that comes about a registration takes effect on the type it
\* names, and an unregistration takes that type and no other out of the table.
THEOREM ConfigurationStays == AdminSpec => []ConfigurationStands
<1>1. AdminInv => ConfigurationStands
  BY Registering, Unregistering DEF AdminInv, ConfigurationStands
<1>2. QED
  BY <1>1, RepliesStart, RepliesStep, PTL DEF AdminSpec

-----------------------------------------------------------------------------
(***************************************************************************)
(* The administrator's program: its arguments, its list of media types, and *)
(* what it is answered.                                                     *)
(***************************************************************************)

\* Every media type in the list was an argument, and is no further on in the
\* list than it was among the configurations.
Named ==
  \A p \in 1..Len(mediatypes) : \E k \in 1..Len(argument) :
    /\ argument[k].kind = "CONFIGURATION" /\ argument[k].mediaType = mediatypes[p]
    /\ p <= Place(argument, k)

\* The list has no more than were given, and as long as none was given twice it
\* has those of the arguments in their order.
Listed ==
  /\ Len(mediatypes) <= Place(argument, Len(argument))
  /\ app # "crashed" =>
       /\ Plain(argument, Len(argument)) => Len(mediatypes) = Place(argument, Len(argument))
       /\ \A k \in 1..Len(argument) :
            argument[k].kind = "CONFIGURATION" /\ Plain(argument, k) =>
              /\ Place(argument, k) \in 1..Len(mediatypes)
              /\ mediatypes[Place(argument, k)] = argument[k].mediaType

\* A reply answers commands one by one.
Answers(answers, commands) ==
  /\ answers \in Seq(Answer) /\ Len(answers) = Len(commands)
  /\ \A i \in 1..Len(answers) :
       answers[i].kind = commands[i].kind /\ answers[i].type = commands[i].type

\* There is a reply only once the request was sent, and it is for that: no
\* request is empty, and only one that ends in a configuration, or has the
\* wrong password, has a reply with something behind it.
Replied ==
  /\ app \in {"ready", "asked", "shown"} => argument # << >>
  /\ DOMAIN reply = Admin
  /\ \A a \in Admin :
       \/ reply[a] = NoReply
       \/ /\ app \in {"asked", "shown"}
          /\ \/ reply[a].answers = <<[kind |-> "PASSWORD"]>>
             \/ /\ Answers(reply[a].answers, argument)
                /\ reply[a].tail = "junk" => Last(argument).kind = "CONFIGURATION"

ArgumentsType ==
  /\ argument \in Seq(Order) /\ mediatypes \in Seq(MediaType)
  /\ j \in -1 .. Len(mediatypes) - 1

AppInv ==
  /\ CountersType /\ ArgumentsType /\ Named /\ Listed /\ Replied
  /\ ToldWhatWasAsked

\* Where the next configuration is in the list.
LEMMA NextPlace ==
  ASSUME NEW s, NEW n \in Nat
  PROVE  /\ Place(s, 0) = 0 /\ Place(s, n) \in Nat
         /\ s[n + 1].kind = "CONFIGURATION" => Place(s, n + 1) = Place(s, n) + 1
         /\ s[n + 1].kind # "CONFIGURATION" => Place(s, n + 1) = Place(s, n)
<1> DEFINE P(i) == {k \in 1..i : s[k].kind = "CONFIGURATION"}
<1>1. IsFiniteSet(P(n))
  <2>1. IsFiniteSet(1..n)
    BY FS_Interval
  <2>2. P(n) \subseteq 1..n
    OBVIOUS
  <2>3. QED
    BY <2>1, <2>2, FS_Subset
<1>2. P(0) = {}
  OBVIOUS
<1>3. 1..n + 1 = 1..n \union {n + 1} /\ n + 1 \notin P(n)
  OBVIOUS
<1>4. /\ s[n + 1].kind = "CONFIGURATION" => P(n + 1) = P(n) \union {n + 1}
      /\ s[n + 1].kind # "CONFIGURATION" => P(n + 1) = P(n)
  BY <1>3
<1>5. Place(s, 0) = Cardinality(P(0)) /\ Place(s, n) = Cardinality(P(n))
      /\ Place(s, n + 1) = Cardinality(P(n + 1))
  BY DEF Place
<1> HIDE DEF P
<1>6. Cardinality({}) = 0
  BY FS_EmptySet
<1>7. Cardinality(P(n)) \in Nat
  BY <1>1, FS_CardinalityType
<1>8. Cardinality(P(n) \union {n + 1}) = Cardinality(P(n)) + 1
  BY <1>1, <1>3, FS_AddElement
<1>9. QED
  BY <1>2, <1>4, <1>5, <1>6, <1>7, <1>8

\* The place depends on what comes before alone.
LEMMA SamePlace ==
  ASSUME NEW s, NEW t, NEW n \in Nat, \A k \in 1..n : s[k].kind = t[k].kind
  PROVE  Place(s, n) = Place(t, n)
<1>1. {k \in 1..n : s[k].kind = "CONFIGURATION"} = {k \in 1..n : t[k].kind = "CONFIGURATION"}
  OBVIOUS
<1>2. QED
  BY <1>1 DEF Place

\* Configurations that come later have later places.
LEMMA LaterPlace ==
  ASSUME NEW s, NEW i \in Nat \ {0}, NEW k \in Nat, s[i].kind = "CONFIGURATION",
         Place(s, i) <= Place(s, k)
  PROVE  i <= k
<1> DEFINE P(n) == {l \in 1..n : s[l].kind = "CONFIGURATION"}
<1> SUFFICES ASSUME k < i PROVE FALSE
  OBVIOUS
<1>1. i - 1 \in Nat /\ (i - 1) + 1 = i /\ k <= i - 1
  OBVIOUS
<1>2. Place(s, i) = Place(s, i - 1) + 1 /\ Place(s, i - 1) \in Nat
  BY <1>1, NextPlace
<1>3. IsFiniteSet(P(i - 1))
  <2>1. IsFiniteSet(1..i - 1)
    BY <1>1, FS_Interval
  <2>2. P(i - 1) \subseteq 1..i - 1
    OBVIOUS
  <2>3. QED
    BY <2>1, <2>2, FS_Subset
<1>4. P(k) \subseteq P(i - 1)
  BY <1>1
<1>5. Place(s, k) = Cardinality(P(k)) /\ Place(s, i - 1) = Cardinality(P(i - 1))
  BY DEF Place
<1> HIDE DEF P
<1>6. Cardinality(P(k)) <= Cardinality(P(i - 1))
  BY <1>3, <1>4, FS_Subset
<1>7. Place(s, k) \in Nat
  BY NextPlace
<1>8. QED
  BY <1>2, <1>5, <1>6, <1>7

\* An argument more.
LEMMA OneArgument ==
  ASSUME ArgumentsType, NEW order \in Order, argument' = Append(argument, order)
  PROVE  /\ argument' \in Seq(Order) /\ Len(argument) \in Nat
         /\ Len(argument') = Len(argument) + 1
         /\ \A k \in 1..Len(argument) : argument'[k] = argument[k]
         /\ argument'[Len(argument) + 1] = order
         /\ \A k \in 0..Len(argument) : Place(argument', k) = Place(argument, k)
         /\ \A k \in 0..Len(argument) : Plain(argument', k) <=> Plain(argument, k)
         /\ Plain(argument', Len(argument) + 1) => Plain(argument, Len(argument))
<1>1. /\ argument' \in Seq(Order) /\ Len(argument) \in Nat
      /\ Len(argument') = Len(argument) + 1
      /\ \A k \in 1..Len(argument) : argument'[k] = argument[k]
      /\ argument'[Len(argument) + 1] = order
  BY AppendProperties DEF ArgumentsType
<1>2. ASSUME NEW n \in 0..Len(argument)
      PROVE  Place(argument', n) = Place(argument, n) /\ (Plain(argument', n) <=> Plain(argument, n))
  <2>1. n \in Nat /\ \A k \in 1..n : k \in 1..Len(argument)
    BY <1>1
  <2>2. \A k \in 1..n : argument'[k] = argument[k]
    BY <1>1, <2>1
  <2>3. Place(argument', n) = Place(argument, n)
    BY <2>1, <2>2, SamePlace
  <2>4. Plain(argument', n) <=> Plain(argument, n)
    BY <2>2 DEF Plain
  <2>5. QED
    BY <2>3, <2>4
<1>3. ASSUME Plain(argument', Len(argument) + 1) PROVE Plain(argument, Len(argument))
  <2>1. \A k \in 1..Len(argument) : k \in 1..Len(argument) + 1
    BY <1>1
  <2>2. QED
    BY <1>1, <1>3, <2>1 DEF Plain
<1>4. QED
  BY <1>1, <1>2, <1>3

\* What is the same as long as the arguments and the list are.
LEMMA SameArguments ==
  ASSUME AppInv, app # "crashed", UNCHANGED <<argument, mediatypes, j>>
  PROVE  ArgumentsType' /\ Named' /\ Listed'
<1>1. \A k : /\ Plain(argument, k)' <=> Plain(argument, k)
            /\ Place(argument, k)' = Place(argument, k)
  BY DEF Plain, Place
<1>2. QED
  BY <1>1 DEF AppInv, ArgumentsType, Named, Listed

\* Where an argument more leaves the list.
LEMMA NamedStill ==
  ASSUME AppInv, NEW order \in Order, argument' = Append(argument, order),
         UNCHANGED mediatypes
  PROVE  Named'
<1>1. /\ Len(argument) \in Nat /\ Len(argument') = Len(argument) + 1
      /\ \A k \in 1..Len(argument) : argument'[k] = argument[k]
      /\ \A k \in 0..Len(argument) : Place(argument', k) = Place(argument, k)
  BY OneArgument DEF AppInv
<1>2. SUFFICES ASSUME NEW p \in 1..Len(mediatypes)
               PROVE  \E k \in 1..Len(argument') :
                        /\ argument'[k].kind = "CONFIGURATION"
                        /\ argument'[k].mediaType = mediatypes[p]
                        /\ p <= Place(argument', k)
  BY DEF Named, Place
<1>3. PICK k \in 1..Len(argument) : /\ argument[k].kind = "CONFIGURATION"
                                    /\ argument[k].mediaType = mediatypes[p]
                                    /\ p <= Place(argument, k)
  BY DEF AppInv, Named
<1>4. k \in 1..Len(argument') /\ k \in 0..Len(argument)
  BY <1>1
<1>5. QED
  BY <1>1, <1>3, <1>4

\* A metric does not touch the list.
LEMMA MetricStep ==
  ASSUME AppInv, NEW type \in Metric, GetMetric(type)
  PROVE  ArgumentsType' /\ Named' /\ Listed'
<1>1. CASE UNCHANGED argument /\ app' = "refused" /\ UNCHANGED <<mediatypes, j>>
  BY <1>1, SameArguments DEF GetMetric
<1>2. CASE /\ argument' = Append(argument, [kind |-> "METRIC", type |-> type])
           /\ UNCHANGED <<app, mediatypes, j>>
  <2> DEFINE order == [kind |-> "METRIC", type |-> type]
  <2>1. order \in Order /\ order.kind = "METRIC"
    BY DEF Order
  <2> HIDE DEF order
  <2>2. /\ argument' \in Seq(Order) /\ Len(argument) \in Nat
        /\ Len(argument') = Len(argument) + 1
        /\ \A k \in 1..Len(argument) : argument'[k] = argument[k]
        /\ argument'[Len(argument) + 1] = order
        /\ \A k \in 0..Len(argument) : Place(argument', k) = Place(argument, k)
        /\ \A k \in 0..Len(argument) : Plain(argument', k) <=> Plain(argument, k)
        /\ Plain(argument', Len(argument) + 1) => Plain(argument, Len(argument))
    BY <1>2, <2>1, OneArgument DEF AppInv, order
  <2>3. Place(argument', Len(argument')) = Place(argument, Len(argument))
    <3>1. argument'[Len(argument) + 1].kind # "CONFIGURATION"
      BY <2>1, <2>2
    <3>2. Place(argument', Len(argument) + 1) = Place(argument', Len(argument))
      BY <2>2, <3>1, NextPlace
    <3>3. QED
      BY <2>2, <3>2
  <2>4. ArgumentsType'
    BY <1>2, <2>2 DEF AppInv, ArgumentsType
  <2>5. Named'
    BY <1>2, <2>1, NamedStill DEF order
  <2>6. Listed'
    <3>1. Len(mediatypes) <= Place(argument', Len(argument'))
      BY <2>3 DEF AppInv, Listed
    <3>2. SUFFICES ASSUME app # "crashed"
                   PROVE  /\ Plain(argument', Len(argument) + 1) =>
                               Len(mediatypes) = Place(argument', Len(argument'))
                          /\ \A k \in 1..Len(argument') :
                               argument'[k].kind = "CONFIGURATION" /\ Plain(argument', k) =>
                                 /\ Place(argument', k) \in 1..Len(mediatypes)
                                 /\ mediatypes[Place(argument', k)] = argument'[k].mediaType
      BY <1>2, <2>2, <3>1 DEF Listed, Place, Plain
    <3>3. Plain(argument', Len(argument) + 1) => Len(mediatypes) = Place(argument', Len(argument'))
      BY <2>2, <2>3, <3>2 DEF AppInv, Listed
    <3>4. ASSUME NEW k \in 1..Len(argument'), argument'[k].kind = "CONFIGURATION", Plain(argument', k)
          PROVE  /\ Place(argument', k) \in 1..Len(mediatypes)
                 /\ mediatypes[Place(argument', k)] = argument'[k].mediaType
      <4>1. k \in 1..Len(argument) /\ k \in 0..Len(argument)
        BY <2>1, <2>2, <3>4
      <4>2. argument[k].kind = "CONFIGURATION" /\ Plain(argument, k)
        BY <2>2, <3>4, <4>1
      <4>3. QED
        BY <2>2, <3>2, <4>1, <4>2 DEF AppInv, Listed
    <3>5. QED
      BY <3>3, <3>4
  <2>7. QED
    BY <2>4, <2>5, <2>6
<1>3. QED
  BY <1>1, <1>2 DEF GetMetric, vars

\* A media type is added to the list, or to the memory behind it.
LEMMA MediaTypeKept ==
  ASSUME AppInv, NEW order \in Order, order.kind = "CONFIGURATION", app # "crashed",
         argument' = Append(argument, order), Keep(order.mediaType),
         j' \in {j, Len(mediatypes)}
  PROVE  ArgumentsType' /\ Named' /\ Listed'
<1>1. /\ argument' \in Seq(Order) /\ Len(argument) \in Nat
      /\ Len(argument') = Len(argument) + 1
      /\ \A k \in 1..Len(argument) : argument'[k] = argument[k]
      /\ argument'[Len(argument) + 1] = order
      /\ \A k \in 0..Len(argument) : Place(argument', k) = Place(argument, k)
      /\ \A k \in 0..Len(argument) : Plain(argument', k) <=> Plain(argument, k)
      /\ Plain(argument', Len(argument) + 1) => Plain(argument, Len(argument))
  BY OneArgument DEF AppInv
<1>2. order.mediaType \in MediaType
  BY DEF Order
<1>3. /\ mediatypes' \in Seq(MediaType) /\ Len(mediatypes) \in Nat
      /\ Len(mediatypes') = Len(mediatypes) + 1
      /\ \A i \in 1..Len(mediatypes) : mediatypes'[i] = mediatypes[i]
      /\ mediatypes'[Len(mediatypes) + 1] = order.mediaType
  BY <1>2, AppendProperties DEF AppInv, ArgumentsType, Keep
<1>4. ArgumentsType'
  <2>1. j' \in -1 .. Len(mediatypes') - 1
    BY <1>3 DEF AppInv, ArgumentsType
  <2>2. QED
    BY <1>1, <1>3, <2>1 DEF ArgumentsType
<1>5. /\ Place(argument', Len(argument) + 1) = Place(argument, Len(argument)) + 1
      /\ Place(argument, Len(argument)) \in Nat
      /\ Len(mediatypes) <= Place(argument, Len(argument))
  <2>1. argument'[Len(argument) + 1].kind = "CONFIGURATION" /\ Len(argument) \in Nat
    BY <1>1
  <2>2. /\ Place(argument', Len(argument) + 1) = Place(argument', Len(argument)) + 1
        /\ Place(argument, Len(argument)) \in Nat
    BY <2>1, NextPlace
  <2>3. QED
    BY <1>1, <2>2 DEF AppInv, Listed
<1>6. Named'
  <2>1. ASSUME NEW p \in 1..Len(mediatypes')
        PROVE  \E k \in 1..Len(argument') : /\ argument'[k].kind = "CONFIGURATION"
                                            /\ argument'[k].mediaType = mediatypes'[p]
                                            /\ p <= Place(argument', k)
    <3>1. CASE p = Len(mediatypes) + 1
      BY <1>1, <1>3, <1>5, <3>1
    <3>2. CASE p \in 1..Len(mediatypes)
      <4>1. PICK k \in 1..Len(argument) : /\ argument[k].kind = "CONFIGURATION"
                                          /\ argument[k].mediaType = mediatypes[p]
                                          /\ p <= Place(argument, k)
        BY <3>2 DEF AppInv, Named
      <4>2. /\ k \in 1..Len(argument') /\ argument'[k] = argument[k]
            /\ Place(argument', k) = Place(argument, k)
        BY <1>1
      <4>3. QED
        BY <1>3, <3>2, <4>1, <4>2
    <3>3. QED
      BY <1>3, <3>1, <3>2
  <2>2. QED
    BY <2>1 DEF Named, Place
<1>7. Listed'
  <2>1. Len(mediatypes') <= Place(argument', Len(argument'))
    BY <1>1, <1>3, <1>5
  <2>2. SUFFICES /\ Plain(argument', Len(argument) + 1) =>
                      Len(mediatypes') = Place(argument', Len(argument'))
                 /\ \A k \in 1..Len(argument') :
                      argument'[k].kind = "CONFIGURATION" /\ Plain(argument', k) =>
                        /\ Place(argument', k) \in 1..Len(mediatypes')
                        /\ mediatypes'[Place(argument', k)] = argument'[k].mediaType
    BY <1>1, <2>1 DEF Listed, Place, Plain
  <2>3. Plain(argument, Len(argument)) => Len(mediatypes) = Place(argument, Len(argument))
    BY DEF AppInv, Listed
  <2>4. Plain(argument', Len(argument) + 1) => Len(mediatypes') = Place(argument', Len(argument'))
    BY <1>1, <1>3, <1>5, <2>3
  <2>5. ASSUME NEW k \in 1..Len(argument'), argument'[k].kind = "CONFIGURATION", Plain(argument', k)
        PROVE  /\ Place(argument', k) \in 1..Len(mediatypes')
               /\ mediatypes'[Place(argument', k)] = argument'[k].mediaType
    <3>1. CASE k = Len(argument) + 1
      <4>1. Plain(argument', Len(argument) + 1)
        BY <2>5, <3>1
      <4>2. Place(argument', k) = Len(mediatypes) + 1
        BY <1>1, <1>5, <2>3, <3>1, <4>1
      <4>3. QED
        BY <1>1, <1>3, <3>1, <4>2
    <3>2. CASE k \in 1..Len(argument)
      <4>1. /\ Place(argument', k) = Place(argument, k) /\ argument'[k] = argument[k]
            /\ Plain(argument, k)
        BY <1>1, <2>5, <3>2
      <4>2. /\ Place(argument, k) \in 1..Len(mediatypes)
            /\ mediatypes[Place(argument, k)] = argument[k].mediaType
        BY <2>5, <3>2, <4>1 DEF AppInv, Listed
      <4>3. QED
        BY <1>3, <4>1, <4>2
    <3>3. QED
      BY <1>1, <3>1, <3>2
  <2>6. QED
    BY <2>4, <2>5
<1>8. QED
  BY <1>4, <1>6, <1>7

\* A media type is not added, since the list has it, or the program is lost.
LEMMA MediaTypeFound ==
  ASSUME AppInv, NEW order \in Order, order.kind = "CONFIGURATION",
         app # "crashed",
         argument' = Append(argument, order), UNCHANGED <<mediatypes, j>>,
         app' = "crashed" \/ Configured(order.mediaType)
  PROVE  ArgumentsType' /\ Named' /\ Listed'
<1>1. /\ argument' \in Seq(Order) /\ Len(argument) \in Nat
      /\ Len(argument') = Len(argument) + 1
      /\ \A k \in 1..Len(argument) : argument'[k] = argument[k]
      /\ argument'[Len(argument) + 1] = order
      /\ \A k \in 0..Len(argument) : Place(argument', k) = Place(argument, k)
      /\ \A k \in 0..Len(argument) : Plain(argument', k) <=> Plain(argument, k)
  BY OneArgument DEF AppInv
<1>2. ArgumentsType' /\ Named'
  BY <1>1, NamedStill DEF AppInv, ArgumentsType
<1>3. Len(mediatypes) <= Place(argument', Len(argument'))
  <2>1. /\ Place(argument', Len(argument) + 1) = Place(argument', Len(argument)) + 1
        /\ Place(argument', Len(argument)) \in Nat
    <3>1. argument'[Len(argument) + 1].kind = "CONFIGURATION" /\ Len(argument) \in Nat
      BY <1>1
    <3>2. QED
      BY <3>1, NextPlace
  <2>2. Len(mediatypes) <= Place(argument, Len(argument)) /\ Len(mediatypes) \in Nat
    BY DEF AppInv, Listed, ArgumentsType
  <2>3. QED
    BY <1>1, <2>1, <2>2
<1>4. CASE Configured(order.mediaType)
  <2>1. PICK i \in 1..Len(mediatypes) : mediatypes[i] = order.mediaType
    BY <1>4 DEF Configured, AppInv, ArgumentsType
  <2>2. PICK k \in 1..Len(argument) : /\ argument[k].kind = "CONFIGURATION"
                                      /\ argument[k].mediaType = order.mediaType
    BY <2>1 DEF AppInv, Named
  <2>3. /\ k \in 1..Len(argument) + 1 /\ Len(argument) + 1 \in 1..Len(argument) + 1
        /\ k # Len(argument) + 1 /\ argument'[k] = argument[k]
    BY <1>1
  <2>4. ~Plain(argument', Len(argument) + 1)
    BY <1>1, <2>2, <2>3 DEF Plain
  <2>5. ASSUME NEW l \in 1..Len(argument'), argument'[l].kind = "CONFIGURATION", Plain(argument', l)
        PROVE  /\ Place(argument', l) \in 1..Len(mediatypes)
               /\ mediatypes[Place(argument', l)] = argument'[l].mediaType
    <3>1. l # Len(argument) + 1
      BY <2>4, <2>5
    <3>2. l \in 1..Len(argument) /\ l \in 0..Len(argument)
      BY <1>1, <3>1
    <3>3. argument[l].kind = "CONFIGURATION" /\ Plain(argument, l)
      BY <1>1, <2>5, <3>2
    <3>4. QED
      BY <1>1, <3>2, <3>3 DEF AppInv, Listed
  <2>6. Listed'
    BY <1>1, <1>3, <2>4, <2>5 DEF Listed, Place, Plain
  <2>7. QED
    BY <1>2, <2>6
<1>5. CASE app' = "crashed"
  BY <1>2, <1>3, <1>5 DEF Listed, Place
<1>6. QED
  BY <1>4, <1>5

\* The first argument for a transformer.
LEMMA FirstStep ==
  ASSUME AppInv, app = "params", NEW order \in Order, order.kind = "CONFIGURATION",
         NEW type, argument' = Append(argument, order), GetFirst(type, order.mediaType)
  PROVE  ArgumentsType' /\ Named' /\ Listed'
<1>1. CASE app' = "crashed" /\ UNCHANGED mediatypes
  BY <1>1, MediaTypeFound DEF GetFirst
<1>2. ASSUME NEW found \in FoundAtJ(order.mediaType),
             IF found THEN UNCHANGED <<mediatypes, app>> ELSE Keep(order.mediaType)
      PROVE  ArgumentsType' /\ Named' /\ Listed'
  <2>1. UNCHANGED j
    BY DEF GetFirst
  <2>2. CASE found
    <3>1. Configured(order.mediaType)
      <4>1. CASE j = -1
        BY <1>2, <2>2, <4>1 DEF FoundAtJ
      <4>2. CASE j # -1
        <5>1. mediatypes[j + 1] = order.mediaType
          BY <1>2, <2>2, <4>2 DEF FoundAtJ
        <5>2. j + 1 \in DOMAIN mediatypes
          BY <4>2 DEF AppInv, ArgumentsType
        <5>3. QED
          BY <5>1, <5>2 DEF Configured
      <4>3. QED
        BY <4>1, <4>2
    <3>2. QED
      BY <1>2, <2>1, <2>2, <3>1, MediaTypeFound
  <2>3. CASE ~found
    BY <1>2, <2>1, <2>3, MediaTypeKept
  <2>4. QED
    BY <2>2, <2>3
<1>3. QED
  BY <1>1, <1>2 DEF GetFirst

\* An argument for a transformer.
LEMMA ConfigurationStep ==
  ASSUME AppInv, NEW type \in Transformer \union {NoTransformer}, NEW mediaType \in Asked,
         GetConfiguration(type, mediaType)
  PROVE  ArgumentsType' /\ Named' /\ Listed'
<1> DEFINE order == [kind |-> "CONFIGURATION", type |-> type, mediaType |-> mediaType]
<1>1. order \in Order /\ order.kind = "CONFIGURATION" /\ order.mediaType = mediaType
  BY AskedAssumption DEF Order
<1>2. app = "params"
  BY DEF GetConfiguration
<1>3. CASE app' = "refused" /\ UNCHANGED arguments
  BY <1>2, <1>3, SameArguments DEF arguments
<1>4. CASE GetFirst(type, mediaType) /\ argument' = Append(argument, order)
  <2> HIDE DEF order
  <2>1. QED
    BY <1>1, <1>2, <1>4, FirstStep
<1>5. CASE GetFurther(mediaType) /\ argument' = Append(argument, order)
  <2> HIDE DEF order
  <2>1. QED
    BY <1>1, <1>2, <1>5, MediaTypeKept DEF GetFurther
<1>6. QED
  BY <1>3, <1>4, <1>5 DEF GetConfiguration

\* What has been answered to the first k commands.
Answered(now, commands, k) ==
  /\ now = [registry |-> now.registry, answers |-> now.answers]
  /\ now.answers \in Seq(Answer) /\ Len(now.answers) = k
  /\ \A i \in 1..k : /\ now.answers[i].kind = commands[i].kind
                     /\ now.answers[i].type = commands[i].type

\* One command, one answer.
LEMMA OneAnswer ==
  ASSUME CountersType, NEW commands \in Seq(Order), NEW k \in 1..Len(commands), NEW now,
         Answered(now, commands, k - 1)
  PROVE  Answered(Command(now, commands[k]), commands, k)
<1> DEFINE command == commands[k]
           new == Command(now, command)
<1>1. ASSUME NEW answer \in Answer, NEW table,
             new = [registry |-> table, answers |-> Append(now.answers, answer)],
             answer.kind = command.kind, answer.type = command.type
      PROVE  Answered(new, commands, k)
  <2> HIDE DEF new
  <2>1. /\ new.answers \in Seq(Answer) /\ Len(new.answers) = k
        /\ \A i \in 1..k - 1 : new.answers[i] = now.answers[i]
        /\ new.answers[k] = answer
    BY <1>1, AppendProperties DEF Answered
  <2>2. ASSUME NEW i \in 1..k
        PROVE  /\ new.answers[i].kind = commands[i].kind
               /\ new.answers[i].type = commands[i].type
    <3>1. CASE i = k
      BY <1>1, <2>1, <3>1
    <3>2. CASE i \in 1..k - 1
      BY <2>1, <3>2 DEF Answered
    <3>3. QED
      BY <3>1, <3>2
  <2>3. new = [registry |-> new.registry, answers |-> new.answers]
    BY <1>1
  <2>4. QED
    BY <2>1, <2>2, <2>3 DEF Answered
<1>2. command \in Order
  OBVIOUS
<1>3. CASE command.kind = "METRIC"
  <2> DEFINE answer == [kind |-> "METRIC", type |-> command.type,
                        value |-> metrics[command.type].round]
  <2>1. command.type \in Metric
    BY <1>2, <1>3 DEF Order
  <2>2. answer \in Answer /\ answer.kind = command.kind /\ answer.type = command.type
    BY <1>3, <2>1 DEF CountersType, Answer, Shown
  <2>3. new = [now EXCEPT !.answers = Append(@, answer)]
    BY <1>3 DEF Command
  <2>4. now = [registry |-> now.registry, answers |-> now.answers]
    BY DEF Answered
  <2> HIDE DEF answer, new
  <2>5. new = [registry |-> now.registry, answers |-> Append(now.answers, answer)]
    BY <2>3, <2>4
  <2>6. QED
    BY <1>1, <2>2, <2>5 DEF new
<1>4. CASE command.kind = "CONFIGURATION"
  <2> DEFINE answer == [kind |-> "CONFIGURATION", type |-> command.type]
           table == IF command.type = NoTransformer
                    THEN UnregisterTransformation(now.registry, command.mediaType)
                    ELSE RegisterTransformation(now.registry, command.mediaType,
                                                command.type)
  <2>1. command.type \in Transformer \union {NoTransformer}
    BY <1>2, <1>4 DEF Order
  <2>2. answer \in Answer /\ answer.kind = command.kind /\ answer.type = command.type
    BY <1>4, <2>1 DEF Answer
  <2>3. new = [registry |-> table, answers |-> Append(now.answers, answer)]
    BY <1>4 DEF Command
  <2> HIDE DEF answer, table, new
  <2>4. QED
    BY <1>1, <2>2, <2>3 DEF new
<1>5. QED
  BY <1>2, <1>3, <1>4 DEF Order

\* The whole request, or a wrong password.
LEMMA AllAnswers ==
  ASSUME CountersType, NEW request, request.commands \in Seq(Order),
         request.password \in BOOLEAN
  PROVE  LET answers == SctpRequestParser(request).answers IN
         answers = <<[kind |-> "PASSWORD"]>> \/ Answers(answers, request.commands)
<1> DEFINE commands == request.commands
           n == Len(commands)
           after == CHOOSE f : Follows(f, commands, n)
<1>1. commands \in Seq(Order) /\ n \in Nat
  OBVIOUS
<1>2. SctpRequestParser(request) =
        IF request.password THEN after[n]
        ELSE [registry |-> registry, answers |-> <<[kind |-> "PASSWORD"]>>]
  BY DEF SctpRequestParser, Follows, Start
<1>3. n = Len(commands)
  OBVIOUS
<1> HIDE DEF commands, n
<1>4. Follows(after, commands, n)
  BY <1>1, Recursion
<1> HIDE DEF after
<1>5. ASSUME NEW k \in 0..n
      PROVE  after[k] = IF k = 0 THEN Start ELSE Command(after[k - 1], commands[k])
  BY <1>4 DEF Follows
<1>6. Answered(Start, commands, 0)
  <2>1. << >> \in Seq(Answer) /\ Len(<< >>) = 0
    OBVIOUS
  <2>2. /\ Start.answers = << >>
        /\ Start = [registry |-> Start.registry, answers |-> Start.answers]
    BY DEF Start
  <2>3. QED
    BY <2>1, <2>2 DEF Answered
<1>7. Answered(after[n], commands, n)
  <2> DEFINE S == {k \in 0..n : ~Answered(after[k], commands, k)}
  <2>1. SUFFICES ASSUME S # {} PROVE FALSE
    <3>1. n \in 0..n
      BY <1>1
    <3>2. QED
      BY <2>1, <3>1
  <2>2. PICK k \in S : \A l \in 0..k - 1 : l \notin S
    <3>1. S \subseteq 0..n
      OBVIOUS
    <3> HIDE DEF S
    <3>2. QED
      BY <1>1, <2>1, <3>1, LeastBelow
  <2>3. k \in 0..n /\ ~Answered(after[k], commands, k)
    BY <2>2
  <2>4. k # 0
    BY <1>5, <1>6, <2>3
  <2>5. k - 1 \in 0..n /\ k - 1 \in 0..k - 1 /\ k \in 1..n
    BY <1>1, <2>3, <2>4
  <2>6. Answered(after[k - 1], commands, k - 1)
    BY <2>2, <2>5
  <2>7. Answered(Command(after[k - 1], commands[k]), commands, k)
    BY <1>1, <1>3, <2>5, <2>6, OneAnswer
  <2>8. QED
    BY <1>5, <2>3, <2>4, <2>7
<1>8. CASE request.password
  <2>1. SctpRequestParser(request) = after[n]
    BY <1>2, <1>8
  <2>2. Answers(after[n].answers, commands)
    BY <1>3, <1>7 DEF Answered, Answers
  <2>3. QED
    BY <2>1, <2>2 DEF commands
<1>9. CASE ~request.password
  BY <1>2, <1>9
<1>10. QED
  BY <1>8, <1>9

\* The request is sent, and answered.
LEMMA SendStep ==
  ASSUME AppInv, NEW a \in Admin, NEW password \in BOOLEAN, Send(a, password)
  PROVE  AppInv'
<1> DEFINE request == [password |-> password, commands |-> argument]
           made == SctpRequestParser(request)
<1>1. request.commands = argument /\ request.password \in BOOLEAN
      /\ argument \in Seq(Order)
  BY DEF AppInv, ArgumentsType
<1>2. SctpRequestRead(a, request) /\ app = "ready" /\ app' = "asked"
      /\ UNCHANGED <<argument, mediatypes, j, shown>>
  BY DEF Send, arguments
<1>3. PICK tail \in Tails(made.answers) :
        reply' = [reply EXCEPT ![a] = [answers |-> made.answers, tail |-> tail]]
  BY <1>2 DEF SctpRequestRead
<1> HIDE DEF request
<1>4. made.answers = <<[kind |-> "PASSWORD"]>> \/ Answers(made.answers, argument)
  BY <1>1, AllAnswers DEF AppInv
<1> DEFINE answers == made.answers
<1>5. /\ answers = <<[kind |-> "PASSWORD"]>> \/ Answers(answers, argument)
      /\ tail \in Tails(answers)
      /\ reply' = [reply EXCEPT ![a] = [answers |-> answers, tail |-> tail]]
  BY <1>3, <1>4
<1> HIDE DEF answers
<1>6. argument # << >>
  BY <1>2 DEF AppInv, Replied
<1>7. ASSUME Answers(answers, argument), tail = "junk"
      PROVE  Last(argument).kind = "CONFIGURATION"
  <2>1. /\ Len(argument) \in 1..Len(answers) /\ Len(answers) = Len(argument)
        /\ argument[Len(argument)] \in Order
    BY <1>1, <1>6, <1>7 DEF Answers
  <2>2. answers # << >> /\ Last(answers).kind = argument[Len(argument)].kind
    BY <1>7, <2>1 DEF Answers, Last
  <2>3. Last(answers).kind # "METRIC"
    BY <1>5, <1>7, <2>2 DEF Tails
  <2>4. QED
    BY <2>1, <2>2, <2>3 DEF Order, Last
<1>8. Replied'
  <2>1. DOMAIN reply' = Admin
    BY <1>5 DEF AppInv, Replied
  <2>2. ASSUME NEW b \in Admin
        PROVE  \/ reply'[b] = NoReply
               \/ reply'[b].answers = <<[kind |-> "PASSWORD"]>>
               \/ /\ Answers(reply'[b].answers, argument)
                  /\ reply'[b].tail = "junk" => Last(argument).kind = "CONFIGURATION"
    <3>1. CASE b = a
      <4>1. reply'[b].answers = answers /\ reply'[b].tail = tail
        BY <1>5, <3>1 DEF AppInv, Replied
      <4>2. QED
        BY <1>5, <1>7, <4>1
    <3>2. CASE b # a
      <4>1. reply'[b] = reply[b]
        BY <1>5, <3>2 DEF AppInv, Replied
      <4>2. QED
        BY <1>2, <4>1 DEF AppInv, Replied
    <3>3. QED
      BY <3>1, <3>2
  <2>3. QED
    BY <1>2, <1>6, <2>1, <2>2 DEF Replied
<1>9. CountersType'
  BY <1>2 DEF AppInv, CountersType, SctpRequestRead, exchanges
<1>10. ArgumentsType' /\ Named' /\ Listed'
  BY <1>2, SameArguments
<1>11. ToldWhatWasAsked'
  BY <1>2 DEF ToldWhatWasAsked
<1>12. QED
  BY <1>8, <1>9, <1>10, <1>11 DEF AppInv

\* A sequence with a length is not empty.
LEMMA NotEmpty ==
  ASSUME NEW s, Len(s) # 0
  PROVE  s # << >>
<1>1. Len(<< >>) = 0
  OBVIOUS
<1>2. QED
  BY <1>1

\* Answers that fit what was asked, as far as they go.
Fitting(answers) ==
  /\ Len(answers) \in Nat /\ DOMAIN answers = 1..Len(answers)
  /\ \A i \in 1..Len(answers) : i <= Len(argument) =>
       /\ answers[i].kind = argument[i].kind
       /\ \/ answers[i].type = argument[i].type
          \/ answers[i].type = "cut" /\ i = Len(answers)
  /\ Len(answers) > Len(argument) => Last(argument).kind = "CONFIGURATION"

\* What recv brought fits, unless it says that the password is wrong.
LEMMA BroughtFits ==
  ASSUME AppInv, app = "asked", NEW a \in Admin, NEW s \in Brought(reply[a])
  PROVE  Fitting(s) \/ (Len(s) \in Nat /\ DOMAIN s = 1..Len(s) /\ s # << >>
                         /\ s[1] = [kind |-> "PASSWORD"])
<1> DEFINE answers == reply[a].answers
           junk == reply[a].tail = "junk"
<1>1. /\ argument # << >> /\ argument \in Seq(Order) /\ Len(argument) \in Nat
      /\ \/ answers = << >> /\ ~junk
         \/ answers = <<[kind |-> "PASSWORD"]>>
         \/ /\ Answers(answers, argument)
            /\ junk => Last(argument).kind = "CONFIGURATION"
  BY DEF AppInv, ArgumentsType, Replied, NoReply
<1>2. PICK T : answers \in Seq(T) /\ Stray \subseteq T /\ CutOff \in T
  <2> DEFINE T == Answer \union {[kind |-> "PASSWORD"]} \union Stray \union {CutOff}
  <2>1. answers \in Seq(T)
    <3>1. Answer \subseteq T /\ [kind |-> "PASSWORD"] \in T
      OBVIOUS
    <3> HIDE DEF T, answers, junk
    <3>2. CASE answers = << >>
      BY <3>2
    <3>3. CASE answers = <<[kind |-> "PASSWORD"]>>
      BY <3>1, <3>3
    <3>4. CASE answers \in Seq(Answer)
      BY <3>1, <3>4
    <3>5. QED
      BY <1>1, <3>2, <3>3, <3>4 DEF Answers
  <2>2. Stray \subseteq T /\ CutOff \in T
    OBVIOUS
  <2>3. QED
    BY <2>1, <2>2
<1>3. \/ \E n \in 0..Len(answers) : s = SubSeq(answers, 1, n)
      \/ \E i \in DOMAIN answers : /\ answers[i].kind = "CONFIGURATION"
                                    /\ s = Append(SubSeq(answers, 1, i - 1), CutOff)
      \/ junk /\ \E strays \in Strays : s = answers \o strays
  BY DEF Brought
<1> HIDE DEF answers, junk
<1>4. Len(answers) \in Nat /\ DOMAIN answers = 1..Len(answers)
  BY <1>2
<1>5. ASSUME NEW n \in 0..Len(answers)
      PROVE  /\ SubSeq(answers, 1, n) \in Seq(T) /\ Len(SubSeq(answers, 1, n)) = n
             /\ \A i \in 1..n : SubSeq(answers, 1, n)[i] = answers[i]
  <2>1. 1 \in 1..Len(answers) + 1 /\ n \in 1 - 1 .. Len(answers)
    BY <1>4
  <2>2. QED
    BY <1>2, <1>4, <2>1, SubSeqProperties
<1>6. CASE answers = << >>
  <2>1. Len(answers) = 0 /\ ~junk
    <3>1. Len(answers) = 0
      BY <1>6
    <3>2. ~junk
      BY <1>1, <1>6, <3>1 DEF Answers
    <3>3. QED
      BY <3>1, <3>2
  <2>2. s = SubSeq(answers, 1, 0)
    BY <1>3, <1>4, <2>1
  <2>3. 0 \in 0..Len(answers)
    BY <2>1
  <2>4. Len(s) = 0 /\ DOMAIN s = 1..Len(s)
    BY <1>5, <2>2, <2>3
  <2>5. QED
    BY <1>1, <2>4 DEF Fitting
<1>7. CASE answers = <<[kind |-> "PASSWORD"]>>
  <2>1. Len(answers) = 1 /\ answers[1] = [kind |-> "PASSWORD"]
    BY <1>7
  <2>2. CASE \E n \in 0..Len(answers) : s = SubSeq(answers, 1, n)
    <3>1. PICK n \in 0..Len(answers) : s = SubSeq(answers, 1, n)
      BY <2>2
    <3>2. s \in Seq(T) /\ Len(s) = n /\ \A i \in 1..n : s[i] = answers[i]
      BY <1>5, <3>1
    <3>3. DOMAIN s = 1..Len(s) /\ Len(s) \in Nat /\ (n = 0 \/ n = 1)
      BY <2>1, <3>2
    <3>4. CASE n = 0
      BY <1>1, <3>2, <3>3, <3>4 DEF Fitting
    <3>5. CASE n = 1
      <4>1. 1 \in 1..n
        BY <3>5
      <4>2. s[1] = answers[1] /\ Len(s) = 1
        BY <3>2, <3>5, <4>1
      <4>3. s # << >>
        <5>1. Len(s) # 0
          BY <4>2
        <5>2. QED
          BY <5>1, NotEmpty
      <4>4. QED
        BY <2>1, <3>3, <4>2, <4>3
    <3>6. QED
      BY <3>3, <3>4, <3>5
  <2>3. ASSUME NEW i \in DOMAIN answers, answers[i].kind = "CONFIGURATION" PROVE FALSE
    <3>1. i = 1
      BY <1>4, <2>1
    <3>2. QED
      BY <2>1, <2>3, <3>1
  <2>4. CASE \E strays \in Strays : s = answers \o strays
    <3>1. PICK strays \in Strays : s = answers \o strays
      BY <2>4
    <3>2. strays \in Seq(T)
      BY <1>2, AskedAssumption
    <3>3. /\ s \in Seq(T) /\ Len(s) = Len(answers) + Len(strays)
          /\ \A i \in 1..Len(answers) : s[i] = answers[i]
      BY <1>2, <3>1, <3>2, ConcatProperties
    <3>4. Len(strays) \in Nat /\ 1 \in 1..Len(answers)
      BY <2>1, <3>2
    <3>5. Len(s) >= 1 /\ Len(s) \in Nat /\ DOMAIN s = 1..Len(s)
      BY <2>1, <3>3, <3>4
    <3>6. s # << >>
      <4>1. Len(s) # 0
        BY <3>5
      <4>2. QED
        BY <4>1, NotEmpty
    <3>7. QED
      BY <2>1, <3>3, <3>4, <3>5, <3>6
  <2>5. QED
    BY <1>3, <2>2, <2>3, <2>4
<1>8. CASE Answers(answers, argument) /\ (junk => Last(argument).kind = "CONFIGURATION")
  <2>1. /\ Len(answers) = Len(argument)
        /\ \A i \in 1..Len(answers) :
             answers[i].kind = argument[i].kind /\ answers[i].type = argument[i].type
    BY <1>8 DEF Answers
  <2>2. CASE \E n \in 0..Len(answers) : s = SubSeq(answers, 1, n)
    <3>1. PICK n \in 0..Len(answers) : s = SubSeq(answers, 1, n)
      BY <2>2
    <3>2. s \in Seq(T) /\ Len(s) = n /\ \A i \in 1..n : s[i] = answers[i]
      BY <1>5, <3>1
    <3>3. /\ DOMAIN s = 1..Len(s) /\ Len(s) \in Nat
          /\ \A i \in 1..n : i \in 1..Len(answers)
          /\ ~(Len(s) > Len(argument))
      BY <1>4, <2>1, <3>2
    <3>4. QED
      BY <2>1, <3>2, <3>3 DEF Fitting
  <2>3. CASE \E i \in DOMAIN answers : /\ answers[i].kind = "CONFIGURATION"
                                       /\ s = Append(SubSeq(answers, 1, i - 1), CutOff)
    <3>1. PICK i \in DOMAIN answers : /\ answers[i].kind = "CONFIGURATION"
                                     /\ s = Append(SubSeq(answers, 1, i - 1), CutOff)
      BY <2>3
    <3>2. i \in 1..Len(answers) /\ i - 1 \in 0..Len(answers)
      BY <1>4, <3>1
    <3>3. PICK t : /\ t = SubSeq(answers, 1, i - 1) /\ t \in Seq(T) /\ Len(t) = i - 1
                   /\ \A k \in 1..i - 1 : t[k] = answers[k]
      BY <1>5, <3>2
    <3>4. s = Append(t, CutOff)
      BY <3>1, <3>3
    <3>5. /\ s \in Seq(T) /\ Len(s) = i
          /\ \A k \in 1..i - 1 : s[k] = answers[k]
          /\ s[i] = CutOff
      BY <1>2, <3>2, <3>3, <3>4, AppendProperties
    <3>6. /\ DOMAIN s = 1..Len(s) /\ Len(s) \in Nat
          /\ \A k \in 1..i - 1 : k \in 1..Len(answers)
          /\ ~(Len(s) > Len(argument))
      BY <1>4, <2>1, <3>2, <3>5
    <3>7. CutOff.kind = "CONFIGURATION" /\ CutOff.type = "cut"
      BY DEF CutOff
    <3>8. ASSUME NEW k \in 1..Len(s)
          PROVE  /\ s[k].kind = argument[k].kind
                 /\ s[k].type = argument[k].type \/ (s[k].type = "cut" /\ k = Len(s))
      <4>1. CASE k = i
        BY <2>1, <3>1, <3>2, <3>5, <3>7, <4>1
      <4>2. CASE k \in 1..i - 1
        BY <2>1, <3>5, <3>6, <4>2
      <4>3. QED
        BY <3>2, <3>5, <3>8, <4>1, <4>2
    <3>9. QED
      BY <3>6, <3>8 DEF Fitting
  <2>4. CASE junk /\ \E strays \in Strays : s = answers \o strays
    <3>1. PICK strays \in Strays : s = answers \o strays
      BY <2>4
    <3>2. strays \in Seq(T)
      BY <1>2, AskedAssumption
    <3>3. /\ s \in Seq(T) /\ Len(s) = Len(answers) + Len(strays)
          /\ \A i \in 1..Len(answers) : s[i] = answers[i]
      BY <1>2, <3>1, <3>2, ConcatProperties
    <3>4. /\ DOMAIN s = 1..Len(s) /\ Len(s) \in Nat
          /\ \A i \in 1..Len(s) : i <= Len(argument) => i \in 1..Len(answers)
      BY <1>4, <2>1, <3>3
    <3>5. Last(argument).kind = "CONFIGURATION"
      BY <1>8, <2>4
    <3>6. QED
      BY <2>1, <3>3, <3>4, <3>5 DEF Fitting
  <2>5. QED
    BY <1>3, <2>2, <2>3, <2>4
<1>9. QED
  BY <1>1, <1>6, <1>7, <1>8

\* What fits is told as what was asked for.
LEMMA AllTold ==
  ASSUME AppInv, app = "asked", NEW s, Fitting(s), NEW i \in 1..Len(s), i <= Len(argument)
  PROVE  /\ Tell(s, i).kind = argument[i].kind
         /\ Tell(s, i).type = argument[i].type \/ (Tell(s, i).type = "cut" /\ i = Len(s))
         /\ argument[i].kind = "CONFIGURATION" =>
              /\ Plain(argument, i) => Tell(s, i).mediaType = {argument[i].mediaType}
              /\ Tell(s, i).mediaType \subseteq ConfiguredFrom(i)
<1>1. /\ Len(argument) \in Nat /\ i \in Nat \ {0} /\ i \in 1..Len(argument)
      /\ \A k \in 1..i : k \in 1..Len(s) /\ k <= Len(argument)
  <2>1. Len(argument) \in Nat
    BY DEF AppInv, ArgumentsType
  <2>2. Len(s) \in Nat
    BY DEF Fitting
  <2>3. QED
    BY <2>1, <2>2
<1>2. /\ s[i].kind = argument[i].kind
      /\ s[i].type = argument[i].type \/ (s[i].type = "cut" /\ i = Len(s))
  BY DEF Fitting
<1>3. CASE s[i].kind = "CONFIGURATION"
  <2> DEFINE p == Place(argument, i)
             named == {mediatypes[k] : k \in {p} \intersect DOMAIN mediatypes}
  <2>1. \A k \in 1..i : s[k].kind = argument[k].kind
    BY <1>1 DEF Fitting
  <2>2. Place(s, i) = p
    BY <1>1, <2>1, SamePlace
  <2>3. Tell(s, i) = [kind |-> "CONFIGURATION", type |-> s[i].type, mediaType |-> named]
    BY <1>3, <2>2 DEF Tell
  <2>4. DOMAIN mediatypes = 1..Len(mediatypes)
    BY DEF AppInv, ArgumentsType
  <2>5. ASSUME Plain(argument, i) PROVE named = {argument[i].mediaType}
    <3>1. p \in 1..Len(mediatypes) /\ mediatypes[p] = argument[i].mediaType
      BY <1>1, <1>2, <1>3, <2>5 DEF AppInv, Listed
    <3> HIDE DEF p
    <3>2. QED
      BY <2>4, <3>1
  <2>6. ASSUME NEW m \in named PROVE m \in ConfiguredFrom(i)
    <3>1. p \in 1..Len(mediatypes) /\ m = mediatypes[p]
      BY <2>4
    <3>2. PICK k \in 1..Len(argument) :
            /\ argument[k].kind = "CONFIGURATION" /\ argument[k].mediaType = m
            /\ p <= Place(argument, k)
      BY <3>1 DEF AppInv, Named
    <3>3. i <= k
      <4>1. argument[i].kind = "CONFIGURATION" /\ k \in Nat
        BY <1>1, <1>2, <1>3
      <4>2. QED
        BY <1>1, <3>2, <4>1, LaterPlace
    <3>4. k \in i..Len(argument)
      BY <1>1, <3>3
    <3>5. QED
      BY <3>2, <3>4 DEF ConfiguredFrom
  <2> HIDE DEF named
  <2>7. QED
    BY <1>2, <1>3, <2>3, <2>5, <2>6
<1>4. CASE s[i].kind # "CONFIGURATION"
  <2>1. Tell(s, i) = s[i]
    BY <1>4 DEF Tell
  <2>2. QED
    BY <1>2, <1>4, <2>1
<1>5. QED
  BY <1>3, <1>4

\* What recv brought of the reply is told.
LEMMA ShowStep ==
  ASSUME AppInv, NEW a \in Admin, Show(a)
  PROVE  AppInv'
<1>1. /\ app = "asked" /\ app' = "shown"
      /\ UNCHANGED <<argument, mediatypes, j>>
      /\ reply' = [reply EXCEPT ![a] = NoReply] /\ UNCHANGED exchanges
  BY DEF Show, arguments, SctpRequestWrite, SctpClientDone
<1>2. PICK s \in Brought(reply[a]) : shown' = ParseResponse(s)
  BY DEF Show
<1>3. Replied'
  <2>1. DOMAIN reply' = Admin
    BY <1>1 DEF AppInv, Replied
  <2>2. ASSUME NEW b \in Admin
        PROVE  reply'[b] = NoReply \/ reply'[b] = reply[b]
    BY <1>1 DEF AppInv, Replied
  <2>3. QED
    BY <1>1, <2>1, <2>2 DEF AppInv, Replied
<1>4. CountersType' /\ ArgumentsType' /\ Named' /\ Listed'
  BY <1>1, SameArguments DEF AppInv, CountersType, exchanges
<1>5. Fitting(s) \/ (Len(s) \in Nat /\ DOMAIN s = 1..Len(s) /\ s # << >>
                     /\ s[1] = [kind |-> "PASSWORD"])
  BY <1>1, <1>2, BroughtFits
<1>6. Len(s) \in Nat /\ DOMAIN s = 1..Len(s)
  BY <1>5 DEF Fitting
<1>7. shown' = [i \in 1..Len(s) |-> Tell(s, i)]
  BY <1>2, <1>6 DEF ParseResponse
<1>8. DOMAIN shown' = 1..Len(s) /\ Len(shown') = Len(s)
  BY <1>6, <1>7
<1>9. \A i \in 1..Len(s) : shown'[i] = Tell(s, i)
  BY <1>7
<1>10. ASSUME Fitting(s) PROVE ToldWhatWasAsked'
  <2>1. ASSUME NEW i \in 1..Len(shown'), i <= Len(argument)
        PROVE  /\ shown'[i].kind = argument[i].kind
               /\ shown'[i].type = argument[i].type
                    \/ (shown'[i].type = "cut" /\ i = Len(shown'))
               /\ argument[i].kind = "CONFIGURATION" =>
                    /\ Plain(argument, i) => shown'[i].mediaType = {argument[i].mediaType}
                    /\ shown'[i].mediaType \subseteq ConfiguredFrom(i)
    <3>1. i \in 1..Len(s) /\ shown'[i] = Tell(s, i) /\ Len(shown') = Len(s)
      BY <1>8, <1>9
    <3>2. /\ Tell(s, i).kind = argument[i].kind
          /\ Tell(s, i).type = argument[i].type \/ (Tell(s, i).type = "cut" /\ i = Len(s))
          /\ argument[i].kind = "CONFIGURATION" =>
               /\ Plain(argument, i) => Tell(s, i).mediaType = {argument[i].mediaType}
               /\ Tell(s, i).mediaType \subseteq ConfiguredFrom(i)
      BY <1>1, <1>10, <2>1, <3>1, AllTold
    <3>3. QED
      BY <3>1, <3>2
  <2>2. Len(shown') > Len(argument) => Last(argument).kind = "CONFIGURATION"
    BY <1>8, <1>10 DEF Fitting
  <2>3. QED
    <3>1. \A i : /\ Plain(argument, i)' <=> Plain(argument, i)
                /\ ConfiguredFrom(i)' = ConfiguredFrom(i)
      BY <1>1 DEF Plain, ConfiguredFrom
    <3>2. \A i \in 1..Len(shown') : i <= Len(argument) => ToldFor(i)'
      BY <1>1, <2>1, <3>1 DEF ToldFor
    <3>3. QED
      BY <1>1, <2>2, <3>2 DEF ToldWhatWasAsked, Last
<1>11. ASSUME s # << >>, s[1] = [kind |-> "PASSWORD"] PROVE ToldWhatWasAsked'
  <2>1. Len(s) # 0
    BY <1>5, <1>6, <1>11, EmptySeq
  <2>2. 1 \in 1..Len(s)
    BY <1>6, <2>1
  <2>3. Tell(s, 1) = s[1]
    BY <1>11 DEF Tell
  <2>4. shown'[1].kind = "PASSWORD" /\ shown' # << >>
    <3>1. shown'[1] = [kind |-> "PASSWORD"]
      BY <1>9, <1>11, <2>2, <2>3
    <3>2. shown' # << >>
      BY <1>8, <2>1
    <3>3. QED
      BY <3>1, <3>2
  <2>5. QED
    BY <2>4 DEF ToldWhatWasAsked
<1>12. QED
  BY <1>3, <1>4, <1>5, <1>10, <1>11 DEF AppInv

\* An argument that is taken or refused, with the program still at them.
LEMMA ArgumentStep ==
  ASSUME AppInv, app = "params", app' \notin {"ready", "asked", "shown"}, UNCHANGED vars,
         ArgumentsType', Named', Listed'
  PROVE  AppInv'
<1>1. CountersType'
  BY DEF AppInv, CountersType, vars
<1>2. Replied'
  BY DEF AppInv, Replied, vars
<1>3. ToldWhatWasAsked'
  BY DEF ToldWhatWasAsked
<1>4. QED
  BY <1>1, <1>2, <1>3 DEF AppInv

\* Every step.
LEMMA AppStep == AppInv /\ [AppNext]_AppVars => AppInv'
<1> SUFFICES ASSUME AppInv, [AppNext]_AppVars PROVE AppInv'
  OBVIOUS
<1>1. CASE UNCHANGED AppVars
  <2>1. UNCHANGED <<app, argument, mediatypes, j, shown, metrics, logged, open, peak, reply>>
    BY <1>1 DEF AppVars, arguments, vars
  <2>2. \A k : /\ Plain(argument, k)' <=> Plain(argument, k)
              /\ Place(argument, k)' = Place(argument, k)
    BY <2>1 DEF Plain, Place
  <2>3. CountersType' /\ ArgumentsType' /\ Named' /\ Listed' /\ Replied'
    BY <2>1, <2>2 DEF AppInv, CountersType, ArgumentsType, Named, Listed, Replied
  <2>4. ToldWhatWasAsked'
    <3>1. \A k : ToldFor(k)' <=> ToldFor(k)
      BY <2>1 DEF ToldFor, Plain, ConfiguredFrom
    <3>2. QED
      BY <2>1, <3>1 DEF AppInv, ToldWhatWasAsked, Last
  <2>5. QED
    BY <2>3, <2>4 DEF AppInv
<1>2. ASSUME NEW type \in Metric, GetMetric(type) PROVE AppInv'
  <2>1. app = "params" /\ app' \in {"params", "refused"} /\ UNCHANGED vars
    BY <1>2 DEF GetMetric
  <2>2. QED
    BY <1>2, <2>1, MetricStep, ArgumentStep
<1>3. ASSUME NEW type \in Transformer \union {NoTransformer}, NEW mediaType \in Asked,
             GetConfiguration(type, mediaType)
      PROVE  AppInv'
  <2>1. app = "params" /\ app' \in {"params", "refused", "crashed"} /\ UNCHANGED vars
    BY <1>3 DEF GetConfiguration, GetFirst, GetFurther, Keep, arguments
  <2>2. QED
    BY <1>3, <2>1, ConfigurationStep, ArgumentStep
<1>4. ASSUME NEW a \in Admin, Connect(a) PROVE AppInv'
  <2>1. /\ app = "params" /\ app' = "ready" /\ UNCHANGED <<argument, mediatypes, j>>
        /\ UNCHANGED <<metrics, logged, open, peak, reply>>
    BY <1>4 DEF Connect, SctpSocksAccept, arguments, exchanges
  <2>2. argument # << >>
    BY <1>4 DEF Connect
  <2>3. CountersType' /\ ArgumentsType' /\ Named' /\ Listed' /\ Replied'
    BY <2>1, <2>2, SameArguments DEF AppInv, CountersType, Replied
  <2>4. ToldWhatWasAsked'
    BY <2>1 DEF ToldWhatWasAsked
  <2>5. QED
    BY <2>3, <2>4 DEF AppInv
<1>5. QED
  BY <1>1, <1>2, <1>3, <1>4, SendStep, ShowStep DEF AppNext

\* There are no arguments yet, and no reply.
LEMMA AppStart == AppInit /\ AdminInit => AppInv
<1> SUFFICES ASSUME AppInit, AdminInit PROVE AppInv
  OBVIOUS
<1>1. argument = << >> /\ mediatypes = << >> /\ j = -1 /\ app = "params"
  BY DEF AppInit
<1>2. CountersType
  BY InitInv DEF IInv
<1>3. Len(<< >>) = 0 /\ << >> \in Seq(Order) /\ << >> \in Seq(MediaType)
  OBVIOUS
<1>4. ArgumentsType
  BY <1>1, <1>3 DEF ArgumentsType
<1>5. Named /\ Listed
  <2>1. Place(argument, 0) = 0
    BY NextPlace
  <2>2. Len(argument) = 0 /\ Len(mediatypes) = 0
    BY <1>1, <1>3
  <2>3. QED
    BY <2>1, <2>2 DEF Named, Listed
<1>6. Replied
  <2>1. reply = [a \in Admin |-> NoReply]
    BY DEF AdminInit
  <2>2. QED
    BY <1>1, <2>1 DEF Replied
<1>7. ToldWhatWasAsked
  BY <1>1 DEF ToldWhatWasAsked
<1>8. QED
  BY <1>2, <1>4, <1>5, <1>6, <1>7 DEF AppInv

\* Administrators are told what they asked for, argument by argument, for any
\* arguments, any answer, wherever recv cut it and whatever is found behind it:
\* nothing but a media type given twice takes the media type of another
\* argument, and nothing is told beyond what was asked but behind a
\* configuration.
THEOREM AdministratorsAreTold == AppSpec => []ToldWhatWasAsked
<1>1. AppInv => ToldWhatWasAsked
  BY DEF AppInv
<1>2. QED
  BY <1>1, AppStart, AppStep, PTL DEF AppSpec

=============================================================================
