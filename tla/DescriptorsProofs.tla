-------------------------- MODULE DescriptorsProofs --------------------------
(***************************************************************************)
(* What module Descriptors says of the numbers exchanges share, for any     *)
(* number of descriptors, of exchanges and of transformed responses.        *)
(***************************************************************************)
EXTENDS Descriptors, FiniteSetTheorems, WellFoundedInduction, TLAPS

(***************************************************************************)
(* The inductive invariant.                                                 *)
(***************************************************************************)

\* Every number is held by an exchange, free or leaked, and what exchanges
\* remember are numbers.
DescriptorsType ==
  /\ fds \in [Descriptor -> (Relayed \X Role) \union {Closed, Leaked}]
  /\ known \in [Relayed -> [Role -> 0..MaxFd]]
  /\ begun \in 0..MaxAccepted
  /\ child \in [Relayed -> {"none", "failed", "running", "ended"}]
  /\ copies \in [Relayed -> SUBSET Relayed]
  /\ at \in Nat
  /\ slave \subseteq Descriptor
  /\ fresh \subseteq Relayed
  /\ ended \in BOOLEAN

\* An exchange that has not begun knows no number, and one without a
\* transformer no pipe.
NotYet ==
  \A e \in Relayed :
    /\ e > begun => \A r \in Role : known[e][r] = 0
    /\ child[e] = "none" => known[e].infd = 0 /\ known[e].outfd = 0

\* Only of exchanges that have had a transformer is there a copy of a pipe.
CopiesAreOld == \A e, f \in Relayed : e \in copies[f] => child[e] # "none"

\* Of the numbers still to be looked at none is free, and none has become a
\* pipe, unless an exchange has ended in this iteration.
Looked ==
  /\ at = 0 => slave = {} /\ fresh = {}
  /\ \A n \in slave : fds[n] = Closed => ended
  /\ \A n \in slave : fds[n][2] = "infd" => fds[n][1] \in fresh
  /\ \A e \in fresh : known[e].outfd \in slave => ended

IInv ==
  /\ DescriptorsType /\ NotYet /\ CopiesAreOld /\ Looked
  /\ OwnNumbers /\ BlockedOnlyThen /\ NoCircle

-----------------------------------------------------------------------------
(***************************************************************************)
(* The lowest free numbers.                                                 *)
(***************************************************************************)

\* A finite set of numbers that is not empty has a least element.
LEMMA LeastNumber ==
  ASSUME NEW S, S \subseteq Nat, IsFiniteSet(S), S # {}
  PROVE  \E n \in S : \A m \in S : n <= m
<1> DEFINE Below(n) == {m \in S : m < n}
           T == {Below(n) : n \in S}
<1>1. IsWellFoundedOn(StrictSubsetOrdering(S), FiniteSubsetsOf(S))
  BY FS_StrictSubsetOrderingWellFounded
<1>2. T \subseteq FiniteSubsetsOf(S)
  BY FS_Subset DEF FiniteSubsetsOf
<1>3. T # {}
  OBVIOUS
<1>4. PICK U \in T : \A V \in T : ~(<<V, U>> \in StrictSubsetOrdering(S))
  <2> HIDE DEF T
  <2> QED
    BY <1>1, <1>2, <1>3, WFMin
<1>5. PICK n \in S : U = Below(n)
  BY <1>4
<1>6. ASSUME NEW m \in S, m < n PROVE FALSE
  <2>1. Below(m) \in T
    OBVIOUS
  <2>2. Below(m) \subseteq Below(n)
    <3>1. ASSUME NEW k \in S, k < m PROVE k < n
      <4>1. k \in Nat /\ m \in Nat /\ n \in Nat
        OBVIOUS
      <4>2. QED
        BY <1>6, <3>1, <4>1
    <3>2. QED
      BY <3>1
  <2>3. m \in Below(n) /\ m \notin Below(m)
    BY <1>6
  <2>4. <<Below(m), U>> \in StrictSubsetOrdering(S)
    BY <1>5, <2>2, <2>3 DEF StrictSubsetOrdering
  <2>5. QED
    BY <1>4, <2>1, <2>4
<1>7. QED
  BY <1>6

\* There are finitely many free numbers.
LEMMA FreeNumbers == Free \subseteq Nat /\ IsFiniteSet(Free)
<1>1. MaxFd \in Int /\ 1 \in Int
  BY DescriptorsAssumption
<1>2. IsFiniteSet(1..MaxFd)
  BY <1>1, FS_Interval
<1>3. Free \subseteq 1..MaxFd
  BY DEF Free, Descriptor
<1>4. Free \subseteq Nat
  BY <1>3, DescriptorsAssumption
<1>5. QED
  BY <1>2, <1>3, <1>4, FS_Subset

\* Behind the lowest ones, in T, comes one more.
LEMMA NextLowest ==
  ASSUME NEW T, T \subseteq Free, T # Free,
         \A a \in T, b \in Free \ T : a < b
  PROVE  \E n \in Free \ T :
           /\ {m \in Free : m < n} = T
           /\ \A b \in Free \ T : b # n => n < b
<1>1. Free \ T \subseteq Nat /\ IsFiniteSet(Free \ T) /\ Free \ T # {}
  BY FreeNumbers, FS_Difference
<1>2. PICK n \in Free \ T : \A m \in Free \ T : n <= m
  BY <1>1, LeastNumber
<1>3. \A m \in Free : m \in Nat /\ n \in Nat
  BY <1>2, FreeNumbers
<1>4. \A m \in Free : m < n <=> m \in T
  BY <1>2, <1>3
<1>5. {m \in Free : m < n} = T
  BY <1>4
<1>6. \A b \in Free \ T : b # n => n < b
  BY <1>2, <1>3
<1>7. QED
  BY <1>2, <1>5, <1>6

\* What the kernel gives out is free, and is not given out twice.
LEMMA LowestNumbers ==
  /\ Free # {} => Nth(1) \in Free
  /\ Cardinality(Free) >= 4 => Nth(2) \in Free /\ Nth(3) \in Free /\ Nth(2) # Nth(3)
<1> DEFINE Below(n) == {m \in Free : m < n}
<1>1. Cardinality({}) = 0 /\ IsFiniteSet({})
  BY FS_EmptySet
<1>2. ASSUME Free # {} PROVE Nth(1) \in Free
  <2>1. PICK n \in Free : Below(n) = {}
    BY <1>2, NextLowest
  <2>2. Cardinality(Below(n)) = 1 - 1
    BY <1>1, <2>1
  <2>3. QED
    BY <2>2 DEF Nth
<1>3. ASSUME Cardinality(Free) >= 4
      PROVE  Nth(2) \in Free /\ Nth(3) \in Free /\ Nth(2) # Nth(3)
  <2>1. Free # {}
    BY <1>1, <1>3
  <2>2. PICK n \in Free : Below(n) = {} /\ \A b \in Free : b # n => n < b
    <3> DEFINE T == {}
    <3>1. T \subseteq Free /\ T # Free /\ \A a \in T, b \in Free \ T : a < b
      BY <2>1
    <3> HIDE DEF T
    <3>2. \E n \in Free \ T : Below(n) = T /\ \A b \in Free \ T : b # n => n < b
      BY <3>1, NextLowest
    <3>3. QED
      BY <3>2 DEF T
  <2>3. Cardinality({n}) = 1 /\ IsFiniteSet({n})
    BY FS_Singleton
  <2>4. {n} # Free
    BY <1>3, <2>3
  <2>5. PICK k \in Free \ {n} :
          Below(k) = {n} /\ \A b \in Free \ {n} : b # k => k < b
    <3>1. {n} \subseteq Free /\ \A a \in {n}, b \in Free \ {n} : a < b
      BY <2>2
    <3>2. QED
      BY <2>4, <3>1, NextLowest
  <2>6. Cardinality({n} \union {k}) = 2
    BY <2>3, <2>5, FS_AddElement
  <2>7. {n} \union {k} # Free
    BY <1>3, <2>6
  <2>8. PICK l \in Free : Below(l) = {n} \union {k}
    <3> DEFINE T == {n} \union {k}
    <3>1. T \subseteq Free /\ \A a \in T, b \in Free \ T : a < b
      BY <2>2, <2>5
    <3> HIDE DEF T
    <3>2. \E l \in Free \ T : Below(l) = T
      BY <2>7, <3>1, NextLowest DEF T
    <3>3. QED
      BY <3>2 DEF T
  <2>9. Cardinality(Below(k)) = 2 - 1 /\ Cardinality(Below(l)) = 3 - 1
    BY <2>3, <2>5, <2>6, <2>8
  <2>10. /\ Nth(2) \in Free /\ Cardinality(Below(Nth(2))) = 2 - 1
         /\ Nth(3) \in Free /\ Cardinality(Below(Nth(3))) = 3 - 1
    BY <2>9 DEF Nth
  <2>11. QED
    BY <2>10
<1>4. QED
  BY <1>2, <1>3

-----------------------------------------------------------------------------
(***************************************************************************)
(* Every step keeps it.                                                     *)
(***************************************************************************)

\* What a number may hold.
LEMMA Held ==
  ASSUME DescriptorsType, NEW n \in Descriptor
  PROVE  /\ n \in Nat \ {0}
         /\ \/ fds[n] = Closed \/ fds[n] = Leaked
            \/ \E e \in Relayed, r \in Role : fds[n] = <<e, r>>
         /\ n \in Free <=> fds[n] = Closed
<1>1. fds[n] \in (Relayed \X Role) \union {Closed, Leaked}
  BY DEF DescriptorsType
<1>2. n \in Nat \ {0}
  BY DescriptorsAssumption DEF Descriptor
<1>3. n \in Free <=> fds[n] = Closed
  BY DEF Free
<1>4. QED
  BY <1>1, <1>2, <1>3

\* An exchange is a positive number, and nobody is not one.
LEMMA Exchanges ==
  /\ Relayed \subseteq Nat \ {0}
  /\ Closed[1] \notin Relayed /\ Leaked[1] \notin Relayed
  /\ Closed[2] \notin Role /\ Leaked[2] \notin Role
  /\ Closed # Leaked
  /\ \A e \in Relayed, r \in Role : /\ <<e, r>> # Closed /\ <<e, r>> # Leaked
                                    /\ <<e, r>>[1] = e /\ <<e, r>>[2] = r
<1>1. Relayed \subseteq Nat \ {0}
  BY DescriptorsAssumption DEF Relayed
<1>2. QED
  BY <1>1 DEF Closed, Leaked, Role

\* What a handler leaves to look at.
LEMMA HandlingType ==
  ASSUME DescriptorsType, NEW e \in Relayed, NEW r \in Role, Handling(known[e][r])
  PROVE  at' \in Nat \ {0} /\ slave' = {m \in slave : m > known[e][r]}
<1>1. known[e][r] \in Nat
  BY DescriptorsAssumption DEF DescriptorsType
<1>2. QED
  BY <1>1 DEF Handling

\* A client is accepted, or an origin connected: the exchange gets a number
\* for a role in which it has none.
LEMMA Opening ==
  ASSUME DescriptorsType, NotYet,
         AcceptClient \/ \E e \in Relayed : ConnectOrigin(e)
  PROVE  /\ at = 0 /\ begun <= begun'
         /\ UNCHANGED <<child, copies, at, slave, fresh, ended, harm>>
         /\ \E x \in Relayed, r \in {"client", "origin"}, n \in Descriptor :
              /\ x <= begun' /\ known[x][r] = 0
              /\ fds[n] = Closed /\ fds'[n] = <<x, r>>
              /\ \A m \in Descriptor : m # n => fds'[m] = fds[m]
              /\ known'[x][r] = n
              /\ \A y \in Relayed, s \in Role :
                   y # x \/ s # r => known'[y][s] = known[y][s]
<1> USE DEF DescriptorsType
<1>1. /\ begun \in Nat /\ MaxAccepted \in Nat
      /\ "client" \in Role /\ "origin" \in Role
      /\ Free \subseteq Descriptor /\ \A n \in Free : fds[n] = Closed
      /\ Relayed = 1..MaxAccepted
  BY DescriptorsAssumption DEF Role, Free, Relayed
<1>2. CASE AcceptClient
  <2>1. begun' \in Relayed /\ begun <= begun' /\ begun' > begun /\ begun' <= begun'
    BY <1>1, <1>2 DEF AcceptClient
  <2>2. known[begun']["client"] = 0
    BY <1>1, <2>1 DEF NotYet
  <2>3. PICK n \in Descriptor : n = Nth(1) /\ fds[n] = Closed
    BY <1>1, <1>2, LowestNumbers DEF AcceptClient
  <2>4. /\ fds'[n] = <<begun', "client">>
        /\ \A m \in Descriptor : m # n => fds'[m] = fds[m]
    BY <1>2, <2>3 DEF AcceptClient
  <2>5. /\ known'[begun']["client"] = n
        /\ \A y \in Relayed, s \in Role :
             y # begun' \/ s # "client" => known'[y][s] = known[y][s]
    BY <1>1, <1>2, <2>1, <2>3 DEF AcceptClient
  <2>6. at = 0 /\ UNCHANGED <<child, copies, at, slave, fresh, ended, harm>>
    BY <1>2 DEF AcceptClient
  <2>7. QED
    BY <2>1, <2>2, <2>3, <2>4, <2>5, <2>6
<1>3. ASSUME NEW e \in Relayed, ConnectOrigin(e)
      PROVE  /\ at = 0 /\ begun' = begun /\ e <= begun /\ known[e].origin = 0
             /\ UNCHANGED <<child, copies, at, slave, fresh, ended, harm>>
             /\ \E n \in Descriptor :
                  /\ fds[n] = Closed /\ fds'[n] = <<e, "origin">>
                  /\ \A m \in Descriptor : m # n => fds'[m] = fds[m]
                  /\ known'[e].origin = n
                  /\ \A y \in Relayed, s \in Role :
                       y # e \/ s # "origin" => known'[y][s] = known[y][s]
  <2>1. e <= begun
    <3>1. known[e]["client"] # 0
      BY <1>3 DEF ConnectOrigin
    <3>2. ~(e > begun)
      BY <1>1, <3>1 DEF NotYet
    <3>3. e \in Nat
      BY <1>1
    <3>4. QED
      BY <1>1, <3>2, <3>3
  <2>2. PICK n \in Descriptor : n = Nth(1) /\ fds[n] = Closed
    BY <1>1, <1>3, LowestNumbers DEF ConnectOrigin
  <2>3. /\ fds'[n] = <<e, "origin">>
        /\ \A m \in Descriptor : m # n => fds'[m] = fds[m]
    BY <1>3, <2>2 DEF ConnectOrigin
  <2>4. /\ known'[e].origin = n
        /\ \A y \in Relayed, s \in Role :
             y # e \/ s # "origin" => known'[y][s] = known[y][s]
    BY <1>1, <1>3, <2>2 DEF ConnectOrigin
  <2>5. /\ at = 0 /\ begun' = begun /\ known[e].origin = 0
        /\ UNCHANGED <<child, copies, at, slave, fresh, ended, harm>>
    BY <1>3 DEF ConnectOrigin
  <2>6. QED
    BY <2>1, <2>2, <2>3, <2>4, <2>5
<1>4. CASE \E e \in Relayed : ConnectOrigin(e)
  <2>1. PICK e \in Relayed : ConnectOrigin(e)
    BY <1>4
  <2>2. /\ at = 0 /\ begun' = begun /\ e <= begun /\ known[e]["origin"] = 0
        /\ UNCHANGED <<child, copies, at, slave, fresh, ended, harm>>
    BY <1>3, <2>1
  <2>3. PICK n \in Descriptor :
          /\ fds[n] = Closed /\ fds'[n] = <<e, "origin">>
          /\ \A m \in Descriptor : m # n => fds'[m] = fds[m]
          /\ known'[e]["origin"] = n
          /\ \A y \in Relayed, s \in Role :
               y # e \/ s # "origin" => known'[y][s] = known[y][s]
    BY <1>3, <2>1
  <2>4. begun <= begun' /\ e <= begun'
    BY <1>1, <2>2
  <2>5. QED
    BY <2>2, <2>3, <2>4
<1>5. QED
  BY <1>2, <1>4

\* A transformer is started, with two new numbers for its pipes, or is not, and
\* then some may leak.
LEMMA Transforming ==
  ASSUME DescriptorsType, NEW e \in Relayed, InitTransform(e)
  PROVE  /\ known[e].origin # 0 /\ child[e] = "none" /\ child'[e] # "none"
         /\ \A x \in Relayed : x # e => child'[x] = child[x]
         /\ at' # 0 /\ slave' \subseteq slave
         /\ UNCHANGED <<begun, ended, harm>>
         /\ \/ /\ child'[e] = "failed"
               /\ \A n \in Descriptor : \/ fds'[n] = fds[n]
                                        \/ fds[n] = Closed /\ fds'[n] = Leaked
               /\ UNCHANGED <<known, copies, fresh>>
            \/ /\ \E i, o \in Descriptor :
                    /\ i # o /\ fds[i] = Closed /\ fds[o] = Closed
                    /\ fds'[i] = <<e, "infd">> /\ fds'[o] = <<e, "outfd">>
                    /\ \A n \in Descriptor : n \notin {i, o} => fds'[n] = fds[n]
                    /\ known'[e].infd = i /\ known'[e].outfd = o
                    /\ \A x \in Relayed, r \in Role :
                         x # e \/ r \in {"client", "origin"}
                           => known'[x][r] = known[x][r]
               /\ copies'[e] = Inherited(e)
               /\ \A x \in Relayed : x # e => copies'[x] = copies[x]
               /\ fresh' = fresh \union {e}
<1> USE DEF DescriptorsType
<1>1. /\ "origin" \in Role /\ "infd" \in Role /\ "outfd" \in Role
      /\ "infd" # "outfd" /\ {"infd", "outfd"} \intersect {"client", "origin"} = {}
      /\ Free \subseteq Descriptor /\ \A n \in Free : fds[n] = Closed
  BY DEF Role, Free
<1>2. known[e].origin # 0 /\ child[e] = "none" /\ UNCHANGED <<begun, ended, harm>>
  BY DEF InitTransform, Handling
<1>3. at' # 0 /\ slave' \subseteq slave
  BY <1>1, HandlingType DEF InitTransform
<1>4. CASE InitTransformFails(e)
  <2>1. /\ child'[e] = "failed" /\ UNCHANGED <<known, copies, fresh>>
        /\ \A x \in Relayed : x # e => child'[x] = child[x]
    BY <1>4 DEF InitTransformFails
  <2>2. \A n \in Descriptor : \/ fds'[n] = fds[n]
                              \/ fds[n] = Closed /\ fds'[n] = Leaked
    BY <1>1, <1>4 DEF InitTransformFails, Lowest
  <2>3. QED
    BY <1>2, <1>3, <2>1, <2>2
<1>5. CASE InitTransformDone(e)
  <2>1. /\ child'[e] = "running" /\ fresh' = fresh \union {e}
        /\ \A x \in Relayed : x # e => child'[x] = child[x]
    BY <1>5 DEF InitTransformDone
  <2>2. /\ copies'[e] = Inherited(e)
        /\ \A x \in Relayed : x # e => copies'[x] = copies[x]
    BY <1>5 DEF InitTransformDone
  <2>3. PICK i, o \in Descriptor : /\ i = Nth(2) /\ o = Nth(3) /\ i # o
                                   /\ fds[i] = Closed /\ fds[o] = Closed
    BY <1>1, <1>5, LowestNumbers DEF InitTransformDone
  <2>4. /\ fds'[i] = <<e, "infd">> /\ fds'[o] = <<e, "outfd">>
        /\ \A n \in Descriptor : n \notin {i, o} => fds'[n] = fds[n]
    BY <1>5, <2>3 DEF InitTransformDone
  <2>5. /\ known'[e].infd = i /\ known'[e].outfd = o
        /\ \A x \in Relayed, r \in Role :
             x # e \/ r \in {"client", "origin"} => known'[x][r] = known[x][r]
    BY <1>1, <1>5, <2>3 DEF InitTransformDone
  <2>6. QED
    BY <1>2, <1>3, <2>1, <2>2, <2>3, <2>4, <2>5
<1>6. QED
  BY <1>4, <1>5 DEF InitTransform

\* A pipe that is not of this iteration is closed.
LEMMA Closing ==
  ASSUME DescriptorsType, NEW e \in Relayed, InDone(e) \/ OutDone(e)
  PROVE  /\ at' # 0 /\ e \notin fresh
         /\ UNCHANGED <<known, begun, child, copies, fresh, ended, harm>>
         /\ \E r \in {"infd", "outfd"} : \E n \in Descriptor :
              /\ n = known[e][r] /\ fds[n] = <<e, r>> /\ fds'[n] = Closed
              /\ \A m \in Descriptor : m # n => fds'[m] = fds[m]
              /\ slave' = {m \in slave : m > n}
<1> USE DEF DescriptorsType
<1>1. ASSUME NEW r \in {"infd", "outfd"}, Handling(known[e][r])
      PROVE  /\ known[e][r] \in Descriptor /\ at' # 0
             /\ slave' = {m \in slave : m > known[e][r]}
  <2>1. r \in Role
    BY DEF Role
  <2>2. known[e][r] \in 0..MaxFd /\ known[e][r] # 0
    BY <1>1, <2>1 DEF Handling
  <2>3. QED
    BY <1>1, <2>1, <2>2, HandlingType, DescriptorsAssumption DEF Descriptor
<1>2. CASE InDone(e)
  BY <1>1, <1>2 DEF InDone
<1>3. CASE OutDone(e)
  BY <1>1, <1>3 DEF OutDone
<1>4. QED
  BY <1>2, <1>3

\* What the end of an exchange leaves of it, and of the others.
LEMMA Ending ==
  ASSUME DescriptorsType, NEW e \in Relayed, EndExchange(e)
  PROVE  \/ UNCHANGED <<fds, known, child>> /\ harm' = "stranger"
         \/ /\ harm' = harm
            /\ fds' \in [Descriptor -> (Relayed \X Role) \union {Closed, Leaked}]
            /\ known' \in [Relayed -> [Role -> 0..MaxFd]]
            /\ child' \in [Relayed -> {"none", "failed", "running", "ended"}]
            /\ \A n \in Descriptor :
                 fds'[n] = IF /\ fds[n][1] = e
                              /\ n \in Remembered(e)
                                         \union {known[e].client, known[e].origin}
                           THEN Closed ELSE fds[n]
            /\ \A r \in Role : known'[e][r] = 0
            /\ \A x \in Relayed : x # e => known'[x] = known[x]
            /\ \A x \in Relayed : /\ child'[x] = "running" <=> child[x] = "running"
                                  /\ child'[x] = "none" => child[x] = "none"
<1> DEFINE Mine(n) == /\ fds[n][1] = e
                      /\ n \in Remembered(e)
                                 \union {known[e].client, known[e].origin}
<1>1. CASE \E n \in Remembered(e) : fds[n][1] \notin {0, e}
  BY <1>1 DEF EndExchange
<1>2. CASE ~\E n \in Remembered(e) : fds[n][1] \notin {0, e}
  <2>1. /\ fds' = [n \in Descriptor |-> IF Mine(n) THEN Closed ELSE fds[n]]
        /\ known' = [known EXCEPT ![e] = [r \in Role |-> 0]]
        /\ child' = [child EXCEPT ![e] = IF @ = "running" THEN @ ELSE "ended"]
        /\ harm' = harm
    BY <1>2 DEF EndExchange
  <2> HIDE DEF Mine
  <2>2. \A n \in Descriptor : fds'[n] = IF Mine(n) THEN Closed ELSE fds[n]
    BY <2>1
  <2>3. fds' \in [Descriptor -> (Relayed \X Role) \union {Closed, Leaked}]
    BY <2>1 DEF DescriptorsType
  <2>4. /\ known' \in [Relayed -> [Role -> 0..MaxFd]]
        /\ \A r \in Role : known'[e][r] = 0
        /\ \A x \in Relayed : x # e => known'[x] = known[x]
    <3>1. [r \in Role |-> 0] \in [Role -> 0..MaxFd]
      BY DescriptorsAssumption
    <3>2. QED
      BY <2>1, <3>1 DEF DescriptorsType
  <2>5. /\ child' \in [Relayed -> {"none", "failed", "running", "ended"}]
        /\ \A x \in Relayed : /\ child'[x] = "running" <=> child[x] = "running"
                              /\ child'[x] = "none" => child[x] = "none"
    <3>1. CASE child[e] = "running"
      BY <2>1, <3>1 DEF DescriptorsType
    <3>2. CASE child[e] # "running"
      BY <2>1, <3>2 DEF DescriptorsType
    <3>3. QED
      BY <3>1, <3>2
  <2>6. QED
    BY <2>1, <2>2, <2>3, <2>4, <2>5 DEF Mine
<1>3. QED
  BY <1>1, <1>2

\* Numbers stay numbers, and holders holders.
LEMMA TypeStep == IInv /\ [DescriptorsNext]_descriptors => DescriptorsType'
<1> SUFFICES ASSUME IInv, [DescriptorsNext]_descriptors PROVE DescriptorsType'
  OBVIOUS
<1> USE DEF IInv, DescriptorsType
<1>1. /\ MaxFd \in Nat /\ MaxAccepted \in Nat /\ Descriptor = 1..MaxFd
      /\ Relayed = 1..MaxAccepted
      /\ Closed \in (Relayed \X Role) \union {Closed, Leaked}
      /\ Leaked \in (Relayed \X Role) \union {Closed, Leaked}
      /\ \A e \in Relayed, r \in Role :
           <<e, r>> \in (Relayed \X Role) \union {Closed, Leaked}
      /\ Free \subseteq Descriptor
      /\ "client" \in Role /\ "origin" \in Role /\ "infd" \in Role /\ "outfd" \in Role
  BY DescriptorsAssumption DEF Descriptor, Relayed, Free, Role
<1>2. CASE AcceptClient
  <2>1. Nth(1) \in Descriptor /\ Nth(1) \in 0..MaxFd
    BY <1>1, <1>2, LowestNumbers DEF AcceptClient
  <2>2. begun' \in Relayed /\ begun' \in 0..MaxAccepted
    BY <1>1, <1>2 DEF AcceptClient
  <2>3. QED
    BY <1>1, <1>2, <2>1, <2>2 DEF AcceptClient
<1>3. ASSUME NEW e \in Relayed, ConnectOrigin(e) PROVE DescriptorsType'
  <2>1. Nth(1) \in Descriptor /\ Nth(1) \in 0..MaxFd
    BY <1>1, <1>3, LowestNumbers DEF ConnectOrigin
  <2>2. QED
    BY <1>1, <1>3, <2>1 DEF ConnectOrigin
<1>4. ASSUME NEW e \in Relayed, InitTransform(e) PROVE DescriptorsType'
  <2>1. at' \in Nat /\ slave' \subseteq Descriptor
    BY <1>1, <1>4, HandlingType DEF InitTransform
  <2>2. CASE InitTransformFails(e)
    BY <1>1, <1>4, <2>1, <2>2 DEF InitTransformFails, InitTransform
  <2>3. CASE InitTransformDone(e)
    <3>1. /\ Nth(2) \in Descriptor /\ Nth(2) \in 0..MaxFd
          /\ Nth(3) \in Descriptor /\ Nth(3) \in 0..MaxFd
      <4>1. Nth(2) \in Free /\ Nth(3) \in Free
        BY <2>3, LowestNumbers DEF InitTransformDone
      <4>2. \A f \in Free : f \in Descriptor /\ f \in 0..MaxFd
        BY <1>1
      <4>3. QED
        BY <4>1, <4>2, Zenon
    <3>2. Inherited(e) \subseteq Relayed
      BY DEF Inherited
    <3>3. QED
      BY <1>1, <1>4, <2>1, <2>3, <3>1, <3>2 DEF InitTransformDone, InitTransform
  <2>4. QED
    BY <1>4, <2>2, <2>3 DEF InitTransform
<1>5. ASSUME NEW e \in Relayed, InDone(e) \/ OutDone(e) \/ OutBlocks(e)
      PROVE  DescriptorsType'
  <2>1. at' \in Nat /\ slave' \subseteq Descriptor
    BY <1>1, <1>5, HandlingType, ZenonT(30) DEF InDone, OutDone, OutBlocks
  <2>2. QED
    BY <1>1, <1>5, <2>1 DEF InDone, OutDone, OutBlocks
<1>6. ASSUME NEW e \in Relayed, ClientEnds(e) PROVE DescriptorsType'
  <2>1. at' \in Nat /\ slave' \subseteq Descriptor /\ ended' \in BOOLEAN
    BY <1>1, <1>6, HandlingType DEF ClientEnds
  <2>2. EndExchange(e) /\ UNCHANGED <<begun, copies, fresh>>
    BY <1>6 DEF ClientEnds, EndExchange
  <2>3. /\ fds' \in [Descriptor -> (Relayed \X Role) \union {Closed, Leaked}]
        /\ known' \in [Relayed -> [Role -> 0..MaxFd]]
        /\ child' \in [Relayed -> {"none", "failed", "running", "ended"}]
    BY <2>2, Ending
  <2>4. QED
    BY <2>1, <2>2, <2>3
<1>7. ASSUME NEW e \in Relayed, ChildEnds(e) PROVE DescriptorsType'
  BY <1>1, <1>7 DEF ChildEnds
<1>8. CASE StartIteration \/ FinishIteration
  <2>1. at' \in Nat /\ slave' \subseteq Descriptor
    BY <1>8 DEF StartIteration, FinishIteration, Polled
  <2>2. fresh' \subseteq Relayed /\ ended' \in BOOLEAN
        /\ UNCHANGED <<fds, known, begun, child, copies>>
    BY <1>8 DEF StartIteration, FinishIteration
  <2>3. QED
    BY <2>1, <2>2
<1>9. CASE UNCHANGED descriptors
  BY <1>1, <1>9 DEF descriptors
<1>10. QED
  BY <1>2, <1>3, <1>4, <1>5, <1>6, <1>7, <1>8, <1>9 DEF DescriptorsNext

\* An exchange that has not begun knows nothing, one without a transformer no
\* pipe.
LEMMA NotYetStep == IInv /\ [DescriptorsNext]_descriptors => NotYet'
<1> SUFFICES ASSUME IInv, [DescriptorsNext]_descriptors PROVE NotYet'
  OBVIOUS
<1>1. /\ DescriptorsType /\ NotYet /\ "infd" \in Role /\ "outfd" \in Role
      /\ "origin" \in Role /\ "client" \in Role
      /\ begun \in Nat /\ begun' \in Nat /\ Relayed \subseteq Nat
  <2>1. DescriptorsType /\ NotYet /\ DescriptorsType'
    BY TypeStep DEF IInv
  <2>2. begun \in Nat /\ begun' \in Nat /\ Relayed \subseteq Nat
    BY <2>1, DescriptorsAssumption DEF DescriptorsType, Relayed
  <2>3. QED
    BY <2>1, <2>2 DEF Role
<1>2. CASE AcceptClient \/ \E e \in Relayed : ConnectOrigin(e)
  <2>1. PICK x \in Relayed, r \in {"client", "origin"}, n \in Descriptor :
          /\ x <= begun' /\ begun <= begun' /\ child' = child
          /\ \A y \in Relayed, s \in Role :
               y # x \/ s # r => known'[y][s] = known[y][s]
    BY <1>1, <1>2, Opening
  <2>2. ASSUME NEW e \in Relayed
        PROVE  e > begun' => \A s \in Role : known'[e][s] = 0
    <3>1. e \in Nat /\ x \in Nat
      BY <1>1
    <3>2. e > begun' => e > begun /\ e # x
      BY <1>1, <2>1, <3>1
    <3>3. QED
      BY <1>1, <2>1, <3>2 DEF NotYet
  <2>3. ASSUME NEW e \in Relayed, child'[e] = "none"
        PROVE  known'[e].infd = 0 /\ known'[e].outfd = 0
    BY <1>1, <2>1, <2>3 DEF NotYet
  <2>4. QED
    BY <2>2, <2>3 DEF NotYet
<1>3. ASSUME NEW e \in Relayed, InitTransform(e) PROVE NotYet'
  <2>1. /\ known[e]["origin"] # 0 /\ child'[e] # "none" /\ begun' = begun
        /\ \A x \in Relayed : x # e => child'[x] = child[x]
        /\ \A x \in Relayed, r \in Role : x # e => known'[x][r] = known[x][r]
    BY <1>1, <1>3, Transforming
  <2>2. ~(e > begun)
    BY <1>1, <2>1 DEF NotYet
  <2>3. QED
    BY <1>1, <2>1, <2>2 DEF NotYet
<1>4. ASSUME NEW e \in Relayed, InDone(e) \/ OutDone(e) PROVE NotYet'
  <2>1. UNCHANGED <<known, begun, child>>
    BY <1>1, <1>4, Closing
  <2>2. QED
    BY <1>1, <2>1 DEF NotYet
<1>5. ASSUME NEW e \in Relayed, ClientEnds(e) PROVE NotYet'
  <2>1. EndExchange(e) /\ begun' = begun
    BY <1>5 DEF ClientEnds, EndExchange
  <2>2. CASE UNCHANGED <<known, child>>
    BY <1>1, <2>1, <2>2 DEF NotYet
  <2>3. CASE /\ \A r \in Role : known'[e][r] = 0
             /\ \A x \in Relayed : x # e => known'[x] = known[x]
             /\ \A x \in Relayed : child'[x] = "none" => child[x] = "none"
    BY <1>1, <2>1, <2>3, ZenonT(30) DEF NotYet
  <2>4. QED
    BY <1>1, <2>1, <2>2, <2>3, Ending
<1>6. CASE \E e \in Relayed : OutBlocks(e)
  BY <1>1, <1>6 DEF OutBlocks, NotYet
<1>7. ASSUME NEW e \in Relayed, ChildEnds(e) PROVE NotYet'
  <2>1. UNCHANGED <<known, begun>> /\ \A x \in Relayed : child'[x] = "none" => child[x] = "none"
    BY <1>1, <1>7 DEF ChildEnds, DescriptorsType
  <2>2. QED
    BY <1>1, <2>1 DEF NotYet
<1>8. CASE StartIteration \/ FinishIteration \/ UNCHANGED descriptors
  BY <1>1, <1>8 DEF StartIteration, FinishIteration, descriptors, NotYet
<1>9. QED
  BY <1>2, <1>3, <1>4, <1>5, <1>6, <1>7, <1>8 DEF DescriptorsNext

\* Whoever inherits a pipe inherits that of a transformer.
LEMMA CopiesStep == IInv /\ [DescriptorsNext]_descriptors => CopiesAreOld'
<1> SUFFICES ASSUME IInv, [DescriptorsNext]_descriptors PROVE CopiesAreOld'
  OBVIOUS
<1>1. DescriptorsType /\ NotYet /\ CopiesAreOld /\ OwnNumbers
  BY DEF IInv
<1>2. ASSUME UNCHANGED copies, \A x \in Relayed : child'[x] = "none" => child[x] = "none"
      PROVE  CopiesAreOld'
  BY <1>1, <1>2 DEF CopiesAreOld
<1>3. CASE AcceptClient \/ \E e \in Relayed : ConnectOrigin(e)
  <2>1. UNCHANGED <<copies, child>>
    BY <1>1, <1>3, Opening
  <2>2. QED
    BY <1>2, <2>1
<1>4. ASSUME NEW e \in Relayed, InitTransform(e) PROVE CopiesAreOld'
  <2>1. \A x \in Relayed : child'[x] = "none" => child[x] = "none"
    BY <1>1, <1>4, Transforming
  <2>2. CASE UNCHANGED copies
    BY <1>2, <2>1, <2>2
  <2>3. CASE copies'[e] = Inherited(e) /\ \A x \in Relayed : x # e => copies'[x] = copies[x]
    <3>1. ASSUME NEW f \in Inherited(e) PROVE child[f] # "none"
      <4>1. f \in Relayed
        BY DEF Inherited
      <4>2. PICK n \in Descriptor : fds[n] = <<f, "infd">>
        BY DEF Inherited
      <4>3. fds[n][1] = f /\ fds[n][2] = "infd"
        BY <4>2
      <4>4. known[f]["infd"] = n /\ n # 0
        BY <1>1, <4>1, <4>3, Held DEF OwnNumbers
      <4>5. QED
        BY <1>1, <4>1, <4>4 DEF NotYet
    <3>2. QED
      BY <1>1, <2>1, <2>3, <3>1 DEF CopiesAreOld
  <2>4. QED
    BY <1>1, <1>4, <2>2, <2>3, Transforming
<1>5. ASSUME NEW e \in Relayed, InDone(e) \/ OutDone(e) PROVE CopiesAreOld'
  <2>1. UNCHANGED <<copies, child>>
    BY <1>1, <1>5, Closing
  <2>2. QED
    BY <1>2, <2>1
<1>6. ASSUME NEW e \in Relayed, ClientEnds(e) PROVE CopiesAreOld'
  <2>1. EndExchange(e) /\ UNCHANGED copies
    BY <1>6 DEF ClientEnds, EndExchange
  <2>2. \A x \in Relayed : child'[x] = "none" => child[x] = "none"
    BY <1>1, <2>1, Ending
  <2>3. QED
    BY <1>2, <2>1, <2>2
<1>7. ASSUME NEW e \in Relayed, ChildEnds(e) PROVE CopiesAreOld'
  <2>1. \A x \in Relayed : /\ child'[x] = "none" => child[x] = "none"
                           /\ copies'[x] \subseteq copies[x]
    BY <1>1, <1>7 DEF ChildEnds, DescriptorsType
  <2>2. QED
    BY <1>1, <2>1 DEF CopiesAreOld
<1>8. CASE StartIteration \/ FinishIteration \/ UNCHANGED descriptors
           \/ \E e \in Relayed : OutBlocks(e)
  BY <1>2, <1>8 DEF StartIteration, FinishIteration, descriptors, OutBlocks
<1>9. QED
  BY <1>3, <1>4, <1>5, <1>6, <1>7, <1>8 DEF DescriptorsNext

\* One number and one exchange of OwnNumbers.
OwnNumber(n, e) ==
  /\ fds[n][1] = e => known[e][fds[n][2]] = n
  /\ known[e].client = n => fds[n] = <<e, "client">>
  /\ known[e].origin = n => fds[n] = <<e, "origin">>

\* A number and what knows it come and go together.
LEMMA OwnStep == IInv /\ [DescriptorsNext]_descriptors => OwnNumbers'
<1> SUFFICES ASSUME IInv, [DescriptorsNext]_descriptors,
                    NEW m \in Descriptor, NEW y \in Relayed
             PROVE  OwnNumber(m, y)'
  BY DEF OwnNumbers, OwnNumber
<1>1. /\ DescriptorsType /\ NotYet
      /\ "client" \in Role /\ "origin" \in Role /\ "infd" \in Role /\ "outfd" \in Role
  BY DEF IInv, Role
<1>2. /\ OwnNumber(m, y) /\ m # 0
      /\ \/ fds[m] = Closed \/ fds[m] = Leaked
         \/ \E e \in Relayed, r \in Role : fds[m] = <<e, r>>
  BY <1>1, Held DEF IInv, OwnNumbers, OwnNumber
<1>3. CASE AcceptClient \/ \E e \in Relayed : ConnectOrigin(e)
  <2>1. PICK x \in Relayed, r \in {"client", "origin"}, n \in Descriptor :
          /\ known[x][r] = 0 /\ fds[n] = Closed /\ fds'[n] = <<x, r>>
          /\ \A k \in Descriptor : k # n => fds'[k] = fds[k]
          /\ known'[x][r] = n
          /\ \A e \in Relayed, s \in Role :
               e # x \/ s # r => known'[e][s] = known[e][s]
    BY <1>1, <1>3, Opening
  <2>2. CASE m = n
    <3>1. known[y]["client"] # m /\ known[y]["origin"] # m
      BY <1>2, <2>1, <2>2, Exchanges, <1>1 DEF OwnNumber
    <3>2. fds'[m] = <<x, r>> /\ known'[x][r] = m /\ <<x, r>>[1] = x /\ <<x, r>>[2] = r
      BY <2>1, <2>2
    <3>3. known'[y]["client"] = m => y = x /\ r = "client"
      BY <1>1, <2>1, <3>1
    <3>4. known'[y]["origin"] = m => y = x /\ r = "origin"
      BY <1>1, <2>1, <3>1
    <3>5. QED
      BY <3>2, <3>3, <3>4 DEF OwnNumber
  <2>3. CASE m # n
    <3>1. fds'[m] = fds[m]
      BY <2>1, <2>3
    <3>2. ASSUME fds[m][1] = y PROVE known'[y][fds[m][2]] = m
      <4>1. known[y][fds[m][2]] = m /\ fds[m][2] \in Role
        BY <1>2, <3>2, Exchanges DEF OwnNumber
      <4>2. QED
        BY <1>2, <2>1, <4>1
    <3>3. known'[y]["client"] = m => known[y]["client"] = m
      BY <1>1, <2>1, <2>3
    <3>4. known'[y]["origin"] = m => known[y]["origin"] = m
      BY <1>1, <2>1, <2>3
    <3>5. QED
      BY <1>2, <3>1, <3>2, <3>3, <3>4 DEF OwnNumber
  <2>4. QED
    BY <2>2, <2>3
<1>4. ASSUME NEW e \in Relayed, InitTransform(e) PROVE OwnNumber(m, y)'
  <2>1. CASE /\ \A n \in Descriptor : \/ fds'[n] = fds[n]
                                      \/ fds[n] = Closed /\ fds'[n] = Leaked
             /\ UNCHANGED known
    BY <1>2, <2>1, Exchanges DEF OwnNumber
  <2>2. CASE \E i, o \in Descriptor :
               /\ i # o /\ fds[i] = Closed /\ fds[o] = Closed
               /\ fds'[i] = <<e, "infd">> /\ fds'[o] = <<e, "outfd">>
               /\ \A n \in Descriptor : n \notin {i, o} => fds'[n] = fds[n]
               /\ known'[e].infd = i /\ known'[e].outfd = o
               /\ \A x \in Relayed, r \in Role :
                    x # e \/ r \in {"client", "origin"} => known'[x][r] = known[x][r]
    <3>1. PICK i, o \in Descriptor :
            /\ fds[i] = Closed /\ fds[o] = Closed
            /\ fds'[i] = <<e, "infd">> /\ fds'[o] = <<e, "outfd">>
            /\ \A n \in Descriptor : n \notin {i, o} => fds'[n] = fds[n]
            /\ known'[e]["infd"] = i /\ known'[e]["outfd"] = o
            /\ \A x \in Relayed, r \in Role :
                 x # e \/ r \in {"client", "origin"} => known'[x][r] = known[x][r]
      BY <2>2
    <3>2. /\ known'[y]["client"] = known[y]["client"]
          /\ known'[y]["origin"] = known[y]["origin"]
      BY <1>1, <3>1
    <3>3. CASE m \in {i, o}
      <4>1. known[y]["client"] # m /\ known[y]["origin"] # m
        BY <1>1, <1>2, <3>1, <3>3, Exchanges DEF OwnNumber
      <4>2. fds'[m][1] = y => known'[y][fds'[m][2]] = m
        BY <3>1, <3>3
      <4>3. QED
        BY <3>2, <4>1, <4>2 DEF OwnNumber
    <3>4. CASE m \notin {i, o}
      <4>1. fds'[m] = fds[m]
        BY <3>1, <3>4
      <4>2. ASSUME fds[m][1] = y PROVE known'[y][fds[m][2]] = m
        <5>1. known[y][fds[m][2]] = m /\ fds[m][2] \in Role
          BY <1>2, <4>2, Exchanges DEF OwnNumber
        <5>2. known[e]["infd"] = 0 /\ known[e]["outfd"] = 0
          BY <1>1, <1>4, Transforming DEF NotYet
        <5>3. ~(y = e /\ fds[m][2] \in {"infd", "outfd"})
          BY <1>2, <5>1, <5>2
        <5>4. QED
          BY <3>1, <5>1, <5>3 DEF Role
      <4>3. QED
        BY <1>2, <3>2, <4>1, <4>2 DEF OwnNumber
    <3>5. QED
      BY <3>3, <3>4
  <2>3. QED
    BY <1>1, <1>4, <2>1, <2>2, Transforming
<1>5. ASSUME NEW e \in Relayed, InDone(e) \/ OutDone(e) PROVE OwnNumber(m, y)'
  <2>1. PICK r \in {"infd", "outfd"}, n \in Descriptor :
          /\ fds[n] = <<e, r>> /\ fds'[n] = Closed
          /\ \A k \in Descriptor : k # n => fds'[k] = fds[k]
    BY <1>1, <1>5, Closing, SMTT(30)
  <2>2. known' = known
    BY <1>1, <1>5, Closing
  <2>3. CASE m = n
    <3>1. known[y]["client"] # m /\ known[y]["origin"] # m
      BY <1>2, <2>1, <2>3 DEF OwnNumber
    <3>2. QED
      BY <2>1, <2>2, <2>3, <3>1, Exchanges DEF OwnNumber
  <2>4. CASE m # n
    BY <1>2, <2>1, <2>2, <2>4 DEF OwnNumber
  <2>5. QED
    BY <2>3, <2>4
<1>6. ASSUME NEW e \in Relayed, ClientEnds(e) PROVE OwnNumber(m, y)'
  <2>1. EndExchange(e)
    BY <1>6 DEF ClientEnds
  <2>2. CASE UNCHANGED <<fds, known>>
    BY <1>2, <2>2 DEF OwnNumber
  <2>3. CASE /\ \A n \in Descriptor :
                  fds'[n] = IF /\ fds[n][1] = e
                               /\ n \in Remembered(e)
                                          \union {known[e].client, known[e].origin}
                            THEN Closed ELSE fds[n]
             /\ \A r \in Role : known'[e][r] = 0
             /\ \A x \in Relayed : x # e => known'[x] = known[x]
    <3>1. CASE fds[m][1] = e
      <4>1. known[e][fds[m][2]] = m
        BY <1>1, <3>1 DEF IInv, OwnNumbers
      <4>2. fds[m][2] \in Role
        BY <1>2, <3>1, Exchanges
      <4>3. fds'[m] = Closed
        BY <1>2, <2>3, <3>1, <4>1, <4>2 DEF Remembered, Role
      <4>4. known'[y]["client"] # m /\ known'[y]["origin"] # m
        <5>1. CASE y = e
          BY <1>1, <1>2, <2>3, <5>1
        <5>2. CASE y # e
          BY <1>2, <2>3, <3>1, <5>2 DEF OwnNumber
        <5>3. QED
          BY <5>1, <5>2
      <4>5. QED
        BY <4>3, <4>4, Exchanges DEF OwnNumber
    <3>2. CASE fds[m][1] # e
      <4>1. fds'[m] = fds[m]
        BY <2>3, <3>2
      <4>2. CASE y = e
        BY <1>1, <1>2, <2>3, <3>2, <4>1, <4>2 DEF OwnNumber
      <4>3. CASE y # e
        BY <1>2, <2>3, <4>1, <4>3 DEF OwnNumber
      <4>4. QED
        BY <4>2, <4>3
    <3>3. QED
      BY <3>1, <3>2
  <2>4. QED
    BY <1>1, <2>1, <2>2, <2>3, Ending
<1>7. CASE \/ \E e \in Relayed : OutBlocks(e) \/ ChildEnds(e)
           \/ StartIteration \/ FinishIteration \/ UNCHANGED descriptors
  <2>1. UNCHANGED <<fds, known>>
    BY <1>7 DEF OutBlocks, ChildEnds, StartIteration, FinishIteration, descriptors
  <2>2. QED
    BY <1>2, <2>1 DEF OwnNumber
<1>8. QED
  BY <1>3, <1>4, <1>5, <1>6, <1>7 DEF DescriptorsNext

\* What is still to be looked at was open when the iteration began; it is free
\* or a new pipe only after an exchange has ended.
LEMMA LookedStep == IInv /\ [DescriptorsNext]_descriptors => Looked'
<1> SUFFICES ASSUME IInv, [DescriptorsNext]_descriptors PROVE Looked'
  OBVIOUS
<1>1. /\ DescriptorsType /\ NotYet /\ Looked /\ slave \subseteq Descriptor
      /\ fresh \subseteq Relayed /\ 0 \notin Descriptor /\ "outfd" \in Role
      /\ "client" \in Role
  BY DescriptorsAssumption DEF IInv, DescriptorsType, Role, Descriptor
<1>2. CASE AcceptClient \/ \E e \in Relayed : ConnectOrigin(e)
  <2>1. at = 0 /\ UNCHANGED <<at, slave, fresh, ended>>
    BY <1>1, <1>2, Opening
  <2>2. QED
    BY <1>1, <2>1 DEF Looked
<1>3. ASSUME NEW e \in Relayed, InitTransform(e) PROVE Looked'
  <2>1. at' # 0 /\ slave' \subseteq slave /\ UNCHANGED ended
    BY <1>1, <1>3, Transforming
  <2>2. CASE /\ \A n \in Descriptor : \/ fds'[n] = fds[n]
                                      \/ fds[n] = Closed /\ fds'[n] = Leaked
             /\ UNCHANGED <<known, fresh>>
    <3>1. \A n \in slave' : /\ fds'[n] = Closed => ended'
                            /\ fds'[n][2] = "infd" => fds'[n][1] \in fresh'
      BY <1>1, <2>1, <2>2 DEF Looked, Closed, Leaked
    <3>2. QED
      BY <1>1, <2>1, <2>2, <3>1 DEF Looked
  <2>3. CASE /\ \E i, o \in Descriptor :
                  /\ i # o /\ fds[i] = Closed /\ fds[o] = Closed
                  /\ fds'[i] = <<e, "infd">> /\ fds'[o] = <<e, "outfd">>
                  /\ \A n \in Descriptor : n \notin {i, o} => fds'[n] = fds[n]
                  /\ known'[e].infd = i /\ known'[e].outfd = o
                  /\ \A x \in Relayed, r \in Role :
                       x # e \/ r \in {"client", "origin"}
                         => known'[x][r] = known[x][r]
             /\ fresh' = fresh \union {e}
    <3>1. PICK i, o \in Descriptor :
            /\ i # o /\ fds[i] = Closed /\ fds[o] = Closed
            /\ fds'[i] = <<e, "infd">> /\ fds'[o] = <<e, "outfd">>
            /\ \A n \in Descriptor : n \notin {i, o} => fds'[n] = fds[n]
            /\ known'[e]["outfd"] = o
            /\ \A x \in Relayed, r \in Role : x # e => known'[x][r] = known[x][r]
      BY <2>3
    <3>2. ASSUME NEW n \in slave' PROVE fds'[n] = Closed => ended'
      BY <1>1, <2>1, <3>1, Exchanges DEF Looked, Role
    <3>3. ASSUME NEW n \in slave' PROVE fds'[n][2] = "infd" => fds'[n][1] \in fresh'
      <4>1. CASE n \in {i, o}
        BY <2>3, <3>1, <4>1
      <4>2. CASE n \notin {i, o}
        BY <1>1, <2>1, <2>3, <3>1, <4>2 DEF Looked
      <4>3. QED
        BY <4>1, <4>2
    <3>4. ASSUME NEW x \in fresh', known'[x].outfd \in slave' PROVE ended'
      <4>1. CASE x = e
        BY <1>1, <2>1, <3>1, <3>4, <4>1 DEF Looked
      <4>2. CASE x # e
        <5>1. x \in fresh /\ x \in Relayed
          BY <1>1, <2>3, <3>4, <4>2
        <5>2. known'[x]["outfd"] = known[x]["outfd"]
          BY <1>1, <3>1, <4>2, <5>1
        <5>3. QED
          BY <1>1, <2>1, <3>4, <5>1, <5>2 DEF Looked
      <4>3. QED
        BY <4>1, <4>2
    <3>5. QED
      BY <2>1, <3>2, <3>3, <3>4 DEF Looked
  <2>4. QED
    BY <1>1, <1>3, <2>2, <2>3, Transforming
<1>4. ASSUME NEW e \in Relayed, InDone(e) \/ OutDone(e) PROVE Looked'
  <2>1. at' # 0 /\ e \notin fresh /\ UNCHANGED <<known, fresh, ended>>
    BY <1>1, <1>4, Closing
  <2>2. PICK r \in {"infd", "outfd"}, n \in Descriptor :
          /\ n = known[e][r] /\ fds[n] = <<e, r>> /\ fds'[n] = Closed
          /\ \A m \in Descriptor : m # n => fds'[m] = fds[m]
          /\ slave' = {m \in slave : m > n}
    BY <1>1, <1>4, Closing
  <2>3. n \in Nat
    BY DescriptorsAssumption DEF Descriptor
  <2>4. \A m \in slave' : m \in slave /\ m # n
    BY <2>2, <2>3
  <2>5. QED
    BY <1>1, <2>1, <2>2, <2>4 DEF Looked
<1>5. ASSUME NEW e \in Relayed, ClientEnds(e) PROVE Looked'
  <2>1. EndExchange(e) /\ UNCHANGED fresh
    BY <1>5 DEF ClientEnds, EndExchange
  <2>2. \/ at' # 0 /\ slave' \subseteq slave /\ ended'
        \/ slave' = {} /\ fresh' = {} /\ UNCHANGED ended
    BY <1>1, <1>5, <2>1, HandlingType DEF ClientEnds, Looked
  <2>3. \A n \in Descriptor : fds'[n] \in {fds[n], Closed}
    BY <1>1, <2>1, Ending
  <2>4. \A n \in slave' : fds'[n][2] = "infd" => fds'[n][1] \in fresh'
    BY <1>1, <2>1, <2>2, <2>3 DEF Looked, Closed
  <2>5. QED
    BY <2>2, <2>4 DEF Looked
<1>6. CASE \E e \in Relayed : OutBlocks(e)
  <2>1. PICK e \in Relayed : OutBlocks(e)
    BY <1>6
  <2>2. at' # 0 /\ slave' \subseteq slave /\ UNCHANGED <<fds, known, fresh, ended>>
    BY <1>1, <2>1, HandlingType DEF OutBlocks
  <2>3. QED
    BY <1>1, <2>2 DEF Looked
<1>7. CASE StartIteration
  <2>1. at = 0 /\ at' = 1 /\ slave' = Polled /\ UNCHANGED <<fds, fresh>>
    BY <1>7 DEF StartIteration
  <2>2. fresh' = {}
    BY <1>1, <2>1 DEF Looked
  <2>3. \A n \in slave' : fds'[n] # Closed /\ fds'[n][2] # "infd"
    BY <2>1 DEF Polled, Closed
  <2>4. QED
    BY <2>1, <2>2, <2>3 DEF Looked
<1>8. CASE FinishIteration
  BY <1>8 DEF FinishIteration, Looked
<1>9. CASE UNCHANGED descriptors \/ \E e \in Relayed : ChildEnds(e)
  <2>1. UNCHANGED <<fds, known, at, slave, fresh, ended>>
    BY <1>9 DEF ChildEnds, descriptors
  <2>2. QED
    BY <1>1, <2>1 DEF Looked
<1>10. QED
  BY <1>2, <1>3, <1>4, <1>5, <1>6, <1>7, <1>8, <1>9 DEF DescriptorsNext

\* The read that blocks is of a pipe with a number that was looked at.
LEMMA BlockedStep == IInv /\ [DescriptorsNext]_descriptors => BlockedOnlyThen'
<1> SUFFICES ASSUME IInv, [DescriptorsNext]_descriptors PROVE BlockedOnlyThen'
  OBVIOUS
<1>1. DescriptorsType /\ NotYet /\ Looked /\ BlockedOnlyThen
  BY DEF IInv
<1>2. CASE UNCHANGED <<harm, ended>>
  BY <1>1, <1>2 DEF BlockedOnlyThen
<1>3. CASE harm' \in {"none", "stranger"}
  BY <1>3 DEF BlockedOnlyThen
<1>4. CASE AcceptClient \/ \E e \in Relayed : ConnectOrigin(e)
  BY <1>1, <1>2, <1>4, Opening
<1>5. ASSUME NEW e \in Relayed, InitTransform(e) \/ InDone(e) \/ OutDone(e)
      PROVE  BlockedOnlyThen'
  BY <1>1, <1>2, <1>5, Transforming, Closing
<1>6. ASSUME NEW e \in Relayed, ClientEnds(e) PROVE BlockedOnlyThen'
  <2>1. EndExchange(e) /\ harm = "none"
    BY <1>6 DEF ClientEnds, Handling
  <2>2. QED
    BY <1>1, <1>3, <2>1, Ending
<1>7. ASSUME NEW e \in Relayed, OutBlocks(e) PROVE BlockedOnlyThen'
  BY <1>1, <1>7 DEF OutBlocks, Looked, BlockedOnlyThen
<1>8. CASE \/ \E e \in Relayed : ChildEnds(e)
           \/ StartIteration \/ FinishIteration \/ UNCHANGED descriptors
  BY <1>2, <1>3, <1>8 DEF ChildEnds, StartIteration, FinishIteration, descriptors
<1>9. QED
  BY <1>4, <1>5, <1>6, <1>7, <1>8 DEF DescriptorsNext

\* Nobody inherits the pipe of the child that is started last.
LEMMA CircleStep == IInv /\ [DescriptorsNext]_descriptors => NoCircle'
<1> SUFFICES ASSUME IInv, [DescriptorsNext]_descriptors PROVE NoCircle'
  OBVIOUS
<1>1. DescriptorsType /\ NotYet /\ CopiesAreOld /\ OwnNumbers /\ NoCircle
  BY DEF IInv
<1>2. ASSUME \A x \in Relayed : /\ child'[x] = "running" => child[x] = "running"
                                /\ copies'[x] \subseteq copies[x]
      PROVE  NoCircle'
  <2> SUFFICES ASSUME NEW S \in SUBSET {e \in Relayed : child'[e] = "running"}, S # {}
               PROVE  \E e \in S : \A f \in S : e \notin copies'[f]
    BY DEF NoCircle
  <2>1. S \in SUBSET {e \in Relayed : child[e] = "running"}
    BY <1>2
  <2>2. PICK e \in S : \A f \in S : e \notin copies[f]
    BY <1>1, <2>1 DEF NoCircle
  <2>3. QED
    BY <1>2, <2>2
<1>3. CASE AcceptClient \/ \E e \in Relayed : ConnectOrigin(e)
  BY <1>1, <1>2, <1>3, Opening
<1>4. ASSUME NEW e \in Relayed, InitTransform(e) PROVE NoCircle'
  <2>1. /\ child[e] = "none"
        /\ \A x \in Relayed : x # e => child'[x] = child[x]
    BY <1>1, <1>4, Transforming
  <2>2. CASE child'[e] = "failed" /\ UNCHANGED copies
    BY <1>2, <2>1, <2>2
  <2>3. CASE copies'[e] = Inherited(e) /\ \A x \in Relayed : x # e => copies'[x] = copies[x]
    <3>1. e \notin Inherited(e)
      <4>1. SUFFICES ASSUME NEW n \in Descriptor, fds[n] = <<e, "infd">> PROVE FALSE
        BY DEF Inherited
      <4>2. known[e]["infd"] = n /\ n # 0
        BY <1>1, <4>1, Held DEF OwnNumbers
      <4>3. QED
        BY <1>1, <2>1, <4>2 DEF NotYet
    <3> SUFFICES ASSUME NEW S \in SUBSET {x \in Relayed : child'[x] = "running"}, S # {}
                 PROVE  \E x \in S : \A f \in S : x \notin copies'[f]
      BY DEF NoCircle
    <3>2. CASE e \in S
      <4>1. \A f \in S : e \notin copies'[f]
        BY <1>1, <2>1, <2>3, <3>1 DEF CopiesAreOld
      <4>2. QED
        BY <3>2, <4>1
    <3>3. CASE e \notin S
      <4>1. S \in SUBSET {x \in Relayed : child[x] = "running"}
        BY <2>1, <3>3
      <4>2. PICK x \in S : \A f \in S : x \notin copies[f]
        BY <1>1, <4>1 DEF NoCircle
      <4>3. QED
        BY <2>3, <3>3, <4>2
    <3>4. QED
      BY <3>2, <3>3
  <2>4. QED
    BY <1>1, <1>4, <2>2, <2>3, Transforming
<1>5. ASSUME NEW e \in Relayed, InDone(e) \/ OutDone(e) PROVE NoCircle'
  BY <1>1, <1>2, <1>5, Closing
<1>6. ASSUME NEW e \in Relayed, ClientEnds(e) PROVE NoCircle'
  <2>1. EndExchange(e) /\ UNCHANGED copies
    BY <1>6 DEF ClientEnds, EndExchange
  <2>2. \A x \in Relayed : child'[x] = "running" => child[x] = "running"
    BY <1>1, <2>1, Ending
  <2>3. QED
    BY <1>2, <2>1, <2>2
<1>7. ASSUME NEW e \in Relayed, ChildEnds(e) PROVE NoCircle'
  BY <1>1, <1>2, <1>7 DEF ChildEnds, DescriptorsType
<1>8. CASE \/ \E e \in Relayed : OutBlocks(e)
           \/ StartIteration \/ FinishIteration \/ UNCHANGED descriptors
  BY <1>2, <1>8 DEF OutBlocks, StartIteration, FinishIteration, descriptors
<1>9. QED
  BY <1>3, <1>4, <1>5, <1>6, <1>7, <1>8 DEF DescriptorsNext

-----------------------------------------------------------------------------

\* Before the first client nobody holds anything.
LEMMA InitInv == DescriptorsInit => IInv
<1> SUFFICES ASSUME DescriptorsInit PROVE IInv
  OBVIOUS
<1> USE DEF DescriptorsInit
<1>1. DescriptorsType
  <2>1. /\ 0 \in 0..MaxFd /\ 0 \in 0..MaxAccepted
        /\ Closed \in (Relayed \X Role) \union {Closed, Leaked}
    BY DescriptorsAssumption
  <2>2. known \in [Relayed -> [Role -> 0..MaxFd]]
    BY <2>1
  <2>3. copies \in [Relayed -> SUBSET Relayed]
    OBVIOUS
  <2>4. QED
    BY <2>1, <2>2, <2>3 DEF DescriptorsType
<1>2. NotYet /\ CopiesAreOld /\ Looked
  BY DEF NotYet, CopiesAreOld, Looked, Role
<1>3. OwnNumbers
  <2>1. ASSUME NEW n \in Descriptor, NEW e \in Relayed
        PROVE  fds[n][1] # e /\ known[e].client # n /\ known[e].origin # n
    <3>1. e # 0 /\ n # 0
      BY DescriptorsAssumption DEF Relayed, Descriptor
    <3>2. QED
      BY <3>1 DEF Closed, Role
  <2>2. QED
    BY <2>1 DEF OwnNumbers
<1>4. BlockedOnlyThen /\ NoCircle
  BY DEF BlockedOnlyThen, NoCircle
<1>5. QED
  BY <1>1, <1>2, <1>3, <1>4 DEF IInv

\* The inductive invariant holds in every state.
LEMMA Invariance == DescriptorsSpec => []IInv
<1>1. IInv /\ [DescriptorsNext]_descriptors => IInv'
  BY TypeStep, NotYetStep, CopiesStep, LookedStep, OwnStep, BlockedStep,
     CircleStep DEF IInv
<1>2. QED
  BY <1>1, InitInv, PTL DEF DescriptorsSpec

(***************************************************************************)
(* What it is for.                                                          *)
(***************************************************************************)

\* However many exchanges there are and whatever order they begin, fail and
\* end in: every open descriptor is known to the exchange it was opened for
\* and to no other, and no exchange leaves one behind.
THEOREM NumbersAreOwned == DescriptorsSpec => []OwnNumbers
<1>1. IInv => OwnNumbers
  BY DEF IInv
<1>2. QED
  BY <1>1, Invariance, PTL

\* The loop waits in the read of a pipe that is given nothing only when an
\* exchange that ended in the same iteration has left its number to the pipe.
THEOREM BlockedByLeftovers == DescriptorsSpec => []BlockedOnlyThen
<1>1. IInv => BlockedOnlyThen
  BY DEF IInv
<1>2. QED
  BY <1>1, Invariance, PTL

\* However many transformers run, the copies of pipes they inherit never make
\* them wait for each other in a circle.
THEOREM ChildrenFinish == DescriptorsSpec => []NoCircle
<1>1. IInv => NoCircle
  BY DEF IInv
<1>2. QED
  BY <1>1, Invariance, PTL

=============================================================================
