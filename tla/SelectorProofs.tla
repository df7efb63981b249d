--------------------------- MODULE SelectorProofs ---------------------------
(* Theorems about selector.c for any number of descriptors and jobs.        *)
EXTENDS Selector, SequenceTheorems, TLAPS

-----------------------------------------------------------------------------
(***************************************************************************)
(* Types.                                                                   *)
(***************************************************************************)

\* An event callback runs inside the scanned range, and handle_block runs for
\* the first job of the cursor.
TypeInv ==
  /\ TypeOK
  /\ pc \in Op \union {"timeout"} => at.fd <= at.last
  /\ pc = "block" => cursor # << >>

\* The record of a test made inside the scanned range, and its fields.
LEMMA AtType ==
  ASSUME NEW f \in 0..FD_SETSIZE, NEW e \in Op \union {"timeout"}, NEW l \in FD
  PROVE  /\ At(f, e, l) \in [fd : 0..FD_SETSIZE, event : Op \union {"timeout"}, last : FD]
         /\ At(f, e, l).fd = f
         /\ At(f, e, l).event = e
         /\ At(f, e, l).last = l
  BY DEF At

\* Moving on to the next event stays in the table of items.
LEMMA NextAtType ==
  ASSUME TypeOK, at.fd <= at.last
  PROVE  NextAt \in [fd : 0..FD_SETSIZE, event : Op \union {"timeout"}, last : FD]
<1>1. /\ at.fd \in FD
      /\ at.last \in FD
      /\ at.event \in Op \union {"timeout"}
      /\ at.fd + 1 \in 0..FD_SETSIZE
      /\ at.fd \in 0..FD_SETSIZE
  BY SizeAssumption DEF TypeOK, FD
<1>2. /\ READ \in Op \union {"timeout"}
      /\ WRITE \in Op \union {"timeout"}
  BY DEF Op
<1>3. QED
  BY <1>1, <1>2, AtType DEF NextAt

\* selector_new leaves every variable in its type.
LEMMA InitType == Init => TypeInv
<1> SUFFICES ASSUME Init PROVE TypeInv
  OBVIOUS
<1>1. 0 \in FD /\ 0 \in 0..FD_SETSIZE /\ READ \in Op \union {"timeout"}
  BY SizeAssumption DEF FD, Op
<1>2. at \in [fd : 0..FD_SETSIZE, event : Op \union {"timeout"}, last : FD]
  BY <1>1, AtType DEF Init
<1>3. pc \in Location /\ pc = "main"
  BY DEF Init, Location, Callback
<1>4. << >> \in Seq(Task)
  BY EmptySeq
<1>5. QED
  BY <1>1, <1>2, <1>3, <1>4 DEF Init, TypeInv, TypeOK, Op, READ, WRITE

\* items_update_fdset_for_fd keeps sets of descriptors.
LEMMA UpdateSetsType ==
  ASSUME TypeOK, NEW f \in FD, NEW i \in SUBSET Op
  PROVE  UpdateSets(f, i) \in [Op -> SUBSET FD]
  BY DEF TypeOK, UpdateSets

\* The key of an event callback names a descriptor of the table.
LEMMA KeyType == TypeInv /\ pc \in Op => Key \in FD
<1> SUFFICES ASSUME TypeInv, pc \in Op PROVE Key \in FD
  OBVIOUS
<1>1. pc # "block" /\ pc \in Op \union {"timeout"}
  BY DEF Op, READ, WRITE
<1>2. at.fd \in 0..FD_SETSIZE /\ at.last \in 0..(FD_SETSIZE - 1) /\ at.fd <= at.last
  BY <1>1 DEF TypeInv, TypeOK, FD
<1>3. at.fd \in FD
  BY <1>2, SizeAssumption DEF FD
<1>4. QED
  BY <1>1, <1>3 DEF Key

\* Every step keeps the types, whatever the callbacks call.
LEMMA StepType == TypeInv /\ [Next]_vars => TypeInv'
<1> SUFFICES ASSUME TypeInv, [Next]_vars PROVE TypeInv'
  OBVIOUS
<1> USE DEF TypeInv, TypeOK
<1>0. /\ READ \in Op /\ WRITE \in Op
      /\ 0 \in FD /\ 0 \in 0..FD_SETSIZE
  BY SizeAssumption DEF FD, Op, READ, WRITE
<1>1. ASSUME NEW f \in FD, NEW i \in SUBSET Op, Register(f, i)
      PROVE  TypeInv'
  <2>1. master' \in [Op -> SUBSET FD]
    BY <1>1, UpdateSetsType DEF Register
  <2>2. max_fd' \in FD
    BY <1>1 DEF Register, RaiseMax
  <2>3. QED
    BY <1>1, <2>1, <2>2 DEF Register, loop, notes
<1>2. ASSUME NEW f \in FD, Unregister(f)
      PROVE  TypeInv'
  <2>1. master' \in [Op -> SUBSET FD]
    BY <1>2, UpdateSetsType DEF Unregister
  <2>2. max_fd' \in FD
    BY <1>2 DEF Unregister
  <2>3. QED
    BY <1>2, <2>1, <2>2 DEF Unregister, loop, notes
<1>3. ASSUME NEW f \in FD, NEW i \in SUBSET Op, NewInterest(f, i)
      PROVE  TypeInv'
  <2>1. master' \in [Op -> SUBSET FD]
    BY <1>3, UpdateSetsType DEF NewInterest
  <2>2. QED
    BY <1>3, <2>1 DEF NewInterest, loop, notes
<1>4. ASSUME NEW t \in Task, Spawn(t)
      PROVE  TypeInv'
  <2>1. Key \in FD
    BY <1>4, KeyType DEF Spawn
  <2>2. QED
    BY <1>4, <2>1 DEF Spawn, items, loop
<1>5. ASSUME NEW t \in Task, NotifySelf(t)
      PROVE  TypeInv'
  <2>1. Key \in FD
    BY <1>5, KeyType DEF NotifySelf
  <2>2. jobs' \in Seq(Task)
    BY <1>5 DEF NotifySelf
  <2>3. QED
    BY <1>5, <2>1, <2>2 DEF NotifySelf, items, loop
<1>6. CASE SelectAny
  <2>1. PICK r \in SUBSET Polled(READ), w \in SUBSET Polled(WRITE), late \in SUBSET used :
          Select(r, w, late)
    BY <1>6 DEF SelectAny
  <2>2. slave' \in [Op -> SUBSET FD]
    BY <2>1, <1>0 DEF Select, Polled
  <2>3. at' \in [fd : 0..FD_SETSIZE, event : Op \union {"timeout"}, last : FD]
    BY <2>1, <1>0, AtType DEF Select
  <2>4. pc' = "scan" /\ pc' \in Location
    BY <2>1 DEF Select, Location
  <2>5. QED
    BY <2>1, <2>2, <2>3, <2>4 DEF Select, items, notes, Op, READ, WRITE
<1>7. CASE Interrupted
  BY <1>7 DEF Interrupted, items, loop, Location, Op, READ, WRITE
<1>8. CASE Dispatch
  <2>1. pc' \in Op \union {"timeout"} /\ pc' \in Location /\ pc' # "block"
    BY <1>8 DEF Dispatch, Location, Callback, Op, READ, WRITE
  <2>2. idle' \subseteq FD
    BY <1>8 DEF Dispatch
  <2>3. QED
    BY <1>8, <2>1, <2>2 DEF Dispatch, items, loop, notes, FD
<1>9. CASE SkipEvent
  <2>1. at' \in [fd : 0..FD_SETSIZE, event : Op \union {"timeout"}, last : FD]
    BY <1>9, NextAtType DEF SkipEvent, FD
  <2>2. QED
    BY <1>9, <2>1, <1>0 DEF SkipEvent, items, notes, Op, READ, WRITE
<1>10. CASE EndIteration
  <2>1. at' \in [fd : 0..FD_SETSIZE, event : Op \union {"timeout"}, last : FD]
    BY <1>10, <1>0, AtType DEF EndIteration
  <2>2. QED
    BY <1>10, <2>1, <1>0 DEF EndIteration, items, notes, Location, Op, READ, WRITE
<1>11. CASE ReturnFromMain
  BY <1>11, <1>0 DEF ReturnFromMain, items, loop, notes, Location, Op, READ, WRITE
<1>12. CASE ReturnFromEvent
  <2>1. at' \in [fd : 0..FD_SETSIZE, event : Op \union {"timeout"}, last : FD]
    BY <1>12, NextAtType DEF ReturnFromEvent
  <2>2. QED
    BY <1>12, <2>1, <1>0 DEF ReturnFromEvent, items, notes, Location, Op, READ, WRITE
<1>13. CASE FreeJob /\ cursor # << >> /\ pc' = "deliver"
             /\ UNCHANGED <<items, loop, idle, jobs, mutex, owed, sig>>
  <2>1. Head(cursor) \in Task /\ cursor' \in Seq(Task)
    BY <1>13 DEF FreeJob
  <2>2. QED
    BY <1>13, <2>1, <1>0 DEF FreeJob, items, loop, Location, Op, READ, WRITE
<1>14. CASE Lock
  BY <1>14, <1>0 DEF Lock, items, loop, Location, Op, READ, WRITE
<1>15. CASE Deliver
  BY <1>15, <1>0 DEF Deliver, items, loop, notes, Location, Callback, Op, READ, WRITE
<1>16. CASE Unlock
  <2>1. jobs' \in Seq(Task)
    BY <1>16, EmptySeq DEF Unlock
  <2>2. QED
    BY <1>16, <2>1, <1>0 DEF Unlock, items, loop, Location, Op, READ, WRITE
<1>17. ASSUME NEW t \in Task, TaskStep(t)
       PROVE  TypeInv'
  <2>1. CASE TaskLock(t)
    BY <2>1 DEF TaskLock, items, loop
  <2>2. CASE TaskQueue(t)
    <3>1. jobs' \in Seq(Task)
      BY <2>2 DEF TaskQueue
    <3>2. QED
      BY <2>2, <3>1 DEF TaskQueue, items, loop
  <2>3. CASE TaskSignal(t)
    BY <2>3 DEF TaskSignal, items, loop
  <2>4. QED
    BY <1>17, <2>1, <2>2, <2>3 DEF TaskStep
<1>18. CASE UNCHANGED vars
  BY <1>18 DEF vars, items, loop, notes
<1>19. CASE Calls
  <2>1. ASSUME NEW f \in FD, NEW i \in SUBSET Op
        PROVE  interest[f] \union i \in SUBSET Op /\ interest[f] \ i \in SUBSET Op
    OBVIOUS
  <2>2. QED
    BY <1>19, <2>1, <1>1, <1>2, <1>3, <1>4, <1>5
       DEF Calls, SetInterest, AddInterest, RemoveInterest
<1>20. CASE Loop
  <2>1. ReturnFromBlock \/ DropJob
        => FreeJob /\ cursor # << >> /\ pc' = "deliver"
           /\ UNCHANGED <<items, loop, idle, jobs, mutex, owed, sig>>
    BY DEF ReturnFromBlock, DropJob
  <2>2. QED
    BY <1>20, <2>1, <1>6, <1>7, <1>8, <1>9, <1>10, <1>11, <1>12, <1>13, <1>14,
       <1>15, <1>16 DEF Loop, Return
<1>21. QED
  BY <1>17, <1>18, <1>19, <1>20 DEF Next

\* The selector keeps its types.
THEOREM Types == Spec => []TypeInv
<1>1. QED
  BY InitType, StepType, PTL DEF Spec

\* Type correctness of the selector for every number of descriptors and jobs.
THEOREM Typing == Spec => []TypeOK
<1>1. TypeInv => TypeOK
  BY DEF TypeInv
<1>2. QED
  BY <1>1, Types, PTL

-----------------------------------------------------------------------------
(***************************************************************************)
(* The sets given to pselect.                                               *)
(***************************************************************************)

\* The two sets hold what the items ask for, free items ask for nothing, and
\* max_fd bounds the items in use: what makes PollsWhatItemsAsk inductive.
ItemsInv ==
  /\ \A o \in Op : master[o] = {f \in used : o \in interest[f]}
  /\ \A f \in FD \ used : interest[f] = {}
  /\ MaxFdIsMax

\* Nothing is registered in a new selector.
LEMMA InitItems == Init => ItemsInv
  BY DEF Init, ItemsInv, MaxFdIsMax

\* One item changes its interest and stays in use.
LEMMA UpdateSetsFollows ==
  ASSUME TypeInv, ItemsInv, NEW f \in FD, NEW i \in SUBSET Op,
         interest' = [interest EXCEPT ![f] = i],
         master' = UpdateSets(f, i),
         used' = used \union {f} \/ (used' = used \ {f} /\ i = {})
  PROVE  /\ \A o \in Op : master'[o] = {g \in used' : o \in interest'[g]}
         /\ \A g \in FD \ used' : interest'[g] = {}
<1>1. ASSUME NEW o \in Op
      PROVE  master'[o] = {g \in used' : o \in interest'[g]}
  <2>1. master'[o] = IF o \in i THEN master[o] \union {f} ELSE master[o] \ {f}
    BY DEF UpdateSets
  <2>2. master[o] = {g \in used : o \in interest[g]}
    BY DEF ItemsInv
  <2>3. interest'[f] = i /\ \A g \in used \ {f} : interest'[g] = interest[g]
    BY DEF TypeInv, TypeOK
  <2>4. QED
    BY <2>1, <2>2, <2>3
<1>2. ASSUME NEW g \in FD \ used'
      PROVE  interest'[g] = {}
  BY <1>2 DEF ItemsInv, TypeInv, TypeOK
<1>3. QED
  BY <1>1, <1>2

\* Every step keeps the sets, the interests and max_fd together.
LEMMA StepItems == TypeInv /\ ItemsInv /\ [Next]_vars => ItemsInv'
<1> SUFFICES ASSUME TypeInv, ItemsInv, [Next]_vars PROVE ItemsInv'
  OBVIOUS
<1>0. max_fd \in Nat /\ used \subseteq Nat /\ MaxFdIsMax
  BY SizeAssumption DEF TypeInv, TypeOK, FD, ItemsInv
<1>1. ASSUME NEW f \in FD, NEW i \in SUBSET Op, Register(f, i)
      PROVE  ItemsInv'
  <2>1. f \in Nat
    BY SizeAssumption DEF FD
  <2>2. MaxFdIsMax'
    BY <1>0, <1>1, <2>1 DEF Register, RaiseMax, MaxFdIsMax
  <2>3. QED
    BY <1>1, <2>2, UpdateSetsFollows DEF Register, ItemsInv
<1>2. ASSUME NEW f \in FD, Unregister(f)
      PROVE  ItemsInv'
  <2>1. \A g \in used \ {f} : g <= max_fd
    BY <1>0 DEF MaxFdIsMax
  <2>2. MaxFdIsMax'
    BY <1>2, <2>1 DEF Unregister, IsMaxFd, MaxFdIsMax
  <2>3. QED
    BY <1>2, <2>2, UpdateSetsFollows DEF Unregister, ItemsInv
<1>3. ASSUME NEW f \in FD, NEW i \in SUBSET Op, NewInterest(f, i)
      PROVE  ItemsInv'
  <2>1. MaxFdIsMax'
    BY <1>0, <1>3 DEF NewInterest, MaxFdIsMax
  <2>2. used' = used \union {f}
    BY <1>3 DEF NewInterest
  <2>3. QED
    BY <1>3, <2>1, <2>2, UpdateSetsFollows DEF NewInterest, ItemsInv
<1>4. CASE UNCHANGED items
  BY <1>4 DEF items, ItemsInv, MaxFdIsMax
<1>5. Loop \/ UNCHANGED vars \/ (\E t \in Task : TaskStep(t) \/ Spawn(t) \/ NotifySelf(t))
      => UNCHANGED items
  BY DEF Loop, SelectAny, Select, Interrupted, Dispatch, SkipEvent, EndIteration,
         Lock, Deliver, DropJob, Unlock, Return, ReturnFromMain, ReturnFromEvent,
         ReturnFromBlock, TaskStep, TaskLock, TaskQueue, TaskSignal, Spawn,
         NotifySelf, vars
<1>6. ASSUME NEW f \in FD, NEW i \in SUBSET Op
      PROVE  interest[f] \union i \in SUBSET Op /\ interest[f] \ i \in SUBSET Op
  BY DEF TypeInv, TypeOK
<1>7. QED
  BY <1>1, <1>2, <1>3, <1>4, <1>5, <1>6
     DEF Next, Calls, SetInterest, AddInterest, RemoveInterest

\* pselect is always given exactly what the registered items ask for.
THEOREM Polling == Spec => []PollsWhatItemsAsk
<1>1. ItemsInv => PollsWhatItemsAsk
  BY DEF ItemsInv, MaxFdIsMax, PollsWhatItemsAsk, Polled
<1>2. Spec => []ItemsInv
  BY InitItems, StepItems, Types, PTL DEF Spec
<1>3. QED
  BY <1>1, <1>2, PTL

\* max_fd is always the greatest registered descriptor.
THEOREM MaxFd == Spec => []MaxFdIsMax
<1>1. ItemsInv => MaxFdIsMax
  BY DEF ItemsInv
<1>2. Spec => []ItemsInv
  BY InitItems, StepItems, Types, PTL DEF Spec
<1>3. QED
  BY <1>1, <1>2, PTL

-----------------------------------------------------------------------------
(***************************************************************************)
(* The list of jobs.                                                        *)
(***************************************************************************)

InList(t, s) == \E i \in 1..Len(s) : s[i] = t

\* The mutex keeps the list still while it is walked and no job is in it
\* twice: what makes NoJobLost inductive.
JobsInv ==
  /\ ListedIsWaiting
  /\ Distinct(Waiting)
  /\ Delivering <=> mutex = SelectorThread
  /\ \A t \in Task : mutex = t <=> task[t] = "locked"

\* A job put at the front of a list that does not have it.
LEMMA FrontShape ==
  ASSUME NEW S, NEW s \in Seq(S), NEW t \in S, ~InList(t, s), Distinct(s)
  PROVE  /\ Distinct(<<t>> \o s)
         /\ \A u \in S : InList(u, <<t>> \o s) <=> (u = t \/ InList(u, s))
<1> DEFINE r == <<t>> \o s
<1>1. /\ Len(r) = Len(s) + 1
      /\ r[1] = t
      /\ \A i \in 1..Len(s) : r[i + 1] = s[i]
      /\ Len(s) \in Nat
  OBVIOUS
<1>2. \A i \in 1..Len(r) : i = 1 \/ (i - 1 \in 1..Len(s) /\ r[i] = s[i - 1])
  <2>1. SUFFICES ASSUME NEW i \in 1..Len(r), i # 1
                 PROVE  i - 1 \in 1..Len(s) /\ r[i] = s[i - 1]
    OBVIOUS
  <2>2. i - 1 \in 1..Len(s) /\ (i - 1) + 1 = i
    BY <1>1, <2>1
  <2>3. QED
    BY <1>1, <2>2
<1> HIDE DEF r
<1>3. Distinct(r)
  <2>1. SUFFICES ASSUME NEW i \in 1..Len(r), NEW j \in 1..Len(r), r[i] = r[j]
                 PROVE  i = j
    BY DEF Distinct
  <2>2. CASE i = 1 \/ j = 1
    BY <1>1, <1>2, <2>1, <2>2 DEF InList
  <2>3. CASE i # 1 /\ j # 1
    <3>1. i - 1 \in 1..Len(s) /\ j - 1 \in 1..Len(s) /\ s[i - 1] = s[j - 1]
      BY <1>2, <2>1, <2>3
    <3>2. i - 1 = j - 1
      BY <3>1 DEF Distinct
    <3>3. QED
      BY <3>2
  <2>4. QED
    BY <2>2, <2>3
<1>4. \A u \in S : InList(u, r) <=> (u = t \/ InList(u, s))
  <2>1. ASSUME NEW u \in S, InList(u, r), u # t
        PROVE  InList(u, s)
    <3>1. PICK i \in 1..Len(r) : r[i] = u
      BY <2>1 DEF InList
    <3>2. i - 1 \in 1..Len(s) /\ s[i - 1] = u
      BY <1>1, <1>2, <2>1, <3>1
    <3>3. QED
      BY <3>2 DEF InList
  <2>2. ASSUME NEW u \in S, u = t \/ InList(u, s)
        PROVE  InList(u, r)
    <3>1. CASE u = t
      BY <1>1, <3>1 DEF InList
    <3>2. CASE InList(u, s)
      <4>1. PICK i \in 1..Len(s) : s[i] = u
        BY <3>2 DEF InList
      <4>2. i + 1 \in 1..Len(r) /\ r[i + 1] = u
        BY <1>1, <4>1
      <4>3. QED
        BY <4>2 DEF InList
    <3>3. QED
      BY <2>2, <3>1, <3>2
  <2>3. QED
    BY <2>1, <2>2
<1>5. QED
  BY <1>3, <1>4 DEF r

\* The list after its first job has been taken off.
LEMMA TailShape ==
  ASSUME NEW S, NEW s \in Seq(S), s # << >>, Distinct(s)
  PROVE  /\ Distinct(Tail(s))
         /\ \A u \in S : InList(u, Tail(s)) <=> (u # Head(s) /\ InList(u, s))
<1> DEFINE r == Tail(s)
<1>1. /\ Len(s) \in Nat /\ Len(s) >= 1
      /\ Len(r) = Len(s) - 1
      /\ Head(s) = s[1]
      /\ \A i \in 1..Len(r) : r[i] = s[i + 1] /\ i + 1 \in 1..Len(s)
  BY EmptySeq
<1> HIDE DEF r
<1>2. Distinct(r)
  <2>1. SUFFICES ASSUME NEW i \in 1..Len(r), NEW j \in 1..Len(r), r[i] = r[j]
                 PROVE  i = j
    BY DEF Distinct
  <2>2. i + 1 = j + 1
    BY <1>1, <2>1 DEF Distinct
  <2>3. QED
    BY <2>2
<1>3. ASSUME NEW u \in S, InList(u, r)
      PROVE  u # Head(s) /\ InList(u, s)
  <2>1. PICK i \in 1..Len(r) : r[i] = u
    BY <1>3 DEF InList
  <2>2. i + 1 \in 1..Len(s) /\ s[i + 1] = u /\ i + 1 # 1 /\ 1 \in 1..Len(s)
    BY <1>1, <2>1
  <2>3. u # s[1]
    BY <2>2 DEF Distinct
  <2>4. QED
    BY <1>1, <2>2, <2>3 DEF InList
<1>4. ASSUME NEW u \in S, u # Head(s), InList(u, s)
      PROVE  InList(u, r)
  <2>1. PICK i \in 1..Len(s) : s[i] = u
    BY <1>4 DEF InList
  <2>2. i - 1 \in 1..Len(r) /\ (i - 1) + 1 = i
    BY <1>1, <1>4, <2>1
  <2>3. r[i - 1] = u
    BY <1>1, <2>1, <2>2
  <2>4. QED
    BY <2>2, <2>3 DEF InList
<1>5. QED
  BY <1>2, <1>3, <1>4 DEF r

\* A new selector has no jobs.
LEMMA InitJobs == Init => JobsInv
  BY OwnerAssumption, EmptySeq
     DEF Init, JobsInv, ListedIsWaiting, Distinct, Waiting, Delivering, Callback

\* Every step of the selector and of the threads keeps the list.
LEMMA StepJobs == TypeInv /\ TypeInv' /\ JobsInv /\ [Next]_vars => JobsInv'
<1> SUFFICES ASSUME TypeInv, TypeInv', JobsInv, [Next]_vars PROVE JobsInv'
  OBVIOUS
<1>0. /\ jobs \in Seq(Task) /\ cursor \in Seq(Task)
      /\ \A t \in Task : task[t] = "listed" <=> InList(t, Waiting)
      /\ \A t \in Task : mutex = t <=> task[t] = "locked"
      /\ Distinct(Waiting)
      /\ pc \in Op => ~Delivering
      /\ task \in [Task -> {"free", "running", "locked", "listed"}]
  BY DEF TypeInv, TypeOK, JobsInv, ListedIsWaiting, InList, Delivering, Op, READ, WRITE
\* Steps that leave the jobs, the mutex and the phase of the delivery alone.
<1>1. ASSUME Delivering' = Delivering, UNCHANGED <<jobs, cursor, mutex, task>>
      PROVE  JobsInv'
  <2>1. Waiting' = Waiting
    BY <1>1 DEF Waiting
  <2>2. QED
    BY <1>1, <2>1 DEF JobsInv, ListedIsWaiting, Distinct
\* A job is put on the list while nobody walks it.
<1>2. ASSUME NEW t \in Task, ~Delivering, ~Delivering', task[t] # "listed",
             jobs' = <<t>> \o jobs, task' = [task EXCEPT ![t] = "listed"],
             mutex = t \/ mutex = NoOne, mutex' = NoOne
      PROVE  JobsInv'
  <2>1. Waiting = jobs /\ Waiting' = <<t>> \o jobs
    BY <1>2 DEF Waiting
  <2>2. Distinct(Waiting') /\ \A u \in Task : InList(u, Waiting') <=> (u = t \/ InList(u, jobs))
    BY <1>0, <1>2, <2>1, FrontShape
  <2>3. ListedIsWaiting'
    <3>1. ASSUME NEW u \in Task
          PROVE  task'[u] = "listed" <=> InList(u, Waiting')
      BY <1>0, <1>2, <2>1, <2>2
    <3>2. QED
      BY <3>1 DEF ListedIsWaiting, InList
  <2>4. \A u \in Task : mutex' = u <=> task'[u] = "locked"
    BY <1>0, <1>2, OwnerAssumption
  <2>5. QED
    BY <1>2, <2>2, <2>3, <2>4, OwnerAssumption DEF JobsInv, Distinct
\* The first job of the cursor is freed.
<1>3. ASSUME Delivering, Delivering', FreeJob, cursor # << >>,
             UNCHANGED <<jobs, mutex>>
      PROVE  JobsInv'
  <2>1. Waiting = cursor /\ Waiting' = Tail(cursor) /\ Head(cursor) \in Task
    BY <1>0, <1>3 DEF Waiting, FreeJob
  <2>2. /\ Distinct(Waiting')
        /\ \A u \in Task : InList(u, Waiting') <=> (u # Head(cursor) /\ InList(u, cursor))
    BY <1>0, <1>3, <2>1, TailShape
  <2>3. InList(Head(cursor), cursor)
    BY <1>0, <1>3, EmptySeq DEF InList
  <2>4. \A u \in Task : task'[u] = IF u = Head(cursor) THEN "free" ELSE task[u]
    BY <1>0, <1>3 DEF FreeJob
  <2>5. ListedIsWaiting'
    <3>1. ASSUME NEW u \in Task
          PROVE  task'[u] = "listed" <=> InList(u, Waiting')
      BY <1>0, <2>1, <2>2, <2>4
    <3>2. QED
      BY <3>1 DEF ListedIsWaiting, InList
  <2>6. task[Head(cursor)] = "listed"
    BY <1>0, <2>1, <2>3
  <2>7. \A u \in Task : mutex' = u <=> task'[u] = "locked"
    BY <1>0, <1>3, <2>4, <2>6
  <2>8. QED
    BY <1>3, <2>2, <2>5, <2>7 DEF JobsInv, Distinct
<1>4. CASE Lock
  <2>1. ~Delivering /\ Delivering' /\ Waiting' = Waiting /\ task' = task
        /\ mutex' = SelectorThread /\ mutex = NoOne
    BY <1>4 DEF Lock, Delivering, Waiting
  <2>2. QED
    BY <2>1, OwnerAssumption DEF JobsInv, ListedIsWaiting, Distinct
<1>5. CASE Unlock
  <2>1. Delivering /\ ~Delivering' /\ Waiting' = Waiting /\ task' = task
        /\ mutex' = NoOne
    BY <1>5 DEF Unlock, Delivering, Waiting
  <2>2. mutex = SelectorThread
    BY <2>1 DEF JobsInv
  <2>3. QED
    BY <2>1, <2>2, OwnerAssumption DEF JobsInv, ListedIsWaiting, Distinct
<1>6. ASSUME NEW t \in Task, TaskLock(t)
      PROVE  JobsInv'
  <2>1. /\ Delivering' = Delivering /\ Waiting' = Waiting
        /\ mutex = NoOne /\ mutex' = t
        /\ \A u \in Task : task'[u] = IF u = t THEN "locked" ELSE task[u]
        /\ task[t] = "running"
    BY <1>0, <1>6 DEF TaskLock, Delivering, Waiting
  <2>2. ListedIsWaiting'
    BY <1>0, <2>1 DEF ListedIsWaiting, InList
  <2>3. \A u \in Task : mutex' = u <=> task'[u] = "locked"
    BY <1>0, <2>1, OwnerAssumption
  <2>4. QED
    BY <2>1, <2>2, <2>3, OwnerAssumption DEF JobsInv, Distinct
<1>7. ASSUME NEW t \in Task, Spawn(t)
      PROVE  JobsInv'
  <2>1. /\ Delivering' = Delivering /\ Waiting' = Waiting /\ mutex' = mutex
        /\ \A u \in Task : task'[u] = IF u = t THEN "running" ELSE task[u]
        /\ task[t] = "free"
    BY <1>0, <1>7 DEF Spawn, Delivering, Waiting
  <2>2. ListedIsWaiting'
    BY <1>0, <2>1 DEF ListedIsWaiting, InList
  <2>3. \A u \in Task : mutex' = u <=> task'[u] = "locked"
    BY <1>0, <2>1
  <2>4. QED
    BY <2>1, <2>2, <2>3 DEF JobsInv, Distinct
<1>8. ASSUME NEW t \in Task, NotifySelf(t)
      PROVE  JobsInv'
  <2>1. ~Delivering /\ ~Delivering'
    BY <1>0, <1>8 DEF NotifySelf, Delivering
  <2>2. QED
    BY <1>2, <1>8, <2>1 DEF NotifySelf
<1>9. ASSUME NEW t \in Task, TaskQueue(t)
      PROVE  JobsInv'
  <2>1. mutex = t
    BY <1>0, <1>9 DEF TaskQueue
  <2>2. ~Delivering /\ ~Delivering'
    BY <1>9, <2>1, OwnerAssumption DEF TaskQueue, JobsInv, Delivering
  <2>3. QED
    BY <1>2, <1>9, <2>1, <2>2 DEF TaskQueue
<1>10. ASSUME NEW t \in Task, TaskSignal(t)
       PROVE  JobsInv'
  BY <1>1, <1>10 DEF TaskSignal, Delivering
<1>11. CASE ReturnFromBlock \/ DropJob
  <2>1. Delivering /\ Delivering' /\ FreeJob /\ cursor # << >> /\ UNCHANGED <<jobs, mutex>>
    BY <1>11 DEF ReturnFromBlock, DropJob, FreeJob, Delivering, TypeInv
  <2>2. QED
    BY <1>3, <2>1
<1>12. CASE Deliver \/ ReturnFromMain \/ ReturnFromEvent \/ EndIteration \/ SkipEvent
            \/ Interrupted \/ SelectAny
  <2>1. Delivering' = Delivering /\ UNCHANGED <<jobs, cursor, mutex, task>>
    BY <1>12 DEF Deliver, ReturnFromMain, ReturnFromEvent, EndIteration, SkipEvent,
                 Interrupted, SelectAny, Select, Delivering, notes, Op, READ, WRITE
  <2>2. QED
    BY <1>1, <2>1
<1>13. CASE Dispatch
  <2>1. at.event \in Op \union {"timeout"}
    BY DEF TypeInv, TypeOK
  <2>2. Delivering' = Delivering /\ UNCHANGED <<jobs, cursor, mutex, task>>
    BY <1>13, <2>1 DEF Dispatch, Delivering, notes, Op, READ, WRITE
  <2>3. QED
    BY <1>1, <2>2
<1>14. ASSUME NEW f \in FD, NEW i \in SUBSET Op,
              Register(f, i) \/ NewInterest(f, i) \/ Unregister(f)
       PROVE  JobsInv'
  BY <1>1, <1>14 DEF Register, NewInterest, Unregister, Delivering, notes
<1>15. CASE UNCHANGED vars
  BY <1>1, <1>15 DEF vars, notes, Delivering
<1>16. CASE Calls
  <2>1. ASSUME NEW f \in FD, NEW i \in SUBSET Op
        PROVE  interest[f] \union i \in SUBSET Op /\ interest[f] \ i \in SUBSET Op
    BY DEF TypeInv, TypeOK
  <2>2. ASSUME NEW f \in FD, NEW i \in SUBSET Op,
               Register(f, i) \/ SetInterest(f, i) \/ AddInterest(f, i)
                 \/ RemoveInterest(f, i) \/ Unregister(f)
        PROVE  JobsInv'
    BY <2>1, <2>2, <1>14 DEF SetInterest, AddInterest, RemoveInterest
  <2>3. ASSUME NEW t \in Task, Spawn(t) \/ NotifySelf(t)
        PROVE  JobsInv'
    BY <1>7, <1>8, <2>3
  <2>4. QED
    BY <1>16, <2>2, <2>3 DEF Calls
<1>17. CASE Loop
  BY <1>17, <1>4, <1>5, <1>11, <1>12, <1>13 DEF Loop, Return
<1>18. QED
  BY <1>6, <1>9, <1>10, <1>15, <1>16, <1>17 DEF Next, TaskStep

\* A queued job stays in the list, once, until it is delivered or dropped.
THEOREM JobsKept == Spec => []NoJobLost
<1>1. JobsInv => NoJobLost
  BY DEF JobsInv, NoJobLost
<1>2. Spec => []JobsInv
  BY InitJobs, StepJobs, Types, PTL DEF Spec
<1>3. QED
  BY <1>1, <1>2, PTL
=============================================================================
