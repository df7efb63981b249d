------------------------------ MODULE Selector ------------------------------
(***************************************************************************)
(* selector.c: the event loop that multiplexes every descriptor of the      *)
(* proxy on one thread, and the notifications other threads send it.        *)
(*                                                                          *)
(* The selector is modelled with the most general users it may have: while  *)
(* a callback runs it may make any sequence of calls of selector.h (the     *)
(* actions of section "Calls"), and a thread a callback has started         *)
(* notifies the selector at any moment.  Two uses are left out because they *)
(* end the loop: a callback of handle_block that calls                      *)
(* selector_notify_block (module Connection shows where the proxy does it)  *)
(* and closing a descriptor that is still registered.                       *)
(***************************************************************************)
EXTENDS Naturals, Sequences, FiniteSets

CONSTANTS FD_SETSIZE,      \* descriptors are 0 .. FD_SETSIZE - 1
          Task,            \* blocking jobs, and the threads that run them
          SelectorThread,  \* the owner of the mutex while jobs are delivered
          NoOne            \* the owner of a free mutex

ASSUME SizeAssumption == FD_SETSIZE \in Nat \ {0}

ASSUME OwnerAssumption ==
  /\ SelectorThread \notin Task
  /\ NoOne \notin Task
  /\ SelectorThread # NoOne

FD == 0..(FD_SETSIZE - 1)

\* The bits of fd_interest, which also name the two sets pselect is given.
READ == "read"
WRITE == "write"
Op == {READ, WRITE}

VARIABLES
  used,       \* the descriptors whose item is in use (ITEM_USED)
  interest,   \* item->interest, as the set of its bits
  max_fd,     \* s->max_fd
  master,     \* master_r and master_w
  slave,      \* slave_r and slave_w after pselect returned
  idle,       \* the descriptors whose last_used is TIMEOUT seconds old
  pc,         \* where the selector thread is: in a callback or in the loop
  at,         \* handle_iteration: descriptor, next event of it, and n
  jobs,       \* s->resolution_jobs, newest first
  cursor,     \* handle_block_notifications: j and the jobs after it
  mutex,      \* the owner of resolution_mutex
  task,       \* how far each job is
  taskfd,     \* job->fd
  owed,       \* threads that have queued their job and not yet signalled
  sig         \* a SIGALRM is pending for the selector thread

items == <<used, interest, max_fd, master>>
loop == <<slave, at>>
notes == <<jobs, cursor, mutex, task, taskfd, owed, sig>>
vars == <<items, loop, idle, pc, notes>>

\* The callbacks: main before its loop, then one per kind of event.
Callback == Op \union {"main", "timeout", "block"}

\* The descriptor of the callback that runs (key.fd).
Key == IF pc = "block" THEN taskfd[Head(cursor)] ELSE at.fd

\* The locals of handle_iteration: i, the test it is about to make, and n.
At(fd, event, last) == [fd |-> fd, event |-> event, last |-> last]

\* The state main leaves selector_new in: it registers the listening sockets
\* before its loop, so the selector starts inside a callback of main.
Init ==
  /\ used = {}
  /\ interest = [f \in FD |-> {}]
  /\ max_fd = 0
  /\ master = [o \in Op |-> {}]
  /\ slave = [o \in Op |-> {}]
  /\ idle = {}
  /\ pc = "main"
  /\ at = At(0, READ, 0)
  /\ jobs = << >>
  /\ cursor = << >>
  /\ mutex = NoOne
  /\ task = [t \in Task |-> "free"]
  /\ taskfd = [t \in Task |-> 0]
  /\ owed = {}
  /\ sig = FALSE

-----------------------------------------------------------------------------
(***************************************************************************)
(* Calls: what a callback may ask of the selector.                          *)
(***************************************************************************)

\* Mutant of UpdateSets: a bit that is no longer wanted stays in its set.
UpdateSetsNoClear(f, i) ==
  [o \in Op |-> IF o \in i THEN master[o] \union {f} ELSE master[o]]

\* items_update_fdset_for_fd: the sets pselect will be given follow the
\* interest of the item.
UpdateSets(f, i) ==
  [o \in Op |-> IF o \in i THEN master[o] \union {f} ELSE master[o] \ {f}]

\* Mutant of IsMaxFd: the loop stops before max_fd.
IsMaxFdShort(m, u) ==
  LET seen == {f \in u : f < max_fd} IN
  /\ m \in seen \union {0}
  /\ \A f \in seen : f <= m

\* items_max_fd: the greatest descriptor in use among 0 .. max_fd, 0 if none.
IsMaxFd(m, u) ==
  LET seen == {f \in u : f <= max_fd} IN
  /\ m \in seen \union {0}
  /\ \A f \in seen : f <= m

\* Mutant of RaiseMax: max_fd taken for the first argument of pselect.
RaiseMaxPastIt(f) == max_fd' = IF f >= max_fd THEN f + 1 ELSE max_fd

RaiseMax(f) == max_fd' = IF f > max_fd THEN f ELSE max_fd

\* selector_register.  A descriptor in use gives SELECTOR_FDINUSE and no
\* change; main asks for room for every descriptor, so none is refused.
Register(f, i) ==
  /\ pc \in Callback
  /\ f \notin used
  /\ used' = used \union {f}
  /\ interest' = [interest EXCEPT ![f] = i]
  /\ idle' = idle \ {f}
  /\ RaiseMax(f)
  /\ master' = UpdateSets(f, i)
  /\ UNCHANGED <<loop, pc, notes>>

\* selector_unregister_fd once handle_close has returned (what handle_close
\* itself asks of the selector are calls that come before this one).
Unregister(f) ==
  /\ pc \in Callback
  /\ f \in used
  /\ used' = used \ {f}
  /\ interest' = [interest EXCEPT ![f] = {}]
  /\ idle' = idle \ {f}
  /\ master' = UpdateSets(f, {})
  /\ \E m \in FD : IsMaxFd(m, used \ {f}) /\ max_fd' = m
  /\ UNCHANGED <<loop, pc, notes>>

\* The common end of the three calls that change an interest.
NewInterest(f, i) ==
  /\ pc \in Callback
  /\ f \in used
  /\ interest' = [interest EXCEPT ![f] = i]
  /\ master' = UpdateSets(f, i)
  /\ UNCHANGED <<used, max_fd, loop, idle, pc, notes>>

SetInterest(f, i) == NewInterest(f, i)
AddInterest(f, i) == NewInterest(f, interest[f] \union i)
RemoveInterest(f, i) == NewInterest(f, interest[f] \ i)

\* pthread_create of a thread that will notify about the descriptor of the
\* callback (request_resolv).  Only events of a socket start one.
Spawn(t) ==
  /\ pc \in Op
  /\ task[t] = "free" /\ t \notin owed
  /\ task' = [task EXCEPT ![t] = "running"]
  /\ taskfd' = [taskfd EXCEPT ![t] = Key]
  /\ UNCHANGED <<items, loop, idle, pc, jobs, cursor, mutex, owed, sig>>

\* selector_notify_block called by a callback on its own descriptor
\* (headers_flush): the selector thread queues the job and signals itself.
NotifySelf(t) ==
  /\ pc \in Op
  /\ task[t] = "free" /\ t \notin owed
  /\ mutex = NoOne
  /\ jobs' = <<t>> \o jobs
  /\ task' = [task EXCEPT ![t] = "listed"]
  /\ taskfd' = [taskfd EXCEPT ![t] = Key]
  /\ sig' = TRUE
  /\ UNCHANGED <<items, loop, idle, pc, cursor, mutex, owed>>

-----------------------------------------------------------------------------
(***************************************************************************)
(* The loop: selector_select, handle_iteration, handle_block_notifications. *)
(***************************************************************************)

\* pselect looks at the descriptors below its first argument, max_fd + 1.
Polled(o) == {f \in master[o] : f <= max_fd}

\* pselect returns with the ready descriptors r and w, none at its timeout;
\* meanwhile the descriptors of late have reached TIMEOUT.
Select(r, w, late) ==
  /\ pc = "select"
  /\ slave' = [o \in Op |-> IF o = READ THEN r ELSE w]
  /\ idle' = idle \union late
  /\ at' = At(0, READ, max_fd)
  /\ pc' = "scan"
  /\ UNCHANGED <<items, notes>>

\* A pending SIGALRM, blocked everywhere else, ends pselect with EINTR.
Interrupted ==
  /\ pc = "select"
  /\ sig
  /\ sig' = FALSE
  /\ pc' = "lock"
  /\ UNCHANGED <<items, loop, idle, jobs, cursor, mutex, task,
                 taskfd, owed>>

\* The three tests handle_iteration makes for a descriptor.
Due(f, e) ==
  IF e \in Op
  THEN f \in slave[e] /\ e \in interest[f]
  ELSE f \in used /\ f \in idle

\* Mutant of NextAt: the write test is skipped after the read test.
NextAtSkipsWrite ==
  IF at.event = READ THEN At(at.fd, "timeout", at.last)
                     ELSE At(at.fd + 1, READ, at.last)

\* read, write and timeout of one descriptor, then the next descriptor.
NextAt ==
  CASE at.event = READ  -> At(at.fd, WRITE, at.last)
    [] at.event = WRITE -> At(at.fd, "timeout", at.last)
    [] OTHER            -> At(at.fd + 1, READ, at.last)

\* An event is dispatched: last_used is refreshed by reads and writes only.
Dispatch ==
  /\ pc = "scan" /\ at.fd <= at.last
  /\ Due(at.fd, at.event)
  /\ pc' = at.event
  /\ idle' = IF at.event \in Op THEN idle \ {at.fd} ELSE idle
  /\ UNCHANGED <<items, loop, notes>>

SkipEvent ==
  /\ pc = "scan" /\ at.fd <= at.last
  /\ ~Due(at.fd, at.event)
  /\ at' = NextAt
  /\ UNCHANGED <<items, slave, idle, pc, notes>>

\* The iteration ends; its locals and the sets pselect filled are dead.
EndIteration ==
  /\ pc = "scan" /\ at.fd > at.last
  /\ pc' = "lock"
  /\ slave' = [o \in Op |-> {}]
  /\ at' = At(0, READ, 0)
  /\ UNCHANGED <<items, idle, notes>>

\* A callback returns to the place it was called from; main enters the loop.
ReturnFromMain ==
  /\ pc = "main"
  /\ pc' = "select"
  /\ UNCHANGED <<items, loop, idle, notes>>

ReturnFromEvent ==
  /\ pc \in Op \union {"timeout"}
  /\ pc' = "scan"
  /\ at' = NextAt
  /\ UNCHANGED <<items, slave, idle, notes>>

\* Mutant of Lock: the list is walked without resolution_mutex.
LockForgotten ==
  /\ pc = "lock"
  /\ cursor' = jobs
  /\ pc' = "deliver"
  /\ UNCHANGED <<items, loop, idle, jobs, mutex, task, taskfd,
                 owed, sig>>

\* handle_block_notifications takes the mutex and starts at the newest job.
Lock ==
  /\ pc = "lock"
  /\ mutex = NoOne
  /\ mutex' = SelectorThread
  /\ cursor' = jobs
  /\ pc' = "deliver"
  /\ UNCHANGED <<items, loop, idle, jobs, task, taskfd, owed, sig>>

\* The first job of the cursor is freed and the loop moves to the next one.
FreeJob ==
  /\ cursor' = Tail(cursor)
  /\ task' = [task EXCEPT ![Head(cursor)] = "free"]
  /\ taskfd' = [taskfd EXCEPT ![Head(cursor)] = 0]

\* handle_block is called when the descriptor of the job is in use ...
Deliver ==
  /\ pc = "deliver" /\ cursor # << >>
  /\ taskfd[Head(cursor)] \in used
  /\ pc' = "block"
  /\ UNCHANGED <<items, loop, idle, notes>>

ReturnFromBlock ==
  /\ pc = "block"
  /\ pc' = "deliver"
  /\ FreeJob
  /\ UNCHANGED <<items, loop, idle, jobs, mutex, owed, sig>>

\* ... and the job is dropped when it is not.
DropJob ==
  /\ pc = "deliver" /\ cursor # << >>
  /\ taskfd[Head(cursor)] \notin used
  /\ FreeJob
  /\ UNCHANGED <<items, loop, idle, pc, jobs, mutex, owed, sig>>

\* After the last job the list is emptied and the mutex released.
Unlock ==
  /\ pc = "deliver" /\ cursor = << >>
  /\ jobs' = << >>
  /\ mutex' = NoOne
  /\ pc' = "select"
  /\ UNCHANGED <<items, loop, idle, cursor, task, taskfd, owed, sig>>

-----------------------------------------------------------------------------
(***************************************************************************)
(* selector_notify_block on another thread.                                 *)
(***************************************************************************)

TaskLock(t) ==
  /\ task[t] = "running"
  /\ mutex = NoOne
  /\ mutex' = t
  /\ task' = [task EXCEPT ![t] = "locked"]
  /\ UNCHANGED <<items, loop, idle, pc, jobs, cursor, taskfd, owed,
                 sig>>

TaskQueue(t) ==
  /\ task[t] = "locked"
  /\ jobs' = <<t>> \o jobs
  /\ mutex' = NoOne
  /\ task' = [task EXCEPT ![t] = "listed"]
  /\ owed' = owed \union {t}
  /\ UNCHANGED <<items, loop, idle, pc, cursor, taskfd, sig>>

TaskSignal(t) ==
  /\ t \in owed
  /\ owed' = owed \ {t}
  /\ sig' = TRUE
  /\ UNCHANGED <<items, loop, idle, pc, jobs, cursor, mutex, task,
                 taskfd>>

-----------------------------------------------------------------------------

Calls ==
  \/ \E f \in FD, i \in SUBSET Op :
       \/ Register(f, i)
       \/ SetInterest(f, i)
       \/ AddInterest(f, i)
       \/ RemoveInterest(f, i)
  \/ \E f \in FD : Unregister(f)
  \/ \E t \in Task : Spawn(t) \/ NotifySelf(t)

SelectAny ==
  \E r \in SUBSET Polled(READ), w \in SUBSET Polled(WRITE),
     late \in SUBSET used : Select(r, w, late)

Return == ReturnFromMain \/ ReturnFromEvent \/ ReturnFromBlock

Loop ==
  \/ SelectAny \/ Interrupted
  \/ Dispatch \/ SkipEvent \/ EndIteration
  \/ Lock \/ Deliver \/ DropJob \/ Unlock
  \/ Return

TaskStep(t) == TaskLock(t) \/ TaskQueue(t) \/ TaskSignal(t)

Next == Calls \/ Loop \/ \E t \in Task : TaskStep(t)

Spec == Init /\ [][Next]_vars

\* Every ready descriptor is reported and the idle ones have aged.
SelectAll == Select(Polled(READ), Polled(WRITE), used)

(***************************************************************************)
(* The loop never stops (callbacks return, pselect returns at its timeout   *)
(* at the latest), a thread that resolves a name ends, a mutex that is free *)
(* again and again is granted, and pselect, which is interrupted once per   *)
(* signal, returns normally again and again.                                *)
(***************************************************************************)
Fairness ==
  /\ WF_vars(Loop)
  /\ WF_vars(Return)
  /\ SF_vars(SelectAll)
  /\ \A t \in Task :
       /\ SF_vars(TaskLock(t))
       /\ WF_vars(TaskQueue(t))
       /\ WF_vars(TaskSignal(t))

FairSpec == Spec /\ Fairness

-----------------------------------------------------------------------------
(***************************************************************************)
(* Properties                                                               *)
(***************************************************************************)

Location == Callback \union {"select", "scan", "lock", "deliver"}

\* Types of the variables.
TypeOK ==
  /\ used \subseteq FD
  /\ interest \in [FD -> SUBSET Op]
  /\ max_fd \in FD
  /\ master \in [Op -> SUBSET FD]
  /\ slave \in [Op -> SUBSET FD]
  /\ idle \subseteq FD
  /\ pc \in Location
  /\ at \in [fd : 0..FD_SETSIZE, event : Op \union {"timeout"}, last : FD]
  /\ jobs \in Seq(Task)
  /\ cursor \in Seq(Task)
  /\ mutex \in Task \union {SelectorThread, NoOne}
  /\ task \in [Task -> {"free", "running", "locked", "listed"}]
  /\ taskfd \in [Task -> FD]
  /\ owed \subseteq Task
  /\ sig \in BOOLEAN

\* What pselect is given is exactly what the items ask for: a descriptor
\* whose interest is forgotten is never served, and one that stays in a set
\* after it was closed makes pselect fail with EBADF, which ends the proxy.
PollsWhatItemsAsk ==
  \A o \in Op : Polled(o) = {f \in used : o \in interest[f]}

\* max_fd is max(.fds[].fd), whatever order descriptors come and go in: below
\* it descriptors would be deaf, above it the loop visits free items.
MaxFdIsMax ==
  /\ \A f \in used : f <= max_fd
  /\ max_fd \in used \union {0}

Delivering == pc \in {"deliver", "block"}

\* The jobs that no handle_block has had yet.
Waiting == IF Delivering THEN cursor ELSE jobs

ListedIsWaiting ==
  \A t \in Task :
    task[t] = "listed" <=> \E i \in 1..Len(Waiting) : Waiting[i] = t

Distinct(s) == \A i, j \in 1..Len(s) : s[i] = s[j] => i = j

\* A queued job is never lost while others are queued and delivered: it stays
\* in the list, exactly once (handle_block_notifications frees each job it
\* meets), until it is handed over.
NoJobLost == ListedIsWaiting /\ Distinct(Waiting)

\* A thread that has finished its work is heard: its job is delivered, or
\* dropped because its descriptor is gone, even when it signals between two
\* calls of pselect or is interrupted by the delivery of older jobs.
NotificationsArrive ==
  \A t \in Task : task[t] = "running" ~> task[t] = "free"

\* No starvation: a registered descriptor that stays ready for an operation
\* it is interested in gets its callback, or loses the interest.
ReadyIsServed ==
  \A f \in FD, o \in Op :
    (o \in interest[f]) ~>
      (o \notin interest[f] \/ (pc = o /\ Key = f))
=============================================================================
