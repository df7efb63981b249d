---------------------------- MODULE Descriptors ----------------------------
(***************************************************************************)
(* The descriptor numbers that all exchanges share.  The kernel gives out   *)
(* the lowest free one, the selector's table of items is indexed by them,   *)
(* and the structures of an exchange remember those of its client, its      *)
(* origin and the two pipes to its transformer, also when they are closed.  *)
(*                                                                          *)
(* Only what opens, closes or reads a descriptor is here; what goes through *)
(* them is in Connection and Transform.  Listening sockets have lower       *)
(* numbers than all of these and come first in an iteration.                *)
(***************************************************************************)
EXTENDS Naturals, FiniteSets

CONSTANTS MaxFd,        \* the highest number the process may have
          MaxAccepted,  \* bound on the number of exchanges
          MediaActive   \* exchanges whose response is to be transformed

ASSUME DescriptorsAssumption ==
  MaxFd \in Nat /\ MaxAccepted \in Nat /\ MediaActive \subseteq 1..MaxAccepted

Descriptor == 1..MaxFd
Relayed == 1..MaxAccepted
Role == {"client", "origin", "infd", "outfd"}

\* Who has a descriptor that is open: an exchange, and what for; a pipe that
\* init_transform has left behind is nobody's.
Closed == <<0, "closed">>
Leaked == <<0, "leaked">>

VARIABLES
  fds,      \* the holder of each number; but for leaked ones, its item
  known,    \* the numbers in client_t and origin_t, 0 for -1
  begun,    \* how many exchanges there have been
  child,    \* the transformer of each: none, failed, running or ended
  copies,   \* exchanges whose infd a child has inherited
  at,       \* the next item handle_iteration looks at, 0 between iterations
  slave,    \* numbers pselect was given to read from, and not yet looked at
  fresh,    \* exchanges whose pipes were opened in this iteration
  ended,    \* an exchange has ended in this iteration
  harm      \* none, or what has happened to another exchange or to all

descriptors == <<fds, known, begun, child, copies, at, slave, fresh,
                 ended, harm>>

DescriptorsInit ==
  /\ fds = [n \in Descriptor |-> Closed]
  /\ known = [e \in Relayed |-> [r \in Role |-> 0]]
  /\ begun = 0
  /\ child = [e \in Relayed |-> "none"]
  /\ copies = [e \in Relayed |-> {}]
  /\ at = 0 /\ slave = {} /\ fresh = {} /\ ended = FALSE
  /\ harm = "none"

Free == {n \in Descriptor : fds[n] = Closed}

\* The i lowest free numbers, and the i-th.
Lowest(i) == {n \in Free : Cardinality({m \in Free : m < n}) < i}
Nth(i) == CHOOSE n \in Free : Cardinality({m \in Free : m < n}) = i - 1

\* Between two iterations, or in the handler of number n.
Handling(n) ==
  /\ harm = "none" /\ n # 0
  /\ at \in 1..n /\ at' = n + 1
  /\ slave' = {m \in slave : m > n}

-----------------------------------------------------------------------------

\* socks_passive_accept.
AcceptClient ==
  /\ harm = "none" /\ at = 0
  /\ begun < MaxAccepted /\ Free # {}
  /\ begun' = begun + 1
  /\ fds' = [fds EXCEPT ![Nth(1)] = <<begun', "client">>]
  /\ known' = [known EXCEPT ![begun'].client = Nth(1)]
  /\ UNCHANGED <<child, copies, at, slave, fresh, ended, harm>>

\* request_connect, in handle_block_notifications.
ConnectOrigin(e) ==
  /\ harm = "none" /\ at = 0
  /\ known[e].client # 0 /\ known[e].origin = 0 /\ Free # {}
  /\ fds' = [fds EXCEPT ![Nth(1)] = <<e, "origin">>]
  /\ known' = [known EXCEPT ![e].origin = Nth(1)]
  /\ UNCHANGED <<begun, child, copies, at, slave, fresh, ended, harm>>

\* init_transform fails: with no number for the second pipe the first stays
\* open, and both do without a process.
InitTransformFails(e) ==
  /\ child' = [child EXCEPT ![e] = "failed"]
  /\ fds' = LET left == IF Cardinality(Free) < 2 THEN {}
                         ELSE IF Cardinality(Free) < 4 THEN Lowest(2)
                         ELSE Lowest(4)
             IN [n \in Descriptor |-> IF n \in left THEN Leaked ELSE fds[n]]
  /\ UNCHANGED <<known, copies, fresh>>

\* Mutant of Inherited: the child does not close its copy of in[W].
InheritedToo(e) == {f \in Relayed : f = e \/ \E n \in Descriptor : fds[n] = <<f, "infd">>}

\* What fork copies and the child does not close.
Inherited(e) == {f \in Relayed : \E n \in Descriptor : fds[n] = <<f, "infd">>}

\* init_transform: of the four ends two stay open here.
InitTransformDone(e) ==
  /\ Cardinality(Free) >= 4
  /\ child' = [child EXCEPT ![e] = "running"]
  /\ copies' = [copies EXCEPT ![e] = Inherited(e)]
  /\ fds' = [fds EXCEPT ![Nth(2)] = <<e, "infd">>, ![Nth(3)] = <<e, "outfd">>]
  /\ known' = [known EXCEPT ![e].infd = Nth(2), ![e].outfd = Nth(3)]
  /\ fresh' = fresh \union {e}

\* headers_read of the origin comes to a response that is transformed.
InitTransform(e) ==
  /\ Handling(known[e].origin) /\ known[e].origin \in slave
  /\ e \in MediaActive /\ child[e] = "none"
  /\ InitTransformFails(e) \/ InitTransformDone(e)
  /\ UNCHANGED <<begun, ended, harm>>

\* copy_w of tIn comes to its end: transform_done, and o->infd stays. Its
\* interest was set by flush_body, after the iteration that opened it.
InDone(e) ==
  /\ Handling(known[e].infd) /\ e \notin fresh
  /\ fds[known[e].infd] = <<e, "infd">>
  /\ fds' = [fds EXCEPT ![known[e].infd] = Closed]
  /\ UNCHANGED <<known, begun, child, copies, fresh, ended, harm>>

\* copy_r of tOut reads the end of file, or anything once the exchange was
\* marked as over: transform_done, and o->outfd stays.
OutDone(e) ==
  /\ Handling(known[e].outfd) /\ known[e].outfd \in slave /\ e \notin fresh
  /\ fds[known[e].outfd] = <<e, "outfd">>
  /\ fds' = [fds EXCEPT ![known[e].outfd] = Closed]
  /\ UNCHANGED <<known, begun, child, copies, fresh, ended, harm>>

\* copy_r of tOut for what pselect said of a descriptor that had the number
\* before: read waits for a child that was given nothing.
OutBlocks(e) ==
  /\ Handling(known[e].outfd) /\ known[e].outfd \in slave /\ e \in fresh
  /\ harm' = "blocked"
  /\ UNCHANGED <<fds, known, begun, child, copies, fresh, ended>>

\* Mutant of Remembered: origin_close forgets the output of the transformer.
RememberedIn(e) == {known[e].infd} \ {0}

\* The numbers origin_close unregisters and closes, if they are registered.
Remembered(e) == {known[e].infd, known[e].outfd} \ {0}

\* client_done, which the block notifications and the handler of the client
\* come to.  Behaviours are not followed once it closes what is not its own.
EndExchange(e) ==
  /\ known[e].client # 0
  /\ IF \E n \in Remembered(e) : fds[n][1] \notin {0, e}
     THEN harm' = "stranger" /\ UNCHANGED <<fds, known, child>>
     ELSE /\ fds' = [n \in Descriptor |->
                       IF /\ fds[n][1] = e
                          /\ n \in Remembered(e)
                                     \union {known[e].client, known[e].origin}
                       THEN Closed ELSE fds[n]]
          /\ known' = [known EXCEPT ![e] = [r \in Role |-> 0]]
          /\ child' = [child EXCEPT ![e] = IF @ = "running" THEN @ ELSE "ended"]
          /\ UNCHANGED harm
  /\ UNCHANGED <<begun, copies, fresh>>

ClientEnds(e) ==
  \/ Handling(known[e].client) /\ EndExchange(e) /\ ended' = TRUE
  \/ harm = "none" /\ at = 0 /\ EndExchange(e)
     /\ UNCHANGED <<at, slave, ended>>

\* A child ends: its program is not found, it dies, or its input is at an end.
ChildEnds(e) ==
  /\ harm = "none" /\ child[e] = "running"
  /\ child' = [child EXCEPT ![e] = "ended"]
  /\ copies' = [copies EXCEPT ![e] = {}]
  /\ UNCHANGED <<fds, known, begun, at, slave, fresh, ended, harm>>

\* Mutant of Polled: a number stays in the set when its item is cleared.
PolledStill == {n \in Descriptor : fds[n][2] # "infd"}

\* OP_READ.
Polled == {n \in Descriptor : fds[n][2] \in {"client", "origin", "outfd"}}

StartIteration ==
  /\ harm = "none" /\ at = 0
  /\ at' = 1 /\ slave' = Polled
  /\ UNCHANGED <<fds, known, begun, child, copies, fresh, ended, harm>>

FinishIteration ==
  /\ harm = "none" /\ at # 0
  /\ at' = 0 /\ slave' = {} /\ fresh' = {} /\ ended' = FALSE
  /\ UNCHANGED <<fds, known, begun, child, copies, harm>>

DescriptorsNext ==
  \/ AcceptClient \/ StartIteration \/ FinishIteration
  \/ \E e \in Relayed :
       \/ ConnectOrigin(e) \/ InitTransform(e) \/ ClientEnds(e)
       \/ InDone(e) \/ OutDone(e) \/ OutBlocks(e) \/ ChildEnds(e)

DescriptorsSpec == DescriptorsInit /\ [][DescriptorsNext]_descriptors

-----------------------------------------------------------------------------

\* A descriptor that is open is known to the exchange it was opened for, under
\* what it is for, and to no other one: none is left behind by an exchange
\* that is over, and what an exchange has is what it opened, but for a pipe it
\* has closed.
OwnNumbers ==
  \A n \in Descriptor, e \in Relayed :
    /\ fds[n][1] = e => known[e][fds[n][2]] = n
    /\ known[e].client = n => fds[n] = <<e, "client">>
    /\ known[e].origin = n => fds[n] = <<e, "origin">>

\* The loop waits in the read of a pipe only if an exchange has ended in the
\* same iteration, and left its number to the pipe.
BlockedOnlyThen == harm = "blocked" => ended

\* Children have copies of the pipes to the ones before them and see no end of
\* their input while a copy is left, but they never wait for each other in a
\* circle: of any of them, one waits for nobody but this process.
NoCircle ==
  \A S \in SUBSET {e \in Relayed : child[e] = "running"} :
    S # {} => \E e \in S : \A f \in S : e \notin copies[f]

\* selector.h:131: the close handler of a descriptor frees what belongs to it.
\* An exchange that ends closes no descriptor of another one.
NoStranger == harm # "stranger"
====
