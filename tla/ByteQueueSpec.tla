--------------------------- MODULE ByteQueueSpec ---------------------------
(***************************************************************************)
(* The abstract promise of buffer.c: a bounded queue of bytes.  Whoever     *)
(* fills it never writes more than the room, whoever drains it takes the    *)
(* oldest bytes, and nothing else changes what is pending.                  *)
(***************************************************************************)
EXTENDS ByteQueue

CONSTANT Byte

VARIABLE queue

QueueInit == queue = Empty

Fill ==
  \E n \in 1..Room(queue) :
    \E s \in [1..n -> Byte] : queue' = Put(queue, s)

Drain == \E n \in 0..Pending(queue) : queue' = Drop(queue, n)

Shift == queue' = Compact(queue)

Clear == queue' = Empty

QueueNext == Fill \/ Drain \/ Shift \/ Clear

QueueSpec == QueueInit /\ [][QueueNext]_queue
=============================================================================
