----------------------------- MODULE ByteQueue -----------------------------
(***************************************************************************)
(* What the rest of the proxy sees of a struct buffer (buffer.h): the bytes *)
(* that were written and not yet read, and the room left after them.  The   *)
(* room is counted from the write pointer to the limit, so the cells before *)
(* the read pointer are not free until the buffer is compacted: base counts *)
(* them.  Module Buffer shows that the pointer structure of buffer.c        *)
(* implements these operators.                                              *)
(***************************************************************************)
EXTENDS Naturals, Sequences

CONSTANT Capacity        \* limit - data, the n given to buffer_init

ASSUME CapacityAssumption == Capacity \in Nat \ {0}

Empty == [base |-> 0, bytes |-> << >>]

\* The count buffer_write_ptr returns: limit - write.
Room(b) == Capacity - (b.base + Len(b.bytes))

\* The count buffer_read_ptr returns: write - read.
Pending(b) == Len(b.bytes)

\* Bytes stored at the write pointer and buffer_write_adv.
Put(b, s) == [base |-> b.base, bytes |-> b.bytes \o s]

\* buffer_read_adv(b, n), which compacts a buffer it has just emptied.
Drop(b, n) ==
  IF n = Len(b.bytes)
  THEN Empty
  ELSE [base |-> b.base + n, bytes |-> SubSeq(b.bytes, n + 1, Len(b.bytes))]

\* buffer_compact: the pending bytes move down to the start of the memory.
Compact(b) == [base |-> 0, bytes |-> b.bytes]
=============================================================================
