------------------------------- MODULE Buffer -------------------------------
(***************************************************************************)
(* buffer.c: one struct buffer over Limit cells of memory.  data is cell 0, *)
(* so limit is Limit; read and write are the two pointers; mem is the       *)
(* memory they point into, whose cells keep what was last stored in them.   *)
(* Each action is one operation as its callers use it: a write is           *)
(* buffer_write_ptr, the copy (recv, read, memcpy) and buffer_write_adv.    *)
(***************************************************************************)
EXTENDS Naturals, Sequences

CONSTANTS Byte,          \* the values a cell can hold
          Limit          \* the n of buffer_init

ASSUME LimitAssumption == Limit \in Nat \ {0}

ASSUME ByteAssumption == Byte # {}

VARIABLES mem, read, write

bufferVars == <<mem, read, write>>

Cell == 0..(Limit - 1)

BufferInit ==
  /\ mem \in [Cell -> Byte]
  /\ read = 0
  /\ write = 0

\* Mutant of WriteCount: the count starts at the read pointer.
WriteCountFromRead == Limit - read

\* *nbyte of buffer_write_ptr and of buffer_read_ptr.
WriteCount == Limit - write
ReadCount == write - read

\* Where buffer_compact leaves the pointers and the memory when the pointers
\* it starts from are r and w: memmove copies the pending cells to the start.
CompactRead == 0

CompactWrite(r, w) == w - r

\* Mutant of CompactMem: the pointers move and the bytes do not.
CompactMemForgotten(r, w) == mem

CompactMem(r, w) ==
  IF r = 0 \/ r = w
  THEN mem
  ELSE [c \in Cell |-> IF c < w - r THEN mem[c + r] ELSE mem[c]]

\* Mutant of ReadAdv: an emptied buffer is not compacted.
ReadAdvNoCompact(n) == read' = read + n /\ UNCHANGED <<mem, write>>

\* buffer_read_adv(b, n): advance, and compact when nothing is pending.
ReadAdv(n) ==
  LET r == read + n IN
  IF r = write
  THEN /\ mem' = CompactMem(r, write)
       /\ read' = CompactRead
       /\ write' = CompactWrite(r, write)
  ELSE /\ read' = r
       /\ UNCHANGED <<mem, write>>

\* buffer_write_ptr, n bytes copied there, buffer_write_adv(b, n).  A failed
\* recv gives n = -1 and changes nothing.
Write(s) ==
  /\ Len(s) <= WriteCount
  /\ mem' = [c \in Cell |-> IF c \in write..(write + Len(s) - 1)
                            THEN s[c - write + 1] ELSE mem[c]]
  /\ write' = write + Len(s)
  /\ UNCHANGED read

\* buffer_read_ptr, n bytes taken from there, buffer_read_adv(b, n).
Read(n) ==
  /\ n <= ReadCount
  /\ ReadAdv(n)

\* buffer_write: one byte, dropped when there is no room.
WriteByte(c) ==
  /\ WriteCount > 0
  /\ Write(<<c>>)

\* buffer_read: one byte, 0 and no change when nothing is pending.
ReadByte ==
  /\ ReadCount > 0
  /\ ReadAdv(1)

\* buffer_compact called on its own.
CompactNow ==
  /\ mem' = CompactMem(read, write)
  /\ read' = CompactRead
  /\ write' = CompactWrite(read, write)

\* buffer_reset.
Reset ==
  /\ read' = 0
  /\ write' = 0
  /\ UNCHANGED mem

BufferNext ==
  \/ \E n \in 1..WriteCount : \E s \in [1..n -> Byte] : Write(s)
  \/ \E n \in 0..ReadCount : Read(n)
  \/ \E c \in Byte : WriteByte(c)
  \/ ReadByte
  \/ CompactNow
  \/ Reset

BufferSpec == BufferInit /\ [][BufferNext]_bufferVars

-----------------------------------------------------------------------------
(***************************************************************************)
(* Properties                                                               *)
(***************************************************************************)

\* Types of the three variables; the pointers stay inside the memory, one
\* past the last cell included.
TypeOK ==
  /\ mem \in [Cell -> Byte]
  /\ read \in 0..Limit
  /\ write \in 0..Limit

\* The invariant buffer.h states, R <= W <= limit: after any sequence of
\* operations the three assertions of buffer.c can not fail.
PointersOrdered == read <= write /\ write <= Limit

\* A buffer with nothing to read offers its whole memory.  recv on a full
\* buffer gives 0 bytes and send is not tried on an empty one, so a buffer
\* that was both at once would stop its connection for ever.
EmptyIsFree == read = write => WriteCount = Limit

\* The bytes of memory m from pointer r up to pointer w, oldest first.
Segment(m, r, w) == [i \in 1..(w - r) |-> m[r + i - 1]]

Contents == Segment(mem, read, write)

Queue == INSTANCE ByteQueueSpec WITH
           Capacity <- Limit,
           queue <- [base |-> read, bytes |-> Contents]

\* The pointers and the memory implement the byte queue: bytes come out once
\* each and in the order they went in, and moving them down to the start of
\* the memory changes none of them.
ImplementsQueue == Queue!QueueSpec
=============================================================================
