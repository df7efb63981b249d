---------------------------- MODULE BufferProofs ----------------------------
(* Theorems about buffer.c for every memory size and every byte set.        *)
EXTENDS Buffer, SequenceTheorems, TLAPS

\* The inductive invariant: the pointers are ordered, and they meet only at
\* the start of the memory, which is what the compaction in buffer_read_adv
\* is for.
BufferInv ==
  /\ TypeOK
  /\ PointersOrdered
  /\ read = write => read = 0

\* buffer_init leaves both pointers at the start.
LEMMA InitInv == BufferInit => BufferInv
  BY LimitAssumption DEF BufferInit, BufferInv, TypeOK, PointersOrdered, Cell

\* buffer_compact leaves the memory a memory.
LEMMA CompactMemType ==
  ASSUME BufferInv, NEW r \in 0..write
  PROVE  CompactMem(r, write) \in [Cell -> Byte]
<1>1. \A c \in Cell : c < write - r => c + r \in Cell
  BY LimitAssumption DEF BufferInv, TypeOK, PointersOrdered, Cell
<1>2. QED
  BY <1>1 DEF BufferInv, TypeOK, CompactMem

\* buffer_read_adv preserves the invariant when its caller takes no more than
\* buffer_read_ptr offered.
LEMMA ReadAdvInv ==
  ASSUME BufferInv, NEW n \in 0..ReadCount, ReadAdv(n)
  PROVE  BufferInv'
<1>1. n \in Nat /\ read + n \in 0..write
  BY LimitAssumption DEF BufferInv, TypeOK, PointersOrdered, ReadCount
<1>2. CASE read + n = write
  <2>1. /\ mem' = CompactMem(read + n, write)
        /\ read' = 0
        /\ write' = write - (read + n)
    BY <1>2 DEF ReadAdv, CompactRead, CompactWrite
  <2>2. mem' \in [Cell -> Byte]
    BY <1>1, <2>1, CompactMemType
  <2>3. QED
    BY <1>1, <1>2, <2>1, <2>2, LimitAssumption
    DEF BufferInv, TypeOK, PointersOrdered, Cell
<1>3. CASE read + n # write
  <2>1. mem' = mem /\ read' = read + n /\ write' = write
    BY <1>3 DEF ReadAdv
  <2>2. QED
    BY <1>1, <1>3, <2>1, LimitAssumption
    DEF BufferInv, TypeOK, PointersOrdered, Cell
<1>4. QED
  BY <1>2, <1>3

\* A write that fits preserves the invariant.
LEMMA WriteInv ==
  ASSUME BufferInv, NEW n \in 1..WriteCount, NEW s \in [1..n -> Byte], Write(s)
  PROVE  BufferInv'
<1>1. n \in Nat /\ s \in Seq(Byte) /\ Len(s) = n
  <2>1. n \in Nat
    BY LimitAssumption DEF BufferInv, TypeOK, WriteCount
  <2>2. QED
    BY <2>1, LenProperties
<1>2. mem' \in [Cell -> Byte]
  <2>1. \A c \in write..(write + n - 1) : c - write + 1 \in 1..n
    BY <1>1 DEF BufferInv, TypeOK
  <2>2. QED
    BY <1>1, <2>1 DEF Write, BufferInv, TypeOK, Cell
<1>3. write' = write + n /\ read' = read
  BY <1>1 DEF Write
<1>4. QED
  BY <1>1, <1>2, <1>3, LimitAssumption
  DEF BufferInv, TypeOK, PointersOrdered, WriteCount, Cell

\* Every operation of buffer.c preserves the invariant.
LEMMA StepInv == BufferInv /\ [BufferNext]_bufferVars => BufferInv'
<1> SUFFICES ASSUME BufferInv, [BufferNext]_bufferVars PROVE BufferInv'
  OBVIOUS
<1>1. ASSUME NEW n \in 1..WriteCount, NEW s \in [1..n -> Byte], Write(s)
      PROVE  BufferInv'
  BY <1>1, WriteInv
<1>2. ASSUME NEW n \in 0..ReadCount, Read(n) PROVE BufferInv'
  BY <1>2, ReadAdvInv DEF Read
<1>3. ASSUME NEW c \in Byte, WriteByte(c) PROVE BufferInv'
  <2>1. WriteCount \in Nat /\ 1 \in 1..WriteCount
    BY <1>3, LimitAssumption DEF WriteByte, WriteCount, BufferInv, TypeOK
  <2>2. <<c>> \in [1..1 -> Byte]
    OBVIOUS
  <2>3. QED
    BY <1>3, <2>1, <2>2, WriteInv DEF WriteByte
<1>4. ASSUME ReadByte PROVE BufferInv'
  <2>1. 1 \in 0..ReadCount
    BY <1>4 DEF ReadByte, ReadCount, BufferInv, TypeOK
  <2>2. QED
    BY <1>4, <2>1, ReadAdvInv DEF ReadByte
<1>5. ASSUME CompactNow PROVE BufferInv'
  <2>1. read \in 0..write
    BY DEF BufferInv, TypeOK, PointersOrdered
  <2>2. mem' \in [Cell -> Byte]
    BY <1>5, <2>1, CompactMemType DEF CompactNow
  <2>3. read' = 0 /\ write' = write - read
    BY <1>5 DEF CompactNow, CompactRead, CompactWrite
  <2>4. QED
    BY <2>1, <2>2, <2>3, LimitAssumption
    DEF BufferInv, TypeOK, PointersOrdered, Cell
<1>6. ASSUME Reset PROVE BufferInv'
  BY <1>6, LimitAssumption DEF Reset, BufferInv, TypeOK, PointersOrdered, Cell
<1>7. CASE UNCHANGED bufferVars
  BY <1>7 DEF bufferVars, BufferInv, TypeOK, PointersOrdered, Cell
<1>8. QED
  BY <1>1, <1>2, <1>3, <1>4, <1>5, <1>6, <1>7 DEF BufferNext

\* The pointers of a buffer are always ordered, and meet only at its start.
THEOREM Invariant == BufferSpec => []BufferInv
  BY InitInv, StepInv, PTL DEF BufferSpec

\* The pointers stay in the memory and the cells stay bytes: type correctness
\* of buffer.c for every size of the memory.
THEOREM Typing == BufferSpec => []TypeOK
<1>1. BufferInv => TypeOK
  BY DEF BufferInv
<1>2. QED
  BY <1>1, Invariant, PTL

\* buffer.h's R <= W <= limit: no assertion of buffer.c can fail while the
\* callers stay within the counts the buffer gave them.
THEOREM Ordered == BufferSpec => []PointersOrdered
<1>1. BufferInv => PointersOrdered
  BY DEF BufferInv
<1>2. QED
  BY <1>1, Invariant, PTL

\* A buffer with nothing to read has its whole memory free.
THEOREM EmptyAlwaysFree == BufferSpec => []EmptyIsFree
<1>1. BufferInv => EmptyIsFree
  BY LimitAssumption DEF BufferInv, TypeOK, EmptyIsFree, WriteCount
<1>2. QED
  BY <1>1, Invariant, PTL

-----------------------------------------------------------------------------
(***************************************************************************)
(* buffer.c implements the byte queue.                                      *)
(***************************************************************************)

\* What two ordered pointers delimit is a sequence of bytes.
LEMMA SegmentShape ==
  ASSUME NEW m \in [Cell -> Byte], NEW w \in 0..Limit, NEW r \in 0..w
  PROVE  /\ Segment(m, r, w) \in Seq(Byte)
         /\ Len(Segment(m, r, w)) = w - r
         /\ w - r \in Nat
         /\ \A i \in 1..(w - r) : Segment(m, r, w)[i] = m[r + i - 1]
<1>1. w - r \in Nat
  BY LimitAssumption
<1>2. \A i \in 1..(w - r) : r + i - 1 \in Cell
  BY <1>1, LimitAssumption DEF Cell
<1>3. Segment(m, r, w) \in [1..(w - r) -> Byte]
  BY <1>2 DEF Segment
<1>4. Segment(m, r, w) \in Seq(Byte)
  BY <1>1, <1>3
<1>5. DOMAIN Segment(m, r, w) = 1..(w - r)
  BY DEF Segment
<1>6. Len(Segment(m, r, w)) = w - r
  BY <1>1, <1>4, <1>5, LenProperties
<1>7. QED
  BY <1>1, <1>4, <1>6 DEF Segment

\* A write appends its bytes to what is pending.
LEMMA WriteAppends ==
  ASSUME BufferInv, NEW n \in 1..WriteCount, NEW s \in [1..n -> Byte], Write(s)
  PROVE  Contents' = Contents \o s
<1> DEFINE old == Segment(mem, read, write)
           new == Segment(mem', read', write')
<1>1. n \in Nat /\ s \in Seq(Byte) /\ Len(s) = n
  <2>1. n \in Nat
    BY LimitAssumption DEF BufferInv, TypeOK, WriteCount
  <2>2. QED
    BY <2>1, LenProperties
<1>2. /\ mem \in [Cell -> Byte]
      /\ write \in 0..Limit
      /\ read \in 0..write
  BY DEF BufferInv, TypeOK, PointersOrdered
<1>3. /\ mem' \in [Cell -> Byte]
      /\ write' \in 0..Limit
      /\ read' \in 0..write'
  BY WriteInv DEF BufferInv, TypeOK, PointersOrdered, Cell
<1>4. write' = write + n /\ read' = read
  BY <1>1 DEF Write
<1>5. /\ old \in Seq(Byte)
      /\ Len(old) = write - read
      /\ \A i \in 1..(write - read) : old[i] = mem[read + i - 1]
  BY <1>2, SegmentShape
<1>6. /\ new \in Seq(Byte)
      /\ Len(new) = write' - read'
      /\ \A i \in 1..(write' - read') : new[i] = mem'[read' + i - 1]
  BY <1>3, SegmentShape
<1> HIDE DEF old, new
<1>7. /\ old \o s \in Seq(Byte)
      /\ Len(old \o s) = (write - read) + n
      /\ \A i \in 1..((write - read) + n) :
           (old \o s)[i] = IF i <= write - read THEN old[i] ELSE s[i - (write - read)]
  <2>1. Len(old) + Len(s) = (write - read) + n
    BY <1>1, <1>5
  <2>2. /\ old \o s \in Seq(Byte)
        /\ Len(old \o s) = Len(old) + Len(s)
        /\ \A i \in 1..(Len(old) + Len(s)) :
             (old \o s)[i] = IF i <= Len(old) THEN old[i] ELSE s[i - Len(old)]
    BY <1>1, <1>5, ConcatProperties
  <2>3. QED
    BY <1>5, <2>1, <2>2
<1>8. ASSUME NEW i \in 1..(write' - read')
      PROVE  new[i] = (old \o s)[i]
  <2>1. i \in 1..((write - read) + n) /\ i \in Nat
    BY <1>1, <1>2, <1>4
  <2>2. read + i - 1 \in Cell
    BY <1>1, <1>2, <1>3, <1>4, <2>1, LimitAssumption DEF Cell
  <2>3. mem'[read + i - 1] = IF read + i - 1 \in write..(write + n - 1)
                             THEN s[(read + i - 1) - write + 1]
                             ELSE mem[read + i - 1]
    BY <1>1, <2>2 DEF Write
  <2>4. CASE i <= write - read
    <3>1. read + i - 1 \notin write..(write + n - 1) /\ i \in 1..(write - read)
      BY <1>1, <1>2, <2>1, <2>4, LimitAssumption
    <3>2. QED
      BY <1>4, <1>5, <1>6, <1>7, <2>1, <2>3, <2>4, <3>1
  <2>5. CASE ~(i <= write - read)
    <3>1. read + i - 1 \in write..(write + n - 1)
      BY <1>1, <1>2, <2>1, <2>5, LimitAssumption
    <3>2. (read + i - 1) - write + 1 = i - (write - read)
      BY <1>2, <2>1, LimitAssumption
    <3>3. QED
      BY <1>4, <1>6, <1>7, <2>1, <2>3, <2>5, <3>1, <3>2
  <2>6. QED
    BY <2>4, <2>5
<1>9. Len(new) = Len(old \o s)
  BY <1>1, <1>2, <1>4, <1>6, <1>7, LimitAssumption
<1>10. new = old \o s
  BY <1>6, <1>7, <1>8, <1>9, SeqEqual
<1>11. QED
  BY <1>10 DEF Contents, old, new

\* A buffer whose pointers meet holds the empty sequence.
LEMMA SegmentEmpty ==
  ASSUME NEW m \in [Cell -> Byte], NEW r \in 0..Limit
  PROVE  Segment(m, r, r) = << >>
<1>1. Segment(m, r, r) \in Seq(Byte) /\ Len(Segment(m, r, r)) = 0
  BY SegmentShape, LimitAssumption
<1>2. QED
  BY <1>1, EmptySeq

\* buffer_read_adv forgets the n oldest bytes and keeps the others in order,
\* whether or not it compacts.
LEMMA ReadAdvDrops ==
  ASSUME BufferInv, NEW n \in 0..ReadCount, ReadAdv(n)
  PROVE  [base |-> read', bytes |-> Contents'] =
           Queue!Drop([base |-> read, bytes |-> Contents], n)
<1> DEFINE old == Segment(mem, read, write)
           new == Segment(mem', read', write')
<1>1. /\ mem \in [Cell -> Byte]
      /\ write \in 0..Limit
      /\ read \in 0..write
      /\ n \in Nat
      /\ n <= write - read
  BY LimitAssumption DEF BufferInv, TypeOK, PointersOrdered, ReadCount
<1>2. /\ mem' \in [Cell -> Byte]
      /\ write' \in 0..Limit
      /\ read' \in 0..write'
  BY ReadAdvInv DEF BufferInv, TypeOK, PointersOrdered, Cell
<1>3. /\ old \in Seq(Byte)
      /\ Len(old) = write - read
      /\ write - read \in Nat
      /\ \A i \in 1..(write - read) : old[i] = mem[read + i - 1]
  BY <1>1, SegmentShape
<1>4. CASE n = write - read
  <2>1. read' = 0 /\ write' = 0
    BY <1>1, <1>4, LimitAssumption DEF ReadAdv, CompactRead, CompactWrite
  <2>2. new = << >>
    BY <1>2, <2>1, SegmentEmpty, LimitAssumption
  <2>3. QED
    BY <1>3, <1>4, <2>1, <2>2 DEF Queue!Drop, Queue!Empty, Contents
<1>5. CASE n # write - read
  <2>1. read' = read + n /\ write' = write /\ mem' = mem
    BY <1>1, <1>5, LimitAssumption DEF ReadAdv
  <2>2. /\ new \in Seq(Byte)
        /\ Len(new) = write - (read + n)
        /\ \A i \in 1..(write - (read + n)) : new[i] = mem[read + n + i - 1]
    BY <1>2, <2>1, SegmentShape
  <2> HIDE DEF old, new
  <2>3. /\ SubSeq(old, n + 1, Len(old)) \in Seq(Byte)
        /\ Len(SubSeq(old, n + 1, Len(old))) = write - (read + n)
        /\ \A i \in 1..(write - (read + n)) :
             SubSeq(old, n + 1, Len(old))[i] = old[n + i]
    <3>1. \A i \in (n + 1)..Len(old) : old[i] \in Byte
      BY <1>1, <1>3, LenProperties
    <3>2. n + 1 \in Int /\ Len(old) \in Int /\ n + 1 <= Len(old)
      BY <1>1, <1>3, <1>5, LimitAssumption
    <3>3. /\ SubSeq(old, n + 1, Len(old)) \in Seq(Byte)
          /\ Len(SubSeq(old, n + 1, Len(old))) =
               IF n + 1 <= Len(old) THEN Len(old) - (n + 1) + 1 ELSE 0
          /\ \A i \in 1..(Len(old) - (n + 1) + 1) :
               SubSeq(old, n + 1, Len(old))[i] = old[(n + 1) + i - 1]
      BY <3>1, <3>2, SubSeqProperties
    <3>4. Len(old) - (n + 1) + 1 = write - (read + n)
      BY <1>1, <1>3, LimitAssumption
    <3>5. \A i \in 1..(write - (read + n)) : (n + 1) + i - 1 = n + i
      BY <1>1, LimitAssumption
    <3>6. QED
      BY <3>2, <3>3, <3>4, <3>5
  <2>4. ASSUME NEW i \in 1..(write - (read + n))
        PROVE  new[i] = SubSeq(old, n + 1, Len(old))[i]
    <3>1. n + i \in 1..(write - read) /\ read + (n + i) - 1 = read + n + i - 1
      BY <1>1, LimitAssumption
    <3>2. QED
      BY <1>3, <2>2, <2>3, <3>1
  <2>5. new = SubSeq(old, n + 1, Len(old))
    BY <2>2, <2>3, <2>4, SeqEqual
  <2>6. QED
    BY <1>3, <1>5, <2>1, <2>5 DEF Queue!Drop, Contents, old, new
<1>6. QED
  BY <1>4, <1>5

\* buffer_compact moves the pending bytes and keeps them.
LEMMA CompactKeeps ==
  ASSUME BufferInv, CompactNow
  PROVE  read' = 0 /\ Contents' = Contents
<1> DEFINE old == Segment(mem, read, write)
           new == Segment(mem', read', write')
<1>1. /\ mem \in [Cell -> Byte]
      /\ write \in 0..Limit
      /\ read \in 0..write
      /\ read = write => read = 0
  BY DEF BufferInv, TypeOK, PointersOrdered
<1>2. /\ mem' = CompactMem(read, write)
      /\ read' = 0
      /\ write' = write - read
  BY DEF CompactNow, CompactRead, CompactWrite
<1>3. /\ mem' \in [Cell -> Byte]
      /\ write' \in 0..Limit
      /\ read' \in 0..write'
  BY <1>1, <1>2, CompactMemType, LimitAssumption
<1>4. /\ old \in Seq(Byte)
      /\ Len(old) = write - read
      /\ \A i \in 1..(write - read) : old[i] = mem[read + i - 1]
  BY <1>1, SegmentShape
<1>5. /\ new \in Seq(Byte)
      /\ Len(new) = write - read
      /\ \A i \in 1..(write - read) : new[i] = mem'[i - 1]
  <2>1. /\ new \in Seq(Byte)
        /\ Len(new) = write' - 0
        /\ \A i \in 1..(write' - 0) : new[i] = mem'[0 + i - 1]
    BY <1>2, <1>3, SegmentShape
  <2>2. write' - 0 = write - read /\ \A i \in 1..(write - read) : 0 + i - 1 = i - 1
    BY <1>1, <1>2, LimitAssumption
  <2> HIDE DEF new
  <2>3. QED
    BY <2>1, <2>2
<1> HIDE DEF old, new
<1>6. ASSUME NEW i \in 1..(write - read)
      PROVE  new[i] = old[i]
  <2>1. i - 1 \in Cell /\ i - 1 < write - read /\ (i - 1) + read = read + i - 1
    BY <1>1, LimitAssumption DEF Cell
  <2>2. mem'[i - 1] = mem[read + i - 1]
    BY <1>1, <1>2, <2>1 DEF CompactMem
  <2>3. QED
    BY <1>4, <1>5, <2>2
<1>7. new = old
  BY <1>4, <1>5, <1>6, SeqEqual
<1>8. QED
  BY <1>2, <1>7 DEF Contents, old, new

\* One step of buffer.c is a step of the queue or leaves it as it is.
LEMMA StepRefines ==
  BufferInv /\ [BufferNext]_bufferVars =>
    [Queue!QueueNext]_([base |-> read, bytes |-> Contents])
<1> SUFFICES ASSUME BufferInv, [BufferNext]_bufferVars
             PROVE  [Queue!QueueNext]_([base |-> read, bytes |-> Contents])
  OBVIOUS
<1> DEFINE q == [base |-> read, bytes |-> Contents]
<1>1. /\ Contents \in Seq(Byte)
      /\ Len(Contents) = ReadCount
      /\ read + Len(Contents) = write
  <2>1. mem \in [Cell -> Byte] /\ write \in 0..Limit /\ read \in 0..write
    BY DEF BufferInv, TypeOK, PointersOrdered
  <2>2. Contents \in Seq(Byte) /\ Len(Contents) = write - read
    BY <2>1, SegmentShape DEF Contents
  <2>3. QED
    BY <2>1, <2>2, LimitAssumption DEF ReadCount
<1>2. Queue!Room(q) = WriteCount
  BY <1>1 DEF Queue!Room, WriteCount
<1>3. Queue!Pending(q) = ReadCount
  BY <1>1 DEF Queue!Pending
<1>4. ASSUME NEW n \in 1..WriteCount, NEW s \in [1..n -> Byte], Write(s)
      PROVE  Queue!Fill
  <2>1. q' = Queue!Put(q, s)
    <3>1. read' = read /\ Contents' = Contents \o s
      BY <1>4, WriteAppends DEF Write
    <3>2. QED
      BY <3>1 DEF Queue!Put
  <2>2. QED
    BY <1>2, <2>1 DEF Queue!Fill
<1>5. ASSUME NEW n \in 0..ReadCount, ReadAdv(n)
      PROVE  Queue!Drain
  BY <1>3, <1>5, ReadAdvDrops DEF Queue!Drain
<1>6. ASSUME NEW n \in 0..ReadCount, Read(n) PROVE Queue!Drain
  BY <1>5, <1>6 DEF Read
<1>7. ASSUME NEW c \in Byte, WriteByte(c) PROVE Queue!Fill
  <2>1. 1 \in 1..WriteCount
    BY <1>7, LimitAssumption DEF WriteByte, WriteCount, BufferInv, TypeOK
  <2>2. <<c>> \in [1..1 -> Byte]
    OBVIOUS
  <2>3. QED
    BY <1>4, <1>7, <2>1, <2>2 DEF WriteByte
<1>8. ASSUME ReadByte PROVE Queue!Drain
  <2>1. 1 \in 0..ReadCount
    BY <1>8 DEF ReadByte, ReadCount, BufferInv, TypeOK
  <2>2. QED
    BY <1>5, <1>8, <2>1 DEF ReadByte
<1>9. ASSUME CompactNow PROVE Queue!Shift
  BY <1>9, CompactKeeps DEF Queue!Shift, Queue!Compact
<1>10. ASSUME Reset PROVE Queue!Clear
  <2>1. Contents' = << >>
    <3>1. mem \in [Cell -> Byte] /\ 0 \in 0..Limit
      BY LimitAssumption DEF BufferInv, TypeOK
    <3>2. QED
      BY <1>10, <3>1, SegmentEmpty DEF Reset, Contents
  <2>2. QED
    BY <1>10, <2>1 DEF Reset, Queue!Clear, Queue!Empty
<1>11. CASE UNCHANGED bufferVars
  BY <1>11 DEF bufferVars, Contents
<1>12. QED
  BY <1>4, <1>6, <1>7, <1>8, <1>9, <1>10, <1>11 DEF BufferNext, Queue!QueueNext

\* buffer.c implements the byte queue for every size and every byte set: the
\* bytes handed to a reader are those written, once each and in order.
THEOREM Refinement == BufferSpec => ImplementsQueue
<1>1. BufferInit => Queue!QueueInit
  <2> SUFFICES ASSUME BufferInit PROVE Queue!QueueInit
    OBVIOUS
  <2>1. Contents = << >>
    BY SegmentEmpty, LimitAssumption DEF BufferInit, Contents
  <2>2. QED
    BY <2>1 DEF BufferInit, Queue!QueueInit, Queue!Empty
<1>2. QED
  BY <1>1, StepRefines, Invariant, PTL DEF BufferSpec, ImplementsQueue, Queue!QueueSpec
=============================================================================
