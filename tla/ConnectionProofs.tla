-------------------------- MODULE ConnectionProofs --------------------------
(* Theorems about a proxied exchange, whatever the capacity of the buffers, *)
(* whatever client and server send and whatever goes wrong outside.         *)
EXTENDS Connection, SequenceTheorems, TLAPS

-----------------------------------------------------------------------------
(***************************************************************************)
(* The buffers and the streams of positions that go through them.           *)
(***************************************************************************)

\* A stream is a sequence of positions, as long as the range it covers.
LEMMA StreamType ==
  ASSUME NEW m \in Nat, NEW n \in Nat, n + 1 >= m
  PROVE  /\ Stream(m, n) \in Seq(Nat)
         /\ Len(Stream(m, n)) = n - m + 1
         /\ \A i \in 1..(n - m + 1) : Stream(m, n)[i] = m + i - 1
<1> DEFINE k == n - m + 1
<1>1. k \in Nat
  OBVIOUS
<1>2. \A i \in 1..k : m + i - 1 \in Nat
  BY <1>1
<1>3. Stream(m, n) = [i \in 1..k |-> m + i - 1]
  BY DEF Stream
<1>4. [i \in 1..k |-> m + i - 1] \in [1..k -> Nat]
  BY <1>2
<1>5. Stream(m, n) \in Seq(Nat)
  BY <1>1, <1>3, <1>4, SeqDef
<1>6. DOMAIN Stream(m, n) = 1..k
  BY <1>3
<1>7. Len(Stream(m, n)) = k
  BY <1>1, <1>5, <1>6, LenProperties
<1>8. QED
  BY <1>3, <1>5, <1>7

\* What was read before and what is read next make one stream.
LEMMA StreamGrows ==
  ASSUME NEW l \in Nat \ {0}, NEW m \in Nat, NEW n \in Nat, m + 1 >= l, n >= m
  PROVE  Stream(l, m) \o Stream(m + 1, n) = Stream(l, n)
<1> DEFINE s == Stream(l, m)  t == Stream(m + 1, n)  u == Stream(l, n)
<1>1. /\ s \in Seq(Nat) /\ Len(s) = m - l + 1
      /\ \A i \in 1..(m - l + 1) : s[i] = l + i - 1
  BY StreamType
<1>2. /\ t \in Seq(Nat) /\ Len(t) = n - m
      /\ \A i \in 1..(n - m) : t[i] = m + i
  <2>1. m + 1 \in Nat /\ n + 1 >= m + 1
    OBVIOUS
  <2>2. /\ t \in Seq(Nat) /\ Len(t) = n - (m + 1) + 1
        /\ \A i \in 1..(n - (m + 1) + 1) : t[i] = (m + 1) + i - 1
    BY <2>1, StreamType
  <2> HIDE DEF t
  <2>3. QED
    BY <2>2
<1>3. /\ u \in Seq(Nat) /\ Len(u) = n - l + 1
      /\ \A i \in 1..(n - l + 1) : u[i] = l + i - 1
  BY StreamType
<1> HIDE DEF s, t, u
<1>4. /\ s \o t \in Seq(Nat) /\ Len(s \o t) = n - l + 1
      /\ \A i \in 1..(n - l + 1) :
           (s \o t)[i] = IF i <= m - l + 1 THEN s[i] ELSE t[i - (m - l + 1)]
  <2>1. /\ s \o t \in Seq(Nat) /\ Len(s \o t) = Len(s) + Len(t)
        /\ \A i \in 1..(Len(s) + Len(t)) :
             (s \o t)[i] = IF i <= Len(s) THEN s[i] ELSE t[i - Len(s)]
    BY <1>1, <1>2, ConcatProperties
  <2>2. Len(s) = m - l + 1 /\ Len(s) + Len(t) = n - l + 1
    BY <1>1, <1>2
  <2>3. QED
    BY <2>1, <2>2
<1>5. ASSUME NEW i \in 1..(n - l + 1)
      PROVE  (s \o t)[i] = u[i]
  <2>1. CASE i <= m - l + 1
    BY <1>1, <1>3, <1>4, <2>1
  <2>2. CASE i > m - l + 1
    <3>1. i - (m - l + 1) \in 1..(n - m)
      BY <2>2
    <3>2. (s \o t)[i] = m + (i - (m - l + 1))
      BY <1>2, <1>4, <2>2, <3>1
    <3>3. QED
      BY <1>3, <3>2
  <2>3. i <= m - l + 1 \/ i > m - l + 1
    OBVIOUS
  <2>4. QED
    BY <2>1, <2>2, <2>3
<1>6. s \o t = u
  BY <1>3, <1>4, <1>5, SeqEqual
<1>7. QED
  BY <1>6 DEF s, t, u

\* A buffer with nothing in it.
LEMMA EmptyType ==
  /\ Empty \in Queue
  /\ Room(Empty) = Capacity /\ Pending(Empty) = 0
  /\ Empty.bytes = << >>
<1>1. << >> \in Seq(Nat) /\ Len(<< >>) = 0
  BY EmptySeq
<1>2. Empty.base = 0 /\ Empty.bytes = << >>
  BY DEF Empty
<1>3. Empty \in Queue
  BY <1>1, CapacityAssumption DEF Empty, Queue
<1>4. QED
  BY <1>1, <1>2, <1>3, CapacityAssumption DEF Room, Pending

\* Nothing is pending in a buffer without bytes, and only there.
LEMMA NonePending ==
  ASSUME NEW b \in Queue
  PROVE  /\ Pending(b) \in Nat
         /\ Pending(b) = 0 <=> b.bytes = << >>
         /\ Room(b) \in Int
         /\ Room(b) + Pending(b) <= Capacity
  BY CapacityAssumption, EmptySeq, LenProperties DEF Queue, Pending, Room

\* What fits in a buffer is put behind what is there.
LEMMA PutType ==
  ASSUME NEW b \in Queue, NEW s \in Seq(Nat), Len(s) <= Room(b)
  PROVE  /\ Put(b, s) \in Queue
         /\ Room(Put(b, s)) = Room(b) - Len(s)
         /\ Room(Put(b, s)) >= 0
         /\ Put(b, s).bytes = b.bytes \o s
         /\ Pending(Put(b, s)) = Pending(b) + Len(s)
<1>1. b.base \in 0..Capacity /\ b.bytes \in Seq(Nat)
  BY DEF Queue
<1>2. b.bytes \o s \in Seq(Nat) /\ Len(b.bytes \o s) = Len(b.bytes) + Len(s)
  BY <1>1, ConcatProperties
<1>3. Len(s) \in Nat /\ Len(b.bytes) \in Nat
  BY <1>1, LenProperties
<1>4. QED
  BY <1>1, <1>2, <1>3, CapacityAssumption DEF Put, Queue, Room, Pending

\* What is taken from a buffer and what is left are what was there.
LEMMA DropType ==
  ASSUME NEW b \in Queue, Room(b) >= 0, NEW n \in 0..Pending(b)
  PROVE  /\ Drop(b, n) \in Queue
         /\ Room(Drop(b, n)) >= 0
         /\ Pending(Drop(b, n)) = Pending(b) - n
         /\ SubSeq(b.bytes, 1, n) \in Seq(Nat)
         /\ SubSeq(b.bytes, 1, n) \o Drop(b, n).bytes = b.bytes
<1>1. b.base \in 0..Capacity /\ b.bytes \in Seq(Nat)
  BY DEF Queue
<1>2. Len(b.bytes) \in Nat /\ b.bytes \in [1..Len(b.bytes) -> Nat]
  BY <1>1, LenProperties
<1>3. n \in 0..Len(b.bytes)
  BY DEF Pending
<1>4. SubSeq(b.bytes, 1, n) \in Seq(Nat)
  <2>1. \A i \in 1..n : b.bytes[i] \in Nat
    BY <1>2, <1>3
  <2>2. QED
    BY <1>3, <2>1, SubSeqProperties
<1>5. CASE n = Len(b.bytes)
  <2>1. Drop(b, n) = Empty
    BY <1>5 DEF Drop
  <2>2. SubSeq(b.bytes, 1, n) = b.bytes
    BY <1>1, <1>5, SubSeqFull
  <2>3. SubSeq(b.bytes, 1, n) \o Drop(b, n).bytes = b.bytes
    BY <1>1, <2>1, <2>2, EmptyType, ConcatEmptySeq
  <2>4. QED
    BY <1>4, <1>5, <1>2, <2>1, <2>3, EmptyType, CapacityAssumption DEF Pending
<1>6. CASE n # Len(b.bytes)
  <2> DEFINE rest == SubSeq(b.bytes, n + 1, Len(b.bytes))
  <2>1. Drop(b, n) = [base |-> b.base + n, bytes |-> rest]
    BY <1>6 DEF Drop
  <2>2. rest \in Seq(Nat) /\ Len(rest) = Len(b.bytes) - n
    <3>1. /\ n + 1 \in Int /\ Len(b.bytes) \in Int
          /\ n + 1 <= Len(b.bytes)
          /\ Len(b.bytes) - (n + 1) + 1 = Len(b.bytes) - n
      BY <1>2, <1>3, <1>6
    <3>2. \A i \in (n + 1)..Len(b.bytes) : b.bytes[i] \in Nat
      BY <1>2, <1>3
    <3>3. QED
      BY <3>1, <3>2, SubSeqProperties
  <2>3. SubSeq(b.bytes, 1, n) \o rest = b.bytes
    <3>1. 1 \in 1..(Len(b.bytes) + 1) /\ n \in (1 - 1)..Len(b.bytes)
          /\ Len(b.bytes) \in n..Len(b.bytes)
      BY <1>2, <1>3
    <3>2. SubSeq(b.bytes, 1, n) \o SubSeq(b.bytes, n + 1, Len(b.bytes))
            = SubSeq(b.bytes, 1, Len(b.bytes))
      BY <1>1, <3>1, ConcatAdjacentSubSeq
    <3>3. QED
      BY <1>1, <3>2, SubSeqFull
  <2> HIDE DEF rest
  <2>4. Capacity - (b.base + Len(b.bytes)) >= 0
    BY DEF Room
  <2>5. b.base + n \in 0..Capacity
    BY <1>1, <1>2, <1>3, <2>4, CapacityAssumption
  <2>6. Drop(b, n) \in Queue /\ Drop(b, n).base = b.base + n /\ Drop(b, n).bytes = rest
    BY <2>1, <2>2, <2>5 DEF Queue
  <2>7. Room(Drop(b, n)) >= 0 /\ Pending(Drop(b, n)) = Pending(b) - n
    BY <1>1, <1>2, <1>3, <2>2, <2>4, <2>6, CapacityAssumption DEF Room, Pending
  <2>8. QED
    BY <1>4, <2>3, <2>6, <2>7
<1>7. QED
  BY <1>5, <1>6

\* What is left of a stream when its first k positions are dropped.
LEMMA DropStream ==
  ASSUME NEW b \in Queue, Room(b) >= 0,
         NEW l \in Nat, NEW m \in Nat, m + 1 >= l, b.bytes = Stream(l, m),
         NEW k \in 0..(m - l + 1)
  PROVE  Drop(b, k).bytes = Stream(l + k, m)
<1>1. /\ b.bytes \in Seq(Nat) /\ Len(b.bytes) = m - l + 1
      /\ \A i \in 1..(m - l + 1) : b.bytes[i] = l + i - 1
  BY StreamType
<1> DEFINE t == Stream(l + k, m)
<1>2. /\ t \in Seq(Nat) /\ Len(t) = m - (l + k) + 1
      /\ \A i \in 1..(m - (l + k) + 1) : t[i] = (l + k) + i - 1
  <2>1. l + k \in Nat /\ m + 1 >= l + k
    OBVIOUS
  <2>2. QED
    BY <2>1, StreamType
<1> HIDE DEF t
<1>3. CASE k = Len(b.bytes)
  <2>1. Drop(b, k).bytes = << >>
    BY <1>3, EmptyType DEF Drop
  <2>2. Len(t) = 0
    BY <1>1, <1>2, <1>3
  <2>3. t = << >>
    BY <1>2, <2>2, EmptySeq
  <2>4. QED
    BY <2>1, <2>3 DEF t
<1>4. CASE k # Len(b.bytes)
  <2> DEFINE rest == SubSeq(b.bytes, k + 1, Len(b.bytes))
  <2>1. Drop(b, k).bytes = rest
    BY <1>4 DEF Drop
  <2>2. /\ rest \in Seq(Nat)
        /\ Len(rest) = m - (l + k) + 1
        /\ \A i \in 1..(m - (l + k) + 1) : rest[i] = b.bytes[k + i]
    <3>1. \A i \in (k + 1)..Len(b.bytes) : b.bytes[i] \in Nat
      BY <1>1
    <3>2. k + 1 \in Int /\ Len(b.bytes) \in Int /\ k + 1 <= Len(b.bytes)
      BY <1>1, <1>4
    <3>3. /\ rest \in Seq(Nat)
          /\ Len(rest) = Len(b.bytes) - (k + 1) + 1
          /\ \A i \in 1..(Len(b.bytes) - (k + 1) + 1) :
               rest[i] = b.bytes[k + 1 + i - 1]
      BY <3>1, <3>2, SubSeqProperties
    <3> HIDE DEF rest
    <3>4. Len(b.bytes) - (k + 1) + 1 = m - (l + k) + 1
      BY <1>1
    <3>5. \A i \in Int : k + 1 + i - 1 = k + i
      OBVIOUS
    <3>6. QED
      BY <3>3, <3>4, <3>5
  <2> HIDE DEF rest
  <2>3. \A i \in 1..Len(rest) : rest[i] = t[i]
    BY <1>1, <1>2, <2>2
  <2>4. rest = t
    BY <1>2, <2>2, <2>3, SeqEqual
  <2>5. QED
    BY <2>1, <2>4 DEF t
<1>5. QED
  BY <1>3, <1>4

-----------------------------------------------------------------------------
(***************************************************************************)
(* The inductive invariant.                                                 *)
(***************************************************************************)

\* States of the origin's machine before the head of the response is complete.
Headless == {"none", "CONNECTING", "HEADERS"}

\* What is closed stays closed.
OverIsOver ==
  ~Open => /\ ost \in {"none", "closed"}
           /\ interest = [p \in Peer |-> {}]

\* There is one resolution, it comes before the origin, and the origin has a
\* job only once there is a body.
OneByOne ==
  Open =>
    /\ ost # "closed"
    /\ cst = "REQUEST_HEADERS" => ost = "none" /\ dns = "none" /\ "client" \notin jobs
    /\ "client" \in jobs => ost = "none" /\ dns = "none"
    /\ dns # "none" => ost = "none"
    /\ ost \in Headless => /\ "origin" \notin jobs
                           /\ ob = Empty
                           /\ ogot < resp.head

\* Nothing but an error reply goes to the client before the head.
NothingYet ==
  Open /\ ~replied /\ ost \in Headless =>
    toClient = << >> /\ wb = Empty /\ "resp" \notin done

\* The response on its way to the client, while its body is copied and when
\* it has come to its end.
OnItsWay ==
  Open /\ ~replied /\ resp.head < Capacity =>
    /\ ost = "COPY" => (toClient \o wb.bytes) \o ob.bytes = Stream(1, ogot)
    /\ "resp" \in done => toClient \o wb.bytes = Stream(1, ogot)

\* The count of the body, and what it means to be done.
Counted ==
  Open =>
    /\ ost = "COPY" /\ ~resp.chunked =>
         body_length = resp.head + resp.length - ogot + Pending(ob)
    /\ "resp" \in done /\ ~replied => ost \in {"COPY", "RESPONSE_ERROR"}
    /\ "resp" \in done /\ ost = "COPY" /\ ~replied => Pending(ob) = 0
    /\ "resp" \in done /\ ~replied /\ "origin" \notin fault /\ ~resp.chunked =>
         ogot \in {resp.head + resp.length, resp.total}
    /\ "req" \in done /\ ~replied /\ "origin" \notin fault =>
         cgot >= req.head + req.length

\* All of it.
IInv ==
  /\ TypeOK /\ OverIsOver /\ OneByOne /\ NothingYet /\ OnItsWay /\ Counted
  /\ NoLostWakeup /\ RequestInOrder /\ DoneIsComplete

-----------------------------------------------------------------------------
(***************************************************************************)
(* What goes through the buffers in a step.                                 *)
(***************************************************************************)

\* The numbers and the streams of the types, for the leaves that need them.
LEMMA Numbers ==
  ASSUME TypeOK
  PROVE  /\ req.head \in Nat \ {0} /\ req.length \in Nat /\ req.total \in Nat
         /\ resp.head \in Nat \ {0} /\ resp.length \in Nat /\ resp.total \in Nat
         /\ cgot \in Nat /\ cgot <= req.total
         /\ ogot \in Nat /\ ogot <= resp.total
         /\ body_length \in Int
<1>1. /\ req.head \in Nat \ {0} /\ req.length \in Nat /\ req.total \in Nat
      /\ resp.head \in Nat \ {0} /\ resp.length \in Nat /\ resp.total \in Nat
  BY DEF TypeOK, ControlType, Request, Response
<1>2. QED
  BY <1>1 DEF TypeOK, WireType

\* What the three buffers hold and have room for are numbers.
LEMMA Rooms ==
  ASSUME TypeOK
  PROVE  /\ Room(rb) \in Nat /\ Room(wb) \in Nat /\ Room(ob) \in Nat
         /\ Pending(rb) \in Nat /\ Pending(wb) \in Nat /\ Pending(ob) \in Nat
         /\ Room(rb) <= Capacity /\ Room(wb) <= Capacity /\ Room(ob) <= Capacity
<1>1. ASSUME NEW b \in Queue, Room(b) >= 0
      PROVE  Room(b) \in Nat /\ Pending(b) \in Nat /\ Room(b) <= Capacity
  BY <1>1, NonePending, CapacityAssumption
<1>2. QED
  BY <1>1 DEF TypeOK, BuffersType

\* What is in the buffers and on the wires are sequences of positions.
LEMMA Streams ==
  ASSUME TypeOK
  PROVE  /\ toOrigin \in Seq(Nat) /\ toClient \in Seq(Nat)
         /\ rb.bytes \in Seq(Nat) /\ wb.bytes \in Seq(Nat) /\ ob.bytes \in Seq(Nat)
  BY DEF TypeOK, WireType, BuffersType, Queue

\* Concatenation of streams is associative.
LEMMA Associative ==
  ASSUME NEW s \in Seq(Nat), NEW t \in Seq(Nat), NEW u \in Seq(Nat)
  PROVE  s \o (t \o u) = (s \o t) \o u
  BY ConcatAssociative, SMTT(60)

\* copy_r and request_read: the next n bytes of the client fit in read_buffer,
\* behind the ones that are still to go to the origin.
LEMMA FromClient ==
  ASSUME TypeOK, RequestInOrder, Open,
         NEW n \in 0..Least(Room(rb), req.total - cgot),
         NEW b, b = Put(rb, Stream(cgot + 1, cgot + n))
  PROVE  /\ b \in Queue /\ Room(b) >= 0
         /\ cgot + n \in 0..req.total
         /\ toOrigin \o b.bytes = Stream(1, cgot + n)
<1> DEFINE s == Stream(cgot + 1, cgot + n)
<1>0. cgot \in Nat /\ req.total \in Nat /\ cgot <= req.total /\ Room(rb) \in Nat
  BY Numbers, Rooms
<1>a. b = Put(rb, s)
  OBVIOUS
<1>1. n \in Nat /\ n <= Room(rb) /\ cgot + n <= req.total
  BY <1>0 DEF Least
<1>2. s \in Seq(Nat) /\ Len(s) = n
  <2>1. cgot + 1 \in Nat /\ cgot + n \in Nat /\ (cgot + n) + 1 >= cgot + 1
        /\ (cgot + n) - (cgot + 1) + 1 = n
    BY <1>0, <1>1
  <2>2. s \in Seq(Nat) /\ Len(s) = (cgot + n) - (cgot + 1) + 1
    BY <2>1, StreamType
  <2>3. QED
    BY <2>1, <2>2
<1>3. Stream(1, cgot) \o s = Stream(1, cgot + n)
  <2>1. 1 \in Nat \ {0} /\ cgot + 1 >= 1 /\ cgot + n \in Nat /\ cgot + n >= cgot
    BY <1>0, <1>1
  <2>2. QED
    BY <1>0, <2>1, StreamGrows
<1> HIDE DEF s
<1>4. /\ Put(rb, s) \in Queue /\ Room(Put(rb, s)) >= 0
      /\ Put(rb, s).bytes = rb.bytes \o s
  BY <1>1, <1>2, PutType DEF TypeOK, BuffersType
<1>5. toOrigin \o (rb.bytes \o s) = (toOrigin \o rb.bytes) \o s
  <2>1. toOrigin \in Seq(Nat) /\ rb.bytes \in Seq(Nat)
    BY Streams
  <2>2. QED
    BY <1>2, <2>1, Associative
<1>6. toOrigin \o (rb.bytes \o s) = Stream(1, cgot + n)
  BY <1>3, <1>5 DEF RequestInOrder
<1>7. cgot + n \in 0..req.total
  BY <1>0, <1>1
<1>8. b \in Queue /\ Room(b) >= 0 /\ b.bytes = rb.bytes \o s
  BY <1>4, <1>a
<1>9. QED
  BY <1>6, <1>7, <1>8

\* copy_w of the origin: what is sent and what is left are what was there.
LEMMA ToOrigin ==
  ASSUME TypeOK, NEW n \in 0..Pending(rb)
  PROVE  /\ Drop(rb, n) \in Queue /\ Room(Drop(rb, n)) >= 0
         /\ toOrigin \o SubSeq(rb.bytes, 1, n) \in Seq(Nat)
         /\ (toOrigin \o SubSeq(rb.bytes, 1, n)) \o Drop(rb, n).bytes
              = toOrigin \o rb.bytes
<1>1. /\ Drop(rb, n) \in Queue /\ Room(Drop(rb, n)) >= 0
      /\ SubSeq(rb.bytes, 1, n) \in Seq(Nat)
      /\ SubSeq(rb.bytes, 1, n) \o Drop(rb, n).bytes = rb.bytes
  BY DropType DEF TypeOK, BuffersType
<1>2. Drop(rb, n).bytes \in Seq(Nat) /\ toOrigin \in Seq(Nat)
  BY <1>1, Streams DEF Queue
<1>3. (toOrigin \o SubSeq(rb.bytes, 1, n)) \o Drop(rb, n).bytes
        = toOrigin \o (SubSeq(rb.bytes, 1, n) \o Drop(rb, n).bytes)
  BY <1>1, <1>2, Associative
<1>4. QED
  BY <1>1, <1>2, <1>3, ConcatProperties

\* The same for copy_w of the client.
LEMMA ToClient ==
  ASSUME TypeOK, NEW n \in 0..Pending(wb)
  PROVE  /\ Drop(wb, n) \in Queue /\ Room(Drop(wb, n)) >= 0
         /\ toClient \o SubSeq(wb.bytes, 1, n) \in Seq(Nat)
         /\ (toClient \o SubSeq(wb.bytes, 1, n)) \o Drop(wb, n).bytes
              = toClient \o wb.bytes
<1>1. /\ Drop(wb, n) \in Queue /\ Room(Drop(wb, n)) >= 0
      /\ SubSeq(wb.bytes, 1, n) \in Seq(Nat)
      /\ SubSeq(wb.bytes, 1, n) \o Drop(wb, n).bytes = wb.bytes
  BY DropType DEF TypeOK, BuffersType
<1>2. Drop(wb, n).bytes \in Seq(Nat) /\ toClient \in Seq(Nat)
  BY <1>1, Streams DEF Queue
<1>3. (toClient \o SubSeq(wb.bytes, 1, n)) \o Drop(wb, n).bytes
        = toClient \o (SubSeq(wb.bytes, 1, n) \o Drop(wb, n).bytes)
  BY <1>1, <1>2, Associative
<1>4. QED
  BY <1>1, <1>2, <1>3, ConcatProperties

\* copy_r of the origin: the next n bytes of the body fit in write_buffer.
LEMMA FromOrigin ==
  ASSUME TypeOK, NEW n \in 0..Least(Room(wb), resp.total - ogot),
         NEW b, b = Put(wb, Stream(ogot + 1, ogot + n))
  PROVE  /\ b \in Queue /\ Room(b) >= 0
         /\ ogot + n \in 0..resp.total
         /\ toClient \o wb.bytes = Stream(1, ogot)
              => toClient \o b.bytes = Stream(1, ogot + n)
<1> DEFINE s == Stream(ogot + 1, ogot + n)
<1>0. ogot \in Nat /\ resp.total \in Nat /\ ogot <= resp.total /\ Room(wb) \in Nat
  BY Numbers, Rooms
<1>a. b = Put(wb, s)
  OBVIOUS
<1>1. n \in Nat /\ n <= Room(wb) /\ ogot + n <= resp.total
  BY <1>0 DEF Least
<1>2. s \in Seq(Nat) /\ Len(s) = n
  <2>1. ogot + 1 \in Nat /\ ogot + n \in Nat /\ (ogot + n) + 1 >= ogot + 1
        /\ (ogot + n) - (ogot + 1) + 1 = n
    BY <1>0, <1>1
  <2>2. s \in Seq(Nat) /\ Len(s) = (ogot + n) - (ogot + 1) + 1
    BY <2>1, StreamType
  <2>3. QED
    BY <2>1, <2>2
<1>3. Stream(1, ogot) \o s = Stream(1, ogot + n)
  <2>1. 1 \in Nat \ {0} /\ ogot + 1 >= 1 /\ ogot + n \in Nat /\ ogot + n >= ogot
    BY <1>0, <1>1
  <2>2. QED
    BY <1>0, <2>1, StreamGrows
<1> HIDE DEF s
<1>4. /\ Put(wb, s) \in Queue /\ Room(Put(wb, s)) >= 0
      /\ Put(wb, s).bytes = wb.bytes \o s
  BY <1>1, <1>2, PutType DEF TypeOK, BuffersType
<1>5. toClient \o (wb.bytes \o s) = (toClient \o wb.bytes) \o s
  <2>1. toClient \in Seq(Nat) /\ wb.bytes \in Seq(Nat)
    BY Streams
  <2>2. QED
    BY <1>2, <2>1, Associative
<1>6. ogot + n \in 0..resp.total
  BY <1>0, <1>1
<1>7. b \in Queue /\ Room(b) >= 0 /\ b.bytes = wb.bytes \o s
  BY <1>4, <1>a
<1>8. ASSUME toClient \o wb.bytes = Stream(1, ogot)
      PROVE  toClient \o b.bytes = Stream(1, ogot + n)
  BY <1>3, <1>5, <1>7, <1>8
<1>9. QED
  BY <1>6, <1>7, <1>8

\* headers_read comes to the end of the head: the rest of what it has read is
\* a stream of its own in buff.
LEMMA BehindTheHead ==
  ASSUME TypeOK, ob = Empty, ogot < resp.head,
         NEW n \in 1..Least(Room(ob), resp.total - ogot), ogot + n >= resp.head,
         NEW b, b = Drop(Put(ob, Stream(ogot + 1, ogot + n)), resp.head - ogot)
  PROVE  /\ b \in Queue /\ Room(b) >= 0
         /\ b.bytes = Stream(resp.head + 1, ogot + n)
         /\ Pending(b) = ogot + n - resp.head
<1> DEFINE s == Stream(ogot + 1, ogot + n)
           k == resp.head - ogot
<1>0. /\ ogot \in Nat /\ resp.total \in Nat /\ ogot <= resp.total
      /\ resp.head \in Nat /\ Room(ob) \in Nat
  BY Numbers, Rooms
<1>1. n \in Nat /\ n <= Room(ob) /\ ogot + n <= resp.total /\ k \in 0..n
  BY <1>0 DEF Least
<1>2. /\ ogot + 1 \in Nat /\ ogot + n \in Nat /\ (ogot + n) + 1 >= ogot + 1
      /\ (ogot + n) - (ogot + 1) + 1 = n
      /\ (ogot + 1) + k = resp.head + 1
  BY <1>0, <1>1
<1>3. s \in Seq(Nat) /\ Len(s) = n
  <2>1. s \in Seq(Nat) /\ Len(s) = (ogot + n) - (ogot + 1) + 1
    BY <1>2, StreamType
  <2>2. QED
    BY <1>2, <2>1
<1>4. /\ Put(ob, s) \in Queue /\ Room(Put(ob, s)) >= 0
      /\ Put(ob, s).bytes = ob.bytes \o s
      /\ Pending(Put(ob, s)) = Pending(ob) + Len(s)
  <2> HIDE DEF s
  <2>1. QED
    BY <1>1, <1>3, PutType DEF TypeOK, BuffersType
<1>5. Put(ob, s).bytes = s /\ Pending(Put(ob, s)) = n
  BY <1>1, <1>3, <1>4, EmptyType, ConcatEmptySeq
<1>6. /\ Drop(Put(ob, s), k) \in Queue /\ Room(Drop(Put(ob, s), k)) >= 0
      /\ Pending(Drop(Put(ob, s), k)) = n - k
  <2> HIDE DEF s, k
  <2>1. QED
    BY <1>1, <1>4, <1>5, DropType
<1>7. Drop(Put(ob, s), k).bytes = Stream((ogot + 1) + k, ogot + n)
  <2>1. k \in 0..((ogot + n) - (ogot + 1) + 1)
    BY <1>1, <1>2
  <2> DEFINE q == Put(ob, s)
  <2>2. q \in Queue /\ Room(q) >= 0 /\ q.bytes = Stream(ogot + 1, ogot + n)
    BY <1>4, <1>5
  <2> HIDE DEF q, k
  <2>3. Drop(q, k).bytes = Stream((ogot + 1) + k, ogot + n)
    BY <1>2, <2>1, <2>2, DropStream
  <2>4. QED
    BY <2>3 DEF q
<1>8. n - k = ogot + n - resp.head
  BY <1>0, <1>1
<1>9. QED
  BY <1>2, <1>6, <1>7, <1>8

\* headers_flush: the head is put in write_buffer if it leaves room.
LEMMA HeadFlushed ==
  ASSUME TypeOK, NEW n \in Nat,
         NEW b, b = IF Room(wb) > n THEN Put(wb, Stream(1, n)) ELSE wb
  PROVE  /\ b \in Queue /\ Room(b) >= 0
         /\ wb = Empty /\ n < Capacity => b.bytes = Stream(1, n)
<1>1. Stream(1, n) \in Seq(Nat) /\ Len(Stream(1, n)) = n
  BY StreamType
<1>2. CASE Room(wb) > n
  <2>1. /\ Put(wb, Stream(1, n)) \in Queue /\ Room(Put(wb, Stream(1, n))) >= 0
        /\ Put(wb, Stream(1, n)).bytes = wb.bytes \o Stream(1, n)
    <3>1. wb \in Queue /\ Len(Stream(1, n)) <= Room(wb)
      BY <1>1, <1>2, Rooms DEF TypeOK, BuffersType
    <3>2. QED
      BY <1>1, <3>1, PutType
  <2>2. QED
    BY <1>1, <1>2, <2>1, EmptyType, ConcatEmptySeq
<1>3. CASE ~(Room(wb) > n)
  BY <1>3, EmptyType DEF TypeOK, BuffersType
<1>4. QED
  BY <1>2, <1>3

\* flush_body: all of buff goes behind the head.
LEMMA BodyFlushed ==
  ASSUME TypeOK, Pending(ob) <= Room(wb)
  PROVE  /\ Put(wb, ob.bytes) \in Queue /\ Room(Put(wb, ob.bytes)) >= 0
         /\ Drop(ob, Pending(ob)) = Empty
         /\ toClient \o Put(wb, ob.bytes).bytes = (toClient \o wb.bytes) \o ob.bytes
<1>1. /\ Put(wb, ob.bytes) \in Queue /\ Room(Put(wb, ob.bytes)) >= 0
      /\ Put(wb, ob.bytes).bytes = wb.bytes \o ob.bytes
  BY Streams, PutType DEF TypeOK, BuffersType, Pending
<1>2. Drop(ob, Pending(ob)) = Empty
  BY DEF Drop, Pending
<1>3. toClient \in Seq(Nat) /\ wb.bytes \in Seq(Nat) /\ ob.bytes \in Seq(Nat)
  BY Streams
<1>4. toClient \o (wb.bytes \o ob.bytes) = (toClient \o wb.bytes) \o ob.bytes
  BY <1>3, Associative
<1>5. QED
  BY <1>1, <1>2, <1>4

\* An error reply takes one position of write_buffer.
LEMMA ReplyPut ==
  ASSUME TypeOK, CanReply
  PROVE  Put(wb, <<ErrorReply>>) \in Queue /\ Room(Put(wb, <<ErrorReply>>)) >= 0
<1>1. <<ErrorReply>> \in Seq(Nat) /\ Len(<<ErrorReply>>) = 1
  BY DEF ErrorReply
<1>2. QED
  BY <1>1, PutType DEF TypeOK, BuffersType, CanReply

-----------------------------------------------------------------------------
(***************************************************************************)
(* The steps that move nothing between client and server.                   *)
(***************************************************************************)

\* Steps of the selector and of the thread, and those that leave the exchange
\* as it is.
Idle ==
  \/ LoopStep \/ SelectAny \/ ThreadStep \/ UNCHANGED vars
  \/ ConnectUnnoticed
  \/ RequestReadError \/ FlushBodyAgain \/ OriginAborts

\* The machines, the buffers and the streams are not theirs.
LEMMA IdleStep ==
  ASSUME Idle
  PROVE  UNCHANGED <<req, resp, fault, cst, ost, interest, done, rb, wb, ob,
                     cgot, ogot, body_length, toOrigin, toClient, replied>>
<1> USE DEF exchange, machines, buffers, wire, thread
<1>1. CASE LoopStep
  BY <1>1 DEF LoopStep, SkipEvent, EndIteration, EndBlock, DropJob, Handle, Block
<1>2. CASE SelectAny
  BY <1>2 DEF SelectAny, Select
<1>3. CASE ThreadStep
  BY <1>3 DEF ThreadStep, Notify, Resolve
<1>4. CASE UNCHANGED vars
  BY <1>4 DEF vars
<1>5. CASE ConnectUnnoticed
  BY <1>5 DEF ConnectUnnoticed, Block
<1>6. CASE RequestReadError \/ FlushBodyAgain \/ OriginAborts
  BY <1>6 DEF RequestReadError, FlushBodyAgain, OriginAborts, Event, Handle, Lost
<1>7. QED
  BY <1>1, <1>2, <1>3, <1>4, <1>5, <1>6 DEF Idle

\* The only job they add is that of the end of the resolution.
LEMMA IdleJobs ==
  ASSUME Idle, Open
  PROVE  /\ "origin" \in jobs' <=> "origin" \in jobs
         /\ dns' # "none" => dns # "none"
         /\ "client" \in jobs' =>
              "client" \in jobs \/ (dns # "none" /\ dns' = "none")
         /\ crash' = "none" => crash = "none"
<1> USE DEF exchange, machines, buffers, wire, thread
<1>1. CASE LoopStep
  BY <1>1 DEF LoopStep, SkipEvent, EndIteration, EndBlock, DropJob, Handle, Block,
              Open
<1>2. CASE SelectAny
  BY <1>2 DEF SelectAny, Select
<1>3. CASE ThreadStep
  BY <1>3 DEF ThreadStep, Notify, Resolve, Open
<1>4. CASE UNCHANGED vars
  BY <1>4 DEF vars
<1>5. CASE ConnectUnnoticed
  BY <1>5 DEF ConnectUnnoticed, Block, Delivering
<1>6. CASE RequestReadError
  BY <1>6 DEF RequestReadError, Event, Handle, Lost
<1>7. CASE FlushBodyAgain \/ OriginAborts
  BY <1>7 DEF FlushBodyAgain, OriginAborts, Event, Handle, Lost, Delivering
<1>8. QED
  BY <1>1, <1>2, <1>3, <1>4, <1>5, <1>6, <1>7 DEF Idle

\* Steps in which a read or a write of the client ends the exchange.
Quits == RequestReadNothing \/ ClientCopyRFails \/ ClientCopyWFails

\* They leave only what has come and gone.
LEMMA QuitsStep ==
  ASSUME Quits
  PROVE  /\ ClientDone("ERROR")
         /\ UNCHANGED <<req, resp, fault, cgot, ogot, toOrigin, toClient,
                        replied, dns, resolution, jobs, crash>>
  BY DEF Quits, RequestReadNothing, ClientCopyRFails, ClientCopyWFails, Event,
         Handle, exchange, thread

\* Closed descriptors have no events.
LEMMA OverIsOverStep == IInv /\ [Next]_vars => OverIsOver'
<1> SUFFICES ASSUME IInv, [Next]_vars PROVE OverIsOver'
  OBVIOUS
<1> USE DEF IInv, TypeOK, ControlType, OverIsOver, OneByOne, Open, Closed,
        exchange, machines, buffers, wire, thread, loop
<1>1. CASE Idle
  BY <1>1, IdleStep
<1>2. CASE Quits
  BY <1>2, QuitsStep DEF ClientDone
<1>3. ASSUME NEW n \in 1..Capacity, RequestRead(n) PROVE OverIsOver'
  BY <1>3 DEF RequestRead, Event, Handle, RequestResolv, ReplyOrClose, Reply,
     ClientDone
<1>4. CASE ResolvFailed
  BY <1>4 DEF ResolvFailed, Block, Delivering, ReplyOrClose, Reply, ClientDone
<1>5. CASE RequestConnect
  BY <1>5 DEF RequestConnect, Delivering
<1>6. ASSUME NEW n \in 0..Capacity, ClientCopyR(n) PROVE OverIsOver'
  BY <1>6 DEF ClientCopyR, Event, Handle
<1>7. ASSUME NEW n \in 1..Capacity, ClientCopyW(n) PROVE OverIsOver'
  BY <1>7 DEF ClientCopyW, Event, Handle
<1>8. CASE ClientDrained
  BY <1>8 DEF ClientDrained, Event, Handle, ClientDone
<1>9. CASE ClientTimeout
  BY <1>9 DEF ClientTimeout, Handle, Reply
<1>10. CASE Connected
  BY <1>10 DEF Connected, Event, Handle
<1>11. CASE ConnectFails
  BY <1>11 DEF ConnectFails, Event, Handle, Reply
<1>12. ASSUME NEW n \in 1..Capacity, HeadersRead(n) PROVE OverIsOver'
  BY <1>12 DEF HeadersRead, Event, Handle, HeadersFlush, FlushedInterest
<1>13. CASE HeadersReadFails
  BY <1>13 DEF HeadersReadFails, Event, Handle, OriginFails, HeadersFlush,
     FlushedInterest
<1>14. ASSUME NEW n \in 1..Capacity, OriginCopyW(n) PROVE OverIsOver'
  BY <1>14 DEF OriginCopyW, Event, Handle
<1>15. CASE OriginDrained
  BY <1>15 DEF OriginDrained, Event, Handle
<1>16. CASE OriginCopyWFails
  BY <1>16 DEF OriginCopyWFails, Event, Handle, OriginFails, HeadersFlush,
     FlushedInterest
<1>17. CASE FlushBody
  BY <1>17 DEF FlushBody, Block, Delivering, BodyIsDone
<1>18. ASSUME NEW n \in 0..Capacity, OriginCopyR(n) PROVE OverIsOver'
  BY <1>18 DEF OriginCopyR, Event, Handle, BodyIsDone
<1>19. CASE OriginCopyREnds
  BY <1>19 DEF OriginCopyREnds, Event, Handle
<1>20. QED
  BY <1>1, <1>2, <1>3, <1>4, <1>5, <1>6, <1>7, <1>8, <1>9, <1>10, <1>11,
     <1>12, <1>13, <1>14, <1>15, <1>16, <1>17, <1>18, <1>19 DEF Next,
     ClientStep, OriginStep, Idle, Quits

\* A second resolution or connection would need a second job of the client.
LEMMA OneByOneStep == IInv /\ [Next]_vars => OneByOne'
<1> SUFFICES ASSUME IInv, [Next]_vars PROVE OneByOne'
  OBVIOUS
<1> USE DEF IInv, TypeOK, ControlType, OverIsOver, OneByOne, Open, Closed,
        Headless, exchange, machines, buffers, wire, thread, loop
<1>1. CASE Idle
  BY <1>1, IdleJobs, IdleStep
<1>2. CASE Quits
  BY <1>2, QuitsStep DEF ClientDone
<1>3. ASSUME NEW n \in 1..Capacity, RequestRead(n) PROVE OneByOne'
  BY <1>3 DEF RequestRead, Event, Handle, RequestResolv, ReplyOrClose, Reply,
     ClientDone
<1>4. CASE ResolvFailed
  BY <1>4 DEF ResolvFailed, Block, Delivering, ReplyOrClose, Reply, ClientDone
<1>5. CASE RequestConnect
  BY <1>5 DEF RequestConnect, Delivering
<1>6. ASSUME NEW n \in 0..Capacity, ClientCopyR(n) PROVE OneByOne'
  BY <1>6 DEF ClientCopyR, Event, Handle
<1>7. ASSUME NEW n \in 1..Capacity, ClientCopyW(n) PROVE OneByOne'
  BY <1>7 DEF ClientCopyW, Event, Handle
<1>8. CASE ClientDrained
  BY <1>8 DEF ClientDrained, Event, Handle, ClientDone
<1>9. CASE ClientTimeout
  BY <1>9 DEF ClientTimeout, Handle, Reply
<1>10. CASE Connected
  BY <1>10 DEF Connected, Event, Handle
<1>11. CASE ConnectFails
  BY <1>11 DEF ConnectFails, Event, Handle, Reply
<1>12. ASSUME NEW n \in 1..Capacity, HeadersRead(n) PROVE OneByOne'
  BY <1>12 DEF HeadersRead, Event, Handle, HeadersFlush, FlushedInterest
<1>13. CASE HeadersReadFails
  BY <1>13 DEF HeadersReadFails, Event, Handle, OriginFails, HeadersFlush,
     FlushedInterest
<1>14. ASSUME NEW n \in 1..Capacity, OriginCopyW(n) PROVE OneByOne'
  BY <1>14 DEF OriginCopyW, Event, Handle
<1>15. CASE OriginDrained
  BY <1>15 DEF OriginDrained, Event, Handle
<1>16. CASE OriginCopyWFails
  BY <1>16 DEF OriginCopyWFails, Event, Handle, OriginFails, HeadersFlush,
     FlushedInterest
<1>17. CASE FlushBody
  BY <1>17 DEF FlushBody, Block, Delivering, BodyIsDone
<1>18. ASSUME NEW n \in 0..Capacity, OriginCopyR(n) PROVE OneByOne'
  BY <1>18 DEF OriginCopyR, Event, Handle, BodyIsDone
<1>19. CASE OriginCopyREnds
  BY <1>19 DEF OriginCopyREnds, Event, Handle
<1>20. QED
  BY <1>1, <1>2, <1>3, <1>4, <1>5, <1>6, <1>7, <1>8, <1>9, <1>10, <1>11,
     <1>12, <1>13, <1>14, <1>15, <1>16, <1>17, <1>18, <1>19 DEF Next,
     ClientStep, OriginStep, Idle, Quits

\* Only headers_flush and flush_body put bytes of the response in write_buffer.
LEMMA NothingYetStep == IInv /\ [Next]_vars => NothingYet'
<1> SUFFICES ASSUME IInv, [Next]_vars PROVE NothingYet'
  OBVIOUS
<1> USE DEF IInv, OverIsOver, OneByOne, NothingYet, Open, Closed, Headless,
        exchange, machines, buffers, wire, thread, loop
<1>1. CASE Idle
  BY <1>1, IdleStep
<1>2. CASE Quits
  BY <1>2, QuitsStep DEF ClientDone
<1>3. ASSUME NEW n \in 1..Capacity, RequestRead(n) PROVE NothingYet'
  BY <1>3 DEF RequestRead, Event, Handle, RequestResolv, ReplyOrClose, Reply,
     ClientDone
<1>4. CASE ResolvFailed
  BY <1>4 DEF ResolvFailed, Block, Delivering, ReplyOrClose, Reply, ClientDone
<1>5. CASE RequestConnect
  BY <1>5 DEF RequestConnect, Delivering
<1>6. ASSUME NEW n \in 0..Capacity, ClientCopyR(n) PROVE NothingYet'
  BY <1>6 DEF ClientCopyR, Event, Handle
<1>7. ASSUME NEW n \in 1..Capacity, ClientCopyW(n) PROVE NothingYet'
  BY <1>7, EmptyType DEF ClientCopyW, Event, Handle
<1>8. CASE ClientDrained
  BY <1>8 DEF ClientDrained, Event, Handle, ClientDone
<1>9. CASE ClientTimeout
  BY <1>9 DEF ClientTimeout, Handle, Reply
<1>10. CASE Connected
  BY <1>10 DEF Connected, Event, Handle
<1>11. CASE ConnectFails
  BY <1>11 DEF ConnectFails, Event, Handle, Reply
<1>12. ASSUME NEW n \in 1..Capacity, HeadersRead(n) PROVE NothingYet'
  BY <1>12 DEF HeadersRead, Event, Handle, HeadersFlush, FlushedInterest
<1>13. CASE HeadersReadFails
  BY <1>13 DEF HeadersReadFails, Event, Handle, OriginFails, HeadersFlush,
     FlushedInterest
<1>14. ASSUME NEW n \in 1..Capacity, OriginCopyW(n) PROVE NothingYet'
  BY <1>14 DEF OriginCopyW, Event, Handle
<1>15. CASE OriginDrained
  BY <1>15 DEF OriginDrained, Event, Handle
<1>16. CASE OriginCopyWFails
  BY <1>16 DEF OriginCopyWFails, Event, Handle, OriginFails, HeadersFlush,
     FlushedInterest
<1>17. CASE FlushBody
  BY <1>17 DEF FlushBody, Block, Delivering, BodyIsDone
<1>18. ASSUME NEW n \in 0..Capacity, OriginCopyR(n) PROVE NothingYet'
  BY <1>18 DEF OriginCopyR, Event, Handle, BodyIsDone
<1>19. CASE OriginCopyREnds
  BY <1>19 DEF OriginCopyREnds, Event, Handle
<1>20. QED
  BY <1>1, <1>2, <1>3, <1>4, <1>5, <1>6, <1>7, <1>8, <1>9, <1>10, <1>11,
     <1>12, <1>13, <1>14, <1>15, <1>16, <1>17, <1>18, <1>19 DEF Next,
     ClientStep, OriginStep, Idle, Quits

-----------------------------------------------------------------------------
(***************************************************************************)
(* Types.                                                                   *)
(***************************************************************************)

\* States, interests and flags stay what they are.
LEMMA ControlStep == IInv /\ [Next]_vars => ControlType'
<1> SUFFICES ASSUME IInv, [Next]_vars PROVE ControlType'
  OBVIOUS
<1> USE DEF IInv, TypeOK, ControlType, Closed, Op, READ, WRITE, Peer, AllDone,
        exchange, machines, buffers, wire, thread, loop
<1>1. CASE Idle
  <2>1. CASE LoopStep
    <3>1. CASE SkipEvent
      BY <3>1 DEF SkipEvent, Handle
    <3>2. CASE EndIteration \/ EndBlock
      BY <3>2, ZenonT(30) DEF EndIteration, EndBlock
    <3>3. ASSUME NEW p \in Peer, DropJob(p) PROVE ControlType'
      BY <3>3 DEF DropJob, Block
    <3>4. QED
      BY <2>1, <3>1, <3>2, <3>3 DEF LoopStep
  <2>2. CASE SelectAny
    BY <2>2 DEF SelectAny, Select
  <2>3. CASE ThreadStep
    BY <2>3, ZenonT(30) DEF ThreadStep, Notify, Resolve
  <2>4. CASE UNCHANGED vars
    BY <2>4 DEF vars
  <2>5. CASE ConnectUnnoticed
    BY <2>5 DEF ConnectUnnoticed, Block
  <2>6. CASE RequestReadError \/ FlushBodyAgain \/ OriginAborts
    BY <2>6, ZenonT(30) DEF RequestReadError, FlushBodyAgain, OriginAborts, Event, Handle, Lost
  <2>7. QED
    BY <1>1, <2>1, <2>2, <2>3, <2>4, <2>5, <2>6 DEF Idle
<1>2. CASE Quits
  BY <1>2, QuitsStep, ZenonT(30) DEF ClientDone
<1>3. ASSUME NEW n \in 1..Capacity, RequestRead(n) PROVE ControlType'
  <2>1. cst' \in {"REQUEST_HEADERS", "COPY", "ERROR"} /\ ost' \in {"none", "closed", ost}
    BY <1>3 DEF RequestRead, ReplyOrClose, Reply, ClientDone
  <2>2. /\ interest' \in {interest, [p \in Peer |-> {}],
                        [interest EXCEPT !["client"] = {WRITE}]}
        /\ done' \in {done, {}, AllDone, done \union {"req"}}
    BY <1>3 DEF RequestRead, ReplyOrClose, Reply, ClientDone
  <2>3. dns' \in {dns, "resolving"} /\ replied' \in BOOLEAN
    BY <1>3 DEF RequestRead, RequestResolv, ReplyOrClose, Reply, ClientDone
  <2>4. QED
    BY <1>3, <2>1, <2>2, <2>3 DEF RequestRead, Event, Handle
<1>4. CASE ResolvFailed
  BY <1>4, ZenonT(30) DEF ResolvFailed, Block, Delivering, ReplyOrClose, Reply, ClientDone
<1>5. CASE RequestConnect
  BY <1>5 DEF RequestConnect, Delivering
<1>6. ASSUME NEW n \in 0..Capacity, ClientCopyR(n) PROVE ControlType'
  BY <1>6 DEF ClientCopyR, Event, Handle
<1>7. ASSUME NEW n \in 1..Capacity, ClientCopyW(n) PROVE ControlType'
  BY <1>7 DEF ClientCopyW, Event, Handle
<1>8. CASE ClientDrained
  BY <1>8, ZenonT(30) DEF ClientDrained, Event, Handle, ClientDone
<1>9. CASE ClientTimeout
  BY <1>9, ZenonT(30) DEF ClientTimeout, Handle, Reply
<1>10. CASE Connected
  BY <1>10 DEF Connected, Event, Handle
<1>11. CASE ConnectFails
  BY <1>11, ZenonT(30) DEF ConnectFails, Event, Handle, Reply
<1>12. ASSUME NEW n \in 1..Capacity, HeadersRead(n) PROVE ControlType'
  BY <1>12, ZenonT(30) DEF HeadersRead, Event, Handle, HeadersFlush, FlushedInterest
<1>13. CASE HeadersReadFails
  BY <1>13, ZenonT(30) DEF HeadersReadFails, Event, Handle, OriginFails, HeadersFlush,
     FlushedInterest
<1>14. ASSUME NEW n \in 1..Capacity, OriginCopyW(n) PROVE ControlType'
  BY <1>14 DEF OriginCopyW, Event, Handle
<1>15. CASE OriginDrained
  BY <1>15 DEF OriginDrained, Event, Handle
<1>16. CASE OriginCopyWFails
  BY <1>16, ZenonT(30) DEF OriginCopyWFails, Event, Handle, OriginFails, HeadersFlush,
     FlushedInterest
<1>17. CASE FlushBody
  BY <1>17 DEF FlushBody, Block, Delivering, BodyIsDone
<1>18. ASSUME NEW n \in 0..Capacity, OriginCopyR(n) PROVE ControlType'
  BY <1>18 DEF OriginCopyR, Event, Handle, BodyIsDone
<1>19. CASE OriginCopyREnds
  BY <1>19 DEF OriginCopyREnds, Event, Handle
<1>20. QED
  BY <1>1, <1>2, <1>3, <1>4, <1>5, <1>6, <1>7, <1>8, <1>9, <1>10, <1>11,
     <1>12, <1>13, <1>14, <1>15, <1>16, <1>17, <1>18, <1>19 DEF Next,
     ClientStep, OriginStep, Idle, Quits

\* What is put in a buffer fits.
LEMMA BuffersStep == IInv /\ [Next]_vars => BuffersType'
<1> SUFFICES ASSUME IInv, [Next]_vars PROVE BuffersType'
  OBVIOUS
<1> USE DEF IInv, TypeOK, BuffersType, OverIsOver, OneByOne, Open, Closed,
        Headless, exchange, machines, buffers, wire, thread, loop
<1>a. Empty \in Queue /\ Room(Empty) >= 0
  BY EmptyType, CapacityAssumption
<1>1. CASE Idle
  BY <1>1, IdleStep
<1>2. CASE Quits
  BY <1>2, <1>a, ReplyPut, QuitsStep DEF ClientDone
<1>3. ASSUME NEW n \in 1..Capacity, RequestRead(n) PROVE BuffersType'
  <2> DEFINE b == Put(rb, Stream(cgot + 1, cgot + n))
  <2>1. Open /\ n \in 0..Least(Room(rb), req.total - cgot) /\ cgot' = cgot + n
    BY <1>3 DEF RequestRead, Event, Open, Closed
  <2>2. /\ b \in Queue /\ Room(b) >= 0
        /\ cgot + n \in 0..req.total
        /\ toOrigin \o b.bytes = Stream(1, cgot + n)
    BY <2>1, FromClient
  <2>3. /\ rb' \in {rb, b, Empty}
        /\ wb' \in {wb, Empty} \/ (CanReply /\ wb' = Put(wb, <<ErrorReply>>))
        /\ ob' \in {ob, Empty}
    BY <1>3, <2>1 DEF RequestRead, Event, Handle, RequestResolv, ReplyOrClose, Reply,
           ClientDone
  <2> HIDE DEF b
  <2>4. QED
    BY <2>2, <2>3, <1>a, ReplyPut
<1>4. CASE ResolvFailed
  BY <1>4, <1>a, ReplyPut DEF ResolvFailed, Block, Delivering,
     ReplyOrClose, Reply, ClientDone
<1>5. CASE RequestConnect
  BY <1>5 DEF RequestConnect, Delivering
<1>6. ASSUME NEW n \in 0..Capacity, ClientCopyR(n) PROVE BuffersType'
  <2> DEFINE b == Put(rb, Stream(cgot + 1, cgot + n))
  <2>1. Open /\ n \in 0..Least(Room(rb), req.total - cgot) /\ cgot' = cgot + n
    BY <1>6 DEF ClientCopyR, Event, Open, Closed
  <2>2. /\ b \in Queue /\ Room(b) >= 0
        /\ cgot + n \in 0..req.total
        /\ toOrigin \o b.bytes = Stream(1, cgot + n)
    BY <2>1, FromClient
  <2>3. rb' = b /\ wb' = wb /\ ob' = ob
    BY <1>6 DEF ClientCopyR, Event, Handle
  <2>4. QED
    BY <2>2, <2>3
<1>7. ASSUME NEW n \in 1..Capacity, ClientCopyW(n) PROVE BuffersType'
  <2>1. n \in 0..Pending(wb) /\ wb' = Drop(wb, n) /\ rb' = rb /\ ob' = ob
    BY <1>7 DEF ClientCopyW
  <2>2. QED
    BY <2>1, ToClient
<1>8. CASE ClientDrained
  BY <1>8, <1>a, ReplyPut DEF ClientDrained, Event, Handle, ClientDone
<1>9. CASE ClientTimeout
  BY <1>9, <1>a, ReplyPut DEF ClientTimeout, Handle, Reply
<1>10. CASE Connected
  BY <1>10, <1>a, ReplyPut DEF Connected, Event, Handle
<1>11. CASE ConnectFails
  BY <1>11, <1>a, ReplyPut DEF ConnectFails, Event, Handle, Reply
<1>12. ASSUME NEW n \in 1..Capacity, HeadersRead(n) PROVE BuffersType'
  <2>1. CASE ogot' < resp.head
    BY <1>12, <2>1 DEF HeadersRead
  <2>2. CASE ~(ogot' < resp.head)
    <3>1. /\ Open /\ ob = Empty /\ ogot < resp.head /\ ogot' = ogot + n
          /\ n \in 1..Least(Room(ob), resp.total - ogot) /\ rb' = rb
      BY <1>12 DEF HeadersRead, Event
    <3>2. ob' \in Queue /\ Room(ob') >= 0
      BY <1>12, <2>2, <3>1, Numbers, BehindTheHead DEF HeadersRead
    <3>3. wb' \in Queue /\ Room(wb') >= 0
      BY <1>12, <2>2, Numbers, HeadFlushed DEF HeadersRead, HeadersFlush
    <3>4. QED
      BY <3>1, <3>2, <3>3
  <2>3. QED
    BY <2>1, <2>2
<1>13. CASE HeadersReadFails
  <2>1. Least(ogot, resp.head) \in Nat
    BY Numbers DEF Least
  <2>2. wb' \in Queue /\ Room(wb') >= 0
    BY <1>13, <2>1, HeadFlushed DEF HeadersReadFails, OriginFails, HeadersFlush
  <2>3. QED
    BY <1>13, <2>2 DEF HeadersReadFails, OriginFails
<1>14. ASSUME NEW n \in 1..Capacity, OriginCopyW(n) PROVE BuffersType'
  <2>1. n \in 0..Pending(rb) /\ rb' = Drop(rb, n) /\ wb' = wb /\ ob' = ob
    BY <1>14 DEF OriginCopyW
  <2>2. QED
    BY <2>1, ToOrigin
<1>15. CASE OriginDrained
  BY <1>15 DEF OriginDrained, Event, Handle
<1>16. CASE OriginCopyWFails
  <2>1. Least(ogot, resp.head) \in Nat
    BY Numbers DEF Least
  <2>2. wb' \in Queue /\ Room(wb') >= 0
    BY <1>16, <2>1, HeadFlushed DEF OriginCopyWFails, OriginFails, HeadersFlush
  <2>3. QED
    BY <1>16, <2>2 DEF OriginCopyWFails, OriginFails
<1>17. CASE FlushBody
  <2>1. /\ Pending(ob) <= Room(wb) /\ rb' = rb
        /\ wb' = Put(wb, ob.bytes) /\ ob' = Drop(ob, Pending(ob))
    BY <1>17 DEF FlushBody
  <2>2. QED
    BY <2>1, BodyFlushed, <1>a
<1>18. ASSUME NEW n \in 0..Capacity, OriginCopyR(n) PROVE BuffersType'
  <2>1. /\ n \in 0..Least(Room(wb), resp.total - ogot) /\ ogot' = ogot + n
        /\ wb' = Put(wb, Stream(ogot + 1, ogot + n)) /\ rb' = rb /\ ob' = ob
    BY <1>18 DEF OriginCopyR
  <2>2. wb' \in Queue /\ Room(wb') >= 0
    BY <2>1, FromOrigin
  <2>3. QED
    BY <2>1, <2>2
<1>19. CASE OriginCopyREnds
  BY <1>19 DEF OriginCopyREnds, Event, Handle
<1>20. QED
  BY <1>1, <1>2, <1>3, <1>4, <1>5, <1>6, <1>7, <1>8, <1>9, <1>10, <1>11,
     <1>12, <1>13, <1>14, <1>15, <1>16, <1>17, <1>18, <1>19 DEF Next,
     ClientStep, OriginStep, Idle, Quits

\* What has come is part of what is sent.
LEMMA WireStep == IInv /\ [Next]_vars => WireType'
<1> SUFFICES ASSUME IInv, [Next]_vars PROVE WireType'
  OBVIOUS
<1> USE DEF IInv, TypeOK, WireType, Open, Closed, exchange, machines, buffers,
        wire, thread, loop
<1>1. CASE Idle
  BY <1>1, IdleStep
<1>2. CASE Quits
  BY <1>2, QuitsStep DEF ClientDone
<1>3. ASSUME NEW n \in 1..Capacity, RequestRead(n) PROVE WireType'
  <2> DEFINE b == Put(rb, Stream(cgot + 1, cgot + n))
  <2>1. Open /\ n \in 0..Least(Room(rb), req.total - cgot) /\ cgot' = cgot + n
    BY <1>3 DEF RequestRead, Event, Open, Closed
  <2>2. /\ b \in Queue /\ Room(b) >= 0
        /\ cgot + n \in 0..req.total
        /\ toOrigin \o b.bytes = Stream(1, cgot + n)
    BY <2>1, FromClient
  <2>3. body_length' \in {body_length, 0}
    BY <1>3 DEF RequestRead, ReplyOrClose, ClientDone
  <2>4. QED
    BY <1>3, <2>1, <2>2, <2>3 DEF RequestRead, Event, Handle
<1>4. CASE ResolvFailed
  BY <1>4 DEF ResolvFailed, Block, Delivering, ReplyOrClose, Reply, ClientDone
<1>5. CASE RequestConnect
  BY <1>5 DEF RequestConnect, Delivering
<1>6. ASSUME NEW n \in 0..Capacity, ClientCopyR(n) PROVE WireType'
  <2> DEFINE b == Put(rb, Stream(cgot + 1, cgot + n))
  <2>1. Open /\ n \in 0..Least(Room(rb), req.total - cgot) /\ cgot' = cgot + n
    BY <1>6 DEF ClientCopyR, Event, Open, Closed
  <2>2. /\ b \in Queue /\ Room(b) >= 0
        /\ cgot + n \in 0..req.total
        /\ toOrigin \o b.bytes = Stream(1, cgot + n)
    BY <2>1, FromClient
  <2>3. QED
    BY <1>6, <2>1, <2>2 DEF ClientCopyR, Event, Handle
<1>7. ASSUME NEW n \in 1..Capacity, ClientCopyW(n) PROVE WireType'
  <2>1. n \in 0..Pending(wb)
    BY <1>7 DEF ClientCopyW
  <2>2. toClient \o SubSeq(wb.bytes, 1, n) \in Seq(Nat) /\ << >> \in Seq(Nat)
    BY <2>1, ToClient, EmptySeq
  <2>3. QED
    BY <1>7, <2>2 DEF ClientCopyW, Event, Handle
<1>8. CASE ClientDrained
  BY <1>8 DEF ClientDrained, Event, Handle, ClientDone
<1>9. CASE ClientTimeout
  BY <1>9 DEF ClientTimeout, Handle, Reply
<1>10. CASE Connected
  BY <1>10 DEF Connected, Event, Handle
<1>11. CASE ConnectFails
  BY <1>11 DEF ConnectFails, Event, Handle, Reply
<1>12. ASSUME NEW n \in 1..Capacity, HeadersRead(n) PROVE WireType'
  <2>1. ogot' \in 0..resp.total
    <3>1. /\ ogot \in Nat /\ resp.total \in Nat /\ ogot <= resp.total
          /\ Room(ob) \in Nat
      BY Numbers, Rooms
    <3>2. n \in 1..Least(Room(ob), resp.total - ogot) /\ ogot' = ogot + n
      BY <1>12 DEF HeadersRead
    <3>3. QED
      BY <3>1, <3>2 DEF Least
  <2>2. body_length' \in Int
    BY <1>12, Numbers DEF HeadersRead
  <2>3. QED
    BY <1>12, <2>1, <2>2 DEF HeadersRead, Event, Handle
<1>13. CASE HeadersReadFails
  BY <1>13 DEF HeadersReadFails, Event, Handle, OriginFails, HeadersFlush,
     FlushedInterest
<1>14. ASSUME NEW n \in 1..Capacity, OriginCopyW(n) PROVE WireType'
  <2>1. n \in 0..Pending(rb)
    BY <1>14 DEF OriginCopyW
  <2>2. toOrigin \o SubSeq(rb.bytes, 1, n) \in Seq(Nat)
    BY <2>1, ToOrigin
  <2>3. QED
    BY <1>14, <2>2 DEF OriginCopyW, Event, Handle
<1>15. CASE OriginDrained
  BY <1>15 DEF OriginDrained, Event, Handle
<1>16. CASE OriginCopyWFails
  BY <1>16 DEF OriginCopyWFails, Event, Handle, OriginFails, HeadersFlush,
     FlushedInterest
<1>17. CASE FlushBody
  <2>1. body_length' \in Int
    BY <1>17, Rooms, Numbers, SMTT(30) DEF FlushBody, BodyIsDone
  <2>2. QED
    BY <1>17, <2>1 DEF FlushBody, Block
<1>18. ASSUME NEW n \in 0..Capacity, OriginCopyR(n) PROVE WireType'
  <2>1. n \in 0..Least(Room(wb), resp.total - ogot) /\ ogot' = ogot + n
    BY <1>18 DEF OriginCopyR
  <2>2. ogot' \in 0..resp.total
    BY <2>1, FromOrigin
  <2>3. body_length' \in Int
    BY <1>18, Numbers DEF OriginCopyR, BodyIsDone
  <2>4. QED
    BY <1>18, <2>2, <2>3 DEF OriginCopyR, Event, Handle
<1>19. CASE OriginCopyREnds
  BY <1>19 DEF OriginCopyREnds, Event, Handle
<1>20. QED
  BY <1>1, <1>2, <1>3, <1>4, <1>5, <1>6, <1>7, <1>8, <1>9, <1>10, <1>11,
     <1>12, <1>13, <1>14, <1>15, <1>16, <1>17, <1>18, <1>19 DEF Next,
     ClientStep, OriginStep, Idle, Quits

\* handle_iteration goes through the events of pselect, the timeout among them.
LEMMA LoopStepType == IInv /\ [Next]_vars => LoopType'
<1> SUFFICES ASSUME IInv, [Next]_vars PROVE LoopType'
  OBVIOUS
<1>1. LoopType
  BY DEF IInv, TypeOK
<1> USE DEF LoopType, loop
<1>2. ASSUME NEW e \in todo, Handle(e), idle' \in BOOLEAN PROVE LoopType'
  BY <1>1, <1>2 DEF Handle
<1>3. ASSUME NEW p \in Peer, NEW op \in Op, Event(p, op) PROVE LoopType'
  <2>1. Handle(<<p, op>>) /\ <<p, op>> \in todo /\ idle' = (idle /\ p # "client")
    BY <1>3 DEF Event, Handle
  <2>2. idle' \in BOOLEAN
    BY <2>1
  <2>3. QED
    BY <1>2, <2>1, <2>2
<1>4. ASSUME NEW p \in Peer, Block(p) PROVE LoopType'
  BY <1>1, <1>4 DEF Block
<1>5. ASSUME UNCHANGED loop PROVE LoopType'
  BY <1>1, <1>5
<1>6. "client" \in Peer /\ "origin" \in Peer /\ READ \in Op /\ WRITE \in Op
  BY DEF Peer, Op
<1>7. CASE ClientStep
  <2>1. CASE RequestConnect
    BY <1>1, <2>1 DEF RequestConnect
  <2>2. CASE ClientTimeout
    BY <1>1, <2>2 DEF ClientTimeout, Handle
  <2>3. CASE ~RequestConnect /\ ~ClientTimeout
    <3>1. \/ Event("client", READ) \/ Event("client", WRITE) \/ Block("client")
      BY <1>7, <2>3
         DEF ClientStep, RequestReadNothing, RequestReadError, RequestRead,
             ResolvFailed, ConnectUnnoticed, ClientCopyR, ClientCopyRFails,
             ClientCopyW, ClientDrained, ClientCopyWFails
    <3>2. QED
      BY <1>3, <1>4, <1>6, <3>1
  <2>4. QED
    BY <2>1, <2>2, <2>3
<1>8. CASE OriginStep
  <2>1. \/ Event("origin", READ) \/ Event("origin", WRITE) \/ Block("origin")
        \/ UNCHANGED loop
    BY <1>8
       DEF OriginStep, Connected, ConnectFails, HeadersRead, HeadersReadFails,
           OriginCopyW, OriginDrained, OriginCopyWFails, FlushBody,
           FlushBodyAgain, OriginCopyR, OriginCopyREnds, OriginAborts
  <2>2. QED
    BY <1>3, <1>4, <1>5, <1>6, <2>1
<1>9. CASE LoopStep
  <2>1. CASE SkipEvent
    BY <1>1, <1>2, <2>1 DEF SkipEvent
  <2>2. CASE EndIteration \/ EndBlock
    BY <1>1, <2>2 DEF EndIteration, EndBlock
  <2>3. ASSUME NEW p \in Peer, DropJob(p) PROVE LoopType'
    BY <1>4, <2>3 DEF DropJob
  <2>4. QED
    BY <1>9, <2>1, <2>2, <2>3 DEF LoopStep
<1>10. CASE SelectAny
  <2>1. PICK r \in SUBSET Ready, late \in BOOLEAN : Select(r, late)
    BY <1>10 DEF SelectAny
  <2>2. r \subseteq Peer \X Op
    BY DEF Ready
  <2>3. <<"client", "timeout">> \in Peer \X (Op \union {"timeout"})
    BY <1>6
  <2>4. todo' \subseteq Peer \X (Op \union {"timeout"})
    BY <2>1, <2>2, <2>3 DEF Select
  <2>5. idle' \in BOOLEAN
    BY <1>1, <2>1 DEF Select
  <2>6. QED
    BY <1>1, <2>1, <2>4, <2>5 DEF Select
<1>11. CASE ThreadStep
  BY <1>1, <1>11 DEF ThreadStep, Notify, Resolve
<1>12. CASE UNCHANGED vars
  BY <1>5, <1>12 DEF vars
<1>13. QED
  BY <1>7, <1>8, <1>9, <1>10, <1>11, <1>12 DEF Next

-----------------------------------------------------------------------------
(***************************************************************************)
(* Streams and interests.                                                   *)
(***************************************************************************)

\* Every byte of the request is kept until it is sent.
LEMMA RequestStep == IInv /\ [Next]_vars => RequestInOrder'
<1> SUFFICES ASSUME IInv, [Next]_vars PROVE RequestInOrder'
  OBVIOUS
<1> USE DEF IInv, TypeOK, RequestInOrder, Open, Closed, exchange, machines,
        buffers, wire, thread, loop
<1>1. CASE Idle
  BY <1>1, IdleStep
<1>2. CASE Quits
  BY <1>2, QuitsStep DEF ClientDone
<1>3. ASSUME NEW n \in 1..Capacity, RequestRead(n) PROVE RequestInOrder'
  <2> DEFINE b == Put(rb, Stream(cgot + 1, cgot + n))
  <2>1. Open /\ n \in 0..Least(Room(rb), req.total - cgot) /\ cgot' = cgot + n
    BY <1>3 DEF RequestRead, Event, Open, Closed
  <2>2. /\ b \in Queue /\ Room(b) >= 0
        /\ cgot + n \in 0..req.total
        /\ toOrigin \o b.bytes = Stream(1, cgot + n)
    BY <2>1, FromClient
  <2>3. (cst' = "ERROR" \/ rb' = b) /\ toOrigin' = toOrigin
    BY <1>3, <2>1 DEF RequestRead, ReplyOrClose, ClientDone
  <2> HIDE DEF b
  <2>4. QED
    BY <2>1, <2>2, <2>3
<1>4. CASE ResolvFailed
  BY <1>4 DEF ResolvFailed, Block, Delivering, ReplyOrClose, Reply, ClientDone
<1>5. CASE RequestConnect
  BY <1>5 DEF RequestConnect, Delivering
<1>6. ASSUME NEW n \in 0..Capacity, ClientCopyR(n) PROVE RequestInOrder'
  <2> DEFINE b == Put(rb, Stream(cgot + 1, cgot + n))
  <2>1. Open /\ n \in 0..Least(Room(rb), req.total - cgot) /\ cgot' = cgot + n
    BY <1>6 DEF ClientCopyR, Event, Open, Closed
  <2>2. /\ b \in Queue /\ Room(b) >= 0
        /\ cgot + n \in 0..req.total
        /\ toOrigin \o b.bytes = Stream(1, cgot + n)
    BY <2>1, FromClient
  <2>3. rb' = b /\ toOrigin' = toOrigin
    BY <1>6, <2>1 DEF ClientCopyR
  <2> HIDE DEF b
  <2>4. QED
    BY <2>1, <2>2, <2>3
<1>7. ASSUME NEW n \in 1..Capacity, ClientCopyW(n) PROVE RequestInOrder'
  BY <1>7 DEF ClientCopyW, Event, Handle
<1>8. CASE ClientDrained
  BY <1>8 DEF ClientDrained, Event, Handle, ClientDone
<1>9. CASE ClientTimeout
  BY <1>9 DEF ClientTimeout, Handle, Reply
<1>10. CASE Connected
  BY <1>10 DEF Connected, Event, Handle
<1>11. CASE ConnectFails
  BY <1>11 DEF ConnectFails, Event, Handle, Reply
<1>12. ASSUME NEW n \in 1..Capacity, HeadersRead(n) PROVE RequestInOrder'
  BY <1>12 DEF HeadersRead, Event, Handle, HeadersFlush, FlushedInterest
<1>13. CASE HeadersReadFails
  BY <1>13 DEF HeadersReadFails, Event, Handle, OriginFails, HeadersFlush,
     FlushedInterest
<1>14. ASSUME NEW n \in 1..Capacity, OriginCopyW(n) PROVE RequestInOrder'
  <2>1. /\ n \in 0..Pending(rb) /\ cgot' = cgot /\ cst' = cst
        /\ rb' = Drop(rb, n) /\ toOrigin' = toOrigin \o SubSeq(rb.bytes, 1, n)
    BY <1>14 DEF OriginCopyW
  <2>2. QED
    BY <2>1, ToOrigin
<1>15. CASE OriginDrained
  BY <1>15 DEF OriginDrained, Event, Handle
<1>16. CASE OriginCopyWFails
  BY <1>16 DEF OriginCopyWFails, Event, Handle, OriginFails, HeadersFlush,
     FlushedInterest
<1>17. CASE FlushBody
  BY <1>17 DEF FlushBody, Block, Delivering, BodyIsDone
<1>18. ASSUME NEW n \in 0..Capacity, OriginCopyR(n) PROVE RequestInOrder'
  BY <1>18 DEF OriginCopyR, Event, Handle, BodyIsDone
<1>19. CASE OriginCopyREnds
  BY <1>19 DEF OriginCopyREnds, Event, Handle
<1>20. QED
  BY <1>1, <1>2, <1>3, <1>4, <1>5, <1>6, <1>7, <1>8, <1>9, <1>10, <1>11,
     <1>12, <1>13, <1>14, <1>15, <1>16, <1>17, <1>18, <1>19 DEF Next,
     ClientStep, OriginStep, Idle, Quits

\* Whoever queues bytes sees to it that they are written.
LEMMA WakeupStep == IInv /\ [Next]_vars => NoLostWakeup'
<1> SUFFICES ASSUME IInv, [Next]_vars PROVE NoLostWakeup'
  OBVIOUS
<1> USE DEF IInv, TypeOK, ControlType, OverIsOver, OneByOne, NoLostWakeup,
        Open, Closed, Peer, Op, READ, WRITE, Headless, exchange, machines,
        buffers, wire, thread, loop
<1>1. CASE Idle
  BY <1>1, IdleJobs, IdleStep
<1>2. CASE Quits
  BY <1>2, EmptyType, Rooms, QuitsStep DEF ClientDone
<1>3. ASSUME NEW n \in 1..Capacity, RequestRead(n) PROVE NoLostWakeup'
  <2>1. ost = "none" /\ crash = "none" /\ Open
    BY <1>3 DEF RequestRead, Event, Handle
  <2>2. /\ cst' = "ERROR" \/ ost' = "none"
        /\ cst' = "ERROR" \/ (wb' = wb /\ interest' = interest)
             \/ WRITE \in interest'["client"]
    BY <1>3, <2>1 DEF RequestRead, ReplyOrClose, Reply, ClientDone
  <2>3. QED
    BY <2>1, <2>2
<1>4. CASE ResolvFailed
  BY <1>4, EmptyType, Rooms DEF ResolvFailed, Block, Delivering, ReplyOrClose,
     Reply, ClientDone
<1>5. CASE RequestConnect
  BY <1>5, EmptyType, Rooms DEF RequestConnect, Delivering
<1>6. ASSUME NEW n \in 0..Capacity, ClientCopyR(n) PROVE NoLostWakeup'
  BY <1>6, EmptyType, Rooms DEF ClientCopyR, Event, Handle
<1>7. ASSUME NEW n \in 1..Capacity, ClientCopyW(n) PROVE NoLostWakeup'
  BY <1>7, EmptyType, Rooms DEF ClientCopyW, Event, Handle
<1>8. CASE ClientDrained
  BY <1>8, EmptyType, Rooms DEF ClientDrained, Event, Handle, ClientDone
<1>9. CASE ClientTimeout
  BY <1>9, EmptyType, Rooms DEF ClientTimeout, Handle, Reply
<1>10. CASE Connected
  BY <1>10, EmptyType, Rooms DEF Connected, Event, Handle
<1>11. CASE ConnectFails
  BY <1>11, EmptyType, Rooms DEF ConnectFails, Event, Handle, Reply
<1>12. ASSUME NEW n \in 1..Capacity, HeadersRead(n) PROVE NoLostWakeup'
  BY <1>12, EmptyType, Rooms DEF HeadersRead, Event, Handle, HeadersFlush,
     FlushedInterest
<1>13. CASE HeadersReadFails
  BY <1>13, EmptyType, Rooms DEF HeadersReadFails, Event, Handle, OriginFails,
     HeadersFlush, FlushedInterest
<1>14. ASSUME NEW n \in 1..Capacity, OriginCopyW(n) PROVE NoLostWakeup'
  BY <1>14, EmptyType, Rooms DEF OriginCopyW, Event, Handle
<1>15. CASE OriginDrained
  BY <1>15, EmptyType, Rooms DEF OriginDrained, Event, Handle
<1>16. CASE OriginCopyWFails
  BY <1>16, EmptyType, Rooms DEF OriginCopyWFails, Event, Handle, OriginFails,
     HeadersFlush, FlushedInterest
<1>17. CASE FlushBody
  <2>1. /\ crash = "none" /\ Open /\ ost' = "COPY" /\ rb' = rb
        /\ WRITE \in interest'["client"] /\ READ \in interest'["origin"]
        /\ WRITE \in interest["origin"] => WRITE \in interest'["origin"]
        /\ "origin" \notin jobs' /\ ob' = Drop(ob, Pending(ob))
    BY <1>17 DEF FlushBody, Block, Delivering
  <2>2. Pending(ob') = 0
    BY <2>1, EmptyType DEF Drop, Pending
  <2>3. QED
    BY <1>17, <2>1, <2>2 DEF FlushBody
<1>18. ASSUME NEW n \in 0..Capacity, OriginCopyR(n) PROVE NoLostWakeup'
  BY <1>18, EmptyType, Rooms DEF OriginCopyR, Event, Handle, BodyIsDone
<1>19. CASE OriginCopyREnds
  BY <1>19, EmptyType, Rooms DEF OriginCopyREnds, Event, Handle
<1>20. QED
  BY <1>1, <1>2, <1>3, <1>4, <1>5, <1>6, <1>7, <1>8, <1>9, <1>10, <1>11,
     <1>12, <1>13, <1>14, <1>15, <1>16, <1>17, <1>18, <1>19 DEF Next,
     ClientStep, OriginStep, Idle, Quits

\* While the origin is read in COPY its buff is empty: flush_body has run.
LEMMA BuffIsEmpty ==
  ASSUME IInv, Event("origin", READ), ost = "COPY"
  PROVE  /\ Open
         /\ Pending(ob) = 0 /\ ob.bytes = << >>
         /\ (toClient \o wb.bytes) \o ob.bytes = toClient \o wb.bytes
<1>1. /\ Open /\ crash = "none" /\ READ \in interest["origin"]
      /\ ost = "COPY"
  BY DEF IInv, OverIsOver, Event, Handle
<1>2. "origin" \notin jobs
  BY <1>1 DEF IInv, NoLostWakeup
<1>3. Pending(ob) = 0
  BY <1>1, <1>2, Rooms DEF IInv, NoLostWakeup
<1>4. ob.bytes = << >>
  BY <1>3, NonePending DEF IInv, TypeOK, BuffersType
<1>5. toClient \in Seq(Nat) /\ wb.bytes \in Seq(Nat)
  BY Streams DEF IInv
<1>6. (toClient \o wb.bytes) \o << >> = toClient \o wb.bytes
  BY <1>5, ConcatProperties, ConcatEmptySeq
<1>7. QED
  BY <1>1, <1>3, <1>4, <1>6

\* The response is put in write_buffer where it was left off.
LEMMA OnItsWayStep == IInv /\ [Next]_vars => OnItsWay'
<1> SUFFICES ASSUME IInv, [Next]_vars PROVE OnItsWay'
  OBVIOUS
<1> USE DEF IInv, TypeOK, OverIsOver, OneByOne, NothingYet, OnItsWay, Open,
        Closed, Headless, exchange, machines, buffers, wire, thread, loop
<1>1. CASE Idle
  BY <1>1, IdleStep
<1>2. CASE Quits
  BY <1>2, QuitsStep DEF ClientDone
<1>3. ASSUME NEW n \in 1..Capacity, RequestRead(n) PROVE OnItsWay'
  <2>1. ost = "none" /\ Open
    BY <1>3 DEF RequestRead
  <2>2. \/ cst' = "ERROR"
        \/ replied' = TRUE
        \/ ost' = "none" /\ replied' = replied /\ ("resp" \in done' => "resp" \in done)
    BY <1>3, <2>1 DEF RequestRead, ReplyOrClose, Reply, ClientDone
  <2>3. CASE cst' = "ERROR" \/ replied' = TRUE
    BY <2>3
  <2>4. CASE ost' = "none" /\ replied' = replied /\ ("resp" \in done' => "resp" \in done)
    BY <2>1, <2>4
  <2>5. QED
    BY <2>2, <2>3, <2>4
<1>4. CASE ResolvFailed
  BY <1>4 DEF ResolvFailed, Block, Delivering, ReplyOrClose, Reply, ClientDone
<1>5. CASE RequestConnect
  BY <1>5 DEF RequestConnect, Delivering
<1>6. ASSUME NEW n \in 0..Capacity, ClientCopyR(n) PROVE OnItsWay'
  BY <1>6 DEF ClientCopyR, Event, Handle
<1>7. ASSUME NEW n \in 1..Capacity, ClientCopyW(n) PROVE OnItsWay'
  <2>1. n \in 0..Pending(wb) /\ wb' = Drop(wb, n)
    BY <1>7 DEF ClientCopyW
  <2>2. CASE replied
    BY <1>7, <2>2 DEF ClientCopyW
  <2>3. CASE ~replied
    <3>1. toClient' \o wb'.bytes = toClient \o wb.bytes
      BY <1>7, <2>1, <2>3, ToClient DEF ClientCopyW
    <3>2. UNCHANGED <<cst, ost, done, ob, ogot, resp, replied>>
      BY <1>7 DEF ClientCopyW, Event, Handle
    <3>3. QED
      BY <3>1, <3>2
  <2>4. QED
    BY <2>2, <2>3
<1>8. CASE ClientDrained
  <2>1. cst' = "DONE" \/ UNCHANGED <<cst, ost, done, wb, ob, resp>>
    BY <1>8 DEF ClientDrained, Event, Handle, ClientDone
  <2>2. QED
    BY <1>8, <2>1 DEF ClientDrained
<1>9. CASE ClientTimeout
  BY <1>9 DEF ClientTimeout, Handle, Reply
<1>10. CASE Connected
  BY <1>10 DEF Connected, Event, Handle
<1>11. CASE ConnectFails
  BY <1>11 DEF ConnectFails, Event, Handle, Reply
<1>12. ASSUME NEW n \in 1..Capacity, HeadersRead(n) PROVE OnItsWay'
  <2>1. CASE ogot' < resp.head
    BY <1>12, <2>1 DEF HeadersRead
  <2>2. CASE ~(ogot' < resp.head)
    <3>a. UNCHANGED <<resp, replied, toClient>> /\ ost' = "COPY" /\ Open
      BY <1>12, <2>2 DEF HeadersRead, Event, Handle
    <3> SUFFICES ASSUME ~replied, resp.head < Capacity
                 PROVE  /\ (toClient \o wb'.bytes) \o ob'.bytes = Stream(1, ogot')
                        /\ "resp" \notin done'
      BY <3>a
    <3>1. /\ Open /\ ob = Empty /\ ogot < resp.head /\ ogot' = ogot + n
          /\ n \in 1..Least(Room(ob), resp.total - ogot)
          /\ toClient = << >> /\ wb = Empty /\ "resp" \notin done
          /\ wb' = IF Room(wb) > resp.head THEN Put(wb, Stream(1, resp.head)) ELSE wb
          /\ ob' = Drop(Put(ob, Stream(ogot + 1, ogot + n)), resp.head - ogot)
          /\ "resp" \notin done'
      BY <1>12, <2>2 DEF HeadersRead, HeadersFlush, Event
    <3>2. resp.head \in Nat \ {0} /\ ogot \in Nat /\ n \in Nat /\ ogot + n >= resp.head
      BY <2>2, <3>1, Numbers
    <3>3. ob'.bytes = Stream(resp.head + 1, ogot + n)
      BY <3>1, <3>2, BehindTheHead
    <3>4. wb'.bytes = Stream(1, resp.head)
      BY <3>1, <3>2, HeadFlushed
    <3>5. << >> \o Stream(1, resp.head) = Stream(1, resp.head)
      BY <3>2, StreamType, ConcatEmptySeq
    <3>6. Stream(1, resp.head) \o Stream(resp.head + 1, ogot + n) = Stream(1, ogot + n)
      <4>1. ogot + n \in Nat /\ resp.head + 1 >= 1 /\ resp.head \in Nat
            /\ 1 \in Nat \ {0}
        BY <3>2
      <4>2. QED
        BY <3>2, <4>1, StreamGrows
    <3>7. QED
      BY <3>1, <3>3, <3>4, <3>5, <3>6
  <2>3. QED
    BY <1>12, <2>1, <2>2
<1>13. CASE HeadersReadFails
  BY <1>13 DEF HeadersReadFails, Event, Handle, OriginFails, HeadersFlush,
     FlushedInterest
<1>14. ASSUME NEW n \in 1..Capacity, OriginCopyW(n) PROVE OnItsWay'
  BY <1>14 DEF OriginCopyW, Event, Handle
<1>15. CASE OriginDrained
  BY <1>15 DEF OriginDrained, Event, Handle
<1>16. CASE OriginCopyWFails
  BY <1>16 DEF OriginCopyWFails, Event, Handle, OriginFails, HeadersFlush,
     FlushedInterest
<1>17. CASE FlushBody
  <2>1. /\ Pending(ob) <= Room(wb) /\ ost = "COPY" /\ Open
        /\ wb' = Put(wb, ob.bytes) /\ ob' = Drop(ob, Pending(ob))
        /\ UNCHANGED <<toClient, replied, ogot, ost, resp, cst>>
    BY <1>17 DEF FlushBody, Block
  <2>2. /\ toClient \o wb'.bytes = (toClient \o wb.bytes) \o ob.bytes
        /\ wb' \in Queue /\ ob'.bytes = << >>
    BY <2>1, BodyFlushed, EmptyType
  <2>3. (toClient \o wb'.bytes) \o << >> = toClient \o wb'.bytes
    <3>1. toClient \in Seq(Nat) /\ wb'.bytes \in Seq(Nat)
      BY <2>2, Streams DEF Queue
    <3>2. toClient \o wb'.bytes \in Seq(Nat)
      BY <3>1, ConcatProperties
    <3>3. QED
      BY <3>2, ConcatEmptySeq
  <2>4. QED
    BY <2>1, <2>2, <2>3
<1>18. ASSUME NEW n \in 0..Capacity, OriginCopyR(n) PROVE OnItsWay'
  <2>1. /\ n \in 0..Least(Room(wb), resp.total - ogot) /\ ogot' = ogot + n
        /\ wb' = Put(wb, Stream(ogot + 1, ogot + n)) /\ ost = "COPY"
        /\ UNCHANGED <<toClient, replied, ob, ost, resp, cst>>
    BY <1>18 DEF OriginCopyR, Event, Handle
  <2>2. ob.bytes = << >> /\ (toClient \o wb.bytes) \o ob.bytes = toClient \o wb.bytes
    BY <1>18, <2>1, BuffIsEmpty DEF OriginCopyR
  <2>3. /\ wb' \in Queue
        /\ toClient \o wb.bytes = Stream(1, ogot)
             => toClient \o wb'.bytes = Stream(1, ogot')
    BY <2>1, FromOrigin
  <2>4. (toClient \o wb'.bytes) \o << >> = toClient \o wb'.bytes
    <3>1. toClient \in Seq(Nat) /\ wb'.bytes \in Seq(Nat)
      BY <2>3, Streams DEF Queue
    <3>2. toClient \o wb'.bytes \in Seq(Nat)
      BY <3>1, ConcatProperties
    <3>3. QED
      BY <3>2, ConcatEmptySeq
  <2>5. QED
    BY <2>1, <2>2, <2>3, <2>4
<1>19. CASE OriginCopyREnds
  <2>1. (toClient \o wb.bytes) \o ob.bytes = toClient \o wb.bytes
    BY <1>19, BuffIsEmpty DEF OriginCopyREnds
  <2>2. QED
    BY <1>19, <2>1 DEF OriginCopyREnds, Event, Handle
<1>20. QED
  BY <1>1, <1>2, <1>3, <1>4, <1>5, <1>6, <1>7, <1>8, <1>9, <1>10, <1>11,
     <1>12, <1>13, <1>14, <1>15, <1>16, <1>17, <1>18, <1>19 DEF Next,
     ClientStep, OriginStep, Idle, Quits

\* The count of a body goes down with what is flushed and with what is read.
LEMMA CountDown ==
  ASSUME NEW head \in Nat, NEW length \in Nat, NEW got \in Nat,
         NEW left \in Int, NEW pending \in Nat, NEW n \in Nat,
         left = head + length - got + pending
  PROVE  /\ left - pending = head + length - got + 0
         /\ left - pending = 0 => got = head + length
         /\ pending = 0 => left - n = head + length - (got + n) + 0
         /\ pending = 0 /\ left - n = 0 => got + n = head + length
  OBVIOUS

\* So it does for what flush_body finds in buff.
LEMMA FlushCounts ==
  ASSUME TypeOK, body_length = resp.head + resp.length - ogot + Pending(ob)
  PROVE  /\ body_length - Pending(ob) = resp.head + resp.length - ogot + 0
         /\ body_length - Pending(ob) = 0 => ogot = resp.head + resp.length
<1>1. /\ resp.head \in Nat /\ resp.length \in Nat /\ ogot \in Nat
      /\ body_length \in Int /\ Pending(ob) \in Nat
  BY Numbers, Rooms
<1>2. body_length - Pending(ob) = resp.head + resp.length - ogot
  BY <1>1
<1>3. resp.head + resp.length - ogot = 0 => ogot = resp.head + resp.length
  BY <1>1
<1>4. QED
  BY <1>1, <1>2, <1>3

\* The body is counted as it is read, and done when the count says so.
LEMMA CountedStep == IInv /\ [Next]_vars => Counted'
<1> SUFFICES ASSUME IInv, [Next]_vars PROVE Counted'
  OBVIOUS
<1> USE DEF IInv, TypeOK, OverIsOver, OneByOne, NothingYet, Counted, Open,
        Closed, Headless, exchange, machines, buffers, wire, thread, loop
<1>1. CASE Idle
  BY <1>1, IdleStep
<1>2. CASE Quits
  BY <1>2, QuitsStep DEF ClientDone
<1>3. ASSUME NEW n \in 1..Capacity, RequestRead(n) PROVE Counted'
  <2>1. /\ ost = "none" /\ Open /\ cgot' = cgot + n /\ n \in Nat
        /\ UNCHANGED <<req, resp, fault, ogot>>
    BY <1>3 DEF RequestRead, Event, Handle
  <2>2. \/ cst' = "ERROR"
        \/ replied' = TRUE /\ ost' = "none"
        \/ /\ ost' = "none" /\ replied' = replied
           /\ "resp" \in done' => "resp" \in done
           /\ "req" \in done' => "req" \in done \/ cgot' - req.head = req.length
    BY <1>3, <2>1 DEF RequestRead, ReplyOrClose, Reply, ClientDone
  <2>3. CASE cst' = "ERROR"
    BY <2>3
  <2>4. CASE replied' = TRUE /\ ost' = "none"
    BY <2>4
  <2>5. CASE /\ ost' = "none" /\ replied' = replied
             /\ "resp" \in done' => "resp" \in done
             /\ "req" \in done' => "req" \in done \/ cgot' - req.head = req.length
    BY <2>1, <2>5, Numbers, SMTT(30)
  <2>6. QED
    BY <2>2, <2>3, <2>4, <2>5
<1>4. CASE ResolvFailed
  BY <1>4 DEF ResolvFailed, Block, Delivering, ReplyOrClose, Reply, ClientDone
<1>5. CASE RequestConnect
  BY <1>5 DEF RequestConnect, Delivering
<1>6. ASSUME NEW n \in 0..Capacity, ClientCopyR(n) PROVE Counted'
  <2>1. /\ cgot' = cgot + n /\ Open
        /\ "resp" \in done' => "resp" \in done
        /\ "req" \in done' => "req" \in done \/ cgot' - req.head = req.length
        /\ UNCHANGED <<req, resp, fault, ost, ob, ogot, body_length, replied>>
    BY <1>6 DEF ClientCopyR, Event, Handle
  <2>2. QED
    BY <2>1, Numbers, SMTT(30)
<1>7. ASSUME NEW n \in 1..Capacity, ClientCopyW(n) PROVE Counted'
  BY <1>7 DEF ClientCopyW, Event, Handle
<1>8. CASE ClientDrained
  BY <1>8 DEF ClientDrained, Event, Handle, ClientDone
<1>9. CASE ClientTimeout
  BY <1>9 DEF ClientTimeout, Handle, Reply
<1>10. CASE Connected
  BY <1>10 DEF Connected, Event, Handle
<1>11. CASE ConnectFails
  BY <1>11 DEF ConnectFails, Event, Handle, Reply
<1>12. ASSUME NEW n \in 1..Capacity, HeadersRead(n) PROVE Counted'
  <2>1. CASE ogot' < resp.head
    BY <1>12, <2>1 DEF HeadersRead, Event, Handle
  <2>2. CASE ~(ogot' < resp.head)
    <3>1. /\ Open /\ ob = Empty /\ ogot < resp.head /\ ogot' = ogot + n
          /\ n \in 1..Least(Room(ob), resp.total - ogot)
          /\ ob' = Drop(Put(ob, Stream(ogot + 1, ogot + n)), resp.head - ogot)
          /\ body_length' = resp.length /\ ost' = "COPY"
          /\ ~replied => "resp" \notin done'
          /\ "req" \in done' => "req" \in done
          /\ UNCHANGED <<req, resp, fault, cgot, replied>>
      BY <1>12, <2>2 DEF HeadersRead, Event, Handle
    <3>2. /\ resp.head \in Nat /\ ogot \in Nat /\ n \in Nat /\ ogot + n >= resp.head
          /\ resp.length \in Nat
      BY <2>2, <3>1, Numbers, SMTT(30)
    <3>3. Pending(ob') = ogot + n - resp.head
      BY <3>1, <3>2, BehindTheHead
    <3>4. resp.length = resp.head + resp.length - (ogot + n) + (ogot + n - resp.head)
      BY <3>2
    <3>5. QED
      BY <3>1, <3>3, <3>4
  <2>3. QED
    BY <1>12, <2>1, <2>2
<1>13. CASE HeadersReadFails
  BY <1>13 DEF HeadersReadFails, Event, Handle, OriginFails, HeadersFlush,
     FlushedInterest
<1>14. ASSUME NEW n \in 1..Capacity, OriginCopyW(n) PROVE Counted'
  BY <1>14 DEF OriginCopyW, Event, Handle
<1>15. CASE OriginDrained
  BY <1>15 DEF OriginDrained, Event, Handle
<1>16. CASE OriginCopyWFails
  BY <1>16 DEF OriginCopyWFails, Event, Handle, OriginFails, HeadersFlush,
     FlushedInterest
<1>17. CASE FlushBody
  <2>1. /\ ost = "COPY" /\ Open /\ ob' = Drop(ob, Pending(ob))
        /\ "req" \in done' => "req" \in done
        /\ UNCHANGED <<req, resp, fault, cgot, ogot, ost, replied>>
        /\ ~resp.chunked => /\ body_length' = body_length - Pending(ob)
                            /\ "resp" \in done' => body_length' = 0
    BY <1>17 DEF FlushBody, Block, BodyIsDone
  <2>2. Pending(ob') = 0
    BY <2>1, EmptyType DEF Drop, Pending
  <2>3. Pending(ob) \in Nat /\ body_length \in Int
    BY Rooms, Numbers
  <2>4. ~resp.chunked =>
          /\ body_length' = resp.head + resp.length - ogot + Pending(ob')
          /\ "resp" \in done' => ogot = resp.head + resp.length
    <3>1. ~resp.chunked => body_length = resp.head + resp.length - ogot + Pending(ob)
      BY <2>1
    <3>2. ~resp.chunked =>
            /\ body_length - Pending(ob) = resp.head + resp.length - ogot + 0
            /\ body_length - Pending(ob) = 0 => ogot = resp.head + resp.length
      BY <3>1, FlushCounts
    <3>3. QED
      BY <2>1, <2>2, <3>2
  <2>5. QED
    BY <2>1, <2>2, <2>4
<1>18. ASSUME NEW n \in 0..Capacity, OriginCopyR(n) PROVE Counted'
  <2>1. /\ ost = "COPY" /\ ogot' = ogot + n
        /\ "req" \in done' => "req" \in done
        /\ UNCHANGED <<req, resp, fault, cgot, ob, ost, replied>>
        /\ ~resp.chunked => /\ body_length' = body_length - n
                            /\ "resp" \in done' => body_length' = 0
    BY <1>18 DEF OriginCopyR, Event, Handle, BodyIsDone
  <2>2. Pending(ob) = 0 /\ Open
    BY <1>18, BuffIsEmpty DEF OriginCopyR
  <2>3. ~resp.chunked =>
          /\ body_length' = resp.head + resp.length - ogot' + Pending(ob')
          /\ "resp" \in done' => ogot' = resp.head + resp.length
    <3>1. /\ resp.head \in Nat /\ resp.length \in Nat /\ ogot \in Nat
          /\ body_length \in Int
      BY Numbers
    <3>2. ~resp.chunked => body_length = resp.head + resp.length - ogot + Pending(ob)
      BY <2>1, <2>2
    <3>3. Pending(ob') = 0
      BY <2>1, <2>2
    <3>4. QED
      BY <2>1, <2>2, <3>1, <3>2, <3>3, CountDown
  <2>4. QED
    BY <2>1, <2>2, <2>3
<1>19. CASE OriginCopyREnds
  <2>1. /\ ost = "COPY" /\ ost' = "RESPONSE_ERROR"
        /\ UNCHANGED <<req, resp, fault, cgot, ogot, ob, replied>>
        /\ "origin" \notin fault => Asked /\ ogot = resp.total
    BY <1>19 DEF OriginCopyREnds, Event, Handle, OriginMayClose
  <2>2. Pending(ob) = 0 /\ Open
    BY <1>19, BuffIsEmpty DEF OriginCopyREnds
  <2>3. Asked => cgot >= req.head + req.length
    <3>1. toOrigin \in Seq(Nat) /\ rb.bytes \in Seq(Nat)
      BY Streams
    <3>2. Len(toOrigin \o rb.bytes) = Len(toOrigin) + Len(rb.bytes)
      BY <3>1, ConcatProperties
    <3>3. Len(Stream(1, cgot)) = cgot
      <4>1. 1 \in Nat /\ cgot \in Nat /\ cgot + 1 >= 1
        BY Numbers
      <4>2. Len(Stream(1, cgot)) = cgot - 1 + 1
        BY <4>1, StreamType
      <4>3. QED
        BY <4>1, <4>2
    <3>4. Len(toOrigin) \in Nat /\ Len(rb.bytes) \in Nat
      BY <3>1, LenProperties
    <3>5. QED
      BY <2>2, <3>2, <3>3, <3>4, Numbers, SMTT(30) DEF RequestInOrder, Asked
  <2>4. QED
    BY <2>1, <2>2, <2>3
<1>20. QED
  BY <1>1, <1>2, <1>3, <1>4, <1>5, <1>6, <1>7, <1>8, <1>9, <1>10, <1>11,
     <1>12, <1>13, <1>14, <1>15, <1>16, <1>17, <1>18, <1>19 DEF Next,
     ClientStep, OriginStep, Idle, Quits

\* The last write of the client finds all three flags true.
LEMMA DoneStep == IInv /\ [Next]_vars => DoneIsComplete'
<1> SUFFICES ASSUME IInv, [Next]_vars PROVE DoneIsComplete'
  OBVIOUS
<1> USE DEF IInv, TypeOK, OverIsOver, OnItsWay, Counted, DoneIsComplete, Open,
        Closed, Peer, exchange, machines, buffers, wire, thread, loop
<1>1. CASE Idle
  BY <1>1, IdleStep
<1>2. CASE Quits
  BY <1>2, QuitsStep DEF ClientDone
<1>3. ASSUME NEW n \in 1..Capacity, RequestRead(n) PROVE DoneIsComplete'
  BY <1>3 DEF RequestRead, Event, Handle, RequestResolv, ReplyOrClose, Reply,
     ClientDone
<1>4. CASE ResolvFailed
  BY <1>4 DEF ResolvFailed, Block, Delivering, ReplyOrClose, Reply, ClientDone
<1>5. CASE RequestConnect
  BY <1>5 DEF RequestConnect, Delivering
<1>6. ASSUME NEW n \in 0..Capacity, ClientCopyR(n) PROVE DoneIsComplete'
  BY <1>6 DEF ClientCopyR, Event, Handle
<1>7. ASSUME NEW n \in 1..Capacity, ClientCopyW(n) PROVE DoneIsComplete'
  BY <1>7 DEF ClientCopyW, Event, Handle
<1>8. CASE ClientDrained
  <2>1. CASE done = AllDone
    <3>a. Open /\ replied' = replied
      BY <1>8 DEF ClientDrained, Event, Handle
    <3> SUFFICES ASSUME ~replied PROVE DoneIsComplete'
      BY <3>a
    <3>1. /\ "resp" \in done /\ "req" \in done /\ Pending(wb) = 0
          /\ UNCHANGED <<req, resp, fault, cgot, ogot, toClient, replied>>
      BY <1>8, <2>1 DEF ClientDrained, Event, Handle, AllDone
    <3>2. resp.head < Capacity => toClient = Stream(1, ogot)
      <4>1. wb.bytes = << >>
        BY <3>1, NonePending DEF BuffersType
      <4>2. toClient \in Seq(Nat)
        BY Streams
      <4>3. toClient \o << >> = toClient
        BY <4>2, ConcatEmptySeq
      <4>4. QED
        BY <3>1, <3>a, <4>1, <4>3
    <3>3. QED
      BY <3>1, <3>2, <3>a
  <2>2. CASE done # AllDone
    BY <1>8, <2>2 DEF ClientDrained, Event, Handle
  <2>3. QED
    BY <2>1, <2>2
<1>9. CASE ClientTimeout
  BY <1>9 DEF ClientTimeout, Handle, Reply
<1>10. CASE Connected
  BY <1>10 DEF Connected, Event, Handle
<1>11. CASE ConnectFails
  BY <1>11 DEF ConnectFails, Event, Handle, Reply
<1>12. ASSUME NEW n \in 1..Capacity, HeadersRead(n) PROVE DoneIsComplete'
  BY <1>12 DEF HeadersRead, Event, Handle, HeadersFlush, FlushedInterest
<1>13. CASE HeadersReadFails
  BY <1>13 DEF HeadersReadFails, Event, Handle, OriginFails, HeadersFlush,
     FlushedInterest
<1>14. ASSUME NEW n \in 1..Capacity, OriginCopyW(n) PROVE DoneIsComplete'
  BY <1>14 DEF OriginCopyW, Event, Handle
<1>15. CASE OriginDrained
  BY <1>15 DEF OriginDrained, Event, Handle
<1>16. CASE OriginCopyWFails
  BY <1>16 DEF OriginCopyWFails, Event, Handle, OriginFails, HeadersFlush,
     FlushedInterest
<1>17. CASE FlushBody
  BY <1>17 DEF FlushBody, Block, Delivering, BodyIsDone
<1>18. ASSUME NEW n \in 0..Capacity, OriginCopyR(n) PROVE DoneIsComplete'
  BY <1>18 DEF OriginCopyR, Event, Handle, BodyIsDone
<1>19. CASE OriginCopyREnds
  BY <1>19 DEF OriginCopyREnds, Event, Handle
<1>20. QED
  BY <1>1, <1>2, <1>3, <1>4, <1>5, <1>6, <1>7, <1>8, <1>9, <1>10, <1>11,
     <1>12, <1>13, <1>14, <1>15, <1>16, <1>17, <1>18, <1>19 DEF Next,
     ClientStep, OriginStep, Idle, Quits

-----------------------------------------------------------------------------
(***************************************************************************)
(* The theorems.                                                            *)
(***************************************************************************)

\* A new client has nothing in its buffers and nobody to talk to.
LEMMA InitInv == Init => IInv
<1> SUFFICES ASSUME Init PROVE IInv
  OBVIOUS
<1>1. PICK x \in Exchange : req = x[1] /\ resp = x[2] /\ fault = x[3]
  BY DEF Init
<1>2. req \in Request /\ resp \in Response /\ fault \subseteq FaultKind
  BY <1>1, ExchangeAssumption
<1>3. ControlType /\ LoopType
  BY <1>2 DEF Init, ControlType, LoopType, Op, READ, WRITE, Peer, AllDone, Closed
<1>4. BuffersType
  BY EmptyType, CapacityAssumption DEF Init, BuffersType
<1>5. WireType
  BY <1>2, EmptySeq DEF Init, WireType, Request, Response
<1>6. TypeOK
  BY <1>3, <1>4, <1>5 DEF TypeOK
<1>7. OverIsOver /\ NothingYet /\ OnItsWay /\ Counted /\ DoneIsComplete
  BY DEF Init, OverIsOver, NothingYet, OnItsWay, Counted, DoneIsComplete, Open,
         Closed
<1>8. OneByOne
  BY <1>6, Numbers DEF Init, OneByOne
<1>9. NoLostWakeup
  BY EmptyType DEF Init, NoLostWakeup
<1>10. RequestInOrder
  <2>1. << >> \o << >> = << >>
    BY EmptySeq, ConcatEmptySeq
  <2>2. Stream(1, 0) = << >>
    <3>1. Stream(1, 0) \in Seq(Nat) /\ Len(Stream(1, 0)) = 0
      BY StreamType
    <3>2. QED
      BY <3>1, EmptySeq
  <2>3. QED
    BY <2>1, <2>2, EmptyType DEF Init, RequestInOrder
<1>11. QED
  BY <1>6, <1>7, <1>8, <1>9, <1>10 DEF IInv

\* The inductive invariant is one.
LEMMA Invariance == Spec => []IInv
<1>1. IInv /\ [Next]_vars => IInv'
  <2> SUFFICES ASSUME IInv, [Next]_vars PROVE IInv'
    OBVIOUS
  <2>1. TypeOK'
    BY ControlStep, LoopStepType, BuffersStep, WireStep DEF TypeOK
  <2>2. OverIsOver' /\ OneByOne' /\ NothingYet' /\ OnItsWay' /\ Counted'
    BY OverIsOverStep, OneByOneStep, NothingYetStep, OnItsWayStep, CountedStep
  <2>3. NoLostWakeup' /\ RequestInOrder' /\ DoneIsComplete'
    BY WakeupStep, RequestStep, DoneStep
  <2>4. QED
    BY <2>1, <2>2, <2>3 DEF IInv
<1>2. QED
  BY InitInv, <1>1, PTL DEF Spec

\* Every variable of an exchange stays in its type: no handler writes more to
\* a buffer than it has room for (buffer_write_adv), reads more than is there,
\* or counts more bytes than a peer has sent.
THEOREM TypesAreKept == Spec => []TypeOK
<1>1. IInv => TypeOK
  BY DEF IInv
<1>2. QED
  BY Invariance, <1>1, PTL

\* Whatever the order of events, jobs and resolution, queued bytes have an
\* interest or a job that will move them.
THEOREM WakeupsAreKept == Spec => []NoLostWakeup
<1>1. IInv => NoLostWakeup
  BY DEF IInv
<1>2. QED
  BY Invariance, <1>1, PTL

\* The request reaches the origin as the client sent it, however it is cut.
THEOREM RequestsAreRelayed == Spec => []RequestInOrder
<1>1. IInv => RequestInOrder
  BY DEF IInv
<1>2. QED
  BY Invariance, <1>1, PTL

\* The response is on its way to the client as the origin sent it, whatever
\* was read with the head and however buffers fill up.
THEOREM ResponsesAreRelayed == Spec => []ResponseInOrder
<1>1. IInv => ResponseInOrder
  <2> SUFFICES ASSUME IInv, Open, ost \in {"HEADERS", "COPY"},
                      resp.head < Capacity, ~replied
               PROVE  toClient \o wb.bytes \o ob.bytes =
                        IF ost = "COPY" THEN Stream(1, ogot) ELSE << >>
    BY DEF ResponseInOrder
  <2>1. CASE ost = "COPY"
    BY <2>1 DEF IInv, OnItsWay
  <2>2. CASE ost = "HEADERS"
    <3>1. toClient = << >> /\ wb = Empty /\ ob = Empty
      BY <2>2 DEF IInv, NothingYet, OneByOne, Headless
    <3>2. << >> \o << >> = << >>
      BY EmptySeq, ConcatEmptySeq
    <3>3. QED
      BY <2>2, <3>1, <3>2, EmptyType
  <2>3. QED
    BY <2>1, <2>2
<1>2. QED
  BY Invariance, <1>1, PTL

\* An exchange that ends as DONE without an error reply was complete.
THEOREM ExchangesAreComplete == Spec => []DoneIsComplete
<1>1. IInv => DoneIsComplete
  BY DEF IInv
<1>2. QED
  BY Invariance, <1>1, PTL
=============================================================================
