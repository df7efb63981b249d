----------------------------- MODULE Transform -----------------------------
(***************************************************************************)
(* A response that goes through a transformer (transformation.c): the loop  *)
(* passes the body from the origin to the buffer tb, from there to a pipe,  *)
(* a child process reads it, writes what it makes of it to another pipe,    *)
(* and the loop frames that as chunks for the client.                       *)
(*                                                                          *)
(* It starts where headers_read leaves an exchange whose request has been   *)
(* sent and whose response has an active media type: the client has the     *)
(* head, what came with it waits in buff, and flush_body is due.  Handlers  *)
(* come in any order in which pselect can report their descriptors.         *)
(***************************************************************************)
EXTENDS Integers, Sequences, SequencesExt, ByteQueue

CONSTANTS
  PipeSize,   \* what a pipe holds
  Hold,       \* what the child holds back before it writes
  Exchange    \* a Body, what the child makes of a byte, what may go wrong

ASSUME PipeAssumption == PipeSize \in Nat \ {0} /\ Hold \in Nat \ {0}

\* fork: init_transform fails.  child: the child ends early.  client: the
\* client closes.  idle: TIMEOUT seconds pass without an event of the client.
FaultKind == {"fork", "child", "client", "idle"}

\* What a stream is made of: bytes of the body, lines that give the size of a
\* chunk without their end, line ends, the last chunk in one piece, and the
\* error reply of client_timeout.
Byte(i) == <<"byte", i>>
Size(n) == <<"size", n>>
NL == <<"nl", 0>>
Last0 == <<"last", 0>>
ErrorReply == <<"reply", 0>>
Token == {"byte", "size", "nl", "last", "reply"} \X Nat

\* A chunked body, as far as the server sends it: behind a size come as many
\* bytes, behind the last chunk none.
Framed(s) ==
  \A i \in DOMAIN s :
    /\ s[i] # ErrorReply
    /\ s[i] = Last0 => i = Len(s)
    /\ s[i] = Size(0) => \A j \in i + 1 .. Len(s) : s[j] = NL
    /\ s[i][1] = "size" =>
         \A j \in i + 2 .. i + 1 + s[i][2] : j \in DOMAIN s => s[j][1] = "byte"

\* stream: the body as it is sent; declared: its Content-Length, 0 if it has
\* none, which need not be true; close: the server closes behind it.
ASSUME ExchangeAssumption ==
  \A x \in Exchange :
    /\ DOMAIN x[1] = {"stream", "declared", "chunked", "close"}
    /\ x[1].stream \in Seq(Token) /\ x[1].declared \in Nat
    /\ x[1].chunked \in BOOLEAN /\ x[1].close \in BOOLEAN
    /\ IF x[1].chunked THEN Framed(x[1].stream)
       ELSE \A i \in DOMAIN x[1].stream : x[1].stream[i][1] = "byte"
    /\ x[2] \in Nat \ {0}
    /\ x[3] \subseteq FaultKind

AllDone == {"req", "resp", "trans"}
Closed == {"DONE", "ERROR"}

VARIABLES
  body, factor, fault,  \* the exchange; the child makes factor of each byte
  cst, ost,             \* states of the client's and of the origin's machine
  infd, outfd,          \* the ends of the pipes: none, open, closed, or cut:
                        \* closed before the last chunk
  interest,             \* who has OP_READ (origin, outfd), OP_WRITE (others)
  due,                  \* flush_body is in the list of jobs
  done,                 \* which of *reqDone, *respDone and *transDone are true
  ob, tb, rb,           \* buff of the origin, tb, write_buffer of the client
  length,               \* content_length of tIn
  body_length,          \* what is left of the declared length
  got,                  \* how much of the stream was received
  writing,              \* what write has still to take, << >> if none is on
  loop,                 \* "select", or "write" while a handler is in write
  in, out,              \* what is in the two pipes
  child, held,          \* reading, writing, ending or gone; what it holds
  toClient,             \* what the client has been sent, behind the head
  crash                 \* how the process was lost, none while it is not

exchange == <<body, factor, fault>>
machines == <<cst, ost, interest, due, done>>
ends == <<infd, outfd>>
buffers == <<ob, tb, rb, length, body_length, got, toClient>>
process == <<in, out, child, held>>
call == <<writing, loop>>
vars == <<exchange, machines, ends, buffers, process, call, crash>>

Least(a, b) == IF a < b THEN a ELSE b

\* What the child makes of a byte, and of a sequence of them.
Made(b) == [i \in 1..factor |-> b]
Transformed(s) == FlattenSeq([i \in DOMAIN s |-> Made(s[i])])

\* The bytes of the body in a stream, framed or not.
Payload(s) ==
  FlattenSeq([i \in DOMAIN s |-> IF s[i][1] = "byte" THEN <<s[i]>> ELSE << >>])

\* A stream but for the error reply.
Answered(s) ==
  FlattenSeq([i \in DOMAIN s |-> IF s[i] = ErrorReply THEN << >> ELSE <<s[i]>>])

Transforming == infd # "none"

\* init_transform, or its failure, which headers_read does not look at.
Init ==
  /\ \E x \in Exchange : body = x[1] /\ factor = x[2] /\ fault = x[3]
  /\ cst = "COPY" /\ ost = "COPY" /\ due = TRUE
  /\ got \in 0..Least(Len(body.stream), Capacity - 1)
  /\ ob = Put(Empty, SubSeq(body.stream, 1, got))
  /\ tb = Empty /\ rb = Empty
  /\ length = IF body.chunked THEN 0 ELSE body.declared
  /\ body_length = length
  /\ \/ infd = "open" /\ outfd = "open" /\ interest = {"outfd"}
     \/ infd = "none" /\ outfd = "none" /\ interest = {} /\ "fork" \in fault
  /\ done = {"req"}
  /\ writing = << >> /\ loop = "select"
  /\ in = << >> /\ out = << >> /\ child = "reading" /\ held = << >>
  /\ toClient = << >> /\ crash = "none"

Open == cst = "COPY" /\ crash = "none"

\* The loop can run the handler of p: it is not held up in write.
Handle(p) ==
  /\ Open /\ loop = "select" /\ p \in interest
  /\ UNCHANGED exchange

\* client_done, with what it closes and frees.
ClientDone(st) ==
  /\ cst' = st /\ ost' = "closed"
  /\ interest' = {} /\ due' = FALSE /\ done' = {}
  /\ infd' = (IF Transforming THEN "closed" ELSE "none") /\ outfd' = infd'
  /\ ob' = Empty /\ tb' = Empty /\ rb' = Empty
  /\ length' = 0 /\ body_length' = 0

-----------------------------------------------------------------------------
(***************************************************************************)
(* origin.c                                                                 *)
(***************************************************************************)

\* flush_body and copy_r store into tb, or into write_buffer if there is none.
Target == IF Transforming THEN tb ELSE rb

\* ... and wake up tIn, or the client.
Store(s) ==
  /\ IF Transforming THEN tb' = Put(tb, s) /\ UNCHANGED rb
                     ELSE rb' = Put(rb, s) /\ UNCHANGED tb
  /\ interest' = interest \union
       {"origin", IF Transforming THEN "infd" ELSE "client"}

\* chunked_is_done looks at the last four bytes in memory once n more are
\* there.  In front of what is stored in tb lies a pointer; write_buffer may
\* have anything there.
ChunkedIsDone(n) ==
  LET known == IF Transforming THEN tb.base + Pending(tb) + n ELSE n
      memory == SubSeq(body.stream, got' - known + 1, got')
  IN IF \/ known >= 1 /\ Last(memory) = Last0
        \/ known >= 2
     THEN {Last(memory) = Last0
             \/ SubSeq(memory, known - 1, known) = <<NL, NL>>}
     ELSE IF Transforming THEN {FALSE} ELSE BOOLEAN

\* respDone is decided anew whenever n more tokens are stored.
BodyIsDone(n) ==
  /\ body_length' = IF body.chunked THEN body_length ELSE body_length - n
  /\ \E end \in IF body.chunked THEN ChunkedIsDone(n) ELSE {body_length' = 0} :
       done' = IF end THEN done \union {"resp"} ELSE done \ {"resp"}

\* What came with the head follows it.  For what happens when it does not fit
\* see FlushBodyAgain in module Connection.
FlushBody ==
  /\ Open /\ loop = "select" /\ due
  /\ Pending(ob) <= Room(Target)
  /\ due' = FALSE
  /\ Store(ob.bytes)
  /\ ob' = Empty
  /\ UNCHANGED got
  /\ BodyIsDone(Pending(ob))
  /\ UNCHANGED <<exchange, cst, ost, ends, length, toClient, process, call,
                 crash>>

OriginClosed == body.close /\ got = Len(body.stream)

\* copy_r: n more, none when the buffer is full.
OriginCopyR(n) ==
  /\ Handle("origin") /\ infd # "closed"
  /\ n \in 0..Least(Room(Target), Len(body.stream) - got)
  /\ n = 0 => Room(Target) = 0 /\ (got < Len(body.stream) \/ OriginClosed)
  /\ got' = got + n
  /\ Store(SubSeq(body.stream, got + 1, got'))
  /\ BodyIsDone(n)
  /\ UNCHANGED <<cst, ost, due, ends, ob, length, toClient, process, call,
                 crash>>

\* copy_r: the end of file ends everything, whatever is still on its way.
OriginCopyREnds ==
  /\ Handle("origin") /\ infd # "closed"
  /\ OriginClosed /\ Room(Target) > 0
  /\ ost' = "RESPONSE_ERROR"
  /\ done' = AllDone
  /\ interest' = (interest \ {"origin"}) \union {"client"}
  /\ UNCHANGED <<cst, due, ends, buffers, process, call, crash>>

\* copy_r after tIn is done: transform_close has freed tb.
OriginCopyRFreed ==
  /\ Handle("origin") /\ infd = "closed"
  /\ got < Len(body.stream) \/ OriginClosed
  /\ crash' = "freed"
  /\ UNCHANGED <<machines, ends, buffers, process, call>>

-----------------------------------------------------------------------------
(***************************************************************************)
(* transformation.c                                                         *)
(***************************************************************************)

\* Mutant of LineEnd: the line end behind the last chunk is not passed over.
LineEndAtOnce(s) ==
  {i \in DOMAIN s :
     \/ i = 1 /\ s[i] = Last0
     \/ i = 2 /\ s[i] = NL /\ s[1][1] = "size"}

\* get_chunk_length: where the line ends that gives a size, behind any line
\* ends before it, if it is all there.
LineEnd(s) ==
  {i \in DOMAIN s :
     /\ s[i] = Last0 \/ (i > 1 /\ s[i] = NL /\ s[i - 1][1] = "size")
     /\ \A j \in 1..i - 1 : s[j] = NL \/ (j = i - 1 /\ s[i] # Last0)}

\* The size of the next chunk has to be read first.
AtSize == body.chunked /\ length = 0

\* pselect reports a pipe with room, or one that nobody reads any more.
InWritable == Handle("infd") /\ (Len(in) < PipeSize \/ child = "gone")

\* copy_w of tIn finds nothing to write.
TransformDrained ==
  /\ InWritable /\ Pending(tb) = 0
  /\ interest' = interest \ {"infd"}
  /\ UNCHANGED <<cst, ost, due, done, ends, buffers, process, call, crash>>

\* Mutant of ToWrite: the size is passed over, but not heeded.
ToWriteAll ==
  IF AtSize
  THEN {[b |-> Drop(tb, i),
         n |-> IF tb.bytes[i] = Last0 THEN 0 ELSE Len(tb.bytes) - i] :
        i \in LineEnd(tb.bytes)}
  ELSE {[b |-> tb, n |-> length]}

\* What write is called with: tb and content_length, behind the size if there
\* is one to be read; nothing if it is not all there, and copy_w returns.
ToWrite ==
  IF AtSize
  THEN {[b |-> Drop(tb, i),
         n |-> IF tb.bytes[i] = Last0 THEN 0 ELSE tb.bytes[i - 1][2]] :
        i \in LineEnd(tb.bytes)}
  ELSE {[b |-> tb, n |-> length]}

\* transform_done of tIn: tb is freed and the pipe closed, but o->tb and
\* o->infd stay.
TransformInDone ==
  /\ infd' = "closed" /\ tb' = Empty
  /\ interest' = interest \ {"infd"}
  /\ UNCHANGED <<cst, ost, due, done, outfd, ob, rb, body_length, got,
                 toClient, process, crash>>

\* copy_w of tIn comes to the last chunk, or has no length to go by.
TransformInEnds ==
  /\ InWritable /\ Pending(tb) > 0
  /\ \E w \in ToWrite : w.n = 0
  /\ TransformInDone
  /\ UNCHANGED <<length, call>>

\* copy_w of tIn calls write, which blocks; for 0 bytes if the size came alone.
TransformWrites ==
  /\ InWritable /\ Pending(tb) > 0
  /\ \E w \in ToWrite :
       /\ w.n > 0
       /\ tb' = w.b /\ length' = w.n
       /\ writing' = SubSeq(w.b.bytes, 1, Least(Pending(w.b), w.n))
  /\ loop' = IF writing' = << >> THEN "select" ELSE "write"
  /\ UNCHANGED <<machines, ends, ob, rb, body_length, got, toClient, process,
                 crash>>

Writing == Open /\ loop = "write"

\* The pipe takes what it has room for.
PipeTakes ==
  /\ Writing /\ writing # << >> /\ child # "gone"
  /\ LET n == Least(PipeSize - Len(in), Len(writing)) IN
     /\ n > 0
     /\ in' = in \o SubSeq(writing, 1, n)
     /\ writing' = SubSeq(writing, n + 1, Len(writing))
  /\ UNCHANGED <<exchange, machines, ends, buffers, out, child, held, loop,
                 crash>>

\* Nobody has the other end: SIGPIPE, which main.c does not ignore.
PipeBreaks ==
  /\ Writing /\ writing # << >> /\ child = "gone"
  /\ crash' = "sigpipe"
  /\ UNCHANGED <<exchange, machines, ends, buffers, process, call>>

\* Mutant of AllWritten: what was received is taken for all there is.
TbWritten == ~body.chunked /\ tb.bytes # << >> /\ length >= Pending(tb)

\* A body of known length is in the pipe.
AllWritten == ~body.chunked /\ length' = 0

\* write has returned; copy_w of tIn goes on.
WriteReturns ==
  /\ Writing /\ writing = << >>
  /\ LET n == Least(Pending(tb), length) IN
     /\ length' = length - n
     /\ IF AllWritten
        THEN TransformInDone
        ELSE /\ tb' = Drop(tb, n)
             /\ UNCHANGED <<machines, ends, ob, rb, body_length, got,
                            toClient, process, crash>>
  /\ loop' = "select"
  /\ UNCHANGED <<exchange, writing>>

\* Mutant of Overhead: the line end behind the chunk is forgotten.
OverheadBefore == 2

\* Bytes of write_buffer that the frame of a chunk leaves unused: the size,
\* two line ends and one that max_chunk_length keeps free.
Overhead == 4

\* max_chunk_length; the auxiliary buffer is empty whenever copy_r starts.
MaxChunk == Least(Room(rb), Capacity) - Overhead

\* pselect reports a pipe with bytes, or one that nobody writes any more.
OutReadable == Handle("outfd") /\ (out # << >> \/ child = "gone")

Chunk(s) == <<Size(Len(s)), NL>> \o s \o <<NL>>

\* copy_r of tOut waits for the client to make room.
TransformNoRoom ==
  /\ OutReadable /\ MaxChunk <= 0
  /\ interest' = interest \union {"client"}
  /\ UNCHANGED <<cst, ost, due, done, ends, buffers, process, call, crash>>

\* Mutant of Frame: a chunk without the line end behind it.
FrameOpen(s) == rb' = Put(rb, <<Size(Len(s)), NL>> \o s)

\* copy_r of tOut frames s for the client.
Frame(s) == rb' = Put(rb, Chunk(s))

\* How much of the pipe read takes.
Taken == Least(MaxChunk, Len(out))

\* copy_r of tOut: what the pipe has, as a chunk.
TransformCopyR ==
  /\ OutReadable /\ MaxChunk > 0 /\ out # << >> /\ "trans" \notin done
  /\ Frame(SubSeq(out, 1, Taken))
  /\ out' = SubSeq(out, Taken + 1, Len(out))
  /\ interest' = interest \union {"client"}
  /\ UNCHANGED <<cst, ost, due, done, ends, ob, tb, length, body_length, got,
                 toClient, in, child, held, call, crash>>

\* copy_r of tOut, when the exchange was marked as over by the end of the
\* origin or by a 504: what read takes is taken for the last chunk.  The end
\* is closed, and what is left in the pipe is lost.
TransformOutCut ==
  /\ OutReadable /\ MaxChunk > 0 /\ out # << >> /\ "trans" \in done
  /\ Frame(SubSeq(out, 1, Taken))
  /\ out' = << >>
  /\ interest' = (interest \ {"outfd"}) \union {"client"}
  /\ outfd' = "cut"
  /\ UNCHANGED <<cst, ost, due, done, infd, ob, tb, length, body_length, got,
                 toClient, in, child, held, call, crash>>

\* copy_r of tOut at the end of file: the last chunk, and the end is closed.
TransformOutEnds ==
  /\ OutReadable /\ MaxChunk > 0 /\ out = << >>
  /\ rb' = Put(rb, Chunk(<< >>))
  /\ interest' = (interest \ {"outfd"}) \union {"client"}
  /\ done' = done \union {"trans"}
  /\ outfd' = "closed"
  /\ UNCHANGED <<cst, ost, due, infd, ob, tb, length, body_length, got,
                 toClient, process, call, crash>>

-----------------------------------------------------------------------------
(***************************************************************************)
(* The child                                                                *)
(***************************************************************************)

Child(states) ==
  /\ Open /\ Transforming /\ child \in states
  /\ UNCHANGED <<exchange, machines, ends, buffers, call, crash>>

\* It reads, and may hold back what it makes of it, up to Hold bytes.
ChildRead ==
  /\ Child({"reading"})
  /\ in # << >>
  /\ in' = Tail(in)
  /\ held' = held \o Made(Head(in))
  /\ child' \in (IF Len(held') >= Hold THEN {} ELSE {"reading"})
                  \union {"writing"}
  /\ UNCHANGED out

ChildEof ==
  /\ Child({"reading"})
  /\ in = << >> /\ infd = "closed"
  /\ child' = IF held = << >> THEN "gone" ELSE "ending"
  /\ UNCHANGED <<in, out, held>>

ChildWrite ==
  /\ Child({"writing", "ending"})
  /\ outfd # "cut" /\ Len(out) < PipeSize
  /\ out' = Append(out, Head(held))
  /\ held' = Tail(held)
  /\ child' = IF held' # << >> THEN child
              ELSE IF child = "ending" THEN "gone" ELSE "reading"
  /\ UNCHANGED in

\* SIGPIPE: nobody reads what it writes.
ChildBreaks ==
  /\ Child({"writing", "ending"})
  /\ outfd = "cut"
  /\ child' = "gone" /\ held' = << >>
  /\ UNCHANGED <<in, out>>

ChildDies ==
  /\ Child({"reading", "writing", "ending"})
  /\ "child" \in fault
  /\ child' = "gone" /\ held' = << >>
  /\ UNCHANGED <<in, out>>

-----------------------------------------------------------------------------
(***************************************************************************)
(* passive.c                                                                *)
(***************************************************************************)

ClientCopyW(n) ==
  /\ Handle("client")
  /\ n \in 1..Pending(rb)
  /\ rb' = Drop(rb, n)
  /\ toClient' = toClient \o Answered(SubSeq(rb.bytes, 1, n))
  /\ UNCHANGED <<machines, ends, ob, tb, length, body_length, got, process,
                 call, crash>>

\* Mutant of Finished: the transformer is not waited for.
FinishedEarly == {"req", "resp"} \subseteq done

Finished == done = AllDone

\* copy_w with nothing to send: DONE if everything is.
ClientDrained ==
  /\ Handle("client") /\ Pending(rb) = 0
  /\ IF Finished
     THEN ClientDone("DONE")
     ELSE /\ interest' = interest \ {"client"}
          /\ UNCHANGED <<cst, ost, due, done, ends, ob, tb, rb, length,
                         body_length>>
  /\ UNCHANGED <<got, toClient, process, call, crash>>

\* copy_r, which the client's OP_READ allows, or copy_w once a 504 has taken
\* that: recv or send fails.
ClientCopyRFails ==
  /\ Open /\ loop = "select" /\ "client" \in fault
  /\ ClientDone("ERROR")
  /\ UNCHANGED <<exchange, got, toClient, process, call, crash>>

\* Mutant of Reply: the exchange is not marked as over.
ReplyNotLast ==
  /\ rb' = Put(rb, <<ErrorReply>>)
  /\ interest' = interest \union {"client"}
  /\ done' = done

\* send_http_code_fd.
Reply ==
  /\ rb' = Put(rb, <<ErrorReply>>)
  /\ interest' = interest \union {"client"}
  /\ done' = AllDone

\* client_timeout: a 504 if there is room for it, and another one each time
\* round while the client takes nothing.
ClientTimeout ==
  /\ Open /\ loop = "select" /\ "idle" \in fault
  /\ Room(rb) >= 1
  /\ Reply
  /\ UNCHANGED <<exchange, cst, ost, due, ends, ob, tb, length, body_length,
                 got, toClient, process, call, crash>>

-----------------------------------------------------------------------------

\* What pselect reports of the origin is read, or nothing if there is no room.
OriginReadsMore ==
  \/ \E n \in 1..Capacity : OriginCopyR(n)
  \/ OriginCopyREnds \/ OriginCopyRFreed

OriginReads == OriginCopyR(0) \/ OriginReadsMore

InWrites ==
  TransformDrained \/ TransformInEnds \/ TransformWrites

OutReads ==
  TransformNoRoom \/ TransformCopyR \/ TransformOutCut \/ TransformOutEnds

ClientWrites == ClientDrained \/ \E n \in 1..Capacity : ClientCopyW(n)

\* What goes on while the loop is in write, or on its own.
Proceeds == PipeTakes \/ PipeBreaks \/ WriteReturns

ChildProceeds == ChildRead \/ ChildEof \/ ChildWrite \/ ChildBreaks

Next ==
  \/ FlushBody \/ OriginReads \/ InWrites \/ OutReads \/ ClientWrites
  \/ ClientCopyRFails \/ ClientTimeout
  \/ Proceeds \/ ChildProceeds \/ ChildDies

Spec == Init /\ [][Next]_vars

(***************************************************************************)
(* pselect reports what is ready in every iteration, so that each handler   *)
(* runs again and again unless the loop never comes back from write.  The   *)
(* child goes on, the client takes its bytes, and is idle if nothing comes. *)
(***************************************************************************)
Fairness ==
  /\ SF_vars(FlushBody) /\ SF_vars(OriginReadsMore) /\ SF_vars(InWrites)
  /\ SF_vars(OutReads) /\ SF_vars(ClientTimeout)
  /\ SF_vars(ClientDrained) /\ SF_vars(\E n \in 1..Capacity : ClientCopyW(n))
  /\ WF_vars(Proceeds) /\ WF_vars(ChildProceeds)

FairSpec == Spec /\ Fairness

-----------------------------------------------------------------------------
(***************************************************************************)
(* Properties                                                               *)
(***************************************************************************)

Queue == [base : 0..Capacity, bytes : Seq(Token)]

\* Types of the variables.
TypeOK ==
  /\ cst \in {"COPY"} \union Closed
  /\ ost \in {"COPY", "RESPONSE_ERROR", "closed"}
  /\ infd \in {"none", "open", "closed"}
  /\ outfd \in {"none", "open", "closed", "cut"}
  /\ interest \subseteq {"client", "origin", "infd", "outfd"}
  /\ due \in BOOLEAN /\ done \subseteq AllDone
  /\ ob \in Queue /\ tb \in Queue /\ rb \in Queue
  /\ Room(ob) >= 0 /\ Room(tb) >= 0 /\ Room(rb) >= 0
  /\ length \in Nat /\ body_length \in Int /\ got \in 0..Len(body.stream)
  /\ writing \in Seq(Token) /\ loop \in {"select", "write"}
  /\ in \in Seq(Token) /\ Len(in) <= PipeSize
  /\ out \in Seq(Token) /\ Len(out) <= PipeSize
  /\ child \in {"reading", "writing", "ending", "gone"}
  /\ held \in Seq(Token) /\ toClient \in Seq(Token)
  /\ crash \in {"none", "freed", "sigpipe"}

\* The server sends no more than it declares.
Sized == body.chunked \/ body.declared >= Len(body.stream)

\* What tb has for the pipe.
Unwritten ==
  IF loop = "write"
  THEN writing \o SubSeq(tb.bytes, Least(Pending(tb), length) + 1, Pending(tb))
  ELSE tb.bytes

\* Between the origin and the client no byte is lost, doubled or overtaken by
\* another, through two buffers, two pipes and the child, unless that dies or
\* its output is cut: what the client has, what waits for it and what the child
\* will make of the rest is what it has to make of what was received.
NothingLost ==
  Open /\ Transforming /\ Sized /\ "child" \notin fault /\ outfd # "cut" =>
    Payload(toClient \o rb.bytes) \o out \o held
        \o Transformed(in \o Payload(Unwritten \o ob.bytes))
      = Transformed(Payload(SubSeq(body.stream, 1, got)))

\* The client can tell the chunks apart: every size is followed by as many
\* bytes and by the next size.  The size 0 comes with nothing behind it, and
\* just when the transformer was read to its end: where its output was cut the
\* chunks end without it, and nothing tells the client that they are all.
WellFramed ==
  Open /\ Transforming =>
    LET s == Answered(toClient \o rb.bytes)
        S == {i \in DOMAIN s : s[i][1] = "size"}
    IN /\ s # << >> => 1 \in S
       /\ \A i \in S :
            LET end == i + 2 + s[i][2] IN
            /\ end \in DOMAIN s /\ s[i + 1] = NL /\ s[end] = NL
            /\ \A j \in i + 2 .. end - 1 : s[j][1] = "byte"
            /\ end = Len(s) \/ end + 1 \in S
            /\ s[i][2] = 0 <=> end = Len(s) /\ outfd = "closed"

\* The output of a transformer is cut when the server has closed or the client
\* was given up, and then only.  The proxy is lost to a transformer that dies
\* early or is killed by such a cut, and to reads from an origin whose
\* transformer has been given everything, which happens when the server closes,
\* sends more than it declared or the last chunk comes in parts, and then only.
LostOnlyThen ==
  /\ outfd = "cut" => body.close \/ "idle" \in fault
  /\ crash = "sigpipe" => "child" \in fault \/ outfd = "cut"
  /\ crash = "freed" =>
       \/ body.close \/ ~Sized
       \/ body.chunked /\ (body.stream = << >> \/ Last(body.stream) # Last0)

\* The exchange keeps the promise of Relay: it is over when the client has
\* all that the transformer makes of the body, unless the server closed or did
\* not stop where it should, the child died or the client was given up.
R == INSTANCE Relay WITH
  answer <- IF Transforming THEN Transformed(Payload(body.stream))
                            ELSE Payload(body.stream),
  delivered <- Payload(toClient),
  over <- cst = "DONE",
  excused <- body.close \/ ~Sized \/ {"child", "idle"} \intersect fault # {}

Relayed == R!RelaySpec

\* A body that the pipe to the transformer holds, tb too if it is chunked.
Fits ==
  /\ Len(Payload(body.stream)) <= PipeSize
  /\ body.chunked => Len(body.stream) <= Capacity

\* It has a length or a last chunk, the server stays, and nothing goes wrong.
Undisturbed ==
  /\ fault = {} /\ ~body.close
  /\ IF body.chunked THEN Last(body.stream) = Last0
     ELSE body.declared = Len(body.stream) /\ body.declared > 0

\* The client is given all that the transformer makes of such a body.
Delivered ==
  Undisturbed /\ Fits =>
    <>(cst = "DONE"
        /\ Payload(toClient) = Transformed(Payload(body.stream)))

\* The loop waits for the child to read, which waits for the loop to read.
Stalled ==
  /\ Writing /\ writing # << >> /\ Len(in) = PipeSize
  /\ child \in {"writing", "ending"} /\ Len(out) = PipeSize

\* An exchange whose client may be given up ends, whatever the server and the
\* transformer do, unless the whole proxy is stalled or lost.
Ends ==
  "idle" \in fault => <>(cst \in Closed \/ crash # "none" \/ Stalled)

\* selector.h:20: handlers must not block, for that would hold up all others.
\* No handler waits for ever.
NeverStalled == ~Stalled
=============================================================================
