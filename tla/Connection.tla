----------------------------- MODULE Connection -----------------------------
(***************************************************************************)
(* One proxied exchange: a client (passive.c), its origin server (origin.c) *)
(* and the thread that resolves the name of the server, run by the loop of  *)
(* selector.c.  It starts where socks_passive_accept leaves a new client    *)
(* and ends when client_done has closed both descriptors or the process is  *)
(* lost.                                                                    *)
(*                                                                          *)
(* A byte is its position in the stream it belongs to; an error reply of    *)
(* http.c is one token.  The parsers are reduced to where the head ends and *)
(* what it declares.  Responses here are not transformed, see Transform.    *)
(***************************************************************************)
EXTENDS Integers, Sequences, FiniteSets, ByteQueue

CONSTANT
  Exchange    \* what clients send, what servers answer, what may go wrong

\* client, origin: a peer closes or resets its connection; early: the server
\* answers before it has the whole request; resolve, local: the name has no
\* address, or one of the proxy itself; connect: the connection fails;
\* socket: a call before it does; thread: pthread_create fails; idle: the
\* exchange may take so long that the client shows no event for TIMEOUT
\* seconds; slow: the client takes its bytes when it likes.
FaultKind == {"client", "origin", "early", "resolve", "local", "connect",
              "socket", "thread", "idle", "slow"}

\* kind: what request_consume makes of it; head, length: how long the head is
\* and the body it declares; total: what is really sent.
Request == [kind : {"supported", "unsupported", "malformed"},
            head : Nat \ {0}, length : Nat, total : Nat]

\* close: the server closes behind the last byte; blank: where an empty line
\* ends, that of the head, the one of the last chunk, or one in the payload.
Response == [head : Nat \ {0}, length : Nat, total : Nat, close : BOOLEAN,
             chunked : BOOLEAN, blank : SUBSET Nat]

ASSUME ExchangeAssumption ==
  /\ Exchange \subseteq Request \X Response \X SUBSET FaultKind
  /\ \A x \in Exchange : x[2].chunked => x[2].head >= 2

READ == "read"
WRITE == "write"
Op == {READ, WRITE}
Peer == {"client", "origin"}

\* An error reply in a stream of positions.
ErrorReply == 0

VARIABLES
  req, resp,  \* the exchange: a Request and a Response
  fault,      \* ... and what may go wrong outside of the proxy
  cst,        \* state of the client's machine; DONE, ERROR: it is closed
  ost,        \* state of the origin's machine, none before, closed after
  interest,   \* the interests of the two descriptors
  done,       \* which of *reqDone, *respDone and *transDone are true
  rb, wb,     \* the client's read_buffer and write_buffer
  ob,         \* the origin's buff
  cgot, ogot, \* bytes received from the client and from the origin
  body_length,\* response.body_length: what is left of the declared length
  dns,        \* the thread: none, resolving, resolved
  resolution, \* origin_resolution: null, remote, or local
  jobs,       \* descriptors with a job in the selector's list
  pc,         \* the selector: in pselect, in handle_iteration, or in block
  todo,       \* the events this iteration has still to look at
  order,      \* the two descriptors in the order of their numbers
  idle,       \* the client's last_used is TIMEOUT seconds old
  toOrigin,   \* bytes sent to the origin
  toClient,   \* bytes sent to the client, forgotten after an error reply
  replied,    \* an error reply was queued for the client
  crash       \* how the process was lost, none while it is not

exchange == <<req, resp, fault>>
machines == <<cst, ost, interest, done>>
buffers == <<rb, wb, ob>>
wire == <<cgot, ogot, body_length, toOrigin, toClient, replied>>
thread == <<dns, resolution>>
loop == <<pc, todo, order, idle>>
vars == <<exchange, machines, buffers, wire, thread, jobs, loop, crash>>

AllDone == {"req", "resp", "trans"}
Closed == {"DONE", "ERROR"}

\* Positions m to n of a stream.
Stream(m, n) == [i \in 1..(n - m + 1) |-> m + i - 1]

Least(a, b) == IF a < b THEN a ELSE b

\* client_new, socks_passive_accept; the origin does not exist yet.
Init ==
  /\ \E x \in Exchange : req = x[1] /\ resp = x[2] /\ fault = x[3]
  /\ cst = "REQUEST_HEADERS" /\ ost = "none"
  /\ interest = [p \in Peer |-> IF p = "client" THEN {READ} ELSE {}]
  /\ done = {}
  /\ rb = Empty /\ wb = Empty /\ ob = Empty
  /\ cgot = 0 /\ ogot = 0 /\ body_length = 0
  /\ dns = "none" /\ resolution = "null"
  /\ jobs = {}
  /\ pc = "select" /\ todo = {} /\ idle = FALSE
  /\ order = <<"client", "origin">>
  /\ toOrigin = << >> /\ toClient = << >> /\ replied = FALSE
  /\ crash = "none"

-----------------------------------------------------------------------------
(***************************************************************************)
(* What handlers have in common.                                            *)
(***************************************************************************)

\* handle_iteration looks at the descriptors in order, and at each for a read,
\* a write and the timeout.
Precedes(e, f) ==
  \/ e[1] # f[1] /\ e[1] = order[1]
  \/ e[1] = f[1] /\ e[2] # f[2] /\ (e[2] = READ \/ f[2] = "timeout")

\* The handler of event e runs, the next one of this iteration.
Handle(e) ==
  /\ crash = "none"
  /\ pc = "scan"
  /\ e \in todo /\ \A f \in todo : ~Precedes(f, e)
  /\ todo' = todo \ {e}
  /\ UNCHANGED <<exchange, pc, order>>

\* A read or a write of a descriptor that still wants it; last_used of the
\* client, the only one with a timeout, is refreshed.
Event(p, op) ==
  /\ Handle(<<p, op>>)
  /\ op \in interest[p]
  /\ idle' = (idle /\ p # "client")

\* stm_handler_read, _write and _block abort when the state has no handler.
Lost(how) ==
  /\ crash' = how
  /\ UNCHANGED <<machines, buffers, wire, thread>>

\* client_done: both descriptors are unregistered and closed, and
\* client_destroy and origin_close free the memory of the exchange.
ClientDone(st) ==
  /\ cst' = st
  /\ ost' = IF ost = "none" THEN "none" ELSE "closed"
  /\ interest' = [p \in Peer |-> {}]
  /\ done' = {}
  /\ rb' = Empty /\ wb' = Empty /\ ob' = Empty
  /\ body_length' = 0

\* Mutant of CanReply: the reply is queued whatever the room.
AlwaysReply == TRUE

\* send_http_code_fd: the reply is queued if there is room for it, and the
\* exchange is over.  Interests the handler changes afterwards are in more.
CanReply == Room(wb) >= 1

\* Mutant of Reply: the exchange is not marked as over.
ReplyNotLast(more) ==
  /\ wb' = Put(wb, <<ErrorReply>>)
  /\ interest' = [more EXCEPT !["client"] = {WRITE}]
  /\ done' = done
  /\ replied' = TRUE

Reply(more) ==
  /\ wb' = Put(wb, <<ErrorReply>>)
  /\ interest' = [more EXCEPT !["client"] = {WRITE}]
  /\ done' = AllDone
  /\ replied' = TRUE

\* A client handler that answers with an error, COPY, or ERROR if there is no
\* room for it; received is what it leaves in read_buffer.
ReplyOrClose(received) ==
  IF CanReply
  THEN /\ Reply(interest)
       /\ cst' = "COPY"
       /\ rb' = received
       /\ UNCHANGED <<ost, ob, body_length>>
  ELSE ClientDone("ERROR") /\ UNCHANGED replied

-----------------------------------------------------------------------------
(***************************************************************************)
(* passive.c                                                                *)
(***************************************************************************)

\* request_read gets nothing: end of file, or no room for a longer head.
RequestReadNothing ==
  /\ Event("client", READ) /\ cst = "REQUEST_HEADERS"
  /\ Room(rb) = 0 \/ "client" \in fault
  /\ ClientDone("ERROR")
  /\ UNCHANGED <<cgot, ogot, toOrigin, toClient, replied, thread, jobs, crash>>

\* request_read gets an error: memcpy is given the -1 recv returned.
RequestReadError ==
  /\ Event("client", READ) /\ cst = "REQUEST_HEADERS"
  /\ "client" \in fault
  /\ Lost("memcpy")
  /\ UNCHANGED jobs

\* request_resolv starts the thread; a failure to do so goes unnoticed.
RequestResolv ==
  \/ dns' = "resolving"
  \/ "thread" \in fault /\ UNCHANGED dns

\* request_read gets n bytes.  A malformed head ends the parsing like a good
\* one: the thread is started and then the client is closed.
RequestRead(n) ==
  /\ Event("client", READ) /\ cst = "REQUEST_HEADERS"
  /\ n \in 1..Least(Room(rb), req.total - cgot)
  /\ cgot' = cgot + n
  /\ \/ /\ cgot' < req.head
        /\ rb' = Put(rb, Stream(cgot + 1, cgot'))
        /\ UNCHANGED <<machines, wb, ob, body_length, replied, dns>>
     \/ /\ cgot' >= req.head /\ req.kind = "unsupported"
        /\ ReplyOrClose(Put(rb, Stream(cgot + 1, cgot')))
        /\ UNCHANGED dns
     \/ /\ cgot' >= req.head /\ req.kind = "supported"
        /\ cst' = "COPY"
        /\ rb' = Put(rb, Stream(cgot + 1, cgot'))
        /\ done' = IF cgot' - req.head = req.length
                   THEN done \union {"req"} ELSE done
        /\ RequestResolv
        /\ UNCHANGED <<ost, interest, wb, ob, body_length, replied>>
     \/ /\ cgot' >= req.head /\ req.kind = "malformed"
        /\ ClientDone("ERROR")
        /\ RequestResolv
        /\ UNCHANGED replied
  /\ UNCHANGED <<ogot, toOrigin, toClient, resolution, jobs, crash>>

\* request_resolv_blocking: getaddrinfo writes its result to the client,
\* which may be gone.
Resolve(r) ==
  /\ crash = "none"
  /\ dns = "resolving"
  /\ dns' = "resolved"
  /\ IF cst \in Closed
     THEN crash' = "freed" /\ UNCHANGED resolution
     ELSE resolution' = r /\ UNCHANGED crash
  /\ UNCHANGED <<exchange, machines, buffers, wire, jobs, loop>>

\* ... and then notifies the selector, whose mutex is free outside of block.
Notify ==
  /\ crash = "none"
  /\ dns = "resolved" /\ pc # "block"
  /\ dns' = "none"
  /\ jobs' = jobs \union {"client"}
  /\ UNCHANGED <<exchange, machines, buffers, wire, resolution, loop, crash>>

\* handle_block_notifications has a job of p.
Delivering(p) == crash = "none" /\ pc = "block" /\ p \in jobs

\* ... and delivers it.
Block(p) ==
  /\ Delivering(p)
  /\ jobs' = jobs \ {p}
  /\ UNCHANGED <<exchange, loop, crash>>

\* request_resolv_done answers 502 or 409, or request_connect fails and
\* request_resolv_done answers 502.
ResolvFailed ==
  /\ Block("client") /\ cst = "COPY"
  /\ \/ resolution \in {"null", "local"}
     \/ resolution = "remote" /\ "connect" \in fault
  /\ ReplyOrClose(rb)
  /\ resolution' = "null"
  /\ UNCHANGED <<cgot, ogot, toOrigin, toClient, dns>>

\* request_connect fails but leaves status_succeeded: socket, connect done
\* at once, selector_register.  Nothing tells the client.
ConnectUnnoticed ==
  /\ Block("client") /\ cst = "COPY"
  /\ resolution = "remote" /\ "socket" \in fault
  /\ resolution' = "null"
  /\ UNCHANGED <<machines, buffers, wire, dns>>

\* request_connect: the origin is registered and waits for its connection.
\* Its descriptor may be lower than the client's, from an earlier exchange.
RequestConnect ==
  /\ Delivering("client")
  /\ cst = "COPY" /\ resolution = "remote"
  /\ jobs' = jobs \ {"client"}
  /\ ost' = "CONNECTING"
  /\ interest' = [interest EXCEPT !["origin"] = {WRITE}]
  /\ order' \in {<<"client", "origin">>, <<"origin", "client">>}
  /\ resolution' = "null"
  /\ UNCHANGED <<exchange, cst, done, buffers, wire, dns, pc, todo, idle,
                 crash>>

\* A job whose descriptor was closed meanwhile.
DropJob(p) ==
  /\ Block(p) /\ cst \in Closed
  /\ UNCHANGED <<machines, buffers, wire, thread>>

\* copy_r of the client: n bytes, none when the buffer is full.
ClientCopyR(n) ==
  /\ Event("client", READ) /\ cst = "COPY"
  /\ n \in 0..Least(Room(rb), req.total - cgot)
  /\ n = 0 => Room(rb) = 0
  /\ rb' = Put(rb, Stream(cgot + 1, cgot + n))
  /\ cgot' = cgot + n
  /\ interest' = IF ost = "none" THEN interest
                 ELSE [interest EXCEPT !["origin"] = @ \union {WRITE}]
  /\ done' = IF cgot' - req.head = req.length
             THEN done \union {"req"} ELSE done
  /\ UNCHANGED <<cst, ost, wb, ob, ogot, body_length, toOrigin, toClient,
                 replied, thread, jobs, crash>>

\* copy_r of the client: end of file or error.
ClientCopyRFails ==
  /\ Event("client", READ) /\ cst = "COPY"
  /\ "client" \in fault
  /\ ClientDone("ERROR")
  /\ UNCHANGED <<cgot, ogot, toOrigin, toClient, replied, thread, jobs, crash>>

\* copy_w of the client: n bytes are sent.
ClientCopyW(n) ==
  /\ Event("client", WRITE)
  /\ n \in 1..Pending(wb)
  /\ wb' = Drop(wb, n)
  /\ toClient' = IF replied THEN << >> ELSE toClient \o SubSeq(wb.bytes, 1, n)
  /\ UNCHANGED <<machines, rb, ob, cgot, ogot, body_length, toOrigin,
                 replied, thread, jobs, crash>>

\* copy_w of the client with nothing to send: DONE if everything is.
ClientDrained ==
  /\ Event("client", WRITE)
  /\ Pending(wb) = 0
  /\ IF done = AllDone
     THEN ClientDone("DONE")
     ELSE /\ interest' = [interest EXCEPT !["client"] = @ \ {WRITE}]
          /\ UNCHANGED <<cst, ost, done, buffers, body_length>>
  /\ UNCHANGED <<cgot, ogot, toOrigin, toClient, replied, thread, jobs, crash>>

ClientCopyWFails ==
  /\ Event("client", WRITE)
  /\ Pending(wb) > 0 /\ "client" \in fault
  /\ ClientDone("ERROR")
  /\ UNCHANGED <<cgot, ogot, toOrigin, toClient, replied, thread, jobs, crash>>

\* client_timeout: a 504 when there is room, whatever was sent before it.
ClientTimeout ==
  /\ Handle(<<"client", "timeout">>)
  /\ cst \notin Closed /\ idle
  /\ IF CanReply
     THEN Reply(interest)
     ELSE UNCHANGED <<wb, interest, done, replied>>
  /\ UNCHANGED <<cst, ost, rb, ob, cgot, ogot, body_length, toOrigin,
                 toClient, thread, jobs, idle, crash>>

-----------------------------------------------------------------------------
(***************************************************************************)
(* origin.c                                                                 *)
(***************************************************************************)

\* Mutant of HeadersFlush: everything read so far is taken for the head.
HeadersFlushAll(n) ==
  /\ wb' = IF Room(wb) > n THEN Put(wb, Stream(1, ogot')) ELSE wb
  /\ jobs' = jobs \union {"origin"}

\* Mutant of HeadersFlush: the selector is not notified.
HeadersFlushSilent(n) ==
  /\ wb' = IF Room(wb) > n THEN Put(wb, Stream(1, n)) ELSE wb
  /\ jobs' = jobs

\* headers_flush, when the machine leaves HEADERS for whatever reason: the n
\* bytes of head read so far, if they leave room.  The job makes flush_body
\* run when the machine is in COPY.
HeadersFlush(n) ==
  /\ wb' = IF Room(wb) > n THEN Put(wb, Stream(1, n)) ELSE wb
  /\ jobs' = jobs \union {"origin"}

\* The interests headers_flush leaves.
FlushedInterest ==
  [interest EXCEPT !["client"] = @ \union {WRITE}, !["origin"] = @ \ {READ}]

Connected ==
  /\ Event("origin", WRITE) /\ ost = "CONNECTING"
  /\ ost' = "HEADERS"
  /\ interest' = [interest EXCEPT !["origin"] = @ \union {READ}]
  /\ ob' = Empty
  /\ UNCHANGED <<cst, done, rb, wb, wire, thread, jobs, crash>>

\* connected after a failure: 502 or 504, and clear_interests.
ConnectFails ==
  /\ Event("origin", WRITE) /\ ost = "CONNECTING"
  /\ "connect" \in fault
  /\ ost' = "RESPONSE_ERROR"
  /\ LET cleared == [interest EXCEPT !["origin"] = {}] IN
     IF CanReply
     THEN Reply(cleared)
     ELSE interest' = cleared /\ UNCHANGED <<wb, done, replied>>
  /\ UNCHANGED <<cst, rb, ob, cgot, ogot, body_length, toOrigin, toClient,
                 thread, jobs, crash>>

\* headers_read: n bytes; those after the head stay in buff.
HeadersRead(n) ==
  /\ Event("origin", READ) /\ ost = "HEADERS"
  /\ n \in 1..Least(Room(ob), resp.total - ogot)
  /\ ogot' = ogot + n
  /\ IF ogot' < resp.head
     THEN UNCHANGED <<ost, interest, done, wb, ob, body_length, jobs>>
     ELSE /\ ost' = "COPY"
          /\ done' = done \union {"trans"}
          /\ ob' = Drop(Put(ob, Stream(ogot + 1, ogot')), resp.head - ogot)
          /\ body_length' = resp.length
          /\ HeadersFlush(resp.head)
          /\ interest' = FlushedInterest
  /\ UNCHANGED <<cst, rb, cgot, toOrigin, toClient, replied, thread, crash>>

\* headers_read and copy_w fail: RESPONSE_ERROR, after headers_flush when the
\* machine was in HEADERS.  The client is not told.
OriginFails ==
  /\ UNCHANGED <<cst, done, rb, ob, wire, thread, crash>>
  /\ ost' = "RESPONSE_ERROR"
  /\ IF ost = "HEADERS"
     THEN /\ HeadersFlush(Least(ogot, resp.head))
          /\ interest' = [FlushedInterest EXCEPT !["origin"] = {}]
     ELSE /\ interest' = [interest EXCEPT !["origin"] = {}]
          /\ UNCHANGED <<wb, jobs>>

\* The server has the whole request.
Asked == Len(toOrigin) >= req.head + req.length

\* The server has closed: after the exchange, or at any time.
OriginMayClose ==
  \/ resp.close /\ Asked /\ ogot = resp.total
  \/ "origin" \in fault

HeadersReadFails ==
  /\ Event("origin", READ) /\ ost = "HEADERS"
  /\ OriginMayClose
  /\ OriginFails

OriginCopyWFails ==
  /\ Event("origin", WRITE) /\ ost \in {"HEADERS", "COPY"}
  /\ Pending(rb) > 0 /\ "origin" \in fault
  /\ OriginFails

\* Mutant of OriginCopyW: a short send drops all that was pending.
OriginCopyWAll(n) ==
  /\ Event("origin", WRITE) /\ ost \in {"HEADERS", "COPY"}
  /\ n \in 1..Pending(rb)
  /\ rb' = Empty
  /\ toOrigin' = toOrigin \o SubSeq(rb.bytes, 1, n)
  /\ UNCHANGED <<machines, wb, ob, cgot, ogot, body_length, toClient,
                 replied, thread, jobs, crash>>

\* copy_w of the origin: n bytes of the request are sent.
OriginCopyW(n) ==
  /\ Event("origin", WRITE) /\ ost \in {"HEADERS", "COPY"}
  /\ n \in 1..Pending(rb)
  /\ rb' = Drop(rb, n)
  /\ toOrigin' = toOrigin \o SubSeq(rb.bytes, 1, n)
  /\ UNCHANGED <<machines, wb, ob, cgot, ogot, body_length, toClient,
                 replied, thread, jobs, crash>>

OriginDrained ==
  /\ Event("origin", WRITE) /\ ost \in {"HEADERS", "COPY"}
  /\ Pending(rb) = 0
  /\ interest' = [interest EXCEPT !["origin"] = @ \ {WRITE}]
  /\ UNCHANGED <<cst, ost, done, buffers, wire, thread, jobs, crash>>

\* Mutant of BodyIsDone: done one byte before the end.
BodyIsDoneEarly(n) ==
  /\ body_length' = body_length - n
  /\ done' = IF body_length' <= 1 THEN done \union {"resp"}
                                  ELSE done \ {"resp"}

\* Mutant of BodyIsDone: the length is looked at before it is decreased.
BodyIsDoneLate(n) ==
  /\ body_length' = body_length - n
  /\ done' = IF body_length = 0 THEN done \union {"resp"}
                                ELSE done \ {"resp"}

\* chunked_is_done: whether the last bytes in write_buffer, once n more are
\* there, are an empty line.  An empty line is two positions, and what lies
\* before the beginning of the buffer may look like anything.
ChunkedIsDone(n) ==
  IF n + wb.base + Pending(wb) >= 2 /\ ~replied
  THEN {ogot' \in resp.blank} ELSE BOOLEAN

\* copy_r and flush_body decide respDone anew at every read of the body.
BodyIsDone(n) ==
  IF resp.chunked
  THEN /\ \E end \in ChunkedIsDone(n) :
            done' = IF end THEN done \union {"resp"} ELSE done \ {"resp"}
       /\ UNCHANGED body_length
  ELSE /\ body_length' = body_length - n
       /\ done' = IF body_length' = 0 THEN done \union {"resp"}
                                      ELSE done \ {"resp"}

\* flush_body: what was read behind the head follows it.
FlushBody ==
  /\ Block("origin") /\ ost = "COPY"
  /\ Pending(ob) <= Room(wb)
  /\ wb' = Put(wb, ob.bytes)
  /\ ob' = Drop(ob, Pending(ob))
  /\ interest' = [interest EXCEPT !["origin"] = @ \union {READ},
                                  !["client"] = @ \union {WRITE}]
  /\ UNCHANGED ogot
  /\ BodyIsDone(Pending(ob))
  /\ UNCHANGED <<cst, ost, rb, cgot, toOrigin, toClient, replied, thread>>

\* flush_body without room for all of it notifies the selector, which holds
\* resolution_mutex while it delivers jobs: the loop waits for itself.
FlushBodyAgain ==
  /\ Delivering("origin") /\ ost = "COPY"
  /\ Pending(ob) > Room(wb)
  /\ Lost("deadlock")
  /\ UNCHANGED <<exchange, jobs, loop>>

\* copy_r of the origin: n bytes, none when the buffer is full.
OriginCopyR(n) ==
  /\ Event("origin", READ) /\ ost = "COPY"
  /\ n \in 0..Least(Room(wb), resp.total - ogot)
  /\ n = 0 => Room(wb) = 0
  /\ ogot' = ogot + n
  /\ wb' = Put(wb, Stream(ogot + 1, ogot'))
  /\ interest' = [interest EXCEPT !["client"] = @ \union {WRITE}]
  /\ BodyIsDone(n)
  /\ UNCHANGED <<cst, ost, rb, ob, cgot, toOrigin, toClient, replied, thread,
                 jobs, crash>>

\* copy_r of the origin: end of file, which takes room to be told from a full
\* buffer, or error end the whole exchange.
OriginCopyREnds ==
  /\ Event("origin", READ) /\ ost = "COPY"
  /\ OriginMayClose
  /\ Room(wb) > 0 \/ "origin" \in fault
  /\ ost' = "RESPONSE_ERROR"
  /\ done' = AllDone
  /\ interest' = [interest EXCEPT !["client"] = @ \union {WRITE},
                                  !["origin"] = {}]
  /\ UNCHANGED <<cst, buffers, wire, thread, jobs, crash>>

\* A write or a job reaches the origin in RESPONSE_ERROR, which has no
\* handler: stm.c aborts.
OriginAborts ==
  /\ \/ Event("origin", WRITE) /\ UNCHANGED jobs
     \/ Delivering("origin") /\ UNCHANGED <<exchange, jobs, loop>>
  /\ ost = "RESPONSE_ERROR"
  /\ Lost("abort")

-----------------------------------------------------------------------------
(***************************************************************************)
(* selector.c, as this exchange sees it (see module Selector).              *)
(***************************************************************************)

Readable(p) ==
  IF p = "client"
  THEN cgot < req.total \/ "client" \in fault
  ELSE \/ ogot < resp.total /\ (Asked \/ "early" \in fault)
       \/ OriginMayClose

Ready ==
  {e \in Peer \X Op :
     e[2] \in interest[e[1]] /\ (e[2] = READ => Readable(e[1]))}

\* pselect returns: the descriptors in r are ready, and the client is idle
\* from now on if late.
Select(r, late) ==
  /\ crash = "none"
  /\ pc = "select"
  /\ idle' = (idle \/ late)
  /\ todo' = r \union {e \in {<<"client", "timeout">>} : idle'}
  /\ pc' = "scan"
  /\ UNCHANGED <<exchange, machines, buffers, wire, thread, jobs, order, crash>>

\* An event whose descriptor has lost the interest since pselect returned.
SkipEvent ==
  /\ \E e \in todo :
       /\ Handle(e)
       /\ IF e[2] \in Op THEN e[2] \notin interest[e[1]]
                        ELSE cst \in Closed \/ ~idle
  /\ UNCHANGED <<machines, buffers, wire, thread, jobs, idle, crash>>

EndIteration ==
  /\ crash = "none"
  /\ pc = "scan" /\ todo = {}
  /\ pc' = "block"
  /\ UNCHANGED <<exchange, machines, buffers, wire, thread, jobs, todo, order,
                 idle, crash>>

EndBlock ==
  /\ crash = "none"
  /\ pc = "block" /\ jobs = {}
  /\ pc' = "select"
  /\ UNCHANGED <<exchange, machines, buffers, wire, thread, jobs, todo, order,
                 idle, crash>>

-----------------------------------------------------------------------------

ClientStep ==
  \/ RequestReadNothing \/ RequestReadError
  \/ \E n \in 1..Capacity : RequestRead(n)
  \/ ResolvFailed \/ ConnectUnnoticed \/ RequestConnect
  \/ \E n \in 0..Capacity : ClientCopyR(n)
  \/ ClientCopyRFails
  \/ \E n \in 1..Capacity : ClientCopyW(n)
  \/ ClientDrained \/ ClientCopyWFails \/ ClientTimeout

OriginStep ==
  \/ Connected \/ ConnectFails
  \/ \E n \in 1..Capacity : HeadersRead(n)
  \/ HeadersReadFails
  \/ \E n \in 1..Capacity : OriginCopyW(n)
  \/ OriginDrained \/ OriginCopyWFails
  \/ FlushBody \/ FlushBodyAgain
  \/ \E n \in 0..Capacity : OriginCopyR(n)
  \/ OriginCopyREnds \/ OriginAborts

LoopStep ==
  \/ SkipEvent \/ EndIteration \/ EndBlock
  \/ \E p \in Peer : DropJob(p)

\* The client may have been idle for TIMEOUT seconds.
MayIdle ==
  /\ "idle" \in fault
  /\ "slow" \in fault \/ \A op \in Op : <<"client", op>> \notin Ready

SelectAny ==
  \E r \in SUBSET Ready, late \in BOOLEAN :
    /\ <<"client", WRITE>> \in Ready \ r => "slow" \in fault
    /\ late => MayIdle
    /\ Select(r, late)

ThreadStep ==
  \/ Notify
  \/ \E r \in {"null", "remote", "local"} :
       /\ r = "null" => "resolve" \in fault
       /\ r = "local" => "local" \in fault
       /\ Resolve(r)

Next == ClientStep \/ OriginStep \/ LoopStep \/ SelectAny \/ ThreadStep

Spec == Init /\ [][Next]_vars

\* Everything that is ready is reported.
SelectAll == Select(Ready, MayIdle)

(***************************************************************************)
(* The loop goes on, pselect reports everything that is ready again and     *)
(* again (peers keep reading and sending), getaddrinfo ends, and a mutex    *)
(* that is free again and again is granted.                                 *)
(***************************************************************************)
Fairness ==
  /\ WF_vars(ClientStep \/ OriginStep \/ LoopStep)
  /\ SF_vars(SelectAll)
  /\ WF_vars(ThreadStep)
  /\ SF_vars(Notify)

FairSpec == Spec /\ Fairness

-----------------------------------------------------------------------------
(***************************************************************************)
(* Properties                                                               *)
(***************************************************************************)

Queue == [base : 0..Capacity, bytes : Seq(Nat)]

\* What clients, servers, the machines and the selector are in.
ControlType ==
  /\ req \in Request /\ resp \in Response /\ fault \subseteq FaultKind
  /\ cst \in {"REQUEST_HEADERS", "COPY"} \union Closed
  /\ ost \in {"none", "CONNECTING", "HEADERS", "COPY", "RESPONSE_ERROR",
              "closed"}
  /\ interest \in [Peer -> SUBSET Op]
  /\ done \subseteq AllDone
  /\ dns \in {"none", "resolving", "resolved"}
  /\ resolution \in {"null", "remote", "local"}
  /\ jobs \subseteq Peer
  /\ replied \in BOOLEAN
  /\ crash \in {"none", "abort", "deadlock", "memcpy", "freed"}

\* Where handle_iteration is.
LoopType ==
  /\ pc \in {"select", "scan", "block"}
  /\ todo \subseteq Peer \X (Op \union {"timeout"})
  /\ order \in {<<"client", "origin">>, <<"origin", "client">>}
  /\ idle \in BOOLEAN

\* No buffer holds more than it has room for.
BuffersType ==
  /\ rb \in Queue /\ wb \in Queue /\ ob \in Queue
  /\ Room(rb) >= 0 /\ Room(wb) >= 0 /\ Room(ob) >= 0

\* What has come and gone.
WireType ==
  /\ cgot \in 0..req.total /\ ogot \in 0..resp.total
  /\ body_length \in Int
  /\ toOrigin \in Seq(Nat) /\ toClient \in Seq(Nat)

\* Types of the variables.
TypeOK == ControlType /\ LoopType /\ BuffersType /\ WireType

Open == cst \notin Closed

\* Nobody waits for bytes that nobody will move: queued bytes have a
\* descriptor with the interest to write them, or a job that will, and an
\* origin whose body has not ended is read once flush_body has run.
NoLostWakeup ==
  Open /\ crash = "none" =>
    /\ Pending(wb) > 0 => WRITE \in interest["client"]
    /\ Pending(rb) > 0 /\ ost \in {"CONNECTING", "HEADERS", "COPY"}
         => WRITE \in interest["origin"]
    /\ ost = "COPY" => ("origin" \in jobs <=> READ \notin interest["origin"])
    /\ Pending(ob) > 0 /\ ost = "COPY" => "origin" \in jobs

\* What the client has been sent and what waits for it are the response as
\* the origin sent it, in order and without holes: the head before the bytes
\* that were read with it, and those before the ones read later.  A head that
\* would fill write_buffer to the last byte is left out, and an error reply
\* takes its place wherever the response has got to.
ResponseInOrder ==
  Open /\ ost \in {"HEADERS", "COPY"} /\ resp.head < Capacity /\ ~replied =>
    toClient \o wb.bytes \o ob.bytes =
      IF ost = "COPY" THEN Stream(1, ogot) ELSE << >>

\* The origin is sent the request as the client sent it.
RequestInOrder ==
  Open => toOrigin \o rb.bytes = Stream(1, cgot)

\* An exchange that ends as DONE without an error reply has given the client
\* everything that came from the origin.  That is all the response declares,
\* or all there is of one that is longer or shorter, and the request was all
\* read, unless the origin broke off, or the end of a chunked body was seen
\* where it is not (WholeResponse).
DoneIsComplete ==
  cst = "DONE" /\ ~replied /\ resp.head < Capacity =>
    /\ toClient = Stream(1, ogot)
    /\ "origin" \notin fault /\ ~resp.chunked =>
         /\ ogot \in {resp.head + resp.length, resp.total}
         /\ cgot >= req.head + req.length

\* Both sides send what they declare, the head of the answer comes in one
\* piece, and nothing goes wrong.
Undisturbed ==
  /\ fault \subseteq {"slow"}
  /\ req.kind = "supported" /\ req.total = req.head + req.length
  /\ resp.head = 1 /\ resp.total = resp.head + resp.length /\ ~resp.chunked

\* A client whose server answers as it declared gets the whole answer.
Served == Undisturbed => <>(cst = "DONE" /\ toClient = Stream(1, resp.total))

\* A client that takes its bytes, whose request fits in read_buffer, and who
\* may be let go of for being idle.
Patient ==
  /\ "idle" \in fault /\ fault \intersect {"client", "slow"} = {}
  /\ req.total <= Capacity \/ req.head > Capacity

\* Whatever the server does, the descriptors of the exchange are closed in
\* the end, if the process survives it.
Ends == Patient => <>(cst \in Closed \/ crash # "none")

\* selector.h:27: handlers need not worry about concurrency. A handler may
\* use the selector from any of its callbacks without hanging the loop.
NoDeadlock == crash # "deadlock"

\* passive.c:70: while the name is being resolved the client only waits for
\* the end of that task, so the thread finds the memory it writes to.
NoUseAfterFree == crash # "freed"

\* passive.c:86: a client in COPY is there for the contents to be copied: it is
\* not DONE before a chunked response has come to its end.
WholeResponse ==
  cst = "DONE" /\ ~replied /\ "origin" \notin fault => ogot = resp.total

\* passive.c:89: an I/O error of a peer ends its exchange, not the process.
NoAbort == crash # "abort"
=============================================================================
