# A model of the protos HTTP proxy

`protos` is an HTTP/1.1 proxy in C. One thread multiplexes every socket with
`pselect`; names are resolved on threads of their own; responses may be piped
through a child process that transforms their body; an administrator reads
metrics and configures transformations over SCTP. The TLA+ modules in this
directory model the parts of it where order, failure and shared state matter.
Paths below are relative to `src/` of the repository; `server/` stands for
`src/server/`.

## 1. The system

| component | code | state it keeps | operations | talks to |
|---|---|---|---|---|
| byte buffer | `server/buffer.c` | `data`, `limit`, `read`, `write` | `write_ptr`/`write_adv`, `read_ptr`/`read_adv`, `read`, `write`, `compact`, `reset` | used by every handler |
| selector | `server/selector.c` | table of items (fd, interest, handler, `last_used`), `max_fd`, `master_r/w`, `slave_r/w`, list of blocking jobs, mutex | `register`, `unregister_fd`, `set/add/remove_interest`, `notify_block`, `select` | calls the handlers of the others; is notified by threads |
| state machine engine | `server/stm.c` | current state of one machine | `read`, `write`, `block` handlers, `jump` with departure and arrival hooks | calls the functions of a state table, aborts if there is none |
| client side of an exchange | `server/passive.c` | machine (`REQUEST_HEADERS`, `COPY`, `DONE`, `ERROR`), `read_buffer`, `write_buffer`, `bodyWritten`, `reqDone`/`respDone`/`transDone`, `origin_resolution` | accept, `request_read`, `request_resolv(_blocking, _done)`, `copy_r`, `copy_w`, `client_timeout`, `client_done` | selector, request parser, origin side, `getaddrinfo` thread |
| origin side of an exchange | `server/origin.c` | machine (`CONNECTING`, `HEADERS`, `COPY`, `RESPONSE_ERROR`), `buff`, parser, the client's buffers and flags | `request_connect`, `connected`, `headers_read`, `headers_flush`, `flush_body`, `copy_r`, `copy_w`, `origin_close` | selector, client side, response parser, transformations |
| error replies | `server/http.c` | none | `send_http_code_from_client/origin` | writes `write_buffer`, the three flags and the client's interest |
| request and response parsers | `server/request.c`, `server/response.c` | automaton state, scratch buffer, parsed fields | `consume`, `feed`, `body_is_done`, `chunked_is_done` | fed by the two sides |
| transformations | `server/transformation.c` | registry media type → program; per response two pipes, `tb`, chunk length | `register`, `unregister`, `get_*`, `init_transform`, `copy_r`, `copy_w` | origin side, selector, child process, administration |
| metrics | `server/metrics.c` | rounded counters with a carry | `log_metric`, `logTime`, `add/remove_client`, `get_metric` | written by handlers, read by administration |
| access log | `server/log.c` | one record per descriptor number | `register_*`, `log_request` | written by handlers |
| administration server | `server/sctpRequest.c` | machine (`SCTP_READ`, `SCTP_WRITE`), two memory areas | accept, read, parse, write | selector, metrics, registry |
| administration client | `src/client/app.c` | the arguments, a table of media types, one request, one reply | `getParams`, `getMetric`, `getConfiguration`, `parseResponse` | administration server |
| start and stop | `server/main.c` | listening sockets, `done` | options, registration, loop, SIGTERM | everything |
| helpers | `netutils.c`, `utils.c`, `message.c`, `resolveLocalIp.c` | list of local addresses | formatting, comparison | |

How they interact: the selector calls a handler with a key (descriptor,
attachment); the handler runs the machine of its side, which moves bytes
between a socket and a buffer both sides share, and changes the interests of
**both** descriptors so that the other side goes on. Whoever completes the
exchange sets one of three shared flags; the client side ends it when
`write_buffer` is empty and all are set. The resolver thread and
`headers_flush` come back through `selector_notify_block`, which the loop
delivers to `handle_block` after the events of an iteration.

What is hard here, and the properties that make each part correct:

- *buffer*: pointers and memory that move under the reader; bytes once each, in
  order, and an empty buffer that always has room;
- *selector*: callbacks that register, close and change other descriptors while
  the loop walks over them, threads that notify at any moment; no descriptor
  deaf or polled after its end, no starvation, no lost notification;
- *exchange*: two sides, one thread, shared buffers smaller than the messages,
  peers that fail at any point; bytes in order, no lost wake-up, `DONE` only
  when complete, every exchange closed, the process alive;
- *parsers*: heads cut anywhere by `recv`; the end of a message recognised
  exactly once;
- *transformations*: blocking pipes, a second end of stream, a child that may hold
  back, die or never read, chunk framing, descriptors that outlive what they name;
- *metrics, log, registry, administration*: state that outlives an exchange and
  is read by another one.

## 2. Modules

| module | models | kind |
|---|---|---|
| `ByteQueue` | the byte buffer as its users see it: operators `Room`, `Pending`, `Put`, `Drop`, `Compact` on a record | pure operators |
| `ByteQueueSpec` | the promise of the buffer: a bounded queue of bytes | abstract specification |
| `Buffer` | `buffer.c`: two pointers over memory cells | detailed specification, refines `ByteQueueSpec` |
| `BufferProofs` | theorems about `Buffer` | proofs |
| `Selector` | `selector.c` with callbacks that make any calls, and notifying threads | specification |
| `SelectorProofs` | theorems about `Selector` | proofs |
| `Connection` | `passive.c`, `origin.c`, `http.c`, the use they make of `stm.c`, the resolver thread, and the loop as one exchange sees it | specification, uses `ByteQueue` |
| `HttpTokens` | the characters the parsers tell apart, `atoi` | operators |
| `RequestParser`, `ResponseParser` | the automata of `request.c` and `response.c`, each fed by a peer that sends any well-formed head | specifications, use `HttpTokens` |
| `Metrics` | the counters of `metrics.c` | pure operators |
| `Registry` | the table of media types of `transformation.c` | pure operators |
| `Administration` | the sessions of `sctpRequest.c`, and what exchanges do to the metrics | specification, uses `Metrics` and `Registry` |
| `AdminClient` | the administrator's program `client/app.c`, in a session with `Administration` | specification, extends `Administration` |
| `AccessLog` | the records of `log.c`, one per descriptor number, and the calls that fill them | specification |
| `Transform` | a response that goes through a transformer: `transformation.c`, and what `origin.c` and `passive.c` do of it | specification, uses `ByteQueue` |
| `Relay` | the promise of an exchange: the client has the answer when it is over | abstract specification, refined by `Transform` |
| `Descriptors` | the numbers several exchanges share: who opens, closes, remembers and inherits which | specification |
| `ConnectionProofs`, `TransformProofs`, `DescriptorsProofs`, `ParserProofs`, `AdministrationProofs`, `AccessLogProofs` | theorems about the modules they extend, `ParserProofs` about both parsers, `TransformProofs` also that `Transform` implements `Relay` | proofs |
| `MCSelector`, `MCConnection`, `MCParts`, `MCTransform` | small instances for TLC; `MCParts` puts the parts that share nothing side by side, and a behaviour exercises one of them | model checking |

Next to a definition that a run is shown to depend on there may be a variant
named "Mutant of ...": the definition with a plausible mistake. `PROJECT.json`
says which property notices it.

### Buffer

`read` and `write` are the offsets of the two pointers, `mem` the cells. An
action is one operation together with the way its callers use it: a write is
`buffer_write_ptr`, the copy and `buffer_write_adv`. `ByteQueue` forgets the
memory and keeps the cells before the read pointer (`base`), because the room
is only what is behind the write pointer. `Connection` uses those operators, and
the refinement `Buffer => ByteQueueSpec` is what justifies it; so does
`Transform`.

### Selector

`used`, `interest`, `max_fd` and `master` are the item table and the two sets;
`slave` is what `pselect` returned; `pc` and `at` are the position of the
selector thread in `selector_select`, `handle_iteration` (descriptor, then read,
write and timeout tests) and `handle_block_notifications` (`cursor`). While `pc`
is in a callback, the actions `Register`, `Unregister`, `SetInterest`,
`AddInterest`, `RemoveInterest`, `Spawn` and `NotifySelf` may happen in any
order and number, which covers the handlers of the proxy and of any other user.
Each `task` is a thread: running, holding the mutex, its job listed; `owed` are
those that have not signalled yet. `sig` is the pending SIGALRM, which is blocked
outside `pselect`.

### Connection

A byte is its position in its stream, so a lost, doubled or swapped byte shows;
an error reply is one token. `cst` and `ost` are the states of the two machines,
`interest` the interests of the two descriptors, `done` the three shared flags,
`rb`, `wb`, `ob` the client's `read_buffer` and `write_buffer` and the origin's
`buff`. `pc`, `todo` and `order` are the loop: `Select` fixes the set of events of an
iteration, handlers take them one after the other in the order of the two
descriptor numbers and, for each, read, write, timeout (`Precedes`), and an event
whose descriptor lost its interest meanwhile is skipped, as in `handle_iteration`.
`toClient` is what the client was sent, until an error reply is (`replied`). Handlers are named after the functions they
model, split by outcome: `ClientCopyR`, `ClientCopyRFails`, ... Where the C code
calls `abort`, blocks on its own mutex, copies -1 bytes or touches freed memory,
`crash` records it and nothing happens any more.

The constant `Exchange` is a set of exchanges: a request and a response, each
reduced to the length of its head, the length it declares and the length it has,
and the set of what may go wrong outside the proxy (a peer resets, a name does not
resolve, `socket` or `pthread_create` fails, an answer comes before the request is
complete, ...). The first state chooses one, so the variable `fault` is a part of
the behaviour, and a property may speak of it. A chunked response ends where
`chunked_is_done` finds a last chunk in the four bytes behind what was
stored last, whatever these are.

### Transform

The server is as free as it is in fact: it may break a body off, send more than it
declared (`Sized` is false then), or a chunked body that is cut anywhere
(`Framed`). `Answered` leaves the error reply out of what the client was sent,
`Payload` the framing.

It starts where `headers_read` leaves an exchange with an active media type: the
head is on its way, `flush_body` is due. From there a body passes `tb`, the pipe
`in`, the child, the pipe `out`, and as chunks `rb`. A token is a byte of the body,
the size of a chunk, a line end or the last chunk, so that framing can be wrong in
the model where it can be wrong in the code. `writing` is what a blocking `write`
has still to take; while `loop = "write"` no handler runs, only the child does. The
child (`ChildRead`, `ChildWrite`, `ChildEof`) stands for any filter: it holds back up to
`Hold` bytes, makes `factor` bytes of one, ends with its input, and may die
(`ChildDies`). `fork` in `fault` is a failure of `init_transform`, which
`headers_read` does not look at: the body then goes out as it came. `crash` records
that `tb` was used after `transform_close` freed it, or that `write` raised
SIGPIPE.

The pipe `out` ends in two ways, because `copy_r` returns `DONE` for any read once the
shared `transDone` is true (`transformation.c:302`). `TransformOutEnds` reads the end
of file, sends the last chunk and sets the flag. `TransformOutCut` reads bytes when
the flag was already set, by the end of file of the origin (`origin.c:407`) or by a
504: it frames them, closes the pipe with what is left in it, and sends no last chunk;
`outfd` is then `"cut"` instead of `"closed"`, and the child's next `write` kills it
(`ChildBreaks`), so that what `tIn` still writes goes to a pipe without a reader.

### Descriptors

`fds` says who has a number, by the kernel's rule that the lowest free one is given
out; `known` are the numbers the structures of an exchange remember, which
`transform_done` does not update; `slave` is what `pselect` reported and the iteration
has not looked at yet, so that a number closed and opened again within one
iteration is handled with the readiness of what it was before. `copies` are the
pipes a forked child inherits. Only what opens, closes or reads a descriptor is an
action; when that happens is left open, so the module covers any traffic, and an
`OutDone` of a pipe whose child still runs.
Behaviours are not followed after `harm`: an exchange has closed the descriptor of
another one, or the loop waits in a read.

### Parsers

There is one action per function of the two automata; `qstate` and `pstate` are
`p->state`, `qbuffer` and `pbuffer` the part of `p->buffer` before `p->i`. A token is
a character with a meaning of its own (`CR`, `LF`, space, colon) or a word, the run of
ordinary characters it is spelled with; feeding a word does what feeding its
characters does. Every token is one step, so a head may be cut at any place where
the automaton can tell the difference. The peer (`SendMethod`, ... and `SendVersion`,
...) is the environment: it sends any well-formed head, with any number of fields in
any order, and its variables `asked` and `answered` record what the head
declares by the rules of HTTP, independently of how the parser goes about it. A host
may be empty, and have spaces on both sides; behind its colon there may be a port,
nothing, or something else (a port with spaces behind it, several words, the rest of an
address in brackets), and the peer's state tells which: `dest_port` accepts a number
alone up to the end of the line and nothing else, so an empty port and one with
white space behind it, which HTTP allows, are answered as errors. That is what
`RequestHeadIsFound` says of the error state. Limits of the environment: white space is
spaces, a port has at most 16 bits, a line of status always has the space before
its reason, and compression named beside `chunked` in one field is not looked for.

### Administration

`metrics` and `registry` are the two global tables; `sst`, `interest` and `reply`
are the sessions. `SctpRequestRead` is the whole handler: it runs all commands of
a request (`after[k]` is what the first `k` of them come to), and leaves the reply to `SctpRequestWrite`.
`logged`, `open` and `peak` are not in the code: they are what the metrics should
say. A media type is its base, as a sequence so that one can be the
beginning of another, and what follows its semicolon.

`AdminClient` reads its arguments one by one into a request: `getConfiguration`
looks a media type up with an index `j` that an earlier argument, or nobody, has
set, in a table of `MEDIATYPES` cells; what an uninitialised index may do, including
the loss of the program, is in the model, and so is `-c4`, whose place in
`configurations[4]` is behind the array (`Beyond`): whether it was given before can be
read as anything (`Given`), and setting it may write over another variable. The session
is the one of `Administration`, and `Tell` pairs the answers with the table: a
configuration takes the media type at its `Place` among the configurations. `Brought` is
what the one `recv` may have of the reply: some of the answers, the last of them
perhaps in part, or all of them and then whatever `parseResponse` makes of the bytes
that the server's `strlen` found behind a reply (`Strays`).

### AccessLog

A record belongs to a descriptor number and is filled by the calls of handlers in
the order of an exchange, any of which may be its last; nothing clears it. `strncpy`
copies a request line without an end, so what is there is the new line over the
old one. `holder` says who has a number, a client or the origin of one, and also keeps
what the exchange really did, which is what an entry is compared with.

## 3. Runs

| run | instance | shows |
|---|---|---|
| `selector` | 2 descriptors, 2 jobs, up to permutation of jobs, 737 000 states | `NoJobLost`, `PollsWhatItemsAsk`, `MaxFdIsMax` |
| `selector_live` | 2 descriptors, a job, fair, 143 000 states | `ReadyIsServed`, `NotificationsArrive` |
| `exchange` | good peers that may be slow, and any peers with every fault but a failing client, 3-byte buffers, fair, 91 000 states | `Served`, `Ends` |
| `exchange_faults` | a request with a body and all responses, plain, chunked and (without a body) undeclared, and all requests and a plain response, every fault at once, 1 076 000 states | `TypeOK`, `NoLostWakeup`, `RequestInOrder`, `ResponseInOrder`, `DoneIsComplete` |
| `parts`: buffer | 5 cells, 2 byte values | `PointersOrdered`, `EmptyIsFree`, and refinement `ImplementsQueue` |
| `parts`: parsers | 9 field names, values of up to two words | `RequestHeadIsFound`, `RequestIsRead`, `ResponseHeadIsFound`, `ResponseIsRead` |
| `parts`: administration | 2 sessions, 4 media types of which one begins another, 2 exchanges, fair; its client with 3 arguments, one transformer beyond the array, a table of 2, and stray answers behind a reply | `CountersAreExact`, `RepliesAreTrue`, `ConfigurationStands`, `OneEntryEach`, `TableFits`, `SessionsEnd`, `ToldWhatWasAsked` |
| `parts`: log | 3 descriptor numbers, 2 exchanges, lines of 2 | `LoggedAsItWas` |
| `parts`: descriptors | 10 numbers, 3 exchanges, 2 of them transformed | `OwnNumbers`, `BlockedOnlyThen`, `NoCircle` |
| `transform` | bodies plain, chunked, of unknown length, broken off, overlong and with an end in two pieces, a child that doubles and one that does not, every fault, fair, 73 000 states | `NothingLost`, `WellFramed`, `LostOnlyThen`, `Delivered`, `Ends`, and refinement `Relayed` |
| `flush_deadlock` | no fault, a head read with more body than fits | `NoDeadlock` violated |
| `resolver_outlives` | no fault, one malformed request | `NoUseAfterFree` violated |
| `origin_abort` | an origin that closes before its head is complete | `NoAbort` violated |
| `chunked_cut` | no fault, the head of a chunked response that comes alone | `WholeResponse` violated |
| `transform_stalls` | no fault, a body longer than the pipes hold | `NeverStalled` violated |
| `stranger` | 3 exchanges, 1 or 2 of them transformed | `NoStranger` violated |

`parts` has 557 000 states in all.

Bounds. Five cells leave room for a partly read buffer whose compaction
overlaps itself, which `buffer.c` allows its users and no handler of the proxy does. Two descriptors are enough for one to be closed, registered or
changed by the callback of another and for `max_fd` to fall; two jobs for one to
be queued while another is delivered. Buffers of three bytes are shorter than a
message and longer than a head, so that partial reads, full buffers and heads
read in two pieces all happen. A head may have any number of fields: what the automata remember is bounded by the
values (`MaxWords` words each), not by their number, so the bound is only on how
long a value is; two words are enough for a host and a media type to be
gathered and for an encoding to be named beside another. Among the administrators,
`MaxLogged` and `MaxOpen` cap the counters: a carry that completes a unit and a
maximum that is passed, left and reached again need two of each; a block of two
cells is outgrown by four media types. Three arguments of the client are enough
for one to use the index an earlier one has set, and for the list to run ahead of the
answers; of the two transformers one is in the array and one behind it. In `transform` the pipes hold two
bytes and the buffers six, so that a body can fill a pipe, a chunk can be
larger than what is left of `write_buffer`, and a size line can be cut. Three
exchanges are the fewest in which one ends, one gives its number to a pipe and a
third is harmed; ten numbers let two of them have all they may open and leave
a third short of them, so that `init_transform` fails in each way it can.
Nothing in the models counts without bound.

Deadlock is not checked where the system may stop: an exchange that is over, or
a process that is lost, has no next step.

Fairness. `Administration` assumes that a session whose socket has room is served
(the loop goes on and `pselect` reports it). `Selector` and `Connection` assume that the loop goes on (handlers
return), that `pselect` reports a ready descriptor again and again, that a thread
that resolves a name ends, and that a mutex that is free again and again is
granted. The first holds because the handlers modelled do not block; the second
is the kernel's; the third is `getaddrinfo`'s own timeout. Strong fairness is
needed for `pselect` because a signal may interrupt it, and for the mutex because
other threads may hold it. In `Transform` handlers do block, so no assumption is made
about the loop while it is in `write`: each handler is strongly fair, the pipe and the
child go on if they can (weakly fair), and `Ends` names `Stalled`, the state nothing
leaves. Strong fairness is what the loop gives: an iteration handles every descriptor
that is ready, one after the other, so that one handler cannot run again and again with
another one passed over that was ready in between. It would not hold of the origin
if 504s could fill the room it is read into before its turn, but a 504 needs
`TIMEOUT` seconds without an event of the client, and the write that makes room is
one. A read of nothing, which a full buffer makes the origin's handler do, needs no
fairness. Nothing is assumed of the origin, whose bytes need not come, but that what has
come is read; the client takes bytes, and is idle if nothing comes.

### What the violations show

- `flush_deadlock`: `handle_block_notifications` holds `resolution_mutex` while
  it calls `handle_block`; `flush_body`, when the body that came with the head
  does not fit in `write_buffer`, calls `selector_notify_block` from there, which
  locks it again. The loop stops for every client.
- `resolver_outlives`: a head that does not parse is "done" too, so
  `request_read` starts the resolver thread and then returns `ERROR`;
  `client_destroy` frees what the thread works on.
- `origin_abort`: leaving `HEADERS` for `RESPONSE_ERROR` runs `headers_flush`,
  which notifies the selector; `RESPONSE_ERROR` has no block handler, so
  `stm.c` aborts the process.
- `chunked_cut`: `flush_body` asks whether the body is complete when nothing of it
  has come; the four bytes `chunked_is_done` looks at are then the end of the
  head, which looks like the end of a last chunk. The client is let go with a
  head only.
- `transform_stalls`: the loop is the only reader of the pipe the child writes to,
  and waits in a blocking `write` to the pipe the child reads from. Both pipes
  full, the proxy stops for every client.
- `stranger`: `transform_done` closes `infd` and leaves its number in `origin_t`;
  the next client gets the number, and `origin_close` of the first exchange
  unregisters and closes it.

Three more disagreements appear when the hypothesis of a property is dropped
(`Undisturbed` and `Patient` in `Connection`): with `"early"` in `fault`, `Served` fails for a request whose body is read
after the whole answer was sent, because `copy_w` has removed `OP_WRITE` and
`request_read_done` does not add it (`passive.c:514`, `passive.c:535`); with
`"thread"` and `"idle"` and a request longer than `read_buffer`, `Ends` fails,
because `pthread_create` returns a positive error (`passive.c:440`) and the loop
then reads 0 bytes for ever, refreshing `last_used` each time (`passive.c:505`);
and `request_read` gives the -1 of a failed `recv` to `memcpy` (`passive.c:365`),
the action `RequestReadError`.

Some invariants say when a failure of the code can happen, and that it happens
only then: `LostOnlyThen` (the output of a transformer is cut if the server closed or
the client was given up; a transformer that dies early or is killed by such a cut, or an
origin that is read after `transform_close`, end the process) and `BlockedOnlyThen` (the loop
waits in the read of a pipe only if it has the number of a descriptor closed in
the same iteration). `NothingLost` holds until the output is cut. `WellFramed` says
what the client can see of that: chunks that never come to the one of size 0. `Relayed`
excuses an exchange whose server closes: the end of file sets `transDone` too
(`origin.c:407`), so what the child has not given back yet may be lost; and one whose server sends more than it declared, of which nobody can say
what the client should be given. `Ends` excuses a stalled proxy.

## 4. Proofs

All theorems hold for every value of the constants, under the named assumptions
next to the constants (`LimitAssumption`: a buffer has at least one cell;
`ByteAssumption`: there is a byte; `SizeAssumption`: the item table is not empty;
`OwnerAssumption`: the three kinds of mutex owner are different; the others are in
the table below).

`BufferProofs`. The inductive invariant `BufferInv` is: types, `read <= write <=
Limit`, and *the pointers meet only at cell 0*, which the compaction in
`buffer_read_adv` establishes and which `EmptyIsFree` needs. From it:
`Typing`, `Ordered`, `EmptyAlwaysFree`. `Refinement` shows that every operation
is a step of the byte queue or a stutter, from lemmas on `Segment` (a write
appends, a read drops the oldest bytes, compaction changes nothing).

`SelectorProofs`. `TypeInv` adds to the types that an event callback runs inside
the scanned range and that `handle_block` runs for the first job of the cursor.
`ItemsInv` strengthens `PollsWhatItemsAsk`: the sets hold exactly the interests
of items in use, free items have none, and `max_fd` is the greatest in use
(without the last, `Polled` could miss a descriptor). `JobsInv` strengthens
`NoJobLost`: the mutex is the selector's exactly while it delivers, a thread's
exactly while it links its job, and no job is twice in the list. Theorems
`Typing`, `Polling`, `MaxFd`, `JobsKept`.

`ConnectionProofs`. None of the invariants of an exchange is inductive alone: that
a read extends the request or the response and nothing else depends on where both
machines are. `IInv` adds, to the five the runs check (`ResponseInOrder` follows
from the rest):

- `OverIsOver`: an exchange that is over has no interest left and no origin;
- `OneByOne`: resolution, connection and body follow one another, so only one of
  the two can have a job, and `buff` is empty until the head has come;
- `NothingYet`: before the head nothing but an error reply goes to the client;
- `OnItsWay`: while the body is copied, what the client has, `write_buffer` and
  `buff` together are the response as far as it was read; without `buff`
  in it, nothing could be said of `flush_body`;
- `Counted`: `body_length` is what has not come yet plus what waits in `buff`, and what
  a flag of `done` says of the two counts. `DoneIsComplete` needs it.

The proof has one lemma per action or group of actions, under it one step per part
of `IInv`. Theorems `TypesAreKept` (no copy overruns a buffer, whatever its
capacity), `WakeupsAreKept`, `RequestsAreRelayed`, `ResponsesAreRelayed`,
`ExchangesAreComplete`.

`TransformProofs`. A byte is in one of eight places, and how many bytes the child
makes of one is open, so that what is on its way has to be said in terms of an
operator over sequences. The module first shows how `FlattenSeq` behaves, from its
definition by a recursive function: what it gives for a sequence with one more
element, and that it distributes over concatenation (`Each`, `EachConcat`), hence
`Payload`, `Answered` and what the child makes do. The library's rule of
induction takes an operator as a parameter; here the rule is stated for a set
(`Induction`, `SequenceInduction`: a set that has the empty sequence, and with each
sequence those longer by an element, has every sequence), and shown by a least
counterexample. `IInv` is then

- `Control` and `ChildState`: who can be where (a due `flush_body` comes with nothing
  in `tb`, nobody writes while the loop is in `select`, the child is gone only behind its
  input), and when `transDone` can be true;
- `Placed`: `tb` and `buff` hold what was received last of the stream, and `length` says
  what follows; this is what makes a size line, a body byte and an end
  distinguishable in `copy_w`;
- `Ended`: the pipe to the child is closed behind the last byte of the body;
- `InOrder`: what was given back, followed by all that is still to come, followed by
  some lost bytes, is what is owed; and bytes are lost only if the child died, its output
  was cut (`Dead`, behind which nothing comes any more) or the server sent too much. `NothingLost` is the case without such an excuse; the
  refinement needs the others too;
- `Direct`: the same without a transformer.

Theorems `TransformTypes`, `AllOnTheWay`, `ChunksApart`, `LostForReasons`, and
`KeepsThePromise`: `Transform` implements `Relay`. The initial states map to
initial states; a step of `ClientCopyW` gives the client a longer beginning of the
answer, which is `Relay`'s delivery; a step that closes the exchange is its
end, allowed because all is delivered or an excuse holds; every
other step leaves the mapped variables as they are.

`DescriptorsProofs`. `OwnNumbers` speaks of every exchange, `IInv` adds that exchanges
which have not begun know no number (`NotYet`), that copies of pipes are of exchanges
that have had a transformer (`CopiesAreOld`), and what the numbers still to be looked
at in an iteration can be (`Looked`), which is what makes a wait in a read
traceable to an exchange that has ended meanwhile. The lowest free numbers are
handled by a well-ordering argument on finite sets. Theorems `NumbersAreOwned`,
`BlockedByLeftovers`, `ChildrenFinish`.

`ParserProofs`. The invariants `RequestInv` and `ResponseInv` say, for each place in a
head where the peer can be, in which state the automaton is, what its scratch buffer
holds and what it has stored (`InStep`, `Following`). Behind the colon of a Host it says what
`Trim` leaves of the scratch buffer: nothing, one number, or what is no number alone
(`Odd`, which more words and spaces keep: `OddMore`). Theorems `RequestHeadsAreFound`,
`RequestsAreRead`, `ResponseHeadsAreFound`, `ResponsesAreRead`: for any vocabulary, and
any number of fields in any order.

`AdministrationProofs`. `CountersAreExact` becomes inductive with types and the
arithmetic of a carry. A request has any number of commands, and what a handler
makes of it is `after[Len(commands)]`; that each of them preserves `TableInv` is
shown by the least command after which it would not hold. `TableInv` adds
to `OneEntryEach` and `TableFits` that no entry is found by the name of a later one
(`Apart`), and `RepliesStand` adds to `RepliesAreTrue` that counters only grow
between a reply being made and being sent. Theorems `CountersStayExact`, `RepliesStayTrue`,
`OneEntryForEach`, `TableAlwaysFits`, `ConfigurationStays`.
Of the client, `AppInv` adds to `ToldWhatWasAsked` that the list of media types has
those of the arguments in their order as far as none is given twice (`Listed`) or until
the program is lost; that it has no others, and each no further on than it was among the
configurations, so that a list that runs ahead of the answers does so to a later one
(`Named`); and that a reply answers the commands one by one and has bytes behind it only
if the last is a configuration (`Replied`). Theorem `AdministratorsAreTold` needs nothing
of the arguments: a media type given twice, `-c4`, an answer cut by `recv` and what the
server's memory adds are all in `ToldWhatWasAsked`, which says what is told then.

`AccessLogProofs`. `LogInv` adds to `LoggedAsItWas` what the record of each client
that is still there has of it (`RecordsStand`), and that a client and its
origin know each other (`Acquainted`), which is what keeps a record from being filled by
the origin of another. Theorem `LogIsTrue`.

The assumptions on the constants are what the code or HTTP gives:

| assumption | says |
|---|---|
| `CapacityAssumption`, `PipeAssumption` | buffers, pipes and what a child holds back have at least one byte |
| `ExchangeAssumption` (`Connection`) | an exchange is a request, a response and faults of the declared form; the head of a chunked response has two characters or more |
| `ExchangeAssumption` (`Transform`) | a stream is bytes, or chunks framed as servers do as far as they go; `factor` is positive |
| `DescriptorsAssumption` | bounds are numbers, the transformed exchanges are some of them |
| `CosAssumption`, `AmountAssumption` | units are positive, amounts natural numbers, and the metrics the handlers name exist |
| `RequestAssumption`, `BlockAssumption` | a request is a list of commands; the table grows by at least one cell |
| `AskedAssumption` | arguments are media types; the bytes behind a reply can be told as answers only |
| `LogAssumption` | a request line has a character; 0 is nobody's descriptor |
| `FirstAssumption`, `WordsAssumption`, `MethodAssumption`, `CompressionAssumption` | names start with the letter they are spelled with; words are none of the four special characters |
| `SmallerAssumption`, `NumberAssumption`, `StatusAssumption`, `MaxWordsAssumption` | the host of a well-formed request fits; numbers have values; a value has a word |

Only model-checked: liveness (`ReadyIsServed`, `NotificationsArrive`, `Served`,
`Delivered`, `SessionsEnd`, `Ends`), whose fairness needs ENABLED and is beyond the
prover. The violations are counterexamples TLC finds, and need no proof.

## 5. Not modelled

- The screen table, the text of replies, of the log and of the metrics, the options
  and sockets of `main.c`, the helpers in `netutils.c`, `utils.c` and `message.c`:
  printing, parsing of options and system calls without a state of their own.
- The letters the sample transformers (`bin/`) change; their reading and writing is
  the child of `Transform`.
- The table growth and the `EBADF` path of the selector: `main` asks for the whole
  table before it registers anything, and the path ends the proxy. For the same
  reason the capacity test of `selector.c:349`, one too generous, is out of reach.
- The clocks of the metrics, which feed the same `log_metric`, and the duration in the
  access log but for whose it is.
- Malformed heads beyond a Host whose port is none, and the memory behind fixed arrays: the
  scratch buffers of the parsers (`request.c:226` tests the bound one character
  late), the request of an administrator, the cell behind the last entry that
  `unregister_transformation` clears (`transformation.c:410`), the character arrays
  of the administration client. The models count words and entries, not bytes.
- The text `transform_headers` edits: a response without `Content-Length` that is not
  chunked is framed as chunks without a header that says so
  (`transformation.c:198`).
- The SIGTERM handler, which frees data at any instruction of a handler: an
  action is a handler, and has no finer step.
- A transformation inside the full `Connection`: `Transform` starts behind the head, with
  the request sent. Chunked and plain responses without a transformer are in
  `Connection`; several exchanges at once only in `Descriptors`, `AccessLog` and
  `Administration`, where they share state.

Three limits the models show without a run of their own: registering or
unregistering a media type that is not in the table changes or removes the first
entry it is the beginning of, if there is one (`Matches` in `Registry`); a reply that
does not end in a metric is followed by what the memory held (`Tails` in
`Administration`, `sctpRequest.c:188`), which the administrator is told as answers
(`Brought` and `Show` in `AdminClient`); and `-c4` reads and writes behind
`configurations` (`Beyond` in `AdminClient`, `app.c:87`).

## 6. What is left to prove

Every safety property of the passing runs is a theorem. What could be added, in
order of importance: that `Connection` keeps a promise like that of `Relay`; when
`Connection` can come to each `crash`, as `LostOnlyThen` says it of `Transform`;
and what `Descriptors` promises an exchange that shares its numbers with no other.
