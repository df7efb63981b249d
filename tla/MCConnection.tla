---------------------------- MODULE MCConnection ----------------------------
(* Exchanges small enough to be followed byte by byte through buffers of    *)
(* three bytes.                                                             *)
EXTENDS Connection, TLC

Get == [kind |-> "supported", head |-> 1, length |-> 0, total |-> 1]
Post == [kind |-> "supported", head |-> 2, length |-> 2, total |-> 4]

\* A head as long as the buffer still fits in read_buffer, a longer one not.
Long == [kind |-> "supported", head |-> 4, length |-> 0, total |-> 4]

\* A client that sends the beginning of a second request.
Pipelined == [kind |-> "supported", head |-> 1, length |-> 0, total |-> 2]

Connect == [kind |-> "unsupported", head |-> 1, length |-> 0, total |-> 2]
Garbage == [kind |-> "malformed", head |-> 1, length |-> 0, total |-> 1]

Answer(head, length, close) ==
  [head |-> head, length |-> length, total |-> head + length, close |-> close,
   chunked |-> FALSE, blank |-> {head}]

\* A chunked answer whose last two positions are the empty line of its end.
Chunks(head, length) ==
  [head |-> head, length |-> 0, total |-> head + length, close |-> FALSE,
   chunked |-> TRUE, blank |-> {head, head + length}]

\* A server that accepts the request and never answers.
Silent == [Answer(1, 0, FALSE) EXCEPT !.total = 0]

\* A server whose head declares a body that does not come, as for HEAD.
Bodiless == [Answer(1, 2, FALSE) EXCEPT !.total = 1]

\* Exchanges that nothing disturbs; their heads fit in one read.
GoodRequests == {Get, Post}
GoodResponses == {Answer(1, 0, FALSE), Answer(1, 4, FALSE), Answer(1, 4, TRUE)}

\* Everything at once.
AnyRequests == {Get, Post, Long, Pipelined, Connect, Garbage}
AnyResponses == {Answer(1, 4, FALSE), Answer(2, 2, TRUE), Answer(3, 0, TRUE),
                 Chunks(2, 3), Bodiless, Silent}

\* Requests that fit in read_buffer, from clients that take their bytes.
FittingRequests == AnyRequests \ {Post}
PatientFault == FaultKind \ {"client", "slow"}

\* What has to be served, and what has to end.
Exchanges ==
  GoodRequests \X GoodResponses \X {{"slow"}}
    \union FittingRequests \X AnyResponses \X {PatientFault}

\* Any request and any answer, with anything going wrong, or anything but the
\* server.
FaultyExchanges ==
  AnyRequests \X {Answer(2, 2, TRUE)} \X {FaultKind}
    \union {Post} \X AnyResponses \X {FaultKind}
    \union GoodRequests \X GoodResponses \X {FaultKind \ {"origin"}}

\* One of each, for the runs that show one behaviour.
TwoPartHead == Answer(2, 2, FALSE)
DisturbedByNobody == {<<Get, TwoPartHead, {}>>}
OriginResets == {<<Get, TwoPartHead, {"origin"}>>}
HeadAlone == {<<Get, Chunks(2, 3), {}>>}
GarbageOnly == {<<Garbage, TwoPartHead, {}>>}
=============================================================================
