----------------------------- MODULE AccessLog -----------------------------
(***************************************************************************)
(* log.c: one record for every descriptor number, filled in by the handlers *)
(* of whatever exchange has the number for its client, never cleared, and   *)
(* written to access.log when that exchange is done.  Clients and origins   *)
(* take their descriptors from the same numbers.                            *)
(*                                                                          *)
(* An address, a status, a time or a letter of a request is the number of   *)
(* the exchange it belongs to, 0 if it never belonged to any.               *)
(***************************************************************************)
EXTENDS Naturals, Sequences

CONSTANTS FD,             \* descriptor numbers
          REQUEST_LENGTH, \* letters of a request line before dots follow
          MaxExchange     \* bound on the number of exchanges

ASSUME LogAssumption == REQUEST_LENGTH \in Nat \ {0} /\ 0 \notin FD

VARIABLES proxy_data,  \* the record of each descriptor
          holder,      \* what has the descriptor: nobody, a client, an origin
          accepted,    \* number of the last exchange
          entry        \* the last line of access.log, and the exchange it is of

logging == <<proxy_data, holder, accepted, entry>>

Nobody == [kind |-> "nobody"]

\* read: letters of the request line read so far, of size in all; origin: the
\* descriptor of the origin, 0 if none; the rest is what has happened.
Client(e, n) ==
  [kind |-> "client", exchange |-> e, size |-> n, read |-> 0, origin |-> 0,
   answered |-> FALSE, stopped |-> FALSE]

OriginOf(fd) == [kind |-> "origin", client |-> fd]

Blank == [i \in 1..REQUEST_LENGTH + 1 |-> 0]

LogInit ==
  /\ proxy_data = [fd \in FD |-> [client |-> 0, origin |-> 0, status |-> 0,
                                  stop |-> 0, request |-> Blank]]
  /\ holder = [fd \in FD |-> Nobody]
  /\ accepted = 0 /\ entry = << >>

IsClient(fd) == holder[fd].kind = "client"

-----------------------------------------------------------------------------

\* socks_passive_accept: register_client_addr and register_start.
LogAccept(fd, n) ==
  /\ holder[fd] = Nobody /\ accepted < MaxExchange
  /\ accepted' = accepted + 1
  /\ holder' = [holder EXCEPT ![fd] = Client(accepted', n)]
  /\ proxy_data' = [proxy_data EXCEPT ![fd].client = accepted']
  /\ UNCHANGED entry

\* register_request of a line of which n letters are there.  One that has not
\* ended yet is looked at up to the limit: strncpy fills with zeros.  One that
\* has is copied without a zero behind it.
RegisterRequest(old, e, n, ended) ==
  [i \in 1..REQUEST_LENGTH + 1 |->
     IF i <= n THEN e ELSE IF ended THEN old[i] ELSE 0]

\* request_read: some more of the line, or the rest of it.
LogRequest(fd, n) ==
  /\ IsClient(fd) /\ n > holder[fd].read /\ n <= holder[fd].size
  /\ \E ended \in {n = holder[fd].size, FALSE} :
       proxy_data' = [proxy_data EXCEPT ![fd].request =
                        RegisterRequest(@, holder[fd].exchange, n, ended)]
  /\ holder' = [holder EXCEPT ![fd].read = n]
  /\ UNCHANGED <<accepted, entry>>

\* request_connect: register_origin_addr.
LogOrigin(fd, o) ==
  /\ IsClient(fd) /\ holder[fd].read = holder[fd].size
  /\ holder[fd].origin = 0 /\ ~holder[fd].answered
  /\ holder[o] = Nobody
  /\ holder' = [holder EXCEPT ![fd].origin = o, ![o] = OriginOf(fd)]
  /\ proxy_data' = [proxy_data EXCEPT ![fd].origin = holder[fd].exchange]
  /\ UNCHANGED <<accepted, entry>>

\* request_read with an unsupported method: register_status_code.
LogUnsupported(fd) ==
  /\ IsClient(fd) /\ holder[fd].read = holder[fd].size
  /\ ~holder[fd].answered /\ holder[fd].origin = 0
  /\ holder' = [holder EXCEPT ![fd].answered = TRUE]
  /\ proxy_data' = [proxy_data EXCEPT ![fd].status = holder[fd].exchange]
  /\ UNCHANGED <<accepted, entry>>

\* Mutant of RecordOf: the origin's own number is taken.
RecordOfOrigin(o) == o

\* The record the handlers of the origin at o write to.
RecordOf(o) == holder[o].client

\* An origin at o, whose client is fd.
Origin(o, fd) == IsClient(fd) /\ holder[fd].origin = o

\* headers_read: register_status_code.
LogStatus(o, fd) ==
  /\ Origin(o, fd) /\ ~holder[fd].answered
  /\ holder' = [holder EXCEPT ![fd].answered = TRUE]
  /\ proxy_data' = [proxy_data EXCEPT ![RecordOf(o)].status =
                      holder[fd].exchange]
  /\ UNCHANGED <<accepted, entry>>

\* origin_done: register_stop.
LogStop(o, fd) ==
  /\ Origin(o, fd) /\ ~holder[fd].stopped
  /\ holder' = [holder EXCEPT ![fd].stopped = TRUE]
  /\ proxy_data' = [proxy_data EXCEPT ![RecordOf(o)].stop =
                      holder[fd].exchange]
  /\ UNCHANGED <<accepted, entry>>

\* client_done: log_request, and both descriptors are free again.
LogRequestDone(fd) ==
  /\ IsClient(fd)
  /\ entry' = <<proxy_data[fd], holder[fd]>>
  /\ holder' = [d \in FD |->
                  IF d \in {fd, holder[fd].origin} THEN Nobody ELSE holder[d]]
  /\ UNCHANGED <<proxy_data, accepted>>

LogNext ==
  \/ \E fd \in FD :
       \/ \E n \in 1..REQUEST_LENGTH + 1 : LogAccept(fd, n) \/ LogRequest(fd, n)
       \/ \E o \in FD : LogOrigin(fd, o) \/ LogStatus(o, fd) \/ LogStop(o, fd)
       \/ LogUnsupported(fd) \/ LogRequestDone(fd)

LogSpec == LogInit /\ [][LogNext]_logging

-----------------------------------------------------------------------------

\* A line of the log mixes nothing of other exchanges into what its own did:
\* whoever had its descriptors before, and whatever goes on beside it, the
\* client is its own, the server if it was asked, the status if it answered,
\* the end if that was seen, and the request from its beginning, as far as it
\* was read.  What it did not get to may be another's.
LoggedAsItWas ==
  entry # << >> =>
    LET line == entry[1]  x == entry[2] IN
    /\ line.client = x.exchange
    /\ x.origin # 0 => line.origin = x.exchange
    /\ x.answered => line.status = x.exchange
    /\ x.stopped => line.stop = x.exchange
    /\ \A i \in 1..x.read : line.request[i] = x.exchange
=============================================================================
