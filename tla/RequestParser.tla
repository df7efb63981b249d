---------------------------- MODULE RequestParser ----------------------------
(***************************************************************************)
(* request.c: the automaton that finds the end of the head of a request and *)
(* reads its method, its Host and its Content-Length, fed by a client that  *)
(* may send any well-formed head, of any number of fields, with spaces as   *)
(* its only white space and ports of 16 bits.                               *)
(***************************************************************************)
EXTENDS HttpTokens

CONSTANTS Method,             \* words a request may begin with
          SMALLER_BUFF_SIZE   \* bound request.c puts on a host, here in words

\* The host of a well-formed request has room.
ASSUME SmallerAssumption == SMALLER_BUFF_SIZE \in Nat /\ MaxWords <= SMALLER_BUFF_SIZE

ASSUME MethodAssumption == Method \intersect Special = {}

\* Names enter hands over to desiredHeader.
RequestDesired == Beginning({"h", "c"})

SupportedMethod == {"GET", "POST", "HEAD", "DELETE", "PUT"}

VARIABLES
  qstate, qbuffer,                          \* p->state, p->buffer up to p->i
  method, host, dest_port, content_length,  \* struct request
  qat, field, words,                        \* what the client is sending
  asked                                     \* what it has declared so far

parser == <<qstate, qbuffer, method, host, dest_port, content_length>>
client == <<qat, field, words, asked>>

\* request_parser_init.
RequestInit ==
  /\ qstate = "request_method" /\ qbuffer = << >>
  /\ method = "GET" /\ host = << >>
  /\ dest_port = 0 /\ content_length = 0
  /\ qat = "method" /\ field = "none" /\ words = 0
  /\ asked = [method |-> "GET", host |-> << >>, dest_port |-> 0,
              content_length |-> 0]

-----------------------------------------------------------------------------
(***************************************************************************)
(* request_parser_feed: one action per function of request.c.               *)
(***************************************************************************)

\* method: everything up to the first space.
ReadMethod(c) ==
  /\ qstate = "request_method"
  /\ IF c = SP
     THEN /\ method' = IF Len(qbuffer) = 1 /\ qbuffer[1] \in SupportedMethod
                       THEN qbuffer[1] ELSE "UNSUPPORTED"
          /\ qbuffer' = << >>
          /\ qstate' = "request_headers"
     ELSE /\ qbuffer' = Append(qbuffer, c)
          /\ UNCHANGED <<qstate, method>>
  /\ UNCHANGED <<host, dest_port, content_length>>

\* headers: the rest of a line of no interest.
ReadHeaders(c) ==
  /\ qstate = "request_headers"
  /\ IF c = CR
     THEN qbuffer' = Append(qbuffer, c) /\ qstate' = "request_enter"
     ELSE UNCHANGED <<qbuffer, qstate>>
  /\ UNCHANGED <<method, host, dest_port, content_length>>

\* Mutant of ReadEnter: the line end is not forgotten when a line begins.
ReadEnterKeeps(c) ==
  /\ qstate = "request_enter"
  /\ CASE c \in {CR, LF} ->
            /\ qbuffer' = Append(qbuffer, c)
            /\ qstate' = IF c = LF /\ qbuffer' = <<CR, LF, CR, LF>>
                         THEN "request_done" ELSE qstate
       [] c \in RequestDesired ->
            qbuffer' = Append(qbuffer, c) /\ qstate' = "request_desired_header"
       [] OTHER ->
            qbuffer' = qbuffer /\ qstate' = "request_headers"
  /\ UNCHANGED <<method, host, dest_port, content_length>>

\* enter: after an end of line; two in a row end the head.
ReadEnter(c) ==
  /\ qstate = "request_enter"
  /\ CASE c \in {CR, LF} ->
            /\ qbuffer' = Append(qbuffer, c)
            /\ qstate' = IF c = LF /\ qbuffer' = <<CR, LF, CR, LF>>
                         THEN "request_done" ELSE qstate
       [] c \in RequestDesired ->
            qbuffer' = <<c>> /\ qstate' = "request_desired_header"
       [] OTHER ->
            qbuffer' = << >> /\ qstate' = "request_headers"
  /\ UNCHANGED <<method, host, dest_port, content_length>>

\* desiredHeader: a name that begins like Host or Content-Length.
ReadDesiredHeader(c) ==
  /\ qstate = "request_desired_header"
  /\ IF c = COLON
     THEN /\ qbuffer' = << >>
          /\ qstate' = CASE qbuffer = <<"host">> -> "request_host"
                         [] qbuffer = <<"content-length">> ->
                              "request_content_length"
                         [] OTHER -> "request_headers"
          /\ host' = IF qbuffer = <<"host">> THEN << >> ELSE host
     ELSE /\ qbuffer' = Append(qbuffer, c)
          /\ UNCHANGED <<qstate, host>>
  /\ UNCHANGED <<method, dest_port, content_length>>

\* content_length: spaces are skipped wherever they are.
ReadContentLength(c) ==
  /\ qstate = "request_content_length"
  /\ IF c = CR
     THEN /\ content_length' = Atoi(qbuffer)
          /\ qbuffer' = <<c>>
          /\ qstate' = "request_enter"
     ELSE /\ qbuffer' = IF c = SP THEN qbuffer ELSE Append(qbuffer, c)
          /\ UNCHANGED <<content_length, qstate>>
  /\ UNCHANGED <<method, host, dest_port>>

\* Mutant of ReadHost: a host without a port leaves dest_port as it was.
ReadHostNoDefault(c) ==
  /\ qstate = "request_host"
  /\ IF Len(host) > SMALLER_BUFF_SIZE
     THEN qstate' = "request_error" /\ UNCHANGED <<host, dest_port, qbuffer>>
     ELSE CASE c = CR ->
                 qbuffer' = <<c>> /\ qstate' = "request_enter"
                 /\ UNCHANGED <<host, dest_port>>
            [] c = COLON ->
                 qstate' = "request_dest_port"
                 /\ UNCHANGED <<host, dest_port, qbuffer>>
            [] OTHER ->
                 host' = (IF c = SP THEN host ELSE Append(host, c))
                 /\ UNCHANGED <<dest_port, qbuffer, qstate>>
  /\ UNCHANGED <<method, content_length>>

\* host: written from its start, with p->i as its length.
ReadHost(c) ==
  /\ qstate = "request_host"
  /\ IF Len(host) > SMALLER_BUFF_SIZE
     THEN qstate' = "request_error" /\ UNCHANGED <<host, dest_port, qbuffer>>
     ELSE CASE c = CR ->
                 dest_port' = 80 /\ qbuffer' = <<c>> /\ qstate' = "request_enter"
                 /\ UNCHANGED host
            [] c = COLON ->
                 qstate' = "request_dest_port"
                 /\ UNCHANGED <<host, dest_port, qbuffer>>
            [] OTHER ->
                 host' = (IF c = SP THEN host ELSE Append(host, c))
                 /\ UNCHANGED <<dest_port, qbuffer, qstate>>
  /\ UNCHANGED <<method, content_length>>

\* dest_port: strtol must read all of it; the result is kept in 16 bits.
ReadDestPort(c) ==
  /\ qstate = "request_dest_port"
  /\ IF c = CR
     THEN /\ dest_port' = Atoi(qbuffer) % 65536
          /\ IF Len(Trim(qbuffer)) = 1 /\ Trim(qbuffer)[1] \in Number
             THEN qbuffer' = <<c>> /\ qstate' = "request_enter"
             ELSE qstate' = "request_error" /\ UNCHANGED qbuffer
     ELSE /\ qbuffer' = Append(qbuffer, c)
          /\ UNCHANGED <<dest_port, qstate>>
  /\ UNCHANGED <<method, host, content_length>>

RequestFeed(c) ==
  \/ ReadMethod(c) \/ ReadHeaders(c) \/ ReadEnter(c) \/ ReadDesiredHeader(c)
  \/ ReadContentLength(c) \/ ReadHost(c) \/ ReadDestPort(c)

-----------------------------------------------------------------------------
(***************************************************************************)
(* The client: any well-formed head, token by token.                        *)
(***************************************************************************)

SendMethod(c) ==
  /\ qat = "method"
  /\ \/ c \in Method /\ words = 0 /\ words' = 1 /\ UNCHANGED qat
        /\ asked' = [asked EXCEPT !.method =
                       IF c \in SupportedMethod THEN c ELSE "UNSUPPORTED"]
     \/ c = SP /\ words = 1 /\ words' = 0 /\ qat' = "target" /\ UNCHANGED asked
  /\ UNCHANGED field

\* The end of a line, of which the client has sent the first half.
SendLineEnd(c) == c = CR /\ qat' = "lf" /\ words' = 0 /\ UNCHANGED field

SendTarget(c) ==
  /\ qat = "target"
  /\ UNCHANGED asked
  /\ \/ c \in InLine /\ UNCHANGED <<qat, field, words>>
     \/ SendLineEnd(c)

SendLf(c) ==
  /\ c = LF
  /\ \/ qat = "lf" /\ qat' = "name"
     \/ qat = "last_lf" /\ qat' = "end"
  /\ UNCHANGED <<field, words, asked>>

SendName(c) ==
  /\ qat = "name"
  /\ \/ c \in Name /\ field' = c /\ qat' = "colon"
     \/ c = CR /\ qat' = "last_lf" /\ UNCHANGED field
  /\ UNCHANGED <<words, asked>>

\* A Host starts over: it replaces an earlier one, port included.
SendColon(c) ==
  /\ qat = "colon" /\ c = COLON /\ qat' = "value"
  /\ asked' = IF field = "host"
              THEN [asked EXCEPT !.host = << >>, !.dest_port = 80] ELSE asked
  /\ UNCHANGED <<field, words>>

\* A host may be empty, and have spaces on both sides.
SendHost(c) ==
  /\ qat = "value" /\ field = "host"
  /\ \/ c = SP /\ qat' = (IF words = 0 THEN "value" ELSE "behind_host")
        /\ UNCHANGED <<field, words, asked>>
     \/ c \in Text /\ words < MaxWords /\ words' = words + 1
        /\ asked' = [asked EXCEPT !.host = Append(@, c)]
        /\ UNCHANGED <<qat, field>>
     \/ c = COLON /\ qat' = "port" /\ words' = 0 /\ UNCHANGED <<field, asked>>
     \/ SendLineEnd(c) /\ UNCHANGED asked

SendBehindHost(c) ==
  /\ qat = "behind_host"
  /\ UNCHANGED asked
  /\ \/ c = SP /\ UNCHANGED <<qat, field, words>>
     \/ SendLineEnd(c)

\* A port has 16 bits.  It may be missing behind its colon, and what is behind
\* the first colon need not be one: spaces follow it, or it is from the middle
\* of an address in brackets.
SendPort(c) ==
  /\ qat = "port"
  /\ UNCHANGED field
  /\ \/ c \in Number /\ ValueOf[c] < 65536 /\ words = 0 /\ words' = 1
        /\ asked' = [asked EXCEPT !.dest_port = ValueOf[c]]
        /\ UNCHANGED qat
     \/ words > 0 /\ SendLineEnd(c) /\ UNCHANGED asked
     \/ words = 0 /\ c = CR /\ qat' = "refused" /\ UNCHANGED <<words, asked>>
     \/ words = 0 /\ c = SP /\ qat' = "no_port" /\ words' = 1 /\ UNCHANGED asked
     \/ /\ c \in (Text \ Number) \union {COLON} \/ (words > 0 /\ c = SP)
        /\ words < MaxWords /\ words' = words + 1
        /\ qat' = "odd_port" /\ UNCHANGED asked

\* The rest of what is no port, or not a port alone.
SendOddPort(c) ==
  /\ qat \in {"no_port", "odd_port"}
  /\ UNCHANGED <<field, asked>>
  /\ \/ /\ c = SP \/ (qat = "odd_port" /\ c \in Text \union Number \union {COLON})
        /\ words < MaxWords /\ words' = words + 1 /\ UNCHANGED qat
     \/ c = CR /\ qat' = "refused" /\ UNCHANGED words

SendLength(c) ==
  /\ qat = "value" /\ field = "content-length"
  /\ \/ c = SP /\ UNCHANGED <<qat, field, words, asked>>
     \/ c \in Number /\ words = 0 /\ words' = 1
        /\ asked' = [asked EXCEPT !.content_length = ValueOf[c]]
        /\ UNCHANGED <<qat, field>>
     \/ words > 0 /\ SendLineEnd(c) /\ UNCHANGED asked

SendOther(c) ==
  /\ qat = "value" /\ field \notin {"host", "content-length"}
  /\ UNCHANGED asked
  /\ \/ c \in InLine /\ UNCHANGED <<qat, field, words>>
     \/ SendLineEnd(c)

RequestSend(c) ==
  \/ SendMethod(c) \/ SendTarget(c) \/ SendLf(c) \/ SendName(c)
  \/ SendColon(c) \/ SendHost(c) \/ SendBehindHost(c) \/ SendPort(c)
  \/ SendOddPort(c) \/ SendLength(c) \/ SendOther(c)

RequestToken == Method \union InLine \union {CR, LF}

RequestNext == \E c \in RequestToken : RequestSend(c) /\ RequestFeed(c)

RequestSpec == RequestInit /\ [][RequestNext]_<<parser, client>>

-----------------------------------------------------------------------------

\* request_consume stops at the end of the head, not before and not after: the
\* bytes behind it are body.  It stops in error at a Host whose port is not one
\* number alone up to the end of the line, and at no other head.
RequestHeadIsFound ==
  /\ qstate = "request_done" <=> qat = "end"
  /\ qstate = "request_error" <=> qat = "refused"

\* What the proxy connects to and how much body it waits for is what the
\* client asked, whatever other fields come before, between and after.
RequestIsRead ==
  qat = "end" =>
    /\ method = asked.method
    /\ host = asked.host
    /\ dest_port = asked.dest_port
    /\ content_length = asked.content_length
=============================================================================
