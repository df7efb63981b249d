--------------------------- MODULE ResponseParser ---------------------------
(***************************************************************************)
(* response.c: the automaton that finds the end of the head of a response,  *)
(* passing over the heads that only say 100, and reads its status, length,  *)
(* media type and encodings, fed by a server that may send any well-formed  *)
(* head after any number of interim ones.                                   *)
(***************************************************************************)
EXTENDS HttpTokens

CONSTANTS Status,       \* words of digits a status line may have
          Compression   \* codings encoding looks for besides chunked

ASSUME StatusAssumption == Status \subseteq Number

ASSUME CompressionAssumption == Compression \intersect Special = {}

\* Names enter hands over to desiredHeader.
ResponseDesired == Beginning({"t", "c"})

Interim == 100

VARIABLES
  pstate, pbuffer,                                  \* p->state, p->buffer
  status_code, body_length, mediaType, chunked, compressed,  \* struct response
  sat, sfield, said,                                \* what the server is sending
  answered                                          \* what it has declared

sparser == <<pstate, pbuffer, status_code, body_length, mediaType, chunked,
             compressed>>
server == <<sat, sfield, said, answered>>

\* response_parser_init.
ResponseInit ==
  /\ pstate = "response_version" /\ pbuffer = << >>
  /\ status_code = 0 /\ body_length = 0 /\ mediaType = << >>
  /\ chunked = FALSE /\ compressed = FALSE
  /\ sat = "version" /\ sfield = "none" /\ said = << >>
  /\ answered = [status_code |-> 0, body_length |-> 0, mediaType |-> << >>,
                 chunked |-> FALSE, compressed |-> FALSE]

-----------------------------------------------------------------------------
(***************************************************************************)
(* response_parser_feed: one action per function of response.c.             *)
(***************************************************************************)

ReadVersion(c) ==
  /\ pstate = "response_version"
  /\ pstate' = IF c = SP THEN "response_status_code" ELSE pstate
  /\ UNCHANGED <<pbuffer, status_code, body_length, mediaType, chunked,
                 compressed>>

\* status_code: after an interim head the buffer still begins with the end of
\* that head, which atoi passes over.
ReadStatusCode(c) ==
  /\ pstate = "response_status_code"
  /\ IF c = SP
     THEN /\ status_code' = Atoi(pbuffer)
          /\ pbuffer' = << >>
          /\ pstate' = "response_headers"
     ELSE pbuffer' = Append(pbuffer, c) /\ UNCHANGED <<status_code, pstate>>
  /\ UNCHANGED <<body_length, mediaType, chunked, compressed>>

\* headers: the rest of a line of no interest.
ReadResponseHeaders(c) ==
  /\ pstate = "response_headers"
  /\ IF c = CR
     THEN pbuffer' = <<c>> /\ pstate' = "response_enter"
     ELSE UNCHANGED <<pbuffer, pstate>>
  /\ UNCHANGED <<status_code, body_length, mediaType, chunked, compressed>>

\* Mutant of ReadResponseEnter: an interim head ends the response head.
ReadInterimAsFinal(c) ==
  /\ pstate = "response_enter"
  /\ CASE c \in {CR, LF} ->
            /\ pbuffer' = Append(pbuffer, c)
            /\ pstate' = IF c = LF /\ pbuffer' = <<CR, LF, CR, LF>>
                         THEN "response_done" ELSE pstate
       [] c \in ResponseDesired ->
            pbuffer' = <<c>> /\ pstate' = "response_desired_header"
       [] OTHER -> UNCHANGED pbuffer /\ pstate' = "response_headers"
  /\ UNCHANGED <<status_code, body_length, mediaType, chunked, compressed>>

\* enter: after an end of line; two in a row end a head.
ReadResponseEnter(c) ==
  /\ pstate = "response_enter"
  /\ CASE c \in {CR, LF} ->
            /\ pbuffer' = Append(pbuffer, c)
            /\ pstate' = IF c = LF /\ pbuffer' = <<CR, LF, CR, LF>>
                         THEN IF status_code = Interim THEN "response_version"
                                                       ELSE "response_done"
                         ELSE pstate
       [] c \in ResponseDesired ->
            pbuffer' = <<c>> /\ pstate' = "response_desired_header"
       [] OTHER -> UNCHANGED pbuffer /\ pstate' = "response_headers"
  /\ UNCHANGED <<status_code, body_length, mediaType, chunked, compressed>>

\* desiredHeader: a name that begins with t or c.
ReadResponseDesired(c) ==
  /\ pstate = "response_desired_header"
  /\ IF c = COLON
     THEN /\ pbuffer' = << >>
          /\ pstate' =
               CASE pbuffer = <<"content-length">> -> "response_length"
                 [] pbuffer = <<"content-type">> -> "response_media_type"
                 [] pbuffer \in {<<"transfer-encoding">>, <<"content-encoding">>} ->
                      "response_encoding"
                 [] OTHER -> "response_headers"
     ELSE pbuffer' = Append(pbuffer, c) /\ UNCHANGED pstate
  /\ UNCHANGED <<status_code, body_length, mediaType, chunked, compressed>>

\* What length, mediaType and encoding have in common: the value is gathered
\* without its spaces up to the end of the line.
Gather(state, c) ==
  /\ pstate = state
  /\ IF c = CR
     THEN pbuffer' = <<c>> /\ pstate' = "response_enter"
     ELSE /\ pbuffer' = IF c = SP THEN pbuffer ELSE Append(pbuffer, c)
          /\ UNCHANGED pstate

ReadLength(c) ==
  /\ Gather("response_length", c)
  /\ body_length' = IF c = CR THEN Atoi(pbuffer) ELSE body_length
  /\ UNCHANGED <<status_code, mediaType, chunked, compressed>>

\* mediaType is written where it stays; it is complete at the end of the line.
ReadMediaType(c) ==
  /\ Gather("response_media_type", c)
  /\ mediaType' = IF c = CR THEN pbuffer ELSE mediaType
  /\ UNCHANGED <<status_code, body_length, chunked, compressed>>

Holds(b, words) == \E i \in DOMAIN b : b[i] \in words

\* Mutant of ReadEncoding: an encoding replaces the one of an earlier field.
ReadEncodingResets(c) ==
  /\ Gather("response_encoding", c)
  /\ IF c = CR
     THEN /\ chunked' = Holds(pbuffer, {"chunked"})
          /\ compressed' = (~chunked' /\ Holds(pbuffer, Compression))
     ELSE UNCHANGED <<chunked, compressed>>
  /\ UNCHANGED <<status_code, body_length, mediaType>>

\* encoding: of a field that names chunked, nothing else is looked at.
ReadEncoding(c) ==
  /\ Gather("response_encoding", c)
  /\ CASE c = CR /\ Holds(pbuffer, {"chunked"}) ->
            chunked' = TRUE /\ UNCHANGED compressed
       [] c = CR /\ ~Holds(pbuffer, {"chunked"}) /\ Holds(pbuffer, Compression) ->
            compressed' = TRUE /\ UNCHANGED chunked
       [] OTHER -> UNCHANGED <<chunked, compressed>>
  /\ UNCHANGED <<status_code, body_length, mediaType>>

ResponseFeed(c) ==
  \/ ReadVersion(c) \/ ReadStatusCode(c) \/ ReadResponseHeaders(c)
  \/ ReadResponseEnter(c) \/ ReadResponseDesired(c) \/ ReadLength(c)
  \/ ReadMediaType(c) \/ ReadEncoding(c)

-----------------------------------------------------------------------------
(***************************************************************************)
(* The server: any well-formed sequence of heads, token by token.  "said"   *)
(* holds the words of the status line or value it is in the middle of.      *)
(***************************************************************************)

Describing ==
  {"content-length", "content-type", "transfer-encoding", "content-encoding"}

SendVersion(c) ==
  /\ sat = "version"
  /\ \/ c \in Text /\ said = << >> /\ said' = <<c>> /\ UNCHANGED sat
     \/ c = SP /\ said # << >> /\ said' = << >> /\ sat' = "status"
  /\ UNCHANGED <<sfield, answered>>

SendStatus(c) ==
  /\ sat = "status"
  /\ \/ c \in Status /\ said = << >> /\ said' = <<c>>
        /\ answered' = [answered EXCEPT !.status_code = ValueOf[c]]
        /\ UNCHANGED sat
     \/ c = SP /\ said # << >> /\ said' = << >> /\ sat' = "reason"
        /\ UNCHANGED answered
  /\ UNCHANGED sfield

SendReason(c) ==
  /\ sat = "reason"
  /\ \/ c \in InLine /\ UNCHANGED sat
     \/ c = CR /\ sat' = "lf"
  /\ UNCHANGED <<sfield, said, answered>>

\* An empty line ends the head; after an interim one another follows.
SendResponseLf(c) ==
  /\ c = LF
  /\ \/ sat = "lf" /\ sat' = "name"
     \/ sat = "last_lf"
        /\ sat' = IF answered.status_code = Interim THEN "version" ELSE "end"
  /\ UNCHANGED <<sfield, said, answered>>

\* An interim head has no fields that describe a content.
SendResponseName(c) ==
  /\ sat = "name"
  /\ \/ /\ c \in Name
        /\ answered.status_code = Interim => c \notin Describing
        /\ sfield' = c /\ sat' = "colon"
     \/ c = CR /\ sat' = "last_lf" /\ UNCHANGED sfield
  /\ UNCHANGED <<said, answered>>

SendResponseColon(c) ==
  /\ sat = "colon" /\ c = COLON /\ sat' = "value"
  /\ UNCHANGED <<sfield, said, answered>>

\* Words of the value of a field.
Words ==
  CASE sfield = "content-length" -> IF said = << >> THEN Number ELSE {}
    [] sfield = "content-type" -> Text
    [] sfield = "content-encoding" -> Compression \union Text
    [] sfield = "transfer-encoding" -> {"chunked"} \union Compression \union Text
    [] OTHER -> {}

\* The value of an interesting field: words and spaces; it takes effect with
\* the end of the line.  Compression named beside chunked is a coding of the
\* transfer, not of the content.
SendWord(c) ==
  /\ sat = "value" /\ sfield \in Describing
  /\ \/ c = SP /\ UNCHANGED <<sat, said, answered>>
     \/ /\ c \in Words /\ Len(said) < MaxWords
        /\ said' = Append(said, c) /\ UNCHANGED <<sat, answered>>
     \/ /\ c = CR /\ said # << >> /\ said' = << >> /\ sat' = "lf"
        /\ answered' =
             CASE sfield = "content-length" ->
                    [answered EXCEPT !.body_length = ValueOf[said[1]]]
               [] sfield = "content-type" ->
                    [answered EXCEPT !.mediaType = said]
               [] OTHER ->
                    [answered EXCEPT
                       !.chunked = @ \/ Holds(said, {"chunked"}),
                       !.compressed = @ \/ (/\ Holds(said, Compression)
                                            /\ ~Holds(said, {"chunked"}))]
  /\ UNCHANGED sfield

SendOtherValue(c) ==
  /\ sat = "value" /\ sfield \notin Describing
  /\ \/ c \in InLine /\ UNCHANGED sat
     \/ c = CR /\ sat' = "lf"
  /\ UNCHANGED <<sfield, said, answered>>

ResponseSend(c) ==
  \/ SendVersion(c) \/ SendStatus(c) \/ SendReason(c) \/ SendResponseLf(c)
  \/ SendResponseName(c) \/ SendResponseColon(c) \/ SendWord(c)
  \/ SendOtherValue(c)

ResponseToken == InLine \union {CR, LF, "chunked"} \union Compression

ResponseNext == \E c \in ResponseToken : ResponseSend(c) /\ ResponseFeed(c)

ResponseSpec == ResponseInit /\ [][ResponseNext]_<<sparser, server>>

-----------------------------------------------------------------------------

\* response_consume stops at the end of the head that answers, whatever heads
\* with 100 come first: the origin side counts the body from there.
ResponseHeadIsFound ==
  /\ pstate = "response_done" <=> sat = "end"
  /\ pstate # "response_error"

\* The length, type and codings the proxy acts upon are those the server
\* declared, in any order of fields, several encodings included.
ResponseIsRead ==
  sat = "end" =>
    /\ status_code = answered.status_code
    /\ body_length = answered.body_length
    /\ mediaType = answered.mediaType
    /\ chunked = answered.chunked
    /\ compressed = answered.compressed
=============================================================================
