---------------------------- MODULE ParserProofs ----------------------------
(***************************************************************************)
(* What modules RequestParser and ResponseParser say of the two automata,   *)
(* for any names, words and numbers and any bound on the words of a value.  *)
(***************************************************************************)
EXTENDS RequestParser, ResponseParser, SequenceTheorems, TLAPS

(***************************************************************************)
(* The inductive invariants: where the automaton is follows from where the  *)
(* peer is, and what it has stored is what was said.                        *)
(***************************************************************************)

\* What the client has declared, and what has been read of a host.
RequestType ==
  /\ words \in Nat
  /\ asked \in [method : Method \union {"GET", "UNSUPPORTED"}, host : Seq(Text),
                dest_port : Nat, content_length : Nat]

\* What dest_port does not take for a port: it starts with something else than
\* white space, and that is not a number alone.
Odd(b) ==
  /\ b \in Seq(RequestToken) /\ Len(b) > 0 /\ b[1] \notin White
  /\ Len(b) = 1 => b[1] \notin Number

\* Where the automaton is, wherever the client is.
InStep ==
  /\ qat = "method" =>
       /\ qstate = "request_method" /\ words \in {0, 1}
       /\ words = 0 => qbuffer = << >>
       /\ words = 1 => \E m \in Method :
            /\ qbuffer = <<m>>
            /\ asked.method = IF m \in SupportedMethod THEN m ELSE "UNSUPPORTED"
  /\ qat = "target" => qstate = "request_headers" /\ qbuffer = << >> /\ words = 0
  /\ qat = "lf" => qstate = "request_enter" /\ qbuffer = <<CR>> /\ words = 0
  /\ qat = "name" => qstate = "request_enter" /\ qbuffer = <<CR, LF>> /\ words = 0
  /\ qat = "last_lf" => qstate = "request_enter" /\ qbuffer = <<CR, LF, CR>>
  /\ qat = "end" => qstate = "request_done"
  /\ qat = "colon" =>
       /\ field \in Name /\ words = 0
       /\ field \in RequestDesired =>
            qstate = "request_desired_header" /\ qbuffer = <<field>>
       /\ field \notin RequestDesired =>
            qstate = "request_headers" /\ qbuffer = << >>
  /\ qat = "value" /\ field = "host" =>
       /\ qstate = "request_host" /\ qbuffer = << >>
       /\ Len(host) = words /\ words <= MaxWords
  /\ qat = "value" /\ field = "content-length" =>
       /\ qstate = "request_content_length" /\ words \in {0, 1}
       /\ words = 0 => qbuffer = << >>
       /\ words = 1 => \E n \in Number :
            qbuffer = <<n>> /\ asked.content_length = ValueOf[n]
  /\ qat = "value" /\ field \notin {"host", "content-length"} =>
       qstate = "request_headers" /\ qbuffer = << >>
  /\ qat = "port" =>
       /\ qstate = "request_dest_port" /\ words \in {0, 1}
       /\ field = "host" /\ Len(host) <= MaxWords
       /\ words = 0 => qbuffer = << >>
       /\ words = 1 => \E n \in Number :
            /\ qbuffer = <<n>> /\ ValueOf[n] < 65536
            /\ asked.dest_port = ValueOf[n]
  /\ qat = "behind_host" =>
       qstate = "request_host" /\ qbuffer = << >> /\ Len(host) <= MaxWords
  /\ qat = "no_port" => qstate = "request_dest_port" /\ qbuffer \in Seq({SP})
  /\ qat = "odd_port" => qstate = "request_dest_port" /\ Odd(qbuffer)
  /\ qat = "refused" => qstate = "request_error"
  /\ qat \in {"method", "target", "lf", "name", "last_lf", "end", "colon",
              "value", "port", "behind_host", "no_port", "odd_port", "refused"}

\* What has been read is what was asked, but for what is being read.
ReadSoFar ==
  /\ qat = "method" \/ method = asked.method
  /\ host = asked.host
  /\ \/ qat = "value" /\ field = "host"
     \/ qat \in {"behind_host", "port", "no_port", "odd_port", "refused"}
     \/ dest_port = asked.dest_port
  /\ (qat = "value" /\ field = "host") \/ qat = "behind_host" =>
       asked.dest_port = 80
  /\ (qat = "value" /\ field = "content-length" /\ words = 1)
       \/ content_length = asked.content_length

RequestInv == RequestType /\ InStep /\ ReadSoFar

\* Words a server may have sent of a status line or of a value.
Spoken == Text \union Number \union Compression \union {"chunked"}

\* What is left in the buffer behind an interim head.
Leftover == <<CR, LF, CR, LF>>

\* What the server has declared, and what it is saying.
ResponseType ==
  /\ said \in Seq(Spoken)
  /\ answered \in [status_code : Nat, body_length : Nat, mediaType : Seq(Spoken),
                   chunked : BOOLEAN, compressed : BOOLEAN]

\* Which state reads the value of a field.
Reading(name) ==
  CASE name = "content-length" -> "response_length"
    [] name = "content-type" -> "response_media_type"
    [] name \in {"transfer-encoding", "content-encoding"} -> "response_encoding"
    [] OTHER -> "response_headers"

\* Where the automaton is, wherever the server is.
Following ==
  /\ sat = "version" =>
       pstate = "response_version" /\ pbuffer \in {<< >>, Leftover}
  /\ sat = "status" =>
       /\ pstate = "response_status_code"
       /\ said = << >> => pbuffer \in {<< >>, Leftover}
       /\ said # << >> => \E n \in Number :
            /\ pbuffer \in {<<n>>, Append(Leftover, n)}
            /\ answered.status_code = ValueOf[n]
  /\ sat = "reason" => pstate = "response_headers" /\ said = << >>
  /\ sat = "lf" => pstate = "response_enter" /\ pbuffer = <<CR>> /\ said = << >>
  /\ sat = "name" =>
       pstate = "response_enter" /\ pbuffer = <<CR, LF>> /\ said = << >>
  /\ sat = "last_lf" =>
       pstate = "response_enter" /\ pbuffer = <<CR, LF, CR>> /\ said = << >>
  /\ sat = "end" => pstate = "response_done"
  /\ sat = "colon" =>
       /\ sfield \in Name /\ said = << >>
       /\ sfield \in ResponseDesired =>
            pstate = "response_desired_header" /\ pbuffer = <<sfield>>
       /\ sfield \notin ResponseDesired => pstate = "response_headers"
  /\ sat = "value" =>
       /\ pstate = Reading(sfield)
       /\ sfield \in Describing => pbuffer = said
       /\ sfield \notin Describing => said = << >>
       /\ sfield = "content-length" /\ said # << >> =>
            \E n \in Number : said = <<n>>
  /\ sat \in {"version", "status", "reason", "lf", "name", "last_lf", "end",
              "colon", "value"}

\* What has been read is what was declared, but for a status on its way.
HeadSoFar ==
  /\ (sat = "status" /\ said # << >>) \/ status_code = answered.status_code
  /\ body_length = answered.body_length
  /\ mediaType = answered.mediaType
  /\ chunked = answered.chunked
  /\ compressed = answered.compressed

ResponseInv == ResponseType /\ Following /\ HeadSoFar

-----------------------------------------------------------------------------
(***************************************************************************)
(* Tokens.                                                                  *)
(***************************************************************************)

\* The four characters differ, and no word is one of them.
LEMMA Tokens ==
  /\ "chunked" # CR /\ "chunked" # SP
  /\ CR # LF /\ CR # SP /\ CR # COLON /\ LF # SP /\ LF # COLON /\ SP # COLON
  /\ \A c \in Name \union Text \union Number \union Method \union Compression :
       c \notin Special /\ c # CR /\ c # LF /\ c # SP /\ c # COLON
<1>1. /\ "chunked" # CR /\ "chunked" # SP
      /\ CR # LF /\ CR # SP /\ CR # COLON /\ LF # SP /\ LF # COLON /\ SP # COLON
  BY DEF CR, LF, SP, COLON
<1>2. CR \in Special /\ LF \in Special /\ SP \in Special /\ COLON \in Special
  BY DEF Special
<1>3. \A c \in Name \union Text \union Number \union Method \union Compression :
        c \notin Special
  BY WordsAssumption, MethodAssumption, CompressionAssumption
<1>4. QED
  BY <1>1, <1>2, <1>3

\* What enter makes of the two line ends.
LEMMA LineEnds ==
  /\ Append(<<CR>>, LF) = <<CR, LF>> /\ <<CR, LF>> # <<CR, LF, CR, LF>>
  /\ Append(<<CR, LF>>, CR) = <<CR, LF, CR>>
  /\ Append(<<CR, LF, CR>>, LF) = <<CR, LF, CR, LF>>
<1> DEFINE Ends == {CR, LF}
<1>1. /\ CR \in Ends /\ LF \in Ends /\ <<CR>> \in Seq(Ends)
      /\ <<CR, LF>> \in Seq(Ends) /\ <<CR, LF, CR>> \in Seq(Ends)
      /\ <<CR, LF, CR, LF>> \in Seq(Ends)
  OBVIOUS
<1>2. Append(<<CR>>, LF) = <<CR, LF>>
  <2>1. Append(<<CR>>, LF) \in Seq(Ends) /\ Len(Append(<<CR>>, LF)) = Len(<<CR, LF>>)
    BY <1>1
  <2>2. \A i \in 1..2 : Append(<<CR>>, LF)[i] = <<CR, LF>>[i]
    BY <1>1
  <2>3. QED
    BY <1>1, <2>1, <2>2, SeqEqual
<1>3. Append(<<CR, LF>>, CR) = <<CR, LF, CR>>
  <2>1. /\ Append(<<CR, LF>>, CR) \in Seq(Ends)
        /\ Len(Append(<<CR, LF>>, CR)) = Len(<<CR, LF, CR>>)
    BY <1>1
  <2>2. \A i \in 1..3 : Append(<<CR, LF>>, CR)[i] = <<CR, LF, CR>>[i]
    BY <1>1
  <2>3. QED
    BY <1>1, <2>1, <2>2, SeqEqual
<1>4. Append(<<CR, LF, CR>>, LF) = <<CR, LF, CR, LF>>
  <2>1. /\ Append(<<CR, LF, CR>>, LF) \in Seq(Ends)
        /\ Len(Append(<<CR, LF, CR>>, LF)) = Len(<<CR, LF, CR, LF>>)
    BY <1>1
  <2>2. \A i \in 1..4 : Append(<<CR, LF, CR>>, LF)[i] = <<CR, LF, CR, LF>>[i]
    BY <1>1
  <2>3. QED
    BY <1>1, <2>1, <2>2, SeqEqual
<1>5. <<CR, LF>> # <<CR, LF, CR, LF>>
  <2>1. Len(<<CR, LF>>) = 2 /\ Len(<<CR, LF, CR, LF>>) = 4
    OBVIOUS
  <2>2. QED
    BY <2>1
<1>6. QED
  BY <1>2, <1>3, <1>4, <1>5

\* A number that stands alone is read as what it is worth.
LEMMA AloneTrim ==
  ASSUME NEW n, n \notin White
  PROVE  Trim(<<n>>) = <<n>>
<1> DEFINE dark == {i \in 1..Len(<<n>>) : <<n>>[i] \notin White}
<1>1. dark = {1}
  OBVIOUS
<1>2. (CHOOSE i \in dark : \A j \in dark : i <= j) = 1
  BY <1>1
<1>3. Trim(<<n>>) = SubSeq(<<n>>, 1, Len(<<n>>))
  BY <1>1, <1>2 DEF Trim
<1>4. QED
  BY <1>3

\* A number alone in a buffer is read as its value.
LEMMA AloneAtoi ==
  ASSUME NEW n \in Number
  PROVE  Trim(<<n>>) = <<n>> /\ Atoi(<<n>>) = ValueOf[n]
<1>1. n \notin White
  BY Tokens DEF White
<1>2. Trim(<<n>>) = <<n>>
  BY <1>1, AloneTrim
<1>3. <<n>> # << >> /\ Head(<<n>>) = n
  OBVIOUS
<1>4. QED
  BY <1>2, <1>3 DEF Atoi

\* What does not start with white space is not trimmed.
LEMMA OddTrim ==
  ASSUME NEW b, Odd(b)
  PROVE  ~(Len(Trim(b)) = 1 /\ Trim(b)[1] \in Number)
<1> DEFINE dark == {i \in 1..Len(b) : b[i] \notin White}
<1>1. b \in Seq(RequestToken) /\ Len(b) \in Nat /\ Len(b) > 0
  BY DEF Odd
<1>2. 1 \in dark /\ dark \subseteq Nat \ {0}
  BY <1>1 DEF Odd
<1>3. (CHOOSE i \in dark : \A j \in dark : i <= j) = 1
  BY <1>2
<1>4. Trim(b) = SubSeq(b, 1, Len(b))
  BY <1>2, <1>3 DEF Trim
<1>5. SubSeq(b, 1, Len(b)) = b
  BY <1>1
<1>6. QED
  BY <1>4, <1>5 DEF Odd

\* It stays so, whatever follows.
LEMMA OddMore ==
  ASSUME NEW b, NEW c \in RequestToken, Odd(b) \/ \E n \in Number : b = <<n>>
  PROVE  Odd(Append(b, c))
<1>1. b \in Seq(RequestToken) /\ Len(b) > 0 /\ b[1] \notin White
  <2>1. CASE Odd(b)
    BY <2>1 DEF Odd
  <2>2. ASSUME NEW n \in Number, b = <<n>>
        PROVE  b \in Seq(RequestToken) /\ Len(b) > 0 /\ b[1] \notin White
    <3>1. n \in RequestToken /\ n \notin White
      BY Tokens DEF RequestToken, InLine, White
    <3>2. QED
      BY <2>2, <3>1
  <2>3. QED
    BY <2>1, <2>2
<1>2. /\ Append(b, c) \in Seq(RequestToken) /\ Len(b) \in Nat
      /\ Len(Append(b, c)) = Len(b) + 1 /\ Append(b, c)[1] = b[1]
  BY <1>1
<1>3. QED
  BY <1>1, <1>2 DEF Odd

\* Of spaces nothing is left.
LEMMA SpacesTrim ==
  ASSUME NEW b \in Seq({SP})
  PROVE  Trim(b) = << >>
<1>1. {i \in 1..Len(b) : b[i] \notin White} = {}
  BY DEF White
<1>2. QED
  BY <1>1 DEF Trim

-----------------------------------------------------------------------------
(***************************************************************************)
(* Requests.                                                                *)
(***************************************************************************)

\* Nobody has sent anything.
LEMMA RequestStart == RequestInit => RequestInv
  BY DEF RequestInit, RequestInv, RequestType, InStep, ReadSoFar

\* The state of the automaton tells which of its functions takes a token.
LEMMA RequestTaken ==
  ASSUME NEW c, RequestFeed(c)
  PROVE  /\ qstate = "request_method" => ReadMethod(c)
         /\ qstate = "request_headers" => ReadHeaders(c)
         /\ qstate = "request_enter" => ReadEnter(c)
         /\ qstate = "request_desired_header" => ReadDesiredHeader(c)
         /\ qstate = "request_content_length" => ReadContentLength(c)
         /\ qstate = "request_host" => ReadHost(c)
         /\ qstate = "request_dest_port" => ReadDestPort(c)
         /\ qstate \notin {"request_done", "request_error"}
  BY DEF RequestFeed, ReadMethod, ReadHeaders, ReadEnter, ReadDesiredHeader,
         ReadContentLength, ReadHost, ReadDestPort

\* The end of a line is stored, until it is the end of the head.
LEMMA EnterTaken ==
  ASSUME NEW c \in {CR, LF}, ReadEnter(c)
  PROVE  /\ qbuffer' = Append(qbuffer, c)
         /\ c = LF /\ qbuffer' = <<CR, LF, CR, LF>> => qstate' = "request_done"
         /\ ~(c = LF /\ qbuffer' = <<CR, LF, CR, LF>>) => qstate' = qstate
         /\ UNCHANGED <<method, host, dest_port, content_length>>
<1>1. c \notin RequestDesired
  BY Tokens DEF RequestDesired, Beginning
<1>2. QED
  BY <1>1 DEF ReadEnter

\* A method and the space behind it.
LEMMA MethodStep ==
  ASSUME RequestInv, NEW c, SendMethod(c), RequestFeed(c)
  PROVE  RequestInv'
<1>1. ReadMethod(c) /\ qat = "method"
  BY RequestTaken DEF SendMethod, RequestInv, InStep
<1>2. CASE c \in Method /\ words = 0
  <2>1. c # SP /\ qbuffer = << >>
    BY <1>2, <1>1, Tokens DEF RequestInv, InStep
  <2>2. /\ qbuffer' = <<c>> /\ words' = 1
        /\ UNCHANGED <<qstate, method, host, dest_port, content_length, qat, field>>
        /\ asked' = [asked EXCEPT !.method =
                       IF c \in SupportedMethod THEN c ELSE "UNSUPPORTED"]
    BY <1>1, <1>2, <2>1 DEF ReadMethod, SendMethod
  <2>3. RequestType'
    BY <1>2, <2>2 DEF RequestInv, RequestType
  <2>4. InStep' /\ ReadSoFar'
    BY <1>1, <1>2, <2>2 DEF RequestInv, RequestType, InStep, ReadSoFar
  <2>5. QED
    BY <2>3, <2>4 DEF RequestInv
<1>3. CASE c = SP /\ words = 1
  <2>1. PICK m \in Method : qbuffer = <<m>> /\
          asked.method = IF m \in SupportedMethod THEN m ELSE "UNSUPPORTED"
    BY <1>1, <1>3 DEF RequestInv, InStep
  <2>2. /\ qbuffer' = << >> /\ words' = 0 /\ qat' = "target" /\ method' = asked.method
        /\ qstate' = "request_headers"
        /\ UNCHANGED <<host, dest_port, content_length, field, asked>>
    BY <1>1, <1>3, <2>1 DEF ReadMethod, SendMethod
  <2>3. QED
    BY <1>1, <2>2 DEF RequestInv, RequestType, InStep, ReadSoFar
<1>4. QED
  BY <1>1, <1>2, <1>3 DEF SendMethod

\* What is of no interest: the rest of the first line, and other fields.
LEMMA LineStep ==
  ASSUME RequestInv, NEW c \in RequestToken, SendTarget(c) \/ SendOther(c), RequestFeed(c)
  PROVE  RequestInv'
<1>1. ReadHeaders(c) /\ qstate = "request_headers" /\ qbuffer = << >>
  BY RequestTaken DEF SendTarget, SendOther, RequestInv, InStep
<1>2. CASE c = CR
  <2>1. /\ qbuffer' = <<CR>> /\ words' = 0 /\ qat' = "lf" /\ qstate' = "request_enter"
        /\ UNCHANGED <<method, host, dest_port, content_length, field, asked>>
    BY <1>1, <1>2, Tokens DEF ReadHeaders, SendTarget, SendOther, SendLineEnd, InLine
  <2>2. QED
    BY <2>1 DEF RequestInv, RequestType, InStep, ReadSoFar, SendTarget, SendOther
<1>3. CASE c # CR
  <2>1. UNCHANGED <<parser, client>>
    BY <1>1, <1>3 DEF ReadHeaders, SendTarget, SendOther, SendLineEnd, parser, client
  <2>2. QED
    BY <2>1 DEF RequestInv, RequestType, InStep, ReadSoFar, parser, client
<1>4. QED
  BY <1>2, <1>3

\* The second half of a line end; two line ends in a row end the head.
LEMMA LfStep ==
  ASSUME RequestInv, NEW c, SendLf(c), RequestFeed(c)
  PROVE  RequestInv'
<1>1. c = LF /\ ReadEnter(c)
  BY RequestTaken DEF SendLf, RequestInv, InStep
<1>2. CASE qat = "lf"
  <2>1. qbuffer = <<CR>> /\ qstate = "request_enter"
    BY <1>2 DEF RequestInv, InStep
  <2>2. /\ qbuffer' = <<CR, LF>> /\ qat' = "name" /\ qstate' = "request_enter"
        /\ UNCHANGED <<method, host, dest_port, content_length, field, words, asked>>
    <3>1. qbuffer' = Append(qbuffer, LF)
      BY <1>1, EnterTaken
    <3>2. qbuffer' = <<CR, LF>>
      BY <2>1, <3>1, LineEnds
    <3>3. qbuffer' # <<CR, LF, CR, LF>>
      BY <3>2, LineEnds
    <3>4. QED
      BY <1>1, <1>2, <2>1, <3>2, <3>3, EnterTaken, Tokens DEF SendLf
  <2>3. QED
    BY <1>2, <2>2 DEF RequestInv, RequestType, InStep, ReadSoFar
<1>3. CASE qat = "last_lf"
  <2>1. qbuffer' = <<CR, LF, CR, LF>>
    <3>1. qbuffer = <<CR, LF, CR>>
      BY <1>3 DEF RequestInv, InStep
    <3>2. qbuffer' = Append(qbuffer, LF)
      BY <1>1, EnterTaken
    <3>3. QED
      BY <3>1, <3>2, LineEnds
  <2>2. /\ qat' = "end" /\ qstate' = "request_done"
        /\ UNCHANGED <<method, host, dest_port, content_length, field, words, asked>>
    BY <1>1, <1>3, <2>1, EnterTaken, Tokens DEF SendLf
  <2>3. QED
    BY <1>3, <2>2 DEF RequestInv, RequestType, InStep, ReadSoFar
<1>4. QED
  BY <1>2, <1>3 DEF SendLf

\* The name of a field, or the line end that ends the head.
LEMMA NameStep ==
  ASSUME RequestInv, NEW c, SendName(c), RequestFeed(c)
  PROVE  RequestInv'
<1>1. ReadEnter(c) /\ qat = "name" /\ qbuffer = <<CR, LF>> /\ qstate = "request_enter"
  BY RequestTaken DEF SendName, RequestInv, InStep
<1>2. CASE c \in Name
  <2>1. c # CR /\ c # LF
    BY <1>2, Tokens
  <2>2. /\ qat' = "colon" /\ field' = c
        /\ c \in RequestDesired =>
             qbuffer' = <<c>> /\ qstate' = "request_desired_header"
        /\ c \notin RequestDesired => qbuffer' = << >> /\ qstate' = "request_headers"
        /\ UNCHANGED <<method, host, dest_port, content_length, words, asked>>
    BY <1>1, <1>2, <2>1 DEF ReadEnter, SendName
  <2>3. QED
    BY <1>1, <1>2, <2>2
       DEF RequestInv, RequestType, InStep, ReadSoFar, RequestDesired, Beginning
<1>3. CASE c = CR
  <2>1. /\ qbuffer' = <<CR, LF, CR>> /\ qstate' = "request_enter"
        /\ UNCHANGED <<method, host, dest_port, content_length>>
    <3>1. qbuffer' = Append(qbuffer, CR)
      BY <1>1, <1>3, EnterTaken
    <3>2. qbuffer' = <<CR, LF, CR>>
      BY <1>1, <3>1, LineEnds
    <3>3. QED
      BY <1>1, <1>3, <3>2, EnterTaken, Tokens
  <2>2. qat' = "last_lf" /\ UNCHANGED <<field, words, asked>>
    BY <1>1, <1>3, Tokens DEF SendName
  <2>3. QED
    BY <1>1, <2>1, <2>2 DEF RequestInv, RequestType, InStep, ReadSoFar
<1>4. QED
  BY <1>2, <1>3 DEF SendName

\* The colon: a Host starts over.
LEMMA ColonStep ==
  ASSUME RequestInv, NEW c, SendColon(c), RequestFeed(c)
  PROVE  RequestInv'
<1>1. /\ c = COLON /\ qat = "colon" /\ qat' = "value" /\ UNCHANGED <<field, words>>
      /\ field \in Name /\ words = 0 /\ COLON # CR
  BY Tokens DEF SendColon, RequestInv, InStep
<1>2. CASE field \notin RequestDesired
  <2>1. field # "host" /\ field # "content-length"
    BY <1>1, <1>2, FirstAssumption DEF RequestDesired, Beginning
  <2>2. /\ qbuffer' = << >> /\ qstate' = "request_headers"
        /\ UNCHANGED <<method, host, dest_port, content_length, asked>>
    BY <1>1, <1>2, <2>1, RequestTaken
       DEF RequestInv, InStep, ReadHeaders, SendColon
  <2>3. QED
    BY <1>1, <2>1, <2>2 DEF RequestInv, RequestType, InStep, ReadSoFar
<1>3. CASE field \in RequestDesired
  <2>1. ReadDesiredHeader(c) /\ qbuffer = <<field>>
    BY <1>1, <1>3, RequestTaken DEF RequestInv, InStep
  <2>2. CASE field = "host"
    <3>1. /\ qbuffer' = << >> /\ qstate' = "request_host" /\ host' = << >>
          /\ asked' = [asked EXCEPT !.host = << >>, !.dest_port = 80]
          /\ UNCHANGED <<method, dest_port, content_length>>
      BY <1>1, <2>1, <2>2 DEF ReadDesiredHeader, SendColon
    <3>1a. asked' = [method |-> asked.method, host |-> << >>, dest_port |-> 80,
                     content_length |-> asked.content_length]
      BY <3>1 DEF RequestInv, RequestType
    <3>1b. << >> \in Seq(Text) /\ 80 \in Nat
      OBVIOUS
    <3>2. RequestType'
      BY <1>1, <3>1a, <3>1b DEF RequestInv, RequestType
    <3>3. /\ asked'.host = << >> /\ asked'.dest_port = 80
          /\ asked'.method = asked.method
          /\ asked'.content_length = asked.content_length
      BY <3>1 DEF RequestInv, RequestType
    <3>4. InStep'
      BY <1>1, <2>2, <3>1, MaxWordsAssumption DEF InStep
    <3>5. ReadSoFar'
      BY <1>1, <2>2, <3>1, <3>3 DEF RequestInv, ReadSoFar
    <3>6. QED
      BY <3>2, <3>4, <3>5 DEF RequestInv
  <2>3. CASE field # "host"
    <3>1. /\ qbuffer' = << >>
          /\ field = "content-length" => qstate' = "request_content_length"
          /\ field # "content-length" => qstate' = "request_headers"
          /\ UNCHANGED <<method, host, dest_port, content_length, asked>>
      BY <1>1, <2>1, <2>3 DEF ReadDesiredHeader, SendColon
    <3>2. QED
      BY <1>1, <2>3, <3>1 DEF RequestInv, RequestType, InStep, ReadSoFar
  <2>4. QED
    BY <2>2, <2>3
<1>4. QED
  BY <1>2, <1>3

\* A host: its words, and what ends it.
LEMMA HostStep ==
  ASSUME RequestInv, NEW c, SendHost(c), RequestFeed(c)
  PROVE  RequestInv'
<1>1. /\ ReadHost(c) /\ qat = "value" /\ field = "host" /\ qbuffer = << >>
      /\ host = asked.host /\ asked.dest_port = 80
      /\ Len(host) = words /\ words \in Nat /\ words <= MaxWords
  BY RequestTaken DEF SendHost, RequestInv, RequestType, InStep, ReadSoFar
<1>2. ~(Len(host) > SMALLER_BUFF_SIZE)
  BY <1>1, SmallerAssumption, MaxWordsAssumption
<1>3. CASE c = SP
  <2>1. /\ UNCHANGED parser /\ UNCHANGED <<field, words, asked>>
        /\ qat' = qat \/ qat' = "behind_host"
    BY <1>1, <1>2, <1>3, Tokens DEF ReadHost, SendHost, SendLineEnd, parser
  <2>2. QED
    BY <1>1, <2>1 DEF RequestInv, RequestType, InStep, ReadSoFar, parser
<1>4. CASE c \in Text /\ words < MaxWords
  <2>1. c # SP /\ c # CR /\ c # COLON
    BY <1>4, Tokens
  <2>2. /\ host' = Append(host, c) /\ words' = words + 1
        /\ asked' = [asked EXCEPT !.host = Append(@, c)]
        /\ UNCHANGED <<qstate, qbuffer, method, dest_port, content_length, qat, field>>
    BY <1>1, <1>2, <1>4, <2>1 DEF ReadHost, SendHost, SendLineEnd
  <2>2a. asked' = [method |-> asked.method, host |-> Append(asked.host, c),
                   dest_port |-> asked.dest_port,
                   content_length |-> asked.content_length]
    BY <2>2 DEF RequestInv, RequestType
  <2>2b. Append(asked.host, c) \in Seq(Text)
    BY <1>4 DEF RequestInv, RequestType
  <2>2c. words' \in Nat
    BY <1>1, <2>2
  <2>3. RequestType'
    BY <2>2a, <2>2b, <2>2c DEF RequestInv, RequestType
  <2>4. /\ host' = asked'.host /\ asked'.dest_port = 80
        /\ asked'.method = asked.method
        /\ asked'.content_length = asked.content_length
        /\ Len(host') = words'
    BY <1>1, <2>2 DEF RequestInv, RequestType
  <2>5. words' <= MaxWords
    BY <1>1, <1>4, <2>2, MaxWordsAssumption
  <2>6. InStep'
    BY <1>1, <2>2, <2>4, <2>5 DEF RequestInv, InStep
  <2>7. ReadSoFar'
    BY <1>1, <2>2, <2>4 DEF RequestInv, ReadSoFar
  <2>8. QED
    BY <2>3, <2>6, <2>7 DEF RequestInv
<1>5. CASE c = COLON
  <2>1. /\ qstate' = "request_dest_port" /\ qat' = "port" /\ words' = 0
        /\ UNCHANGED <<qbuffer, method, host, dest_port, content_length, field, asked>>
    BY <1>1, <1>2, <1>5, Tokens DEF ReadHost, SendHost, SendLineEnd
  <2>2. QED
    BY <1>1, <2>1 DEF RequestInv, RequestType, InStep, ReadSoFar
<1>6. CASE c = CR
  <2>1. /\ qstate' = "request_enter" /\ qbuffer' = <<CR>> /\ dest_port' = 80
        /\ qat' = "lf" /\ words' = 0
        /\ UNCHANGED <<method, host, content_length, field, asked>>
    BY <1>1, <1>2, <1>6, Tokens DEF ReadHost, SendHost, SendLineEnd
  <2>2. QED
    BY <1>1, <2>1 DEF RequestInv, RequestType, InStep, ReadSoFar
<1>7. QED
  BY <1>3, <1>4, <1>5, <1>6 DEF SendHost, SendLineEnd

\* Spaces behind a host.
LEMMA BehindHostStep ==
  ASSUME RequestInv, NEW c, SendBehindHost(c), RequestFeed(c)
  PROVE  RequestInv'
<1>1. /\ ReadHost(c) /\ qat = "behind_host" /\ qbuffer = << >>
      /\ host = asked.host /\ asked.dest_port = 80 /\ Len(host) <= MaxWords
  BY RequestTaken DEF SendBehindHost, RequestInv, InStep, ReadSoFar
<1>2. ~(Len(host) > SMALLER_BUFF_SIZE)
  <2>1. Len(host) \in Nat
    BY <1>1 DEF RequestInv, RequestType
  <2>2. QED
    BY <1>1, <2>1, SmallerAssumption, MaxWordsAssumption
<1>3. CASE c = SP
  <2>1. UNCHANGED <<parser, client>>
    BY <1>1, <1>2, <1>3, Tokens
       DEF ReadHost, SendBehindHost, SendLineEnd, parser, client
  <2>2. QED
    BY <2>1 DEF RequestInv, RequestType, InStep, ReadSoFar, parser, client
<1>4. CASE c = CR
  <2>1. /\ qstate' = "request_enter" /\ qbuffer' = <<CR>> /\ dest_port' = 80
        /\ qat' = "lf" /\ words' = 0
        /\ UNCHANGED <<method, host, content_length, field, asked>>
    BY <1>1, <1>2, <1>4, Tokens DEF ReadHost, SendBehindHost, SendLineEnd
  <2>2. QED
    BY <1>1, <2>1 DEF RequestInv, RequestType, InStep, ReadSoFar
<1>5. QED
  BY <1>3, <1>4 DEF SendBehindHost, SendLineEnd

\* What is no port alone is refused where the line ends.
LEMMA PortRefused ==
  ASSUME RequestInv, ReadDestPort(CR), qat \in {"port", "no_port", "odd_port"},
         qbuffer \in Seq({SP}) \/ Odd(qbuffer), qat' = "refused",
         UNCHANGED <<field, words, asked>>
  PROVE  RequestInv'
<1>1. ~(Len(Trim(qbuffer)) = 1 /\ Trim(qbuffer)[1] \in Number)
  <2>1. CASE Odd(qbuffer)
    BY <2>1, OddTrim
  <2>2. CASE qbuffer \in Seq({SP})
    <3>1. Len(Trim(qbuffer)) = 0
      BY <2>2, SpacesTrim
    <3>2. QED
      BY <3>1
  <2>3. QED
    BY <2>1, <2>2
<1>2. qstate' = "request_error" /\ UNCHANGED <<qbuffer, method, host, content_length>>
  BY <1>1 DEF ReadDestPort
<1>3. QED
  BY <1>2 DEF RequestInv, RequestType, InStep, ReadSoFar

\* A port: one number of 16 bits, or none.
LEMMA PortStep ==
  ASSUME RequestInv, NEW c \in RequestToken, SendPort(c), RequestFeed(c)
  PROVE  RequestInv'
<1>1. ReadDestPort(c) /\ qat = "port" /\ field = "host" /\ qstate = "request_dest_port"
  BY RequestTaken DEF SendPort, RequestInv, InStep
<1>2. CASE /\ c \in Number /\ words = 0 /\ ValueOf[c] < 65536 /\ words' = 1
           /\ asked' = [asked EXCEPT !.dest_port = ValueOf[c]]
           /\ UNCHANGED <<qat, field>>
  <2>1. c # CR /\ qbuffer = << >> /\ ValueOf[c] \in Nat
    BY <1>1, <1>2, Tokens, NumberAssumption DEF RequestInv, InStep
  <2>2. /\ qbuffer' = <<c>>
        /\ UNCHANGED <<qstate, method, host, dest_port, content_length>>
    BY <1>1, <1>2, <2>1 DEF ReadDestPort
  <2>3. RequestType'
    BY <1>2, <2>1 DEF RequestInv, RequestType
  <2>4. /\ asked'.dest_port = ValueOf[c] /\ asked'.host = asked.host
        /\ asked'.method = asked.method
        /\ asked'.content_length = asked.content_length
    BY <1>2 DEF RequestInv, RequestType
  <2>5. InStep'
    BY <1>1, <1>2, <2>2, <2>4 DEF RequestInv, InStep
  <2>6. ReadSoFar'
    BY <1>1, <1>2, <2>2, <2>4 DEF RequestInv, ReadSoFar
  <2>7. QED
    BY <2>3, <2>5, <2>6 DEF RequestInv
<1>3. CASE words > 0 /\ SendLineEnd(c) /\ UNCHANGED asked
  <2>1. words = 1 /\ c = CR
    BY <1>1, <1>3 DEF RequestInv, InStep, SendLineEnd
  <2>2. PICK n \in Number : /\ qbuffer = <<n>> /\ ValueOf[n] < 65536
                            /\ asked.dest_port = ValueOf[n]
    BY <1>1, <2>1 DEF RequestInv, InStep
  <2>3. /\ Trim(qbuffer) = <<n>> /\ Atoi(qbuffer) = asked.dest_port
        /\ Len(Trim(qbuffer)) = 1 /\ Trim(qbuffer)[1] \in Number
    BY <2>2, AloneAtoi
  <2>4. asked.dest_port % 65536 = asked.dest_port
    BY <2>2 DEF RequestInv, RequestType
  <2>5. /\ qbuffer' = <<CR>> /\ qstate' = "request_enter" /\ dest_port' = asked.dest_port
        /\ UNCHANGED <<method, host, content_length>>
    BY <1>1, <2>1, <2>3, <2>4 DEF ReadDestPort
  <2>6. qat' = "lf" /\ words' = 0 /\ UNCHANGED <<field, asked>>
    BY <1>3 DEF SendLineEnd
  <2>7. QED
    BY <1>1, <2>5, <2>6 DEF RequestInv, RequestType, InStep, ReadSoFar
<1>4. CASE words = 0 /\ c = CR /\ qat' = "refused" /\ UNCHANGED <<field, words, asked>>
  <2>1. qbuffer = << >>
    BY <1>1, <1>4 DEF RequestInv, InStep
  <2>2. << >> \in Seq({SP})
    OBVIOUS
  <2>3. QED
    BY <1>1, <1>4, <2>1, <2>2, PortRefused
<1>5. CASE /\ words = 0 /\ c = SP /\ qat' = "no_port" /\ words' = 1
           /\ UNCHANGED <<field, asked>>
  <2>1. qbuffer = << >> /\ SP # CR
    BY <1>1, <1>5, Tokens DEF RequestInv, InStep
  <2>2. /\ qbuffer' = <<SP>>
        /\ UNCHANGED <<qstate, method, host, dest_port, content_length>>
    BY <1>1, <1>5, <2>1 DEF ReadDestPort
  <2>3. <<SP>> \in Seq({SP})
    OBVIOUS
  <2>4. QED
    BY <1>1, <1>5, <2>2, <2>3 DEF RequestInv, RequestType, InStep, ReadSoFar
<1>6. CASE /\ c \in (Text \ Number) \union {COLON} \/ (words > 0 /\ c = SP)
           /\ words' = words + 1 /\ qat' = "odd_port" /\ UNCHANGED <<field, asked>>
  <2>1. c # CR
    BY <1>6, Tokens
  <2>2. /\ qbuffer' = Append(qbuffer, c)
        /\ UNCHANGED <<qstate, method, host, dest_port, content_length>>
    BY <1>1, <2>1 DEF ReadDestPort
  <2>3. Odd(Append(qbuffer, c))
    <3>1. CASE words = 0
      <4>1. Append(qbuffer, c) = <<c>>
        BY <1>1, <3>1 DEF RequestInv, InStep
      <4>2. c \notin White /\ c \notin Number
        BY <1>6, <3>1, Tokens DEF White
      <4>3. QED
        BY <4>1, <4>2 DEF Odd
    <3>2. CASE words = 1
      <4>1. \E n \in Number : qbuffer = <<n>>
        BY <1>1, <3>2 DEF RequestInv, InStep
      <4>2. QED
        BY <4>1, OddMore
    <3>3. QED
      BY <1>1, <3>1, <3>2 DEF RequestInv, InStep
  <2>4. QED
    BY <1>1, <1>6, <2>2, <2>3 DEF RequestInv, RequestType, InStep, ReadSoFar
<1>7. QED
  BY <1>2, <1>3, <1>4, <1>5, <1>6 DEF SendPort

\* What is no port alone, to the end of the line.
LEMMA OddPortStep ==
  ASSUME RequestInv, NEW c \in RequestToken, SendOddPort(c), RequestFeed(c)
  PROVE  RequestInv'
<1>1. /\ ReadDestPort(c) /\ qat \in {"no_port", "odd_port"} /\ UNCHANGED <<field, asked>>
      /\ qat = "no_port" => qbuffer \in Seq({SP})
      /\ qat = "odd_port" => Odd(qbuffer)
      /\ qstate = "request_dest_port"
  BY RequestTaken DEF SendOddPort, RequestInv, InStep
<1>2. CASE c = CR /\ qat' = "refused" /\ UNCHANGED words
  BY <1>1, <1>2, PortRefused
<1>3. CASE /\ c = SP \/ (qat = "odd_port" /\ c \in Text \union Number \union {COLON})
           /\ words' = words + 1 /\ UNCHANGED qat
  <2>1. c # CR
    BY <1>3, Tokens
  <2>2. /\ qbuffer' = Append(qbuffer, c)
        /\ UNCHANGED <<qstate, method, host, dest_port, content_length>>
    BY <1>1, <2>1 DEF ReadDestPort
  <2>3. CASE qat = "no_port"
    <3>1. Append(qbuffer, c) \in Seq({SP})
      BY <1>1, <1>3, <2>3
    <3>2. QED
      BY <1>1, <1>3, <2>2, <2>3, <3>1 DEF RequestInv, RequestType, InStep, ReadSoFar
  <2>4. CASE qat = "odd_port"
    <3>1. Odd(Append(qbuffer, c))
      BY <1>1, <2>4, OddMore
    <3>2. QED
      BY <1>1, <1>3, <2>2, <2>4, <3>1 DEF RequestInv, RequestType, InStep, ReadSoFar
  <2>5. QED
    BY <1>1, <2>3, <2>4
<1>4. QED
  BY <1>2, <1>3 DEF SendOddPort

\* A content length: one number, among spaces.
LEMMA LengthStep ==
  ASSUME RequestInv, NEW c, SendLength(c), RequestFeed(c)
  PROVE  RequestInv'
<1>1. ReadContentLength(c) /\ qat = "value" /\ field = "content-length"
  BY RequestTaken DEF SendLength, RequestInv, InStep
<1>2. CASE c = SP
  <2>1. UNCHANGED <<parser, client>>
    BY <1>1, <1>2, Tokens
       DEF ReadContentLength, SendLength, SendLineEnd, parser, client
  <2>2. QED
    BY <2>1 DEF RequestInv, RequestType, InStep, ReadSoFar, parser, client
<1>3. CASE c \in Number /\ words = 0
  <2>1. c # CR /\ c # SP /\ qbuffer = << >> /\ ValueOf[c] \in Nat
    BY <1>1, <1>3, Tokens, NumberAssumption DEF RequestInv, InStep
  <2>2. /\ qbuffer' = <<c>> /\ words' = 1
        /\ asked' = [asked EXCEPT !.content_length = ValueOf[c]]
        /\ UNCHANGED <<qstate, method, host, dest_port, content_length, qat, field>>
    BY <1>1, <1>3, <2>1 DEF ReadContentLength, SendLength, SendLineEnd
  <2>3. RequestType'
    BY <2>1, <2>2 DEF RequestInv, RequestType
  <2>4. /\ asked'.content_length = ValueOf[c] /\ asked'.host = asked.host
        /\ asked'.method = asked.method /\ asked'.dest_port = asked.dest_port
    BY <2>2 DEF RequestInv, RequestType
  <2>5. InStep'
    BY <1>1, <1>3, <2>2, <2>4 DEF RequestInv, InStep
  <2>6. ReadSoFar'
    BY <1>1, <2>2, <2>4 DEF RequestInv, ReadSoFar
  <2>7. QED
    BY <2>3, <2>5, <2>6 DEF RequestInv
<1>4. CASE c = CR /\ words > 0
  <2>1. words = 1
    BY <1>1, <1>4 DEF RequestInv, InStep
  <2>2. PICK n \in Number : qbuffer = <<n>> /\ asked.content_length = ValueOf[n]
    BY <1>1, <2>1 DEF RequestInv, InStep
  <2>3. Atoi(qbuffer) = asked.content_length
    BY <2>2, AloneAtoi
  <2>4. /\ qbuffer' = <<CR>> /\ qstate' = "request_enter"
        /\ content_length' = asked.content_length
        /\ UNCHANGED <<method, host, dest_port>>
    BY <1>1, <1>4, <2>3 DEF ReadContentLength
  <2>5. qat' = "lf" /\ words' = 0 /\ UNCHANGED <<field, asked>>
    BY <1>4, <2>1, Tokens DEF SendLength, SendLineEnd
  <2>6. QED
    BY <1>1, <2>4, <2>5 DEF RequestInv, RequestType, InStep, ReadSoFar
<1>5. QED
  BY <1>2, <1>3, <1>4 DEF SendLength, SendLineEnd

\* Whatever token comes next, the automaton follows the client.
LEMMA RequestStep == RequestInv /\ [RequestNext]_<<parser, client>> => RequestInv'
<1> SUFFICES ASSUME RequestInv, [RequestNext]_<<parser, client>> PROVE RequestInv'
  OBVIOUS
<1>1. ASSUME NEW c \in RequestToken, RequestSend(c), RequestFeed(c) PROVE RequestInv'
  BY <1>1, MethodStep, LineStep, LfStep, NameStep, ColonStep, HostStep,
     BehindHostStep, PortStep, OddPortStep, LengthStep DEF RequestSend
<1>2. CASE UNCHANGED <<parser, client>>
  BY <1>2 DEF RequestInv, RequestType, InStep, ReadSoFar, parser, client
<1>3. QED
  BY <1>1, <1>2 DEF RequestNext

\* The end of a head of any number of fields is found, by any client and in any
\* alphabet: not before it and not after it.  Read in error is a Host with a
\* colon that is not followed by one number and the end of the line, spaces or
\* the colons of an address included, and no other head.
THEOREM RequestHeadsAreFound == RequestSpec => []RequestHeadIsFound
<1>1. RequestInv => RequestHeadIsFound
  BY DEF RequestInv, InStep, RequestHeadIsFound
<1>2. QED
  BY <1>1, RequestStart, RequestStep, PTL DEF RequestSpec

\* What it asks for is what has been read by then: the method, the host and the
\* port of its last Host, and its last Content-Length.
THEOREM RequestsAreRead == RequestSpec => []RequestIsRead
<1>1. RequestInv => RequestIsRead
  BY DEF RequestInv, ReadSoFar, RequestIsRead
<1>2. QED
  BY <1>1, RequestStart, RequestStep, PTL DEF RequestSpec

-----------------------------------------------------------------------------
(***************************************************************************)
(* Responses.                                                               *)
(***************************************************************************)

\* Nothing has been sent.
LEMMA ResponseStart == ResponseInit => ResponseInv
<1> SUFFICES ASSUME ResponseInit PROVE ResponseInv
  OBVIOUS
<1>1. ResponseType
  <2>1. << >> \in Seq(Spoken) /\ 0 \in Nat /\ FALSE \in BOOLEAN
    OBVIOUS
  <2>2. QED
    BY <2>1 DEF ResponseInit, ResponseType
<1>2. Following /\ HeadSoFar
  BY DEF ResponseInit, Following, HeadSoFar
<1>3. QED
  BY <1>1, <1>2 DEF ResponseInv

\* The state of the automaton tells which of its functions takes a token.
LEMMA ResponseTaken ==
  ASSUME NEW c, ResponseFeed(c)
  PROVE  /\ pstate = "response_version" => ReadVersion(c)
         /\ pstate = "response_status_code" => ReadStatusCode(c)
         /\ pstate = "response_headers" => ReadResponseHeaders(c)
         /\ pstate = "response_enter" => ReadResponseEnter(c)
         /\ pstate = "response_desired_header" => ReadResponseDesired(c)
         /\ pstate = "response_length" => ReadLength(c)
         /\ pstate = "response_media_type" => ReadMediaType(c)
         /\ pstate = "response_encoding" => ReadEncoding(c)
         /\ pstate # "response_done"
  BY DEF ResponseFeed, ReadVersion, ReadStatusCode, ReadResponseHeaders,
         ReadResponseEnter, ReadResponseDesired, ReadLength, ReadMediaType,
         ReadEncoding, Gather

\* The end of a line is stored, and two in a row end a head.
LEMMA ResponseEnterTaken ==
  ASSUME NEW c \in {CR, LF}, ReadResponseEnter(c)
  PROVE  /\ pbuffer' = Append(pbuffer, c)
         /\ c = LF /\ pbuffer' = Leftover =>
              pstate' = IF status_code = Interim THEN "response_version"
                                                 ELSE "response_done"
         /\ ~(c = LF /\ pbuffer' = Leftover) => pstate' = pstate
         /\ UNCHANGED <<status_code, body_length, mediaType, chunked, compressed>>
<1>1. c \notin ResponseDesired
  BY Tokens DEF ResponseDesired, Beginning
<1>2. QED
  BY <1>1 DEF ReadResponseEnter, Leftover

\* The version, up to the first space.
LEMMA VersionStep ==
  ASSUME ResponseInv, NEW c, SendVersion(c), ResponseFeed(c)
  PROVE  ResponseInv'
<1>1. ReadVersion(c) /\ sat = "version" /\ pstate = "response_version"
  BY ResponseTaken DEF SendVersion, ResponseInv, Following
<1>2. CASE c \in Text /\ said = << >>
  <2>1. c # SP /\ <<c>> \in Seq(Spoken)
    BY <1>2, Tokens DEF Spoken
  <2>2. said' = <<c>> /\ UNCHANGED <<sparser, sat, sfield, answered>>
    BY <1>1, <1>2, <2>1 DEF ReadVersion, SendVersion, sparser
  <2>3. QED
    BY <1>1, <2>1, <2>2
       DEF ResponseInv, ResponseType, Following, HeadSoFar, sparser
<1>3. CASE c = SP /\ said # << >>
  <2>1. /\ said' = << >> /\ sat' = "status" /\ pstate' = "response_status_code"
        /\ UNCHANGED <<pbuffer, status_code, body_length, mediaType, chunked,
                       compressed, sfield, answered>>
    BY <1>1, <1>3 DEF ReadVersion, SendVersion
  <2>2. QED
    BY <1>1, <2>1 DEF ResponseInv, ResponseType, Following, HeadSoFar
<1>4. QED
  BY <1>2, <1>3 DEF SendVersion

\* A number behind what an interim head has left is read like one that stands
\* alone.
LEMMA LeftoverAtoi ==
  ASSUME NEW n \in Number
  PROVE  Atoi(Append(Leftover, n)) = ValueOf[n]
<1> DEFINE all == Append(Leftover, n)
           dark == {i \in 1..Len(all) : all[i] \notin White}
           S == {CR, LF, n}
<1>1. Leftover \in Seq(S) /\ n \in S
  BY DEF Leftover
<1>2. /\ Len(Leftover) = 4
      /\ \A i \in 1..4 : Leftover[i] \in {CR, LF}
  BY DEF Leftover
<1> HIDE DEF S
<1>3. /\ all \in Seq(S) /\ Len(all) = 5 /\ all[5] = n
      /\ \A i \in 1..4 : all[i] = Leftover[i]
  <2>1. /\ all \in Seq(S) /\ Len(all) = Len(Leftover) + 1
        /\ \A i \in 1..Len(Leftover) : all[i] = Leftover[i]
        /\ all[Len(Leftover) + 1] = n
    BY <1>1, AppendProperties
  <2>2. QED
    BY <1>2, <2>1
<1>4. n \notin White /\ \A i \in 1..4 : all[i] \in White
  BY <1>2, <1>3, Tokens DEF White
<1> HIDE DEF all
<1>5. dark = {5}
  BY <1>3, <1>4
<1>6. (CHOOSE i \in dark : \A j \in dark : i <= j) = 5
  BY <1>5
<1>7. Trim(all) = SubSeq(all, 5, 5)
  BY <1>3, <1>5, <1>6 DEF Trim
<1> DEFINE one == SubSeq(all, 5, 5)
<1>8. one # << >> /\ Head(one) = n
  <2>1. Head(one) = all[5]
    <3>1. 5 \in 1..Len(all) /\ 5 \in 5..Len(all)
      BY <1>3
    <3>2. QED
      BY <1>3, <3>1, HeadTailOfSubSeq
  <2>2. one # << >>
    <3>1. Len(one) = 1
      BY <1>3
    <3> HIDE DEF one
    <3>2. QED
      BY <3>1, EmptySeq
  <2>3. QED
    BY <1>3, <2>1, <2>2
<1>9. QED
  BY <1>7, <1>8 DEF Atoi, all

\* The status.
LEMMA StatusStep ==
  ASSUME ResponseInv, NEW c, SendStatus(c), ResponseFeed(c)
  PROVE  ResponseInv'
<1>1. ReadStatusCode(c) /\ sat = "status" /\ pstate = "response_status_code"
  BY ResponseTaken DEF SendStatus, ResponseInv, Following
<1>2. CASE c \in Status /\ said = << >>
  <2>1. /\ c \in Number /\ c # SP /\ <<c>> \in Seq(Spoken) /\ <<c>> # << >>
        /\ ValueOf[c] \in Nat
    BY <1>2, Tokens, StatusAssumption, NumberAssumption DEF Spoken
  <2>2. /\ pbuffer' = Append(pbuffer, c) /\ said' = <<c>>
        /\ answered' = [answered EXCEPT !.status_code = ValueOf[c]]
        /\ UNCHANGED <<pstate, status_code, body_length, mediaType, chunked,
                       compressed, sat, sfield>>
    BY <1>1, <1>2, <2>1 DEF ReadStatusCode, SendStatus
  <2>3. pbuffer' \in {<<c>>, Append(Leftover, c)}
    <3>1. pbuffer \in {<< >>, Leftover}
      BY <1>1, <1>2 DEF ResponseInv, Following
    <3>2. Append(<< >>, c) = <<c>>
      OBVIOUS
    <3>3. QED
      BY <2>2, <3>1, <3>2
  <2>4. /\ answered'.status_code = ValueOf[c]
        /\ answered'.body_length = answered.body_length
        /\ answered'.mediaType = answered.mediaType
        /\ answered'.chunked = answered.chunked
        /\ answered'.compressed = answered.compressed
    BY <2>2 DEF ResponseInv, ResponseType
  <2>5. ResponseType'
    BY <2>1, <2>2 DEF ResponseInv, ResponseType
  <2>6. Following'
    BY <1>1, <2>1, <2>2, <2>3, <2>4 DEF Following
  <2>7. HeadSoFar'
    BY <1>1, <2>1, <2>2, <2>4 DEF ResponseInv, HeadSoFar
  <2>8. QED
    BY <2>5, <2>6, <2>7 DEF ResponseInv
<1>3. CASE c = SP /\ said # << >>
  <2>1. Atoi(pbuffer) = answered.status_code
    BY <1>1, <1>3, AloneAtoi, LeftoverAtoi DEF ResponseInv, Following
  <2>2. /\ said' = << >> /\ sat' = "reason" /\ pstate' = "response_headers"
        /\ status_code' = answered.status_code
        /\ UNCHANGED <<body_length, mediaType, chunked, compressed, sfield, answered>>
    BY <1>1, <1>3, <2>1, StatusAssumption, Tokens DEF ReadStatusCode, SendStatus
  <2>3. QED
    BY <1>1, <2>2 DEF ResponseInv, ResponseType, Following, HeadSoFar
<1>4. QED
  BY <1>2, <1>3 DEF SendStatus

\* What is of no interest: the reason, and other fields.
LEMMA ReasonStep ==
  ASSUME ResponseInv, NEW c, SendReason(c) \/ SendOtherValue(c), ResponseFeed(c)
  PROVE  ResponseInv'
<1>1. ReadResponseHeaders(c) /\ pstate = "response_headers" /\ said = << >>
  BY ResponseTaken
     DEF SendReason, SendOtherValue, ResponseInv, Following, Reading, Describing
<1>2. CASE c = CR
  <2>1. /\ pbuffer' = <<CR>> /\ sat' = "lf" /\ pstate' = "response_enter"
        /\ UNCHANGED <<status_code, body_length, mediaType, chunked, compressed,
                       sfield, said, answered>>
    BY <1>1, <1>2, Tokens DEF ReadResponseHeaders, SendReason, SendOtherValue, InLine
  <2>2. QED
    BY <1>1, <2>1
       DEF ResponseInv, ResponseType, Following, HeadSoFar, SendReason, SendOtherValue
<1>3. CASE c # CR
  <2>1. UNCHANGED <<sparser, server>>
    BY <1>1, <1>3 DEF ReadResponseHeaders, SendReason, SendOtherValue, sparser, server
  <2>2. QED
    BY <2>1 DEF ResponseInv, ResponseType, Following, HeadSoFar, sparser, server
<1>4. QED
  BY <1>2, <1>3

\* The second half of a line end: an interim head is followed by another one.
LEMMA ResponseLfStep ==
  ASSUME ResponseInv, NEW c, SendResponseLf(c), ResponseFeed(c)
  PROVE  ResponseInv'
<1>1. c = LF /\ ReadResponseEnter(c) /\ pstate = "response_enter"
  BY ResponseTaken DEF SendResponseLf, ResponseInv, Following
<1>2. pbuffer' = Append(pbuffer, LF)
  BY <1>1, ResponseEnterTaken
<1>3. CASE sat = "lf"
  <2>1. pbuffer' = <<CR, LF>>
    BY <1>2, <1>3, LineEnds DEF ResponseInv, Following
  <2>2. pbuffer' # Leftover
    BY <2>1, LineEnds DEF Leftover
  <2>3. /\ sat' = "name" /\ pstate' = "response_enter"
        /\ UNCHANGED <<status_code, body_length, mediaType, chunked, compressed,
                       sfield, said, answered>>
    BY <1>1, <1>3, <2>2, ResponseEnterTaken DEF SendResponseLf
  <2>4. QED
    BY <1>3, <2>1, <2>3 DEF ResponseInv, ResponseType, Following, HeadSoFar
<1>4. CASE sat = "last_lf"
  <2>1. pbuffer' = Leftover /\ status_code = answered.status_code
    BY <1>2, <1>4, LineEnds DEF ResponseInv, Following, HeadSoFar, Leftover
  <2>2. /\ UNCHANGED <<status_code, body_length, mediaType, chunked, compressed,
                       sfield, said, answered>>
        /\ answered.status_code = Interim =>
             sat' = "version" /\ pstate' = "response_version"
        /\ answered.status_code # Interim =>
             sat' = "end" /\ pstate' = "response_done"
    BY <1>1, <1>4, <2>1, ResponseEnterTaken DEF SendResponseLf
  <2>3. QED
    BY <1>4, <2>1, <2>2 DEF ResponseInv, ResponseType, Following, HeadSoFar
<1>5. QED
  BY <1>3, <1>4 DEF SendResponseLf

\* The name of a field, or the line end that ends the head.
LEMMA ResponseNameStep ==
  ASSUME ResponseInv, NEW c, SendResponseName(c), ResponseFeed(c)
  PROVE  ResponseInv'
<1>1. /\ ReadResponseEnter(c) /\ sat = "name" /\ said = << >>
      /\ pbuffer = <<CR, LF>> /\ pstate = "response_enter"
  BY ResponseTaken DEF SendResponseName, ResponseInv, Following
<1>2. CASE c \in Name
  <2>1. c # CR /\ c # LF
    BY <1>2, Tokens
  <2>2. /\ sat' = "colon" /\ sfield' = c
        /\ c \in ResponseDesired =>
             pbuffer' = <<c>> /\ pstate' = "response_desired_header"
        /\ c \notin ResponseDesired => pstate' = "response_headers"
        /\ UNCHANGED <<status_code, body_length, mediaType, chunked, compressed,
                       said, answered>>
    BY <1>1, <1>2, <2>1 DEF ReadResponseEnter, SendResponseName
  <2>3. QED
    BY <1>1, <1>2, <2>2 DEF ResponseInv, ResponseType, Following, HeadSoFar,
                            ResponseDesired, Beginning
<1>3. CASE c = CR
  <2>1. c # LF /\ pbuffer' = <<CR, LF, CR>>
    BY <1>1, <1>3, ResponseEnterTaken, Tokens, LineEnds
  <2>2. /\ pstate' = "response_enter" /\ sat' = "last_lf"
        /\ UNCHANGED <<status_code, body_length, mediaType, chunked, compressed,
                       sfield, said, answered>>
    BY <1>1, <1>3, <2>1, ResponseEnterTaken, Tokens DEF SendResponseName
  <2>3. QED
    BY <1>1, <2>1, <2>2 DEF ResponseInv, ResponseType, Following, HeadSoFar
<1>4. QED
  BY <1>2, <1>3 DEF SendResponseName

\* The colon, behind which the value is read or passed over.
LEMMA ResponseColonStep ==
  ASSUME ResponseInv, NEW c, SendResponseColon(c), ResponseFeed(c)
  PROVE  ResponseInv'
<1>1. /\ c = COLON /\ sat = "colon" /\ sat' = "value" /\ COLON # CR
      /\ UNCHANGED <<sfield, said, answered>> /\ sfield \in Name /\ said = << >>
  BY Tokens DEF SendResponseColon, ResponseInv, Following
<1>2. /\ pstate' = Reading(sfield)
      /\ sfield \in Describing => pbuffer' = << >>
      /\ UNCHANGED <<status_code, body_length, mediaType, chunked, compressed>>
  <2>1. CASE sfield \notin ResponseDesired
    <3>1. sfield \notin Describing
      BY <1>1, <2>1, FirstAssumption DEF ResponseDesired, Beginning, Describing
    <3>2. Reading(sfield) = "response_headers"
      BY <3>1 DEF Reading, Describing
    <3>3. ReadResponseHeaders(c) /\ pstate = "response_headers"
      BY <1>1, <2>1, ResponseTaken DEF ResponseInv, Following
    <3>4. QED
      BY <1>1, <3>1, <3>2, <3>3 DEF ReadResponseHeaders
  <2>2. CASE sfield \in ResponseDesired
    <3>1. ReadResponseDesired(c) /\ pbuffer = <<sfield>>
      BY <1>1, <2>2, ResponseTaken DEF ResponseInv, Following
    <3>2. \A name \in {"content-length", "content-type", "transfer-encoding",
                       "content-encoding"} : <<sfield>> = <<name>> <=> sfield = name
      OBVIOUS
    <3>3. QED
      BY <1>1, <3>1, <3>2 DEF ReadResponseDesired, Reading
  <2>3. QED
    BY <2>1, <2>2
<1>3. QED
  BY <1>1, <1>2 DEF ResponseInv, ResponseType, Following, HeadSoFar

\* What a value does that ends.
LEMMA ValueEnds ==
  ASSUME ResponseInv, SendWord(CR), ResponseFeed(CR)
  PROVE  /\ said # << >> /\ said' = << >> /\ sat' = "lf" /\ UNCHANGED sfield
         /\ pbuffer' = <<CR>> /\ pstate' = "response_enter"
         /\ ResponseType' /\ HeadSoFar'
<1>1a. /\ sat = "value" /\ sfield \in Describing /\ pbuffer = said
       /\ pstate = Reading(sfield) /\ UNCHANGED sfield
  BY DEF SendWord, ResponseInv, Following
<1>1b. \/ pstate = "response_length" /\ ReadLength(CR)
       \/ pstate = "response_media_type" /\ ReadMediaType(CR)
       \/ pstate = "response_encoding" /\ ReadEncoding(CR)
  BY <1>1a, ResponseTaken DEF Reading, Describing
<1>1c. UNCHANGED status_code
  BY <1>1b DEF ReadLength, ReadMediaType, ReadEncoding
<1>1. /\ sat = "value" /\ sfield \in Describing /\ pbuffer = said
      /\ pstate = Reading(sfield) /\ UNCHANGED <<sfield, status_code>>
  BY <1>1a, <1>1c
<1>2. CR \notin Words
  BY <1>1, Tokens DEF Words, Describing
<1>3. said # << >> /\ said' = << >> /\ sat' = "lf"
  BY <1>1, <1>2, Tokens DEF SendWord
<1>4. pbuffer' = <<CR>> /\ pstate' = "response_enter"
  BY <1>1b DEF ReadLength, ReadMediaType, ReadEncoding, Gather
<1>5. CASE sfield = "content-length"
  <2>1. PICK n \in Number : said = <<n>>
    BY <1>1, <1>3, <1>5 DEF ResponseInv, Following
  <2>2. /\ Atoi(pbuffer) = ValueOf[n] /\ said[1] = n /\ ValueOf[n] \in Nat
    BY <1>1, <2>1, AloneAtoi, NumberAssumption
  <2>3. ReadLength(CR)
    BY <1>1, <1>5, ResponseTaken DEF Reading
  <2>4. /\ body_length' = ValueOf[n] /\ UNCHANGED <<mediaType, chunked, compressed>>
    BY <2>2, <2>3 DEF ReadLength
  <2>5. answered' = [answered EXCEPT !.body_length = ValueOf[n]]
    BY <1>2, <1>3, <1>5, <2>2, Tokens DEF SendWord
  <2>6. QED
    BY <1>1, <1>3, <1>4, <2>2, <2>4, <2>5 DEF ResponseInv, ResponseType, HeadSoFar
<1>6. CASE sfield = "content-type"
  <2>1. ReadMediaType(CR)
    BY <1>1, <1>6, ResponseTaken DEF Reading
  <2>2. mediaType' = said /\ UNCHANGED <<body_length, chunked, compressed>>
    BY <1>1, <2>1 DEF ReadMediaType
  <2>3. answered' = [answered EXCEPT !.mediaType = said]
    BY <1>2, <1>3, <1>6, Tokens DEF SendWord
  <2>4. answered' = [status_code |-> answered.status_code,
                     body_length |-> answered.body_length, mediaType |-> said,
                     chunked |-> answered.chunked,
                     compressed |-> answered.compressed]
    BY <2>3 DEF ResponseInv, ResponseType
  <2>5. ResponseType'
    BY <1>3, <2>4 DEF ResponseInv, ResponseType
  <2>6. HeadSoFar'
    BY <1>1, <1>3, <2>2, <2>4 DEF ResponseInv, HeadSoFar
  <2>7. QED
    BY <1>1, <1>3, <1>4, <2>5, <2>6
<1>7. CASE sfield \in {"transfer-encoding", "content-encoding"}
  <2> DEFINE whole == Holds(said, {"chunked"})
             packed == Holds(said, Compression)
  <2>1. ReadEncoding(CR)
    BY <1>1, <1>7, ResponseTaken DEF Reading
  <2>2. answered' = [answered EXCEPT !.chunked = @ \/ whole,
                                     !.compressed = @ \/ (packed /\ ~whole)]
    BY <1>2, <1>3, <1>7, Tokens DEF SendWord
  <2>3. /\ whole => chunked' = TRUE /\ UNCHANGED compressed
        /\ ~whole /\ packed => compressed' = TRUE /\ UNCHANGED chunked
        /\ ~whole /\ ~packed => UNCHANGED <<chunked, compressed>>
        /\ UNCHANGED <<body_length, mediaType>>
    BY <1>1, <2>1 DEF ReadEncoding
  <2> HIDE DEF whole, packed
  <2>4. whole \in BOOLEAN /\ packed \in BOOLEAN
    BY DEF whole, packed, Holds
  <2>5. answered' = [status_code |-> answered.status_code,
                     body_length |-> answered.body_length,
                     mediaType |-> answered.mediaType,
                     chunked |-> answered.chunked \/ whole,
                     compressed |-> answered.compressed \/ (packed /\ ~whole)]
    BY <2>2 DEF ResponseInv, ResponseType
  <2>6. ResponseType'
    BY <1>3, <2>4, <2>5 DEF ResponseInv, ResponseType
  <2>7. /\ chunked' = (chunked \/ whole)
        /\ compressed' = (compressed \/ (packed /\ ~whole))
    <3>1. chunked \in BOOLEAN /\ compressed \in BOOLEAN
      BY DEF ResponseInv, ResponseType, HeadSoFar
    <3>2. QED
      BY <2>3, <2>4, <3>1
  <2>8. HeadSoFar'
    BY <1>1, <1>3, <2>3, <2>5, <2>7 DEF ResponseInv, HeadSoFar
  <2>9. QED
    BY <1>1, <1>3, <1>4, <2>6, <2>8
<1>8. QED
  BY <1>1, <1>3, <1>4, <1>5, <1>6, <1>7 DEF Describing

\* A value: its words, among spaces, and its end.
LEMMA WordStep ==
  ASSUME ResponseInv, NEW c, SendWord(c), ResponseFeed(c)
  PROVE  ResponseInv'
<1>1. /\ sat = "value" /\ sfield \in Describing /\ pbuffer = said
      /\ pstate = Reading(sfield) /\ UNCHANGED sfield
  BY DEF SendWord, ResponseInv, Following
<1>2. CASE c = CR
  <2>1. SendWord(CR) /\ ResponseFeed(CR)
    BY <1>2
  <2>2. /\ said' = << >> /\ sat' = "lf" /\ pbuffer' = <<CR>>
        /\ pstate' = "response_enter" /\ ResponseType' /\ HeadSoFar'
    BY <2>1, ValueEnds
  <2>3. Following'
    BY <2>2 DEF Following
  <2>4. QED
    BY <2>2, <2>3 DEF ResponseInv
<1>3. /\ Words \subseteq Spoken
      /\ \A word \in Words : word # CR /\ word # SP
  BY <1>1, Tokens DEF Words, Spoken, Describing
<1>4. ASSUME c # CR
      PROVE  /\ pbuffer' = IF c = SP THEN pbuffer ELSE Append(pbuffer, c)
             /\ UNCHANGED <<pstate, status_code, body_length, mediaType, chunked,
                            compressed>>
  <2>1. ReadLength(c) \/ ReadMediaType(c) \/ ReadEncoding(c)
    BY <1>1, ResponseTaken DEF Reading, Describing
  <2>2. CASE ReadLength(c)
    BY <1>4, <2>2 DEF ReadLength, Gather
  <2>3. CASE ReadMediaType(c)
    BY <1>4, <2>3 DEF ReadMediaType, Gather
  <2>4. CASE ReadEncoding(c)
    BY <1>4, <2>4 DEF ReadEncoding, Gather
  <2>5. QED
    BY <2>1, <2>2, <2>3, <2>4
<1>5. CASE c = SP
  <2>1. UNCHANGED <<sparser, server>>
    BY <1>1, <1>3, <1>4, <1>5, Tokens DEF SendWord, sparser, server
  <2>2. QED
    BY <2>1 DEF ResponseInv, ResponseType, Following, HeadSoFar, sparser, server
<1>6. CASE c \in Words
  <2>1. /\ pbuffer' = Append(said, c) /\ said' = Append(said, c)
        /\ UNCHANGED <<pstate, status_code, body_length, mediaType, chunked,
                       compressed, sat, answered>>
    BY <1>1, <1>3, <1>4, <1>6 DEF SendWord
  <2>2. said' \in Seq(Spoken)
    BY <1>3, <1>6, <2>1 DEF ResponseInv, ResponseType
  <2>3. ASSUME sfield = "content-length" PROVE \E n \in Number : said' = <<n>>
    <3>1. said = << >> /\ c \in Number
      BY <1>6, <2>3 DEF Words
    <3>2. said' = <<c>>
      BY <2>1, <3>1
    <3>3. QED
      BY <3>1, <3>2
  <2>4. QED
    BY <1>1, <2>1, <2>2, <2>3 DEF ResponseInv, ResponseType, Following, HeadSoFar
<1>7. QED
  BY <1>2, <1>5, <1>6 DEF SendWord

\* Whatever token comes next, the automaton follows the server.
LEMMA ResponseStep == ResponseInv /\ [ResponseNext]_<<sparser, server>> => ResponseInv'
<1> SUFFICES ASSUME ResponseInv, [ResponseNext]_<<sparser, server>> PROVE ResponseInv'
  OBVIOUS
<1>1. ASSUME NEW c \in ResponseToken, ResponseSend(c), ResponseFeed(c)
      PROVE  ResponseInv'
  BY <1>1, VersionStep, StatusStep, ReasonStep, ResponseLfStep, ResponseNameStep,
     ResponseColonStep, WordStep DEF ResponseSend
<1>2. CASE UNCHANGED <<sparser, server>>
  BY <1>2 DEF ResponseInv, ResponseType, Following, HeadSoFar, sparser, server
<1>3. QED
  BY <1>1, <1>2 DEF ResponseNext

\* The end of the head that answers is found, behind any number of interim
\* heads with any fields, and no well-formed head is taken for an error.
THEOREM ResponseHeadsAreFound == ResponseSpec => []ResponseHeadIsFound
<1>1. ResponseInv => ResponseHeadIsFound
  BY DEF ResponseInv, Following, ResponseHeadIsFound, Reading
<1>2. QED
  BY <1>1, ResponseStart, ResponseStep, PTL DEF ResponseSpec

\* The status, length, media type and codings that have been read by then are
\* those the server declared, in any order and in any number of fields.
THEOREM ResponsesAreRead == ResponseSpec => []ResponseIsRead
<1>1. ResponseInv => ResponseIsRead
  BY DEF ResponseInv, HeadSoFar, ResponseIsRead
<1>2. QED
  BY <1>1, ResponseStart, ResponseStep, PTL DEF ResponseSpec

=============================================================================
