---------------------------- MODULE AdminClient ----------------------------
(***************************************************************************)
(* app.c: the program administrators use.  It turns its arguments into one  *)
(* request, has it answered by the session a of module Administration, and  *)
(* tells the answers, adding to each configuration the media type it was    *)
(* for from a list of its own.  An action is an argument, a call of the     *)
(* session, or the whole of parseResponse.                                  *)
(***************************************************************************)
EXTENDS Administration

CONSTANTS
  Asked,            \* media types that are given as arguments
  MaxArguments,     \* bound on the number of arguments
  MEDIATYPES,       \* how many the list has room for, 20 in the code
  Beyond,           \* transformers whose number is outside of the array that
                    \* says which were given: the one of -c4
  Strays            \* what parseResponse makes of what is sent behind a reply

\* What it tells though nobody answered it.
Stray == [kind : {"METRIC", "CONFIGURATION", "METRIC_ERROR"}, type : {"stray"}]
           \union [kind : {"PASSWORD"}]

ASSUME AskedAssumption ==
  /\ Asked \subseteq MediaType /\ MEDIATYPES \in Nat
  /\ Beyond \subseteq Transformer /\ Strays \subseteq Seq(Stray)

\* isMediaType lets letters pass and one slash, so no charset.
IsMediaType(mediaType) == mediaType.charset = NoCharset

VARIABLES
  app,              \* params, ready, asked, shown, refused, or crashed, which
                    \* stands for all that comes of a write outside of memory
  argument,         \* the arguments taken so far, as commands
  configurations,   \* transformers that an argument has named
  mediatypes,       \* the list
  j,                \* an index into it that getParams leaves from argument to
                    \* argument, -1 before it is set
  shown             \* what parseResponse told

arguments == <<argument, configurations, mediatypes, j>>

AppInit ==
  /\ app = "params" /\ argument = << >> /\ configurations = {}
  /\ mediatypes = << >> /\ j = -1 /\ shown = << >>

-----------------------------------------------------------------------------

Metrics == {argument[i].type : i \in {k \in DOMAIN argument :
                                        argument[k].kind = "METRIC"}}

Configured(mediaType) == \E i \in DOMAIN mediatypes : mediatypes[i] = mediaType

\* Whether a transformer was given before: behind the array anything is read.
Given(type) == IF type \in Beyond THEN BOOLEAN ELSE {type \in configurations}

\* -m1 to -m4.
GetMetric(type) ==
  /\ app = "params" /\ Len(argument) < MaxArguments
  /\ IF type \in Metrics
     THEN app' = "refused" /\ UNCHANGED argument
     ELSE /\ argument' = Append(argument, [kind |-> "METRIC", type |-> type])
          /\ UNCHANGED app
  /\ UNCHANGED <<configurations, mediatypes, j, shown, vars>>

\* strcpy to the end of the list, or beyond its memory.
Keep(mediaType) ==
  /\ mediatypes' = Append(mediatypes, mediaType)
  /\ IF Len(mediatypes) < MEDIATYPES THEN UNCHANGED app ELSE app' = "crashed"

\* Whether strcmp finds a media type at j.  Before j is set it is anything.
FoundAtJ(mediaType) ==
  IF j = -1 THEN {FALSE, Configured(mediaType)}
  ELSE {mediatypes[j + 1] = mediaType}

\* The first argument for a transformer: the media type is added to the list
\* unless it is found at j, which an earlier argument has left.  Without such
\* an argument strcmp may read outside of memory, if the list makes it read,
\* and for a transformer beyond the array another variable is written over.
GetFirst(type, mediaType) ==
  /\ configurations' = configurations \union {type}
  /\ UNCHANGED j
  /\ \/ \E found \in FoundAtJ(mediaType) :
          IF found THEN UNCHANGED <<mediatypes, app>> ELSE Keep(mediaType)
     \/ /\ (mediatypes # << >> /\ j = -1) \/ type \in Beyond
        /\ app' = "crashed" /\ UNCHANGED mediatypes

\* A further one for the same transformer.
GetFurther(mediaType) ==
  /\ j' = Len(mediatypes)
  /\ Keep(mediaType)
  /\ UNCHANGED configurations

\* -c0 to -c4 and a media type, which is refused if it is none, or if the
\* transformer has been given before and the media type too.
GetConfiguration(type, mediaType) ==
  /\ app = "params" /\ Len(argument) < MaxArguments
  /\ \E given \in Given(type) :
       IF IsMediaType(mediaType) /\ ~(given /\ Configured(mediaType))
       THEN /\ IF given THEN GetFurther(mediaType) ELSE GetFirst(type, mediaType)
            /\ argument' = Append(argument, [kind |-> "CONFIGURATION",
                                    type |-> type, mediaType |-> mediaType])
       ELSE app' = "refused" /\ UNCHANGED arguments
  /\ UNCHANGED <<shown, vars>>

\* main connects, and sends the request in one piece.
Connect(a) ==
  /\ app = "params" /\ argument # << >>
  /\ app' = "ready"
  /\ SctpSocksAccept(a)
  /\ UNCHANGED <<arguments, shown>>

Send(a, password) ==
  /\ app = "ready"
  /\ app' = "asked"
  /\ SctpRequestRead(a, [password |-> password, commands |-> argument])
  /\ UNCHANGED <<arguments, shown>>

\* Mutant of Place: every answer takes a media type from the list.
PlaceEach(answers, i) == i

\* Configurations take the media types of the list one after the other: which
\* of the list is for the one at i.
Place(answers, i) == Cardinality({k \in 1..i : answers[k].kind = "CONFIGURATION"})

\* One answer, and for a configuration the media type, where nothing follows
\* the last of the list.
Tell(answers, i) ==
  IF answers[i].kind = "CONFIGURATION"
  THEN [kind |-> "CONFIGURATION", type |-> answers[i].type,
        mediaType |-> {mediatypes[k] : k \in {Place(answers, i)} \intersect
                                               DOMAIN mediatypes}]
  ELSE answers[i]

\* parseResponse, of as many answers as the one recv brought.
ParseResponse(answers) == [i \in DOMAIN answers |-> Tell(answers, i)]

\* A configuration of which recv brought the first byte alone: the zero behind
\* it is told as the transformer.
CutOff == [kind |-> "CONFIGURATION", type |-> "cut"]

\* What the one recv may bring: some of the answers, as far as they are told,
\* the last of them perhaps cut off, or all and what was sent behind them.
Brought(sent) ==
  {SubSeq(sent.answers, 1, n) : n \in 0..Len(sent.answers)}
  \union {Append(SubSeq(sent.answers, 1, i - 1), CutOff) :
            i \in {k \in DOMAIN sent.answers :
                     sent.answers[k].kind = "CONFIGURATION"}}
  \union {sent.answers \o strays :
            strays \in IF sent.tail = "junk" THEN Strays ELSE {}}

Show(a) ==
  /\ app = "asked"
  /\ app' = "shown"
  /\ \E answers \in Brought(reply[a]) : shown' = ParseResponse(answers)
  /\ SctpRequestWrite(a)
  /\ UNCHANGED arguments

AppNext ==
  \/ \E type \in Metric : GetMetric(type)
  \/ \E type \in Transformer \union {NoTransformer}, mediaType \in Asked :
       GetConfiguration(type, mediaType)
  \/ \E a \in Admin :
       \/ Connect(a)
       \/ \E password \in BOOLEAN : Send(a, password)
       \/ Show(a)

AppVars == <<app, arguments, shown, vars>>

AppSpec == AppInit /\ AdminInit /\ [][AppNext]_AppVars

-----------------------------------------------------------------------------

\* No media type is configured twice by the first i commands.
Plain(commands, i) ==
  \A k, l \in 1..i :
    /\ k # l
    /\ commands[k].kind = "CONFIGURATION" /\ commands[l].kind = "CONFIGURATION"
    => commands[k].mediaType # commands[l].mediaType

\* The media types configured by argument i and by those behind it.
ConfiguredFrom(i) ==
  {argument[k].mediaType : k \in {l \in i..Len(argument) :
                                     argument[l].kind = "CONFIGURATION"}}

\* What is told for argument i: the metric or the transformer it named, or a
\* transformer that recv cut off, with its media type, which the answer does
\* not repeat.  Where a media type was given twice the list may have run ahead
\* of the answers, to one that was given later, or to its end.
ToldFor(i) ==
  /\ shown[i].kind = argument[i].kind
  /\ shown[i].type = argument[i].type \/ (shown[i].type = "cut" /\ i = Len(shown))
  /\ argument[i].kind = "CONFIGURATION" =>
       /\ Plain(argument, i) => shown[i].mediaType = {argument[i].mediaType}
       /\ shown[i].mediaType \subseteq ConfiguredFrom(i)

\* Unless the password is said to be wrong, administrators are told what they
\* asked for, argument by argument, as far as recv brought the answers.  More
\* than they asked for can be told only behind a configuration: parseResponse
\* reads on in what the server sends behind a reply that no metric ends.
ToldWhatWasAsked ==
  app = "shown" /\ ~(shown # << >> /\ shown[1].kind = "PASSWORD") =>
    /\ \A i \in 1..Len(shown) : i <= Len(argument) => ToldFor(i)
    /\ Len(shown) > Len(argument) => Last(argument).kind = "CONFIGURATION"
=============================================================================
