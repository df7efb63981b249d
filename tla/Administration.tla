--------------------------- MODULE Administration ---------------------------
(***************************************************************************)
(* sctpRequest.c: administrators who read the metrics and change the        *)
(* registry of transformations in sessions of one request and one reply,    *)
(* while exchanges come and go and log what they do.  One thread runs all   *)
(* handlers, so an action is a handler.                                     *)
(***************************************************************************)
EXTENDS Metrics, Registry, FiniteSets

CONSTANTS Admin,      \* sessions that may be open at once
          Request,    \* requests of administrators
          Amount,     \* sizes of what an exchange moves at a time
          MaxOpen,    \* bound on the exchanges at one time
          MaxLogged   \* bound on what is logged, bytes and exchanges

ASSUME AmountAssumption == Amount \subseteq Nat

\* A command asks for a metric or sets the transformer of a media type.
Order ==
  [kind : {"METRIC"}, type : Metric] \union
  [kind : {"CONFIGURATION"}, mediaType : MediaType,
   type : Transformer \union {NoTransformer}]

ASSUME RequestAssumption ==
  Request \subseteq [password : BOOLEAN, commands : Seq(Order)]

VARIABLES
  metrics, registry,
  sst, interest,       \* state and interest of each session, "closed" if none
  reply,               \* write_buffer of each session
  logged, open, peak   \* what was logged, exchanges now and at most

vars == <<metrics, registry, sst, interest, reply, logged, open, peak>>
exchanges == <<metrics, logged, open, peak>>

NoReply == [answers |-> << >>, tail |-> "clean"]

AdminInit ==
  /\ metrics = MetricsStart /\ registry = RegistryStart
  /\ sst = [a \in Admin |-> "closed"]
  /\ interest = [a \in Admin |-> "OP_NOOP"]
  /\ reply = [a \in Admin |-> NoReply]
  /\ logged = [m \in Metric |-> 0] /\ open = 0 /\ peak = 0

-----------------------------------------------------------------------------

\* What an exchange does to the metrics: it is accepted, moves bytes, and is
\* done (passive.c, origin.c).
SocksPassiveAccept ==
  /\ open < MaxOpen
  /\ open' = open + 1
  /\ peak' = IF peak < open' THEN open' ELSE peak
  /\ metrics' = AddClient(metrics)
  /\ UNCHANGED <<registry, sst, interest, reply, logged>>

Transferred(n) ==
  /\ open > 0
  /\ logged["TRAFFIC"] + logged["CLIENTS"] + n <= MaxLogged
  /\ logged' = [logged EXCEPT !["TRAFFIC"] = @ + n]
  /\ metrics' = LogMetric(metrics, "TRAFFIC", n)
  /\ UNCHANGED <<registry, sst, interest, reply, open, peak>>

ClientDone ==
  /\ open > 0
  /\ logged["TRAFFIC"] + logged["CLIENTS"] < MaxLogged
  /\ logged' = [logged EXCEPT !["CLIENTS"] = @ + 1]
  /\ open' = open - 1
  /\ metrics' = RemoveClient(LogMetric(metrics, "CLIENTS", 1))
  /\ UNCHANGED <<registry, sst, interest, reply, peak>>

-----------------------------------------------------------------------------

\* One command, on the registry and the reply made so far.
Command(done, command) ==
  CASE command.kind = "METRIC" ->
         [done EXCEPT !.answers = Append(@,
            [kind |-> "METRIC", type |-> command.type,
             value |-> metrics[command.type].round])]
    [] command.kind = "CONFIGURATION" ->
         [registry |->
            IF command.type = NoTransformer
            THEN UnregisterTransformation(done.registry, command.mediaType)
            ELSE RegisterTransformation(done.registry, command.mediaType,
                                        command.type),
          answers |-> Append(done.answers,
                             [kind |-> "CONFIGURATION", type |-> command.type])]

\* sctp_request_parser: nothing is done for a wrong password.
SctpRequestParser(request) ==
  LET after[k \in 0..Len(request.commands)] ==
        IF k = 0 THEN [registry |-> registry, answers |-> << >>]
        ELSE Command(after[k - 1], request.commands[k]) IN
  IF request.password
  THEN after[Len(request.commands)]
  ELSE [registry |-> registry, answers |-> <<[kind |-> "PASSWORD"]>>]

\* Only a metric puts a zero behind itself: what is sent after any other end
\* of a reply is what the memory held.
Tails(answers) ==
  IF answers # << >> /\ Last(answers).kind = "METRIC"
  THEN {"clean"} ELSE {"clean", "junk"}

\* sctp_socks_accept.
SctpSocksAccept(a) ==
  /\ sst[a] = "closed"
  /\ sst' = [sst EXCEPT ![a] = "SCTP_READ"]
  /\ interest' = [interest EXCEPT ![a] = "OP_READ"]
  /\ UNCHANGED <<registry, reply, exchanges>>

\* sctp_client_done: the descriptor is closed and its buffers forgotten.
SctpClientDone(a) ==
  /\ sst' = [sst EXCEPT ![a] = "closed"]
  /\ interest' = [interest EXCEPT ![a] = "OP_NOOP"]
  /\ reply' = [reply EXCEPT ![a] = NoReply]

\* Mutant of SctpRequestRead: the reply waits for something to read.
SctpRequestReadWaits(a, request) ==
  /\ sst[a] = "SCTP_READ" /\ interest[a] = "OP_READ"
  /\ LET done == SctpRequestParser(request) IN
     /\ registry' = done.registry
     /\ \E tail \in Tails(done.answers) :
          reply' = [reply EXCEPT ![a] = [answers |-> done.answers, tail |-> tail]]
  /\ sst' = [sst EXCEPT ![a] = "SCTP_WRITE"]
  /\ UNCHANGED <<interest, exchanges>>

\* sctp_request_read.
SctpRequestRead(a, request) ==
  /\ sst[a] = "SCTP_READ" /\ interest[a] = "OP_READ"
  /\ LET done == SctpRequestParser(request) IN
     /\ registry' = done.registry
     /\ \E tail \in Tails(done.answers) :
          reply' = [reply EXCEPT ![a] = [answers |-> done.answers, tail |-> tail]]
  /\ sst' = [sst EXCEPT ![a] = "SCTP_WRITE"]
  /\ interest' = [interest EXCEPT ![a] = "OP_WRITE"]
  /\ UNCHANGED exchanges

\* recv fails, or the administrator is gone.
SctpRequestReadFails(a) ==
  /\ sst[a] = "SCTP_READ" /\ interest[a] = "OP_READ"
  /\ SctpClientDone(a)
  /\ UNCHANGED <<registry, exchanges>>

\* sctp_request_write: whatever send took, the session is over.
SctpRequestWrite(a) ==
  /\ sst[a] = "SCTP_WRITE" /\ interest[a] = "OP_WRITE"
  /\ SctpClientDone(a)
  /\ UNCHANGED <<registry, exchanges>>

AdminNext ==
  \/ SocksPassiveAccept
  \/ \E n \in Amount : Transferred(n)
  \/ ClientDone
  \/ \E a \in Admin :
       \/ SctpSocksAccept(a)
       \/ \E request \in Request : SctpRequestRead(a, request)
       \/ SctpRequestReadFails(a)
       \/ SctpRequestWrite(a)

\* A socket with room is reported writable, and its handler is run.
AdminFairness == \A a \in Admin : WF_vars(SctpRequestWrite(a))

AdminSpec == AdminInit /\ [][AdminNext]_vars /\ AdminFairness

-----------------------------------------------------------------------------

\* Nothing logged is lost in the rounding, in however small pieces it comes,
\* and the two counters of exchanges are those of the exchanges.
CountersAreExact ==
  /\ \A m \in {"TRAFFIC", "CLIENTS"} :
       /\ metrics[m].carry < Cos[m]
       /\ metrics[m].round * Cos[m] + metrics[m].carry = logged[m]
  /\ metrics["CONNECTIONS"].round = open
  /\ metrics["MAX_CONNECTIONS"].round = peak

\* A reply that is on its way shows no more than has happened, and in one
\* reply no more exchanges at one time than the greatest number of them.
RepliesAreTrue ==
  \A a \in Admin :
    LET answers == reply[a].answers
        Shown(type) ==
          {answers[i].value : i \in
             {j \in DOMAIN answers :
                answers[j].kind = "METRIC" /\ answers[j].type = type}} IN
    /\ \A m \in Metric \ {"CONNECTIONS"} :
         \A value \in Shown(m) : value <= metrics[m].round
    /\ \A now \in Shown("CONNECTIONS") : \A most \in Shown("MAX_CONNECTIONS") :
         now <= most

\* In every table that can come about: a registration takes effect on the type
\* it names, and an unregistration takes that type, no other, out of the table.
\* A type that is the beginning of a registered one would be found in its
\* place, so it must never come to stand behind it.
ConfigurationStands ==
  \A mediaType \in MediaType :
    /\ \A type \in Transformer :
         TypeOf(RegisterTransformation(registry, mediaType, type), mediaType) = type
    /\ mediaType \in Registered(registry) =>
         Registered(UnregisterTransformation(registry, mediaType))
           = Registered(registry) \ {mediaType}

\* No media type has two entries, of which only the first would count.
OneEntryEach == Cardinality(Registered(registry)) = Len(registry.entries)

\* register_transformation writes inside the memory of the table.
TableFits == Len(registry.entries) <= registry.size

\* Whoever sent a request is answered and let go.
SessionsEnd == \A a \in Admin : sst[a] = "SCTP_WRITE" ~> sst[a] = "closed"
=============================================================================
