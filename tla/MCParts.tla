------------------------------- MODULE MCParts -------------------------------
(* Parts that share nothing: the byte buffer, the two parsers, the           *)
(* administration, with and without its client, the access log, and the      *)
(* descriptors of several exchanges.  A behaviour exercises one of them.     *)
EXTENDS Buffer, RequestParser, ResponseParser, AdminClient, AccessLog,
        Descriptors

\* Heads of requests and of responses, of any number of fields.
Worth == [n \in Number |-> CASE n = "100" -> 100 [] n = "200" -> 200
                             [] n = "8080" -> 8080 [] n = "0" -> 0]

Initial == [n \in Name |-> CASE n \in {"host", "h-other"} -> "h"
                            [] n \in {"transfer-encoding", "t-other"} -> "t"
                            [] n = "date" -> "d"
                            [] OTHER -> "c"]

\* Two sessions at once, a table that outgrows its first block, and pieces
\* smaller than the unit of a counter.
Units == [m \in {"TRAFFIC", "CONNECTIONS", "MAX_CONNECTIONS", "CLIENTS"} |->
            IF m = "TRAFFIC" THEN 2 ELSE 1]

\* The second base begins with the first.
Bases == {<<"a">>, <<"a", "b">>}

Counters(types) ==
  [password |-> TRUE,
   commands |-> [i \in DOMAIN types |-> [kind |-> "METRIC", type |-> types[i]]]]

Configure(mt, ty) == [kind |-> "CONFIGURATION", mediaType |-> mt, type |-> ty]

\* A change, two changes and a metric, the two counters of exchanges, or a
\* wrong password. Entries are made for one transformer only: no operation
\* looks at the one of another entry, and the invariant tries both on every
\* table.
Requests ==
  {[password |-> FALSE, commands |-> << >>],
   Counters(<<"CONNECTIONS", "MAX_CONNECTIONS">>),
   [password |-> TRUE,
    commands |-> <<Configure([base |-> <<"a">>, charset |-> "c"], "LEET"),
                   Configure([base |-> <<"a">>, charset |-> NoCharset], "LEET"),
                   [kind |-> "METRIC", type |-> "TRAFFIC"]>>]}
  \union {[password |-> TRUE, commands |-> <<Configure(mt, ty)>>] :
            mt \in MediaType \ {[base |-> <<"a", "b">>, charset |-> "c"]},
            ty \in {"LEET", NoTransformer}}

\* Two media types that the client lets pass, and one that it does not.
AskedFor == [base : Bases, charset : {NoCharset}]
              \union {[base |-> <<"a">>, charset |-> "c"]}

\* Nothing is told of what is behind a reply, or answers are found in it.
Found ==
  {<< >>, <<[kind |-> "CONFIGURATION", type |-> "stray"]>>,
   <<[kind |-> "METRIC", type |-> "stray"], [kind |-> "PASSWORD"]>>}

VARIABLE part  \* what this behaviour exercises

Parsers == <<parser, client, sparser, server>>
Tables == <<logging, descriptors>>

\* The memory of a buffer starts with anything in it, where it is exercised.
Init ==
  /\ part \in {"buffer", "request", "response", "administration", "client",
               "log", "descriptors"}
  /\ BufferInit /\ (part # "buffer" => \A c \in Cell : mem[c] = 0)
  /\ RequestInit /\ ResponseInit /\ AdminInit /\ AppInit
  /\ LogInit /\ DescriptorsInit

Next ==
  /\ UNCHANGED part
  /\ \/ /\ part = "buffer" /\ BufferNext
        /\ UNCHANGED <<Parsers, AppVars, Tables>>
     \/ /\ part = "request" /\ RequestNext
        /\ UNCHANGED <<sparser, server, bufferVars, AppVars, Tables>>
     \/ /\ part = "response" /\ ResponseNext
        /\ UNCHANGED <<parser, client, bufferVars, AppVars, Tables>>
     \/ /\ part = "administration" /\ AdminNext
        /\ UNCHANGED <<app, arguments, shown, bufferVars, Parsers, Tables>>
     \/ /\ part = "client" /\ AppNext
        /\ UNCHANGED <<bufferVars, Parsers, Tables>>
     \/ /\ part = "log" /\ LogNext
        /\ UNCHANGED <<bufferVars, Parsers, AppVars, descriptors>>
     \/ /\ part = "descriptors" /\ DescriptorsNext
        /\ UNCHANGED <<bufferVars, Parsers, AppVars, logging>>

Spec ==
  Init /\ [][Next]_<<part, bufferVars, Parsers, AppVars, Tables>>
    /\ AdminFairness
=============================================================================
