--------------------------- MODULE AccessLogProofs ---------------------------
(***************************************************************************)
(* What module AccessLog says of the log, for any descriptors, any length   *)
(* of a request line and any number of exchanges.                           *)
(***************************************************************************)
EXTENDS AccessLog, TLAPS

(***************************************************************************)
(* The inductive invariant.                                                 *)
(***************************************************************************)

Record == [client : Nat, origin : Nat, status : Nat, stop : Nat,
           request : [1..REQUEST_LENGTH + 1 -> Nat]]

AClient == [kind : {"client"}, exchange : Nat, size : 1..REQUEST_LENGTH + 1,
            read : Nat, origin : FD \union {0}, answered : BOOLEAN,
            stopped : BOOLEAN]

LogType ==
  /\ proxy_data \in [FD -> Record]
  /\ holder \in [FD -> {Nobody} \union AClient \union {OriginOf(fd) : fd \in FD}]
  /\ accepted \in Nat

\* What the record of a descriptor has of the client that has it now.
Recorded(line, x) ==
  /\ line.client = x.exchange
  /\ x.origin # 0 => line.origin = x.exchange
  /\ x.answered => line.status = x.exchange
  /\ x.stopped => line.stop = x.exchange
  /\ \A i \in 1..x.read : line.request[i] = x.exchange

\* The records of all clients, the line written last, and how clients and
\* origins know each other.
RecordsStand ==
  /\ \A fd \in FD : IsClient(fd) =>
       /\ Recorded(proxy_data[fd], holder[fd])
       /\ holder[fd].read <= holder[fd].size
  /\ entry # << >> => Recorded(entry[1], entry[2])

Acquainted ==
  \A fd \in FD : IsClient(fd) /\ holder[fd].origin # 0 =>
    holder[holder[fd].origin] = OriginOf(fd)

LogInv == LogType /\ RecordsStand /\ Acquainted

-----------------------------------------------------------------------------

\* A descriptor that a client has, and one that nobody has.
LEMMA Holding ==
  ASSUME LogInv, NEW fd \in FD
  PROVE  /\ IsClient(fd) => holder[fd] \in AClient
         /\ holder[fd] = Nobody => ~IsClient(fd)
         /\ \A o \in FD : holder[fd] = OriginOf(o) =>
              ~IsClient(fd) /\ holder[fd] # Nobody /\ holder[fd].client = o
         /\ proxy_data[fd] \in Record
  BY DEF LogInv, LogType, IsClient, Nobody, OriginOf

\* A step that changes the client at one descriptor and its record, and nothing
\* of how clients and origins know each other.
LEMMA OneChanges ==
  ASSUME LogInv, NEW fd \in FD, IsClient(fd), UNCHANGED <<accepted, entry>>,
         NEW x \in AClient, NEW line \in Record, x.origin = holder[fd].origin,
         holder' = [holder EXCEPT ![fd] = x],
         proxy_data' = [proxy_data EXCEPT ![fd] = line],
         Recorded(line, x), x.read <= x.size
  PROVE  LogInv'
<1>1. LogType'
  BY DEF LogInv, LogType
<1>2. /\ holder'[fd] = x /\ proxy_data'[fd] = line
      /\ \A d \in FD \ {fd} : holder'[d] = holder[d] /\ proxy_data'[d] = proxy_data[d]
  BY DEF LogInv, LogType
<1>3. x.kind = "client"
  BY DEF AClient
<1>4. RecordsStand'
  <2>1. ASSUME NEW d \in FD, IsClient(d)'
        PROVE  Recorded(proxy_data'[d], holder'[d]) /\ holder'[d].read <= holder'[d].size
    BY <1>2, <2>1 DEF LogInv, RecordsStand, IsClient
  <2>2. entry' # << >> => Recorded(entry'[1], entry'[2])
    BY DEF LogInv, RecordsStand
  <2>3. QED
    BY <2>1, <2>2 DEF RecordsStand, Recorded
<1>5. Acquainted'
  <2> SUFFICES ASSUME NEW d \in FD, IsClient(d)', holder'[d].origin # 0
               PROVE  holder'[holder'[d].origin] = OriginOf(d)
    BY DEF Acquainted, OriginOf
  <2>1. IsClient(d) /\ holder'[d].origin = holder[d].origin
    BY <1>2 DEF IsClient
  <2>2. holder[holder[d].origin] = OriginOf(d)
    BY <2>1 DEF LogInv, Acquainted
  <2>3. holder[d].origin \in FD
    BY <2>1, Holding DEF AClient
  <2>4. holder[d].origin # fd
    BY <2>2, <2>3, Holding
  <2>5. QED
    BY <1>2, <2>1, <2>2, <2>3, <2>4
<1>6. QED
  BY <1>1, <1>4, <1>5 DEF LogInv

\* No exchange has been logged when the program starts.
LEMMA LogStart == LogInit => LogInv
<1> SUFFICES ASSUME LogInit PROVE LogInv
  OBVIOUS
<1>1. \A fd \in FD : ~IsClient(fd) /\ holder[fd] = Nobody
  BY DEF LogInit, IsClient, Nobody
<1>2. Blank \in [1..REQUEST_LENGTH + 1 -> Nat]
  BY LogAssumption DEF Blank
<1>3. LogType
  BY <1>2 DEF LogInit, LogType, Record
<1>4. QED
  BY <1>1, <1>3 DEF LogInit, LogInv, RecordsStand, Acquainted

\* The next client: its descriptor was nobody's.
LEMMA AcceptStep ==
  ASSUME LogInv, NEW fd \in FD, NEW n \in 1..REQUEST_LENGTH + 1, LogAccept(fd, n)
  PROVE  LogInv'
<1> DEFINE x == Client(accepted', n)
           line == [proxy_data[fd] EXCEPT !.client = accepted']
<1>1. /\ holder[fd] = Nobody /\ accepted' = accepted + 1 /\ UNCHANGED entry
      /\ holder' = [holder EXCEPT ![fd] = x]
      /\ proxy_data' = [proxy_data EXCEPT ![fd] = line]
  BY DEF LogAccept
<1>2. accepted' \in Nat
  BY <1>1 DEF LogInv, LogType
<1>3. x \in AClient /\ x.origin = 0 /\ x.kind = "client"
  BY <1>2 DEF Client, AClient
<1>4. proxy_data[fd] \in Record
  BY Holding
<1>5. line \in Record
  BY <1>2, <1>4 DEF Record
<1>6. Recorded(line, x) /\ x.read <= x.size
  BY <1>2, <1>4 DEF Recorded, Client, Record
<1> HIDE DEF x, line
<1>7. LogType'
  BY <1>1, <1>2, <1>3, <1>5 DEF LogInv, LogType
<1>8. /\ holder'[fd] = x /\ proxy_data'[fd] = line
      /\ \A d \in FD \ {fd} : holder'[d] = holder[d] /\ proxy_data'[d] = proxy_data[d]
  BY <1>1 DEF LogInv, LogType
<1>9. RecordsStand'
  <2>1. ASSUME NEW d \in FD, IsClient(d)'
        PROVE  Recorded(proxy_data'[d], holder'[d]) /\ holder'[d].read <= holder'[d].size
    BY <1>6, <1>8, <2>1 DEF LogInv, RecordsStand, IsClient
  <2>2. entry' # << >> => Recorded(entry'[1], entry'[2])
    BY <1>1 DEF LogInv, RecordsStand
  <2>3. QED
    BY <2>1, <2>2 DEF RecordsStand, Recorded
<1>10. Acquainted'
  <2> SUFFICES ASSUME NEW d \in FD, IsClient(d)', holder'[d].origin # 0
               PROVE  holder'[holder'[d].origin] = OriginOf(d)
    BY DEF Acquainted, OriginOf
  <2>1. d # fd /\ IsClient(d) /\ holder'[d] = holder[d]
    BY <1>3, <1>8 DEF IsClient
  <2>2. holder[holder[d].origin] = OriginOf(d)
    BY <2>1 DEF LogInv, Acquainted
  <2>3. holder[d].origin \in FD
    BY <2>1, Holding DEF AClient
  <2>4. holder[d].origin # fd
    BY <1>1, <2>2, <2>3, Holding
  <2>5. QED
    BY <1>8, <2>1, <2>2, <2>3, <2>4
<1>11. QED
  BY <1>7, <1>9, <1>10 DEF LogInv

\* The request line, letter by letter from its beginning.
LEMMA RequestLineStep ==
  ASSUME LogInv, NEW fd \in FD, NEW n \in 1..REQUEST_LENGTH + 1, LogRequest(fd, n)
  PROVE  LogInv'
<1>1. IsClient(fd) /\ holder[fd] \in AClient /\ proxy_data[fd] \in Record
  BY Holding DEF LogRequest
<1>2. PICK ended \in BOOLEAN :
        proxy_data' = [proxy_data EXCEPT ![fd].request =
                         RegisterRequest(@, holder[fd].exchange, n, ended)]
  <2>1. (n = holder[fd].size) \in BOOLEAN
    OBVIOUS
  <2>2. QED
    BY <2>1 DEF LogRequest
<1> DEFINE request == RegisterRequest(proxy_data[fd].request, holder[fd].exchange,
                                      n, ended)
           x == [holder[fd] EXCEPT !.read = n]
           line == [proxy_data[fd] EXCEPT !.request = request]
<1>3. /\ holder' = [holder EXCEPT ![fd] = x]
      /\ proxy_data' = [proxy_data EXCEPT ![fd] = line]
      /\ n <= holder[fd].size /\ UNCHANGED <<accepted, entry>>
  BY <1>2 DEF LogRequest
<1>4. /\ request \in [1..REQUEST_LENGTH + 1 -> Nat]
      /\ \A i \in 1..n : request[i] = holder[fd].exchange
  <2>1. /\ holder[fd].exchange \in Nat /\ 0 \in Nat
        /\ proxy_data[fd].request \in [1..REQUEST_LENGTH + 1 -> Nat]
    BY <1>1 DEF Record, AClient
  <2>2. request \in [1..REQUEST_LENGTH + 1 -> Nat]
    BY <2>1 DEF RegisterRequest
  <2>3. \A i \in 1..n : i \in 1..REQUEST_LENGTH + 1 /\ i <= n
    BY LogAssumption
  <2>4. \A i \in 1..n : request[i] = holder[fd].exchange
    BY <2>3 DEF RegisterRequest
  <2>5. QED
    BY <2>2, <2>4
<1> HIDE DEF request
<1>5. x \in AClient /\ x.origin = holder[fd].origin /\ x.read <= x.size
  BY <1>1, <1>3 DEF AClient
<1>6. line \in Record
  BY <1>1, <1>4 DEF Record
<1>7. Recorded(line, x)
  <2>1. Recorded(proxy_data[fd], holder[fd])
    BY <1>1 DEF LogInv, RecordsStand
  <2>2. QED
    BY <1>1, <1>4, <2>1 DEF Recorded, Record, AClient
<1> HIDE DEF x, line
<1>8. QED
  BY <1>1, <1>3, <1>5, <1>6, <1>7, OneChanges

\* The status of a request the proxy answers itself, or of an origin's answer,
\* and the end of an answer; the origin finds the record of its client.
LEMMA StatusLineStep ==
  ASSUME LogInv, NEW fd \in FD, NEW o \in FD,
         LogUnsupported(fd) \/ LogStatus(o, fd) \/ LogStop(o, fd)
  PROVE  LogInv'
<1>1. IsClient(fd) /\ holder[fd] \in AClient /\ proxy_data[fd] \in Record
  BY Holding DEF LogUnsupported, LogStatus, LogStop, Origin
<1>2. Origin(o, fd) => RecordOf(o) = fd
  BY LogAssumption, Holding DEF LogInv, Acquainted, Origin, RecordOf
<1>3. Recorded(proxy_data[fd], holder[fd]) /\ holder[fd].read <= holder[fd].size
  BY <1>1 DEF LogInv, RecordsStand
<1>4. CASE LogUnsupported(fd) \/ LogStatus(o, fd)
  <2> DEFINE x == [holder[fd] EXCEPT !.answered = TRUE]
             line == [proxy_data[fd] EXCEPT !.status = holder[fd].exchange]
  <2>1. /\ holder' = [holder EXCEPT ![fd] = x]
        /\ proxy_data' = [proxy_data EXCEPT ![fd] = line]
        /\ UNCHANGED <<accepted, entry>>
    BY <1>2, <1>4 DEF LogUnsupported, LogStatus
  <2>2. x \in AClient /\ x.origin = holder[fd].origin /\ x.read <= x.size
    BY <1>1, <1>3 DEF AClient
  <2>3. line \in Record
    BY <1>1 DEF Record, AClient
  <2>4. Recorded(line, x)
    BY <1>1, <1>3 DEF Recorded, Record, AClient
  <2> HIDE DEF x, line
  <2>5. QED
    BY <1>1, <2>1, <2>2, <2>3, <2>4, OneChanges
<1>5. CASE LogStop(o, fd)
  <2> DEFINE x == [holder[fd] EXCEPT !.stopped = TRUE]
             line == [proxy_data[fd] EXCEPT !.stop = holder[fd].exchange]
  <2>1. /\ holder' = [holder EXCEPT ![fd] = x]
        /\ proxy_data' = [proxy_data EXCEPT ![fd] = line]
        /\ UNCHANGED <<accepted, entry>>
    BY <1>2, <1>5 DEF LogStop
  <2>2. x \in AClient /\ x.origin = holder[fd].origin /\ x.read <= x.size
    BY <1>1, <1>3 DEF AClient
  <2>3. line \in Record
    BY <1>1 DEF Record, AClient
  <2>4. Recorded(line, x)
    BY <1>1, <1>3 DEF Recorded, Record, AClient
  <2> HIDE DEF x, line
  <2>5. QED
    BY <1>1, <2>1, <2>2, <2>3, <2>4, OneChanges
<1>6. QED
  BY <1>4, <1>5

\* A client's origin is given a descriptor that was nobody's.
LEMMA OriginStep ==
  ASSUME LogInv, NEW fd \in FD, NEW o \in FD, LogOrigin(fd, o)
  PROVE  LogInv'
<1>1. /\ IsClient(fd) /\ holder[fd] \in AClient /\ proxy_data[fd] \in Record
      /\ holder[o] = Nobody /\ o # fd /\ o # 0
  BY Holding, LogAssumption DEF LogOrigin
<1> DEFINE x == [holder[fd] EXCEPT !.origin = o]
           line == [proxy_data[fd] EXCEPT !.origin = holder[fd].exchange]
<1>2. /\ holder' = [holder EXCEPT ![fd] = x, ![o] = OriginOf(fd)]
      /\ proxy_data' = [proxy_data EXCEPT ![fd] = line]
      /\ UNCHANGED <<accepted, entry>>
  BY DEF LogOrigin
<1>3. /\ x \in AClient /\ x.origin = o /\ x.read = holder[fd].read
      /\ x.size = holder[fd].size
  BY <1>1 DEF AClient
<1>4. line \in Record
  BY <1>1 DEF Record, AClient
<1>5. Recorded(line, x) /\ x.read <= x.size
  <2>1. Recorded(proxy_data[fd], holder[fd]) /\ holder[fd].read <= holder[fd].size
    BY <1>1 DEF LogInv, RecordsStand
  <2>2. QED
    BY <1>1, <1>3, <2>1 DEF Recorded, Record, AClient
<1> HIDE DEF x, line
<1>6. LogType'
  BY <1>1, <1>2, <1>3, <1>4 DEF LogInv, LogType
<1>7. /\ holder'[fd] = x /\ proxy_data'[fd] = line /\ holder'[o] = OriginOf(fd)
      /\ \A d \in FD \ {fd, o} : holder'[d] = holder[d]
      /\ \A d \in FD \ {fd} : proxy_data'[d] = proxy_data[d]
  BY <1>1, <1>2 DEF LogInv, LogType
<1>8. OriginOf(fd).kind # "client"
  BY DEF OriginOf
<1>9. RecordsStand'
  <2>1. ASSUME NEW d \in FD, IsClient(d)'
        PROVE  Recorded(proxy_data'[d], holder'[d]) /\ holder'[d].read <= holder'[d].size
    BY <1>5, <1>7, <1>8, <2>1 DEF LogInv, RecordsStand, IsClient
  <2>2. entry' # << >> => Recorded(entry'[1], entry'[2])
    BY <1>2 DEF LogInv, RecordsStand
  <2>3. QED
    BY <2>1, <2>2 DEF RecordsStand, Recorded
<1>10. Acquainted'
  <2> SUFFICES ASSUME NEW d \in FD, IsClient(d)', holder'[d].origin # 0
               PROVE  holder'[holder'[d].origin] = OriginOf(d)
    BY DEF Acquainted, OriginOf
  <2>1. CASE d = fd
    BY <1>3, <1>7, <2>1
  <2>2. CASE d # fd
    <3>1. d # o /\ IsClient(d) /\ holder'[d] = holder[d]
      BY <1>7, <1>8, <2>2 DEF IsClient
    <3>2. holder[holder[d].origin] = OriginOf(d)
      BY <3>1 DEF LogInv, Acquainted
    <3>3. holder[d].origin \in FD
      BY <3>1, Holding DEF AClient
    <3>4. holder[d].origin # fd /\ holder[d].origin # o
      BY <1>1, <3>2, <3>3, Holding
    <3>5. QED
      BY <1>7, <3>1, <3>2, <3>3, <3>4
  <2>3. QED
    BY <2>1, <2>2
<1>11. QED
  BY <1>6, <1>9, <1>10 DEF LogInv

\* The line is written, and the descriptors of client and origin are nobody's.
LEMMA DoneStep ==
  ASSUME LogInv, NEW fd \in FD, LogRequestDone(fd)
  PROVE  LogInv'
<1>1. /\ IsClient(fd) /\ holder[fd] \in AClient
      /\ Recorded(proxy_data[fd], holder[fd])
  BY Holding DEF LogRequestDone, LogInv, RecordsStand
<1>2. /\ entry' = <<proxy_data[fd], holder[fd]>> /\ UNCHANGED <<proxy_data, accepted>>
      /\ holder' = [d \in FD |->
                      IF d \in {fd, holder[fd].origin} THEN Nobody ELSE holder[d]]
  BY DEF LogRequestDone
<1>3. LogType'
  BY <1>2 DEF LogInv, LogType
<1>4. ASSUME NEW d \in FD, IsClient(d)'
      PROVE  /\ d # fd /\ d # holder[fd].origin
             /\ IsClient(d) /\ holder'[d] = holder[d]
  BY <1>2, <1>4 DEF IsClient, Nobody
<1>5. RecordsStand'
  <2>1. ASSUME NEW d \in FD, IsClient(d)'
        PROVE  Recorded(proxy_data'[d], holder'[d]) /\ holder'[d].read <= holder'[d].size
    BY <1>2, <1>4, <2>1 DEF LogInv, RecordsStand
  <2>2. Recorded(entry'[1], entry'[2])
    <3>1. entry'[1] = proxy_data[fd] /\ entry'[2] = holder[fd]
      BY <1>2
    <3>2. QED
      BY <1>1, <3>1
  <2>3. QED
    BY <2>1, <2>2 DEF RecordsStand, Recorded
<1>6. Acquainted'
  <2> SUFFICES ASSUME NEW d \in FD, IsClient(d)', holder'[d].origin # 0
               PROVE  holder'[holder'[d].origin] = OriginOf(d)
    BY DEF Acquainted, OriginOf
  <2>1. IsClient(d) /\ holder'[d] = holder[d] /\ d # fd
    BY <1>4
  <2>2. holder[holder[d].origin] = OriginOf(d)
    BY <2>1 DEF LogInv, Acquainted
  <2>3. holder[d].origin \in FD
    BY <2>1, Holding DEF AClient
  <2>4. holder[d].origin # fd
    BY <1>1, <2>2, <2>3, Holding
  <2>5. holder[d].origin # holder[fd].origin
    <3>1. SUFFICES ASSUME holder[d].origin = holder[fd].origin PROVE FALSE
      OBVIOUS
    <3>2. holder[holder[fd].origin] = OriginOf(fd)
      BY <1>1, <2>1, <3>1 DEF LogInv, Acquainted
    <3>3. OriginOf(fd).client = OriginOf(d).client
      BY <2>2, <3>1, <3>2
    <3>4. QED
      BY <2>1, <3>3 DEF OriginOf
  <2>6. QED
    BY <1>2, <2>1, <2>2, <2>3, <2>4, <2>5
<1>7. QED
  BY <1>3, <1>5, <1>6 DEF LogInv

\* Every step keeps the invariant.
LEMMA LogStep == LogInv /\ [LogNext]_logging => LogInv'
<1> SUFFICES ASSUME LogInv, [LogNext]_logging PROVE LogInv'
  OBVIOUS
<1>1. CASE LogNext
  BY <1>1, AcceptStep, RequestLineStep, StatusLineStep, OriginStep, DoneStep
     DEF LogNext
<1>2. CASE UNCHANGED logging
  BY <1>2 DEF LogInv, LogType, RecordsStand, Acquainted, Recorded, IsClient, logging
<1>3. QED
  BY <1>1, <1>2

\* For any descriptors, lengths of request lines and interleaving of exchanges:
\* the line log_request writes has of its own exchange what that got to, though
\* the record was others' before and origins find it through their client.
THEOREM LogIsTrue == LogSpec => []LoggedAsItWas
<1>1. LogInv => LoggedAsItWas
  BY DEF LogInv, RecordsStand, Recorded, LoggedAsItWas
<1>2. QED
  BY <1>1, LogStart, LogStep, PTL DEF LogSpec
=============================================================================
