SPECIFICATION Spec
CONSTANTS
  Byte = {0, 1}
  Limit = 5
  Name = {"host", "content-length", "cookie", "h-other", "t-other", "content-type", "content-encoding",
          "transfer-encoding", "date"}
  First <- Initial
  Text = {"x", "h"}
  Number = {"0", "100", "200", "8080"}
  ValueOf <- Worth
  MaxWords = 2
  Method = {"GET", "POST", "CONNECT"}
  SMALLER_BUFF_SIZE = 2
  Status = {"100", "200"}
  Compression = {"gzip", "deflate"}
  Cos <- Units
  Base <- Bases
  Charset = {"c"}
  Transformer = {"ECHO", "LEET"}
  BLOCK = 2
  Admin = {a1, a2}
  Request <- Requests
  Amount = {1}
  MaxOpen = 2
  MaxLogged = 2
  Asked <- AskedFor
  MaxArguments = 3
  MEDIATYPES = 2
  Beyond = {"LEET"}
  Strays <- Found
  FD = {1, 2, 3}
  REQUEST_LENGTH = 2
  MaxExchange = 2
  MaxFd = 10
  MaxAccepted = 3
  MediaActive = {1, 2}
INVARIANTS
  TypeOK
  PointersOrdered
  EmptyIsFree
  RequestHeadIsFound
  RequestIsRead
  ResponseHeadIsFound
  ResponseIsRead
  CountersAreExact
  RepliesAreTrue
  ConfigurationStands
  OneEntryEach
  TableFits
  ToldWhatWasAsked
  LoggedAsItWas
  OwnNumbers
  BlockedOnlyThen
  NoCircle
PROPERTIES
  ImplementsQueue
  SessionsEnd
CHECK_DEADLOCK FALSE
