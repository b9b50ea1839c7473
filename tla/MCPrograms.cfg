SPECIFICATION Spec
CONSTANTS
  Lessons = {1, 2, 3, 4, 5, 6, 8, 9, 10, 11, 12, 14, 53}
  Me = Me  Peers = {p1, p2}  Else = Else  Zero = Zero
  NumMbufs = 4  RxDescs = 2  RingSize = 1  KniSize = 2  MaxFrames <- MCMaxFrames  MaxTimers = 1
  Names <- MCNames  Zone <- MCZone  Types = {"A", "TXT", "MX"}
  MaxQuestions = 2  MaxQueries = 2
  Ips = {a, b, c}  None = None
  Window = 3  Tresh = 1  MaxPackets = 7
  Cells = {c1, c2, c3}  MaxUpdates = 3
  Mtus = {1, 2}  DefaultMtu = 1  MaxRequests = 3
  Ctrlrs = {k1, k2}  MaxNs = 2
  Clients = {s1, s2}  BufferSize = 2  MaxSend <- MCMaxSend
  RxSize = 3  MaxSent = 4
INVARIANTS AnswersRight MbufsAccounted ReplyMatches SearchRight VerdictOnLast
PROPERTIES PointsWhole EchoesLast RequestsServed BlocksReadBack ServerKeepsUp
CHECK_DEADLOCK FALSE
