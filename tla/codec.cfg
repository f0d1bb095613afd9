\* Read half: ten server scripts split into reads of up to 6 bytes.
\* Write half: three commands through a channel of 2, batches of 2, an
\* encoder limit of 2 ops, a socket buffering 2, a delayed flusher, two
\* congestions of the kernel, release build.
\* Operators: five digits pass 2^16, thirteen bytes hold seven fields, four
\* bytes make a '>' before another token,
\* three make a queue group of any byte class; server URLs of every
\* scheme, userinfo of up to two bytes or an escape, three hosts, six ports.  Headers: names n, N (the same
\* folded name) and x, three values, at most three held at once.
\* Encode: three ops, payloads of 0, 1 and 2 bytes with the flattening
\* threshold at 2, on a vectored and a plain socket.
\* List: three items, two to a page, one failed request.
\* Ws: the write half's bounds, a WebSocketStream buffering 2 frames and
\* one PING.
\* Wsread: three frame sequences (MCFrameScripts).
\* Batch: three messages, max_msgs 2, four batches, two faults.
CONSTANTS
  Scripts <- LiveRefineScripts
  MaxRead = 6
  MaxHeadLen = 12
  Width = 16
  OverflowChecks = TRUE
  MaxOps = 3
  SinkCap = 2
  MaxPings = 1
  FrameScripts <- MCFrameScripts
  ChanCap = 2
  RecvBuf = 2
  EnqueueLimit = 2
  SockCap = 2
  Delayed = TRUE
  DebugAsserts = FALSE
  MaxStalls = 2
  MaxDigits = 5
  MaxFieldsLen = 13
  MaxLinesLen = 6
  MaxSubjectLen = 4
  HNames <- MCHNames
  HValues <- MCHValues
  Fold <- MCFold
  ByteRank <- MCByteRank
  MaxLen = 3
  Threshold = 2
  Payloads <- MCPayloads
  MaxEncOps = 3
  Total = 3
  Limit = 2
  MaxErrors = 1
  Msgs = 3
  MaxMsgs = 2
  MaxBatches = 4
  MaxFaults = 2
  Harnesses = {"read", "write", "operators", "headers", "encode", "list", "batch", "ws", "wsread"}
SPECIFICATION MCFairSpec
INVARIANTS
  TypeOK
  FrameDecodesEachOp
  FlushTypeOK
  NoLostWakeup
  FlushPendingJustified
  ParseUintMatchesDecimal
  SplitSpacesYieldsFields
  LinesIterRoundTrips
  SubjectValidationMatchesSpec
  SubLineFramed
  ServerAddrRoundTrips
  LenCountsValues
  HeadersRoundTrip
  WriteBufLenExact
  EveryItemListed
  WsReadReturnsFramedOps
  NoMessageLost
PROPERTIES
  ImplementsOpStream
  DeliversArrivedOps
  EveryOpDelivered
  ImplementsMultiMap
  ImplementsByteQueue
  ListingEnds
  EveryMessageConsumed
  WsEveryOpDelivered
