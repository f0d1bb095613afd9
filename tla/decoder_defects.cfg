\* An op completed in the same read as the one before it, an INFO line
\* without CRLF, a header line with an empty value, an -ERR whose message is
\* a lone quote.  Each alone is MCCodec's StallScripts, LongScripts,
\* EmptyValueScripts or LoneQuoteScripts.  Only the read half runs.
CONSTANTS
  Scripts <- DefectScripts
  MaxRead = 6
  MaxHeadLen = 12
  Width = 16
  OverflowChecks = TRUE
  MaxOps = 0
  SinkCap = 2
  MaxPings = 1
  FrameScripts <- MCFrameScripts
  ChanCap = 1
  RecvBuf = 1
  EnqueueLimit = 1
  SockCap = 1
  Delayed = FALSE
  DebugAsserts = FALSE
  MaxStalls = 0
  MaxDigits = 0
  MaxFieldsLen = 0
  MaxLinesLen = 0
  MaxSubjectLen = 0
  HNames <- MCHNames
  HValues <- MCHValues
  Fold <- MCFold
  ByteRank <- MCByteRank
  MaxLen = 0
  Threshold = 1
  Payloads = {}
  MaxEncOps = 0
  Total = 0
  Limit = 1
  MaxErrors = 0
  Msgs = 0
  MaxMsgs = 0
  MaxBatches = 1
  MaxFaults = 0
  Harnesses = {"read"}
SPECIFICATION MCSpec
INVARIANT ReadsOnlyWhenNeeded
