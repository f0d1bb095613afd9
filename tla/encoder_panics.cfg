\* A PING then a PUB whose payload reaches the flattening threshold: the
\* payload is a chunk of write_buf behind the flattened PING and PUB line,
\* and a write of anything but exactly the front chunk panics in
\* BufList::advance.  Only the encoder runs.
CONSTANTS
  Scripts <- DefectScripts
  MaxRead = 6
  MaxHeadLen = 12
  Width = 16
  OverflowChecks = TRUE
  MaxOps = 0
  SinkCap = 2
  MaxPings = 1
  FrameScripts <- MCFrameScripts
  ChanCap = 1
  RecvBuf = 1
  EnqueueLimit = 1
  SockCap = 1
  Delayed = FALSE
  DebugAsserts = FALSE
  MaxStalls = 0
  MaxDigits = 0
  MaxFieldsLen = 0
  MaxLinesLen = 0
  MaxSubjectLen = 0
  HNames <- MCHNames
  HValues <- MCHValues
  Fold <- MCFold
  ByteRank <- MCByteRank
  MaxLen = 0
  Threshold = 2
  Payloads <- MCPayloads
  MaxEncOps = 2
  Total = 0
  Limit = 1
  MaxErrors = 0
  Msgs = 0
  MaxMsgs = 0
  MaxBatches = 1
  MaxFaults = 0
  Harnesses = {"encode"}
SPECIFICATION MCSpec
INVARIANT AdvanceNeverPanics
