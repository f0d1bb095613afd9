\* Happy Eyeballs over three resolver answers, then the handshake for every
\* scheme, host kind, URL credential, caller auth method and zstd flag.
CONSTANTS
  Addrs <- MCAddrs
  Family <- MCFamily
  Resolutions <- MCResolutions
  Addrs0 <- MCAddrs0
  None = None
  AuthArgs = {None, "Creds"}
  MaxLoopReads = 2
SPECIFICATION MCFairSpec
INVARIANTS
  AttemptsInterleaved
  ConnectTcpResult
  WireAsNegotiated
PROPERTIES
  TriesEveryAddress
