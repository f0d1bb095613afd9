\* A subscription with a close_after limit is replayed after a reconnect;
\* the replayed UNSUB is acknowledged too.
CONSTANTS
  SubIds = {2}
  ChanCap = 4
  SubCap = 1
  WireCap = 3
  MaxRemaining = 2
  MaxCloseAfter = 1
  MaxMsgs = 1
  MaxPubs = 0
  MaxPings = 0
  MaxServerOps = 0
  MaxFaults = 1
  AllowClose = FALSE
  Requests = {}
SPECIFICATION Spec
INVARIANT
  InFlightMatchesWire
