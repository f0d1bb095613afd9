\* A multiplexed request with a publish, server PING and INFO, client PINGs
\* up to the unanswered-ping timeout, and fatal errors: the read loop's arms,
\* the multiplexed subscription's lazy SUB, a reply racing the response
\* timeout and the future's drop (into a full channel: failed_unsubscribe),
\* and the map dropped by a reconnect.
CONSTANTS
  SubIds = {}
  ChanCap = 2
  SubCap = 1
  WireCap = 3
  MaxRemaining = 0
  MaxCloseAfter = 0
  MaxMsgs = 0
  MaxPubs = 1
  MaxPings = 3
  MaxServerOps = 1
  MaxFaults = 1
  AllowClose = FALSE
  Requests = {r1}
SPECIFICATION Spec
INVARIANTS
  TypeOK
  InFlightMatchesWire
