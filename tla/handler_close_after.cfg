\* One subscription closed after up to two messages while three are
\* delivered, with room in the channel: the handler's countdown against the
\* server's UNSUB max, and the release of a dropped subscription.
CONSTANTS
  SubIds = {2}
  ChanCap = 4
  SubCap = 1
  WireCap = 3
  MaxRemaining = 2
  MaxCloseAfter = 2
  MaxMsgs = 3
  MaxPubs = 0
  MaxPings = 0
  MaxServerOps = 0
  MaxFaults = 0
  AllowClose = FALSE
  Requests = {}
SPECIFICATION FairSpec
INVARIANTS
  InFlightMatchesWire
  NoOrphanServerSubscription
PROPERTIES
  SubscriptionReleased
