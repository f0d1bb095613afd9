\* Two subscriptions, two messages, one lost connection and a close: the
\* acknowledgement bookkeeping and the subscription map across a reconnect.
CONSTANTS
  SubIds = {2, 3}
  ChanCap = 8
  SubCap = 1
  WireCap = 3
  MaxRemaining = 0
  MaxCloseAfter = 0
  MaxMsgs = 2
  MaxPubs = 0
  MaxPings = 1
  MaxServerOps = 0
  MaxFaults = 1
  AllowClose = TRUE
  Requests = {}
SPECIFICATION Spec
INVARIANTS
  InFlightMatchesWire
  NoOrphanServerSubscription
  
  DroppedSubscriptionTracked
