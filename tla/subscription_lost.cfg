\* Two ways the handler keeps routing to a subscription the server no longer
\* holds: close_after on a subscription that has already had a message (the
\* server stops delivering while the handler waits for more), and a -ERR for
\* the multiplexed SUB 1 (the map stays Some and SUB 1 is never sent again).
\* With both enabled TLC reports the shorter trace; Requests = {} shows the
\* first alone, MaxCloseAfter = 0 the second.
CONSTANTS
  SubIds = {2}
  ChanCap = 4
  SubCap = 1
  WireCap = 3
  MaxRemaining = 2
  MaxCloseAfter = 1
  MaxMsgs = 3
  MaxPubs = 0
  MaxPings = 0
  MaxServerOps = 0
  MaxFaults = 0
  AllowClose = FALSE
  Requests = {r1}
SPECIFICATION Spec
INVARIANT
  SubscriptionLive
