\* A subscription and a multiplexed request dropped while the command channel
\* is full: the failed-unsubscribe sweep runs before the handler holds the
\* entry, which then stays in its map with nothing to remove it.  (TLC's
\* shortest trace is the request's; with Requests = {} it is the
\* Subscription's.)
CONSTANTS
  SubIds = {2, 3}
  ChanCap = 1
  SubCap = 1
  WireCap = 3
  MaxRemaining = 0
  MaxCloseAfter = 0
  MaxMsgs = 0
  MaxPubs = 0
  MaxPings = 0
  MaxServerOps = 0
  MaxFaults = 0
  AllowClose = FALSE
  Requests = {r1}
SPECIFICATION Spec
INVARIANT
  DroppedSubscriptionTracked
