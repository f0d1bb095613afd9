\* Client::close with subscriptions live and the encoder below its limit:
\* the handler drains the closed channel and returns HandlerOutput::Closed.
CONSTANTS
  SubIds = {2}
  ChanCap = 2
  SubCap = 1
  WireCap = 3
  MaxRemaining = 0
  MaxCloseAfter = 0
  MaxMsgs = 0
  MaxPubs = 0
  MaxPings = 0
  MaxServerOps = 0
  MaxFaults = 0
  AllowClose = TRUE
  Requests = {}
SPECIFICATION FairSpec
PROPERTY
  CloseCompletes
