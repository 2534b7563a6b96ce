SPECIFICATION RegReqFairSpec
CONSTANTS
  Byte = 2
  Agent = {gw, fa}
  Gateway = gw
  HomeBit = {gw}
  ForeignBit = {fa}
  NoAgent = none
  Port = {1}
  Id = {1, 2}
  SeqNr = {1, 2}
  RegLifetime = 2
  AdLifetime = 1
  Granted = {1}
  ReplyCode = {0, 128}
  AlmostOver = 1
  MaxTries = 1
  InitialCapacity = 1
  NoAd = noad
  MaxPending = 2
INVARIANTS TypeOK OneTimerPerAdvertisement HomeHasNoLifetime
PROPERTIES OnlyAcceptedRequestsConnect PendingRunsDown PendingRequestsEnd
