SPECIFICATION FairSpec
CONSTANTS
  Byte = 2
  Agent = {gw, fa}
  Gateway = gw
  HomeBit = {gw}
  ForeignBit = {fa}
  NoAgent = none
  Port = {1}
  Id = {1}
  SeqNr = {1}
  RegLifetime = 2
  AdLifetime = 1
  Granted = {2}
  ReplyCode = {0}
  AlmostOver = 1
  MaxTries = 1
  InitialCapacity = 1
  NoAd = noad
  MaxPending = 1
PROPERTY LostAgentsAreForgotten
