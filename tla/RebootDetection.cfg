SPECIFICATION RebootFairSpec
CONSTANTS
  Byte = 4
  Host = {h1}
  Nobody = nobody
  Everybody = everybody
  NoPacket = nopacket
  Unheard = unheard
INVARIANT RebootTypeOK
PROPERTIES ReductionMeansRestart RestartsAreNoticed
