SPECIFICATION FairSpec
CONSTANTS
  Byte = 2
  mn = mn
  ha = ha
  fa = fa
  None = none
  Number = {1, 2}
  SeqNr = {2, 3}
  RegLifetime = 2
  AdLifetime = 0
  AlmostOver = 1
  RequestTimeout = 1
  InitialCapacity = 2
  Late = FALSE
  MaxPending = 1
  MaxRequests = 2
PROPERTIES Composes AbroadIsReached ReturnIsReached
