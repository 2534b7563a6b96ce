SPECIFICATION MoveSpec
CONSTANTS
  Byte = 2
  mn = mn
  ha = ha
  fa = fa
  None = none
  Number = {1}
  SeqNr = {2, 3}
  RegLifetime = 2
  AdLifetime = 1
  AlmostOver = 1
  RequestTimeout = 1
  InitialCapacity = 2
  Late = TRUE
  MaxPending = 1
  MaxRequests = 2
  MaxLosses = 1
PROPERTY HomeIsReached
