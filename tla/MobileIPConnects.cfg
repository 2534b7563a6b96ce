SPECIFICATION StaySpec
CONSTANTS
  Byte = 2
  mn = mn
  ha = ha
  fa = fa
  None = none
  Number = {1, 2, 3}
  SeqNr = {3}
  RegLifetime = 3
  AdLifetime = 0
  AlmostOver = 1
  RequestTimeout = 2
  InitialCapacity = 2
  Late = FALSE
  MaxPending = 3
  MaxRequests = 3
  MaxLosses = 2
PROPERTY Connects
