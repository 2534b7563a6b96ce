SPECIFICATION Spec
CONSTANTS
  Byte = 2
  mn = mn
  ha = ha
  fa = fa
  None = none
  Number = {1, 2}
  SeqNr = {2}
  RegLifetime = 2
  AdLifetime = 1
  AlmostOver = 1
  RequestTimeout = 1
  InitialCapacity = 2
  Late = TRUE
  MaxPending = 2
  MaxRequests = 2
INVARIANTS TypeOK AgentIsTunnelled InStep
