SPECIFICATION FairSpec
CONSTANTS
  Arity = 3
  Timer = {t1, t2, other}
  r1 = r1
  r2 = r2
  t1 = t1
  other = other
  Router = {r1, r2}
  RouterOf <- MCRouterOf
  Second = 1
  BehindSec = 0
  MaxTimers = 1
  MaxTime = 3
  None = none
INVARIANTS TypeOK Linked SleepsUntilEarliest ChunkRunOut
PROPERTIES ServiceSpec NoStarvation
