SPECIFICATION StartSpec
CONSTANTS
  Arity = 4
  Timer = {1, 2, 3, 4, 5, 6, 7, 8, 9}
  r1 = r1
  r2 = r2
  Router = {r1, r2}
  RouterOf <- MCRouterOf
  Second = 1
  BehindSec = 1
  MaxTimers = 64
  MaxTime = 2
  None = none
PROPERTY KillUnschedules
