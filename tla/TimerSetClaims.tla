--------------------------- MODULE TimerSetClaims ---------------------------
(***************************************************************************)
(* What the callers of TimerSet::kill_router say of it, on a heap deep     *)
(* enough to have cousins.  The routers' elements schedule their timers    *)
(* one after another, and a router is killed.                              *)
(***************************************************************************)
EXTENDS TimerSet

CONSTANTS r1, r2

MCRouterOf == [t \in Timer |-> IF t \in {2, 5} THEN r1 ELSE r2]

StartTimer ==
  \E t \in Timer :
    /\ ts.pos[t] = 0 /\ \A u \in Timer : u < t => ts.pos[u] # 0
    /\ \E when \in Time : schedule_at_steady(t, when)

StartSpec == Init /\ [][StartTimer \/ \E r \in Router : kill_router(r)]_vars

\* Router::~Router, Router::initialize and Router::activate call kill_router
\* to "unschedule tasks and timers": no timer of the router is left.  When
\* the element that fills a gap moves up, the timer it passes comes to a
\* position that TimerSet::kill_router has walked past.
KillUnschedules ==
  [][\A r \in Router, t \in Timer : kill_router(r) /\ RouterOf[t] = r => ts'.pos[t] = 0]_vars
=============================================================================
