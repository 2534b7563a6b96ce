----------------------------- MODULE MCTimerSet -----------------------------
(***************************************************************************)
(* Small instances of the timer set: one timer of another router.          *)
(***************************************************************************)
EXTENDS TimerSetService

CONSTANTS r1, r2, t1, other

MCRouterOf == [t \in Timer |-> IF t = other THEN r2 ELSE r1]

\* Timers that are always ready again starve no other, see NotStarved.  The
\* timers of one router are interchangeable, so one of each is watched.
NoStarvation == NotStarved(t1) /\ NotStarved(other)
=============================================================================
