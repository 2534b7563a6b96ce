---------------------------- MODULE TimerService ----------------------------
(***************************************************************************)
(* What Click promises the owner of a timer: a timer that has been         *)
(* scheduled stays so until it is rescheduled, unscheduled or fired or its *)
(* router is killed, and it fires only when the last expiry it was given   *)
(* has come.  Whether and in what order timers fire is left open.          *)
(***************************************************************************)
EXTENDS Integers

CONSTANTS Timer, Router, RouterOf, Time, None

VARIABLES
  due,     \* when each scheduled timer is to fire; None for the others
  fired,   \* the timer whose callback is running
  now

vars == <<due, fired, now>>

Init ==
  /\ due = [t \in Timer |-> None]
  /\ fired = None
  /\ now \in Time

Schedule(t) ==
  /\ UNCHANGED <<fired, now>>
  /\ due'[t] \in Time
  /\ due' = [due EXCEPT ![t] = due'[t]]

Unschedule(t) ==
  /\ UNCHANGED <<fired, now>>
  /\ due' = [due EXCEPT ![t] = None]

Fire(t) ==
  /\ fired' = t
  /\ due[t] # None /\ due[t] <= now
  /\ due' = [due EXCEPT ![t] = None]
  /\ UNCHANGED now

\* The callback returns; timers that are overdue may be due later then, but
\* not later than now.
Return ==
  /\ fired # None /\ fired' = None
  /\ due' \in [Timer -> Time \cup {None}]
  /\ \A t \in Timer : \/ due'[t] = due[t]
                      \/ None \notin {due[t], due'[t]} /\ due[t] <= due'[t] /\ due'[t] <= now
  /\ UNCHANGED now

\* Only timers of the router are unscheduled; not all of them, as
\* KillUnschedules in TimerSetClaims shows.
Kill(r) ==
  /\ fired = None
  /\ due' \in [Timer -> Time \cup {None}]
  /\ \A t \in Timer : due'[t] = due[t] \/ (due'[t] = None /\ RouterOf[t] = r)
  /\ UNCHANGED <<fired, now>>

Pass ==
  /\ now' > now
  /\ UNCHANGED <<due, fired>>

Next ==
  \/ \E t \in Timer : Schedule(t) \/ Unschedule(t) \/ Fire(t)
  \/ \E r \in Router : Kill(r)
  \/ Return
  \/ Pass

Spec == Init /\ [][Next]_vars
=============================================================================
