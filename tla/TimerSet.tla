------------------------------ MODULE TimerSet ------------------------------
(***************************************************************************)
(* Click's timers: Timer (timer.cc, timer.hh) and the TimerSet of the one  *)
(* router thread (timerset.cc), on which every periodic action of the      *)
(* Mobile IP elements rests.  Scheduled timers are in a heap by expiry.    *)
(* run_timers pops the expired ones and calls their hooks; after too many  *)
(* of them in one call it moves all that are expired to the run chunk and  *)
(* runs those, so that none starves.  A hook may schedule or unschedule    *)
(* any timer, so run_timers is one step up to each call of a hook.         *)
(*                                                                         *)
(* Times count in units of which a second has Second; 0 is no time.  The   *)
(* expiry of a timer that is not scheduled, which only its owner reads, is *)
(* 0 here.  The stride, which only spaces the calls of run_timers, is left *)
(* out.                                                                    *)
(***************************************************************************)
EXTENDS ClickHeap, FiniteSets

CONSTANTS
  Timer, Router,
  RouterOf,    \* the router each timer's owner is part of
  Second,      \* units of a second
  BehindSec,   \* Timer::behind_sec
  MaxTimers,   \* the 64 of run_timers
  MaxTime,     \* bound: the clock stops here
  None

ASSUME TimerSetAssumption ==
  /\ RouterOf \in [Timer -> Router]
  /\ Second \in Nat \ {0} /\ BehindSec \in Nat /\ MaxTimers \in Nat /\ MaxTime \in Nat \ {0}
  /\ None \notin Timer \cup Router \cup Int \cup {"heap", "chunk"}

VARIABLES
  ts,           \* the timer set and the timers' own fields, see Init
  owner,        \* Timer::_owner, as the router it is part of
  timer_check,  \* TimerSet::_timer_check
  max_timers,   \* the local variable of run_timers
  running,      \* what calls the hook that is running: "heap", "chunk", or nothing
  current,      \* the timer whose hook is running
  stop_flag,    \* RouterThread::_stop_flag
  now           \* Timestamp::now_steady()

runVars == <<timer_check, max_timers, running, current>>
vars == <<ts, owner, runVars, stop_flag, now>>

\* The clock stops at MaxTime; an expiry may be beyond it.
Time == 0 .. MaxTime + 1
sec(time) == time \div Second

Init ==
  /\ ts = [heap |-> << >>,                        \* TimerSet::_timer_heap
           pos |-> [t \in Timer |-> 0],           \* Timer::_schedpos1
           expiry_s |-> [t \in Timer |-> 0],      \* Timer::_expiry_s
           runchunk |-> << >>,                    \* TimerSet::_timer_runchunk
           timer_expiry |-> 0]                    \* TimerSet::_timer_expiry
  /\ owner = RouterOf
  /\ timer_check = 1 /\ now = 1
  /\ max_timers = 0 /\ running = None /\ current = None
  /\ stop_flag = FALSE

set_timer_expiry(s) ==
  [s EXCEPT !.timer_expiry = IF s.heap = << >> THEN 0 ELSE s.heap[1].expiry_s]

taken_off(s, t) == [s EXCEPT !.pos[t] = 0, !.expiry_s[t] = 0]

-----------------------------------------------------------------------------
\* A variant that stores the time as it is given.
given_expiry(when) == when

\* The expiry that schedule_at_steady and check_timer_expiry store.
checked_expiry(when) ==
  LET nonzero == IF when = 0 THEN 1 ELSE when
  IN  IF sec(nonzero) + BehindSec < sec(timer_check) THEN timer_check ELSE nonzero

\* A variant that forgets the slot of the run chunk.
off_runchunk_forgotten(s, t) == s.runchunk

off_runchunk(s, t) ==
  IF s.pos[t] < 0 THEN [s.runchunk EXCEPT ![- s.pos[t]] = None] ELSE s.runchunk

\* A timer enters the heap, or its key in the heap changes.
listed(s, t, e) ==
  [(IF s.pos[t] > 0 THEN [s EXCEPT !.heap[s.pos[t]].expiry_s = e]
    ELSE [s EXCEPT !.heap = Append(@, [expiry_s |-> e, t |-> t]), !.pos[t] = Len(s.heap) + 1])
     EXCEPT !.expiry_s[t] = e, !.runchunk = off_runchunk(s, t)]

\* Timer::schedule_at_steady.
rescheduled(s, t, when) ==
  LET l == listed(s, t, checked_expiry(when))
      x == change_heap(l, l.pos[t])
  IN  IF s.pos[t] = 1 \/ x.pos[t] = 1 THEN set_timer_expiry(x) ELSE x

\* Timer::unschedule, with which clear and the destructor begin.
unscheduled(s, t) ==
  LET x == IF s.pos[t] > 0 THEN remove_heap(s, s.pos[t])
           ELSE [s EXCEPT !.runchunk = off_runchunk(s, t)]
  IN  taken_off(IF s.pos[t] = 1 THEN set_timer_expiry(x) ELSE x, t)

schedule_at_steady(t, when) ==
  /\ owner[t] # None
  /\ ts' = rescheduled(ts, t, when)
  /\ UNCHANGED <<owner, runVars, stop_flag, now>>

unschedule(t) ==
  /\ ts.pos[t] # 0
  /\ ts' = unscheduled(ts, t)
  /\ UNCHANGED <<owner, runVars, stop_flag, now>>

-----------------------------------------------------------------------------
expired(s, check) == s.heap # << >> /\ s.heap[1].expiry_s <= check

\* Pop the first timer of the heap and call its hook.
popped(s) == taken_off(set_timer_expiry(remove_heap(s, 1)), s.heap[1].t)

run_first(check) ==
  /\ running' = "heap"
  /\ current' = ts.heap[1].t
  /\ ts' = popped(ts)
  /\ timer_check' = check

\* TimerSet::run_timers up to its first hook, or to its end.
run_timers ==
  /\ running = None /\ ~ stop_flag /\ ts.heap # << >>
  /\ \/ /\ expired(ts, now)
        /\ run_first(now)
        /\ max_timers' = MaxTimers
     \/ /\ ~ expired(ts, now)
        /\ timer_check' = now
        /\ UNCHANGED <<ts, max_timers, running, current>>
  /\ UNCHANGED <<owner, stop_flag, now>>

\* The loop that moves every expired timer to the run chunk.
to_chunk(s) ==
  IF ~ expired(s, timer_check) THEN s
  ELSE [remove_heap(s, 1) EXCEPT !.pos[s.heap[1].t] = - Len(s.runchunk) - 1,
                                 !.runchunk = Append(@, s.heap[1].t)]

chunked(s) == set_timer_expiry(Loop(to_chunk, s, Len(s.heap)))

\* Take the timer at position i of the run chunk and call its hook.  The
\* slots up to i are not read again and are None here.
run_chunk_at(s, i) ==
  /\ running' = "chunk"
  /\ current' = s.runchunk[i]
  /\ ts' = [taken_off(s, s.runchunk[i]) EXCEPT
              !.runchunk = [j \in 1 .. Len(@) |-> IF j <= i THEN None ELSE @[j]]]

\* A variant that drops what is left of the run chunk.
unrun_dropping(s) ==
  [s EXCEPT !.runchunk = << >>, !.pos = [t \in Timer |-> IF @[t] < 0 THEN 0 ELSE @[t]],
            !.expiry_s = [t \in Timer |-> IF s.pos[t] < 0 THEN 0 ELSE @[t]]]

\* The loop that schedules what is left of the run chunk.
unrun_at(x) ==
  LET t == x.s.runchunk[x.i]
  IN  IF x.i > Len(x.s.runchunk) THEN x
      ELSE [s |-> IF t = None THEN x.s
                  ELSE rescheduled([x.s EXCEPT !.pos[t] = 0], t, x.s.expiry_s[t]),
            i |-> x.i + 1]

\* A variant that does not clear the run chunk.
unrun_uncleared(s) == Loop(unrun_at, [s |-> s, i |-> 1], Len(s.runchunk)).s

unrun(s) ==
  [Loop(unrun_at, [s |-> s, i |-> 1], Len(s.runchunk)).s EXCEPT !.runchunk = << >>]

finish == running' = None /\ current' = None /\ max_timers' = 0

\* A variant without the run chunk.
heap_hook_returns_unfair ==
  /\ running = "heap"
  /\ IF expired(ts, timer_check) /\ ~ stop_flag /\ max_timers > 0
     THEN /\ run_first(timer_check)
          /\ max_timers' = max_timers - 1
     ELSE finish /\ UNCHANGED <<ts, timer_check>>
  /\ UNCHANGED <<owner, stop_flag, now>>

\* A hook called from the first loop returns.
heap_hook_returns ==
  /\ running = "heap"
  /\ \/ /\ expired(ts, timer_check) /\ ~ stop_flag /\ max_timers > 0
        /\ run_first(timer_check)
        /\ max_timers' = max_timers - 1
     \/ /\ expired(ts, timer_check) /\ ~ stop_flag /\ max_timers = 0
        /\ \E s \in {chunked(ts)} : run_chunk_at(s, 1)
        /\ UNCHANGED <<timer_check, max_timers>>
     \/ /\ ~ expired(ts, timer_check) \/ stop_flag
        /\ finish
        /\ UNCHANGED <<ts, timer_check>>
  /\ UNCHANGED <<owner, stop_flag, now>>

\* A hook called from the loop over the run chunk returns.
chunk_hook_returns ==
  LET left == {i \in 1 .. Len(ts.runchunk) : ts.runchunk[i] # None}
  IN  /\ running = "chunk"
      /\ \/ /\ ~ stop_flag
            /\ \E i \in left : (\A j \in left : i <= j) /\ run_chunk_at(ts, i)
            /\ UNCHANGED max_timers
         \/ /\ stop_flag \/ left = {}
            /\ finish
            /\ ts' = unrun(ts)
      /\ UNCHANGED <<owner, timer_check, stop_flag, now>>

-----------------------------------------------------------------------------
\* TimerSet::kill_router: the heap is walked from its end while timers are
\* removed from it.  A timer that loses its owner can no longer be scheduled.
\* That no hook is running is a condition of its callers, not of the function,
\* which asserts an empty run chunk: a router is replaced by a task and deleted
\* by the main program (userlevel/click.cc), never by a timer's hook.
kill_at(x, r) ==
  LET t == x.s.heap[x.i].t
  IN  IF x.i = 0 THEN x
      ELSE [s |-> IF owner[t] # r THEN x.s ELSE taken_off(remove_heap(x.s, x.i), t),
            i |-> x.i - 1]

killed(s, r) ==
  set_timer_expiry(Loop(LAMBDA x : kill_at(x, r), [s |-> s, i |-> Len(s.heap)], Len(s.heap)).s)

kill_router(r) ==
  /\ running = None
  /\ ts' = killed(ts, r)
  /\ owner' = [t \in Timer |-> IF ts.pos[t] # 0 /\ ts'.pos[t] = 0 THEN None ELSE owner[t]]
  /\ UNCHANGED <<runVars, stop_flag, now>>

\* RouterThread::driver and Master::verify_stop clear the flag between calls.
please_stop == ~ stop_flag /\ stop_flag' = TRUE /\ UNCHANGED <<ts, owner, runVars, now>>

verify_stop ==
  /\ stop_flag /\ running = None
  /\ stop_flag' = FALSE
  /\ UNCHANGED <<ts, owner, runVars, now>>

Tick == now < MaxTime /\ now' = now + 1 /\ UNCHANGED <<ts, owner, runVars, stop_flag>>

Next ==
  \/ \E t \in Timer : \/ \E when \in Time : schedule_at_steady(t, when)
                      \/ unschedule(t)
  \/ run_timers \/ heap_hook_returns \/ chunk_hook_returns
  \/ \E r \in Router : kill_router(r)
  \/ please_stop \/ verify_stop
  \/ Tick

Spec == Init /\ [][Next]_vars

\* Hooks return, and the driver calls run_timers again and again.
FairSpec ==
  Spec /\ WF_vars(run_timers) /\ WF_vars(heap_hook_returns) /\ WF_vars(chunk_hook_returns)

-----------------------------------------------------------------------------
\* Type invariant: heap and run chunk hold timers, and _schedpos1 stays
\* within the heap (from 1) or the run chunk (from -1).
TypeOK ==
  /\ ts.heap \in Seq([expiry_s : Time \ {0}, t : Timer])
  /\ ts.runchunk \in Seq(Timer \cup {None})
  /\ \A t \in Timer : ts.pos[t] \in - Len(ts.runchunk) .. Len(ts.heap)
  /\ ts.expiry_s \in [Timer -> Time] /\ ts.timer_expiry \in Time
  /\ owner \in [Timer -> Router \cup {None}]
  /\ max_timers \in 0 .. MaxTimers
  /\ current \in Timer \cup {None}

\* _schedpos1 leads from a timer to its entry of the heap or the run chunk
\* and every entry still to be run leads back, so that unschedule, which a
\* destructor relies on, takes the timer out of wherever it is; the key of an
\* entry is the expiry of its timer (the assertion in run_timers).
Linked ==
  /\ \A i \in 1 .. Len(ts.heap) :
       ts.pos[ts.heap[i].t] = i /\ ts.heap[i].expiry_s = ts.expiry_s[ts.heap[i].t]
  /\ \A i \in 1 .. Len(ts.runchunk) : ts.runchunk[i] # None => ts.pos[ts.runchunk[i]] = - i
  /\ \A t \in Timer :
       /\ ts.pos[t] > 0 => ts.heap[ts.pos[t]].t = t
       /\ ts.pos[t] < 0 => ts.runchunk[- ts.pos[t]] = t

\* The driver sleeps until _timer_expiry: it is the earliest expiry in the
\* heap, whatever has been scheduled, unscheduled, run or killed.
SleepsUntilEarliest ==
  /\ ts.heap = << >> => ts.timer_expiry = 0
  /\ \A i \in 1 .. Len(ts.heap) : ts.timer_expiry <= ts.heap[i].expiry_s
  /\ ts.heap # << >> => \E i \in 1 .. Len(ts.heap) : ts.timer_expiry = ts.heap[i].expiry_s

\* Outside run_timers the run chunk is empty: kill_router, which only walks
\* the heap, asserts it.
ChunkRunOut == running = None => ts.runchunk = << >>

Due(t) == ts.pos[t] # 0 /\ ts.expiry_s[t] <= now
PutOff(t) == ts'.expiry_s[t] # ts.expiry_s[t] \/ (ts.pos[t] < 0 /\ ts'.pos[t] > 0)

\* Timers that are always ready again starve no other (the comment before
\* the run chunk): once the driver is not stopped any more, a timer that is
\* due is run, unless it is put off.
NotStarved(t) == <>[](~ stop_flag) /\ <>[][~ PutOff(t)]_vars => []<>(~ Due(t))
=============================================================================
