----------------------------- MODULE TimerProofs ----------------------------
(***************************************************************************)
(* Proofs about scheduling and unscheduling one timer and about the loop   *)
(* that moves timers to the run chunk.  With change_heap and remove_heap,  *)
(* Timer::schedule_at_steady and Timer::unschedule keep heap, run chunk    *)
(* and timers in agreement.                                                *)
(***************************************************************************)
EXTENDS HeapProofs

-----------------------------------------------------------------------------
\* The key of an entry of the heap is the expiry of its timer.
Keyed(s) == \A t \in Timer : s.pos[t] > 0 => s.heap[s.pos[t]].expiry_s = s.expiry_s[t]

HeapOK(s) == s \in State /\ Placed(s, Timer) /\ Ordered(s.heap) /\ Keyed(s)

\* From slot i on, the run chunk and the timers in it lead to each other, and
\* no timer is in a slot before it.
ChunkFrom(s, i) ==
  /\ \A j \in i .. Len(s.runchunk) : s.runchunk[j] # None => s.pos[s.runchunk[j]] = - j
  /\ \A t \in Timer :
       s.pos[t] < 0 => - s.pos[t] \in i .. Len(s.runchunk) /\ s.runchunk[- s.pos[t]] = t

Fresh(s) == s.timer_expiry = IF s.heap = << >> THEN 0 ELSE s.heap[1].expiry_s

\* The timers other than t are scheduled in u as in s: in the heap if they
\* were, else in the same slot of the run chunk or not at all.
OthersStay(s, u, t) ==
  \A v \in Timer \ {t} :
    /\ u.expiry_s[v] = s.expiry_s[v]
    /\ IF s.pos[v] <= 0 THEN u.pos[v] = s.pos[v] ELSE u.pos[v] > 0

\* Two tables that differ only at t.
SameBut(f, g, t) == \A v \in Timer \ {t} : g[v] = f[v]

\* The types of the parts of a state.
LEMMA StateParts ==
  ASSUME NEW s \in State
  PROVE  /\ s.heap \in Seq(Entry) /\ Len(s.heap) \in Nat
         /\ s.pos \in [Timer -> Int] /\ s.expiry_s \in [Timer -> Time]
         /\ s.runchunk \in Seq(Timer \cup {None}) /\ Len(s.runchunk) \in Nat
         /\ s.timer_expiry \in Time
         /\ s = [heap |-> s.heap, pos |-> s.pos, expiry_s |-> s.expiry_s,
                 runchunk |-> s.runchunk, timer_expiry |-> s.timer_expiry]
BY DEF State

\* A key of the heap is a number that is not 0.
LEMMA KeyIsTime ==
  ASSUME NEW h \in Seq(Entry), NEW k \in 1 .. Len(h)
  PROVE  /\ h[k].expiry_s \in Time /\ h[k].expiry_s \in Nat /\ h[k].expiry_s # 0
         /\ h[k].t \in Timer
<1>1. h[k] \in Entry
  OBVIOUS
<1> QED
  BY <1>1, TimerSetAssumption DEF Entry, Time

\* set_timer_expiry leaves everything else as it is.
LEMMA Refreshed ==
  ASSUME NEW s \in State, NEW u, u = set_timer_expiry(s)
  PROVE  /\ u \in State /\ Fresh(u)
         /\ u.heap = s.heap /\ u.pos = s.pos /\ u.expiry_s = s.expiry_s /\ u.runchunk = s.runchunk
<1> DEFINE e == IF s.heap = << >> THEN 0 ELSE s.heap[1].expiry_s
<1>1. e \in Time
  <2>1. CASE s.heap = << >>
    BY <2>1, TimerSetAssumption DEF Time
  <2>2. CASE s.heap # << >>
    <3>1. s.heap \in Seq(Entry) /\ 1 \in 1 .. Len(s.heap)
      BY <2>2, StateParts
    <3> QED
      BY <2>2, <3>1, KeyIsTime
  <2> QED
    BY <2>1, <2>2
<1>2. /\ u.timer_expiry = e /\ u.heap = s.heap /\ u.pos = s.pos /\ u.expiry_s = s.expiry_s
      /\ u.runchunk = s.runchunk /\ u = [s EXCEPT !.timer_expiry = e]
  BY DEF set_timer_expiry, State
<1> HIDE DEF e
<1>3. u \in State
  BY <1>1, <1>2, Zenon DEF State
<1> QED
  BY <1>2, <1>3 DEF Fresh, e

\* What holds of the heap and the timers does not depend on the run chunk or
\* on the earliest expiry.
LEMMA SameHeap ==
  ASSUME NEW s, HeapOK(s), NEW u \in State,
         u.heap = s.heap, u.pos = s.pos, u.expiry_s = s.expiry_s
  PROVE  HeapOK(u)
BY Zenon DEF HeapOK, Placed, Keyed

\* The timer that remove_heap has taken out of the heap goes to the run chunk
\* or nowhere.
LEMMA OutOfHeap ==
  ASSUME NEW s, HeapOK(s), NEW t \in Timer, NEW u, Without(s, u, t),
         NEW p \in Int, p <= 0,
         NEW w \in State, w.heap = u.heap, w.pos[t] = p,
         SameBut(u.pos, w.pos, t), SameBut(s.expiry_s, w.expiry_s, t)
  PROVE  HeapOK(w) /\ OthersStay(s, w, t) /\ w.pos[t] = p
<1>1. s \in State /\ u \in State /\ s.pos \in [Timer -> Int] /\ u.pos \in [Timer -> Int]
  BY StateParts DEF HeapOK, Without
<1>2. w.pos[t] = p /\ \A v \in Timer \ {t} : w.pos[v] = u.pos[v]
  BY <1>1 DEF SameBut
<1>3. Placed(w, Timer)
  <2>1. Placed(u, Timer \ {t})
    BY DEF Without
  <2>2. ASSUME NEW k \in 1 .. Len(w.heap) PROVE w.heap[k].t \in Timer /\ w.pos[w.heap[k].t] = k
    BY <1>2, <2>1, Zenon DEF Placed
  <2>3. ASSUME NEW v \in Timer, w.pos[v] > 0
        PROVE  w.pos[v] <= Len(w.heap) /\ w.heap[w.pos[v]].t = v
    <3>1. v # t
      BY <1>2, <2>3
    <3> QED
      BY <1>2, <2>1, <2>3, <3>1, Zenon DEF Placed
  <2> QED
    BY <2>2, <2>3, Zenon DEF Placed
<1>4. ASSUME NEW v \in Timer \ {t}
      PROVE  IF s.pos[v] <= 0 THEN w.pos[v] = s.pos[v]
             ELSE w.pos[v] > 0 /\ w.heap[w.pos[v]] = s.heap[s.pos[v]]
  BY <1>2, Zenon DEF Without, OthersKept
<1>5. OthersStay(s, w, t)
  BY <1>4 DEF OthersStay, SameBut
<1>6. Keyed(w)
  <2> SUFFICES ASSUME NEW v \in Timer, w.pos[v] > 0
               PROVE  w.heap[w.pos[v]].expiry_s = w.expiry_s[v]
    BY DEF Keyed
  <2>1. v \in Timer \ {t}
    BY <1>2
  <2>2. s.pos[v] > 0 /\ w.heap[w.pos[v]] = s.heap[s.pos[v]]
    BY <1>1, <1>4, <2>1
  <2> QED
    BY <2>1, <2>2, Zenon DEF HeapOK, Keyed, SameBut
<1>7. Ordered(w.heap)
  BY DEF Without
<1> QED
  BY <1>2, <1>3, <1>5, <1>6, <1>7, Zenon DEF HeapOK

-----------------------------------------------------------------------------
\* w is s with timer t no longer scheduled, but its entry perhaps still there.
TakenOff(s, w, t) ==
  /\ w \in State
  /\ w.heap = s.heap /\ w.runchunk = s.runchunk /\ w.timer_expiry = s.timer_expiry
  /\ w.pos[t] = 0 /\ SameBut(s.pos, w.pos, t)
  /\ w.expiry_s[t] = 0 /\ SameBut(s.expiry_s, w.expiry_s, t)

\* What taken_off does to a state.
LEMMA TakenOffParts ==
  ASSUME NEW s \in State, NEW t \in Timer, NEW w, w = taken_off(s, t)
  PROVE  TakenOff(s, w, t)
<1> DEFINE p == [s.pos EXCEPT ![t] = 0]
           e == [s.expiry_s EXCEPT ![t] = 0]
<1>1. /\ w.heap = s.heap /\ w.runchunk = s.runchunk /\ w.timer_expiry = s.timer_expiry
      /\ w.pos = p /\ w.expiry_s = e
      /\ w = [[s EXCEPT !.pos = p] EXCEPT !.expiry_s = e]
  BY DEF taken_off, State
<1>2. /\ p \in [Timer -> Int] /\ p[t] = 0 /\ SameBut(s.pos, p, t)
      /\ e \in [Timer -> Time] /\ e[t] = 0 /\ SameBut(s.expiry_s, e, t)
  BY StateParts, TimerSetAssumption DEF Time, SameBut
<1> HIDE DEF p, e
<1>3. w \in State
  BY <1>1, <1>2, Zenon DEF State
<1> QED
  BY <1>1, <1>2, <1>3 DEF TakenOff

\* A timer is taken off and the earliest expiry refreshed, in either order.
LEMMA RefreshAndTakeOff ==
  ASSUME NEW s \in State, NEW t \in Timer
  PROVE  taken_off(set_timer_expiry(s), t) = set_timer_expiry(taken_off(s, t))
BY Zenon DEF taken_off, set_timer_expiry, State

\* A timer that is removed from the heap and taken off leaves the others as
\* they are.
LEMMA TakenOut ==
  ASSUME NEW s, HeapOK(s), NEW i \in 1 .. Len(s.heap), NEW t, t = s.heap[i].t,
         NEW u, u = remove_heap(s, i), NEW w, w = taken_off(u, t)
  PROVE  /\ HeapOK(w) /\ OthersStay(s, w, t) /\ w.pos[t] = 0 /\ w.expiry_s[t] = 0
         /\ w.runchunk = s.runchunk /\ Len(w.heap) = Len(s.heap) - 1
         /\ i # 1 /\ Fresh(s) => Fresh(w)
<1>1. s \in State /\ Placed(s, Timer) /\ Ordered(s.heap) /\ s.heap \in Seq(Entry)
  BY StateParts DEF HeapOK
<1> USE <1>1
<1>2. t \in Timer
  BY Zenon DEF Placed
<1>3. Without(s, u, t)
  BY RemoveHeap
<1>4. /\ u \in State /\ u.expiry_s = s.expiry_s /\ u.runchunk = s.runchunk
      /\ u.timer_expiry = s.timer_expiry /\ Len(u.heap) = Len(s.heap) - 1
  BY <1>3 DEF Without
<1>5. TakenOff(u, w, t)
  BY <1>2, <1>4, TakenOffParts
<1>6. /\ w \in State /\ w.heap = u.heap /\ w.pos[t] = 0 /\ SameBut(u.pos, w.pos, t)
      /\ w.expiry_s[t] = 0 /\ SameBut(s.expiry_s, w.expiry_s, t) /\ w.runchunk = s.runchunk
      /\ w.timer_expiry = s.timer_expiry
  BY <1>4, <1>5, Zenon DEF TakenOff
<1>7. HeapOK(w) /\ OthersStay(s, w, t) /\ w.pos[t] = 0
  BY <1>2, <1>3, <1>6, OutOfHeap
<1>8. ASSUME i # 1, Fresh(s) PROVE Fresh(w)
  <2>1. i \in 2 .. Len(s.heap) /\ s.heap # << >>
    BY <1>8
  <2>2. u.heap # << >> /\ u.heap[1].expiry_s = s.heap[1].expiry_s
    BY <1>3, <2>1, RemoveKeepsFirst, Zenon
  <2> QED
    BY <1>6, <1>8, <2>1, <2>2, Zenon DEF Fresh
<1> QED
  BY <1>4, <1>6, <1>7, <1>8, Zenon

-----------------------------------------------------------------------------
\* r is the run chunk of s, from slot i on, without timer t.
OffChunk(s, r, t, i) ==
  /\ Len(r) = Len(s.runchunk)
  /\ \A j \in i .. Len(r) :
       /\ r[j] # t
       /\ r[j] = s.runchunk[j] \/ (s.runchunk[j] = t /\ r[j] = None)

\* A timer that leaves the run chunk or was not in it leaves the others in
\* their slots.
LEMMA ChunkStays ==
  ASSUME NEW s \in State, NEW u \in State, NEW i \in Nat, i > 0, NEW t \in Timer,
         ChunkFrom(s, i), OthersStay(s, u, t), u.pos[t] >= 0, OffChunk(s, u.runchunk, t, i)
  PROVE  ChunkFrom(u, i)
<1>1. /\ s.runchunk \in Seq(Timer \cup {None}) /\ Len(u.runchunk) = Len(s.runchunk)
      /\ Len(s.runchunk) \in Nat /\ s.pos \in [Timer -> Int] /\ u.pos \in [Timer -> Int]
  BY StateParts DEF OffChunk
<1> USE <1>1
<1>2. ASSUME NEW j \in i .. Len(u.runchunk), u.runchunk[j] # None
      PROVE  u.pos[u.runchunk[j]] = - j
  <2>1. u.runchunk[j] = s.runchunk[j] /\ u.runchunk[j] # t
    BY <1>2 DEF OffChunk
  <2>2. s.runchunk[j] \in Timer \ {t} /\ s.pos[s.runchunk[j]] = - j
    BY <1>2, <2>1 DEF ChunkFrom
  <2>3. s.pos[s.runchunk[j]] <= 0
    BY <2>2
  <2> QED
    BY <2>1, <2>2, <2>3, Zenon DEF OthersStay
<1>3. ASSUME NEW v \in Timer, u.pos[v] < 0
      PROVE  - u.pos[v] \in i .. Len(u.runchunk) /\ u.runchunk[- u.pos[v]] = v
  <2>1. v \in Timer \ {t}
    BY <1>3
  <2>2. s.pos[v] <= 0 /\ u.pos[v] = s.pos[v]
    BY <1>3, <2>1 DEF OthersStay
  <2>3. - s.pos[v] \in i .. Len(s.runchunk) /\ s.runchunk[- s.pos[v]] = v
    BY <1>3, <2>2, Zenon DEF ChunkFrom
  <2> QED
    BY <2>1, <2>2, <2>3, Zenon DEF OffChunk
<1> QED
  BY <1>2, <1>3, Zenon DEF ChunkFrom

\* off_runchunk returns a run chunk.
LEMMA OffRunchunkType ==
  ASSUME NEW s \in State, NEW t \in Timer, s.pos[t] < 0 => - s.pos[t] \in 1 .. Len(s.runchunk)
  PROVE  off_runchunk(s, t) \in Seq(Timer \cup {None})
<1>1. s.runchunk \in Seq(Timer \cup {None}) /\ None \in Timer \cup {None}
  BY StateParts
<1>2. ASSUME NEW p \in 1 .. Len(s.runchunk)
      PROVE  [s.runchunk EXCEPT ![p] = None] \in Seq(Timer \cup {None})
  BY <1>1
<1> QED
  BY <1>1, <1>2 DEF off_runchunk

\* off_runchunk clears the slot of the timer, if it has one.
LEMMA OffRunchunk ==
  ASSUME NEW s \in State, ChunkFrom(s, 1), NEW t \in Timer
  PROVE  OffChunk(s, off_runchunk(s, t), t, 1)
<1> DEFINE c == s.runchunk
           p == - s.pos[t]
<1>1. c \in Seq(Timer \cup {None}) /\ Len(c) \in Nat /\ s.pos[t] \in Int /\ p \in Int /\ t # None
  BY StateParts, TimerSetAssumption
<1> USE <1>1
<1>2. \A j \in 1 .. Len(c) : c[j] = t => s.pos[t] = - j
  BY DEF ChunkFrom
<1>3. CASE s.pos[t] < 0
  <2>1. p \in 1 .. Len(c) /\ c[p] = t
    BY <1>3 DEF ChunkFrom
  <2>2. off_runchunk(s, t) = [c EXCEPT ![p] = None]
    BY <1>3 DEF off_runchunk
  <2> HIDE DEF c, p
  <2>3. Len([c EXCEPT ![p] = None]) = Len(c)
    BY <2>1
  <2>4. ASSUME NEW j \in 1 .. Len(c)
        PROVE  /\ [c EXCEPT ![p] = None][j] # t
               /\ [c EXCEPT ![p] = None][j] = c[j] \/ (c[j] = t /\ [c EXCEPT ![p] = None][j] = None)
    <3>1. CASE j = p
      BY <2>1, <3>1
    <3>2. CASE j # p
      <4>1. c[j] # t
        BY <1>2, <3>2 DEF p
      <4> QED
        BY <3>2, <4>1
    <3> QED
      BY <3>1, <3>2
  <2> QED
    BY <2>2, <2>3, <2>4 DEF OffChunk, c
<1>4. CASE ~ (s.pos[t] < 0)
  BY <1>2, <1>4 DEF off_runchunk, OffChunk
<1> QED
  BY <1>3, <1>4

-----------------------------------------------------------------------------
\* What holds of a timer set between its operations.
TimersOK(s) == HeapOK(s) /\ ChunkFrom(s, 1) /\ Fresh(s)

\* w is s with timer t not scheduled any more.
Unscheduled(s, w, t) ==
  /\ OthersStay(s, w, t) /\ w.pos[t] = 0 /\ w.expiry_s[t] = 0
  /\ Len(w.runchunk) = Len(s.runchunk)

\* A timer that is in the heap is not in the run chunk.
LEMMA NotInChunk ==
  ASSUME NEW s \in State, ChunkFrom(s, 1), NEW t \in Timer, s.pos[t] >= 0,
         NEW w \in State, OthersStay(s, w, t), w.pos[t] >= 0, w.runchunk = s.runchunk
  PROVE  ChunkFrom(w, 1)
<1>1. off_runchunk(s, t) = s.runchunk
  BY StateParts DEF off_runchunk
<1>2. OffChunk(s, w.runchunk, t, 1)
  BY <1>1, OffRunchunk
<1> QED
  BY <1>2, ChunkStays

\* What stays the same is told by positions and expiries.
LEMMA SameOthers ==
  ASSUME NEW s, NEW x, NEW w, NEW t, OthersStay(s, x, t), w.pos = x.pos, w.expiry_s = x.expiry_s
  PROVE  OthersStay(s, w, t)
BY DEF OthersStay

\* The first timer of the heap is popped.
LEMMA Popped ==
  ASSUME NEW s, TimersOK(s), s.heap # << >>, NEW t, t = s.heap[1].t, NEW w, w = popped(s)
  PROVE  TimersOK(w) /\ t \in Timer /\ Unscheduled(s, w, t) /\ w.runchunk = s.runchunk
<1> PICK i : i = 1
  OBVIOUS
<1> PICK u : u = remove_heap(s, i)
  OBVIOUS
<1> PICK x : x = taken_off(u, t)
  OBVIOUS
<1>1. /\ s \in State /\ HeapOK(s) /\ ChunkFrom(s, 1) /\ Placed(s, Timer) /\ Ordered(s.heap)
      /\ s.heap \in Seq(Entry) /\ i \in 1 .. Len(s.heap) /\ t = s.heap[i].t
  BY StateParts DEF HeapOK, TimersOK
<1> USE <1>1
<1>2. t \in Timer
  BY Zenon DEF Placed
<1>3. u \in State
  BY RemoveHeap, Zenon DEF Without
<1>4. w = set_timer_expiry(x)
  BY <1>2, <1>3, RefreshAndTakeOff, Zenon DEF popped
<1>5. /\ HeapOK(x) /\ OthersStay(s, x, t) /\ x.pos[t] = 0 /\ x.expiry_s[t] = 0
      /\ x.runchunk = s.runchunk
  BY TakenOut
<1>6. /\ w \in State /\ Fresh(w)
      /\ w.heap = x.heap /\ w.pos = x.pos /\ w.expiry_s = x.expiry_s /\ w.runchunk = s.runchunk
  <2>1. x \in State
    BY <1>5, Zenon DEF HeapOK
  <2> QED
    BY <1>4, <1>5, <2>1, Refreshed
<1>7. HeapOK(w)
  BY <1>5, <1>6, SameHeap, Zenon
<1>8. Unscheduled(s, w, t)
  <2>1. OthersStay(s, w, t)
    BY <1>5, <1>6, SameOthers, Zenon
  <2> QED
    BY <1>5, <1>6, <2>1 DEF Unscheduled
<1>9. ChunkFrom(w, 1)
  <2>1. s.pos[t] >= 0 /\ w.pos[t] >= 0 /\ OthersStay(s, w, t)
    BY <1>8 DEF Placed, Unscheduled
  <2> QED
    BY <1>2, <1>6, <2>1, NotInChunk, Zenon
<1> QED
  BY <1>2, <1>6, <1>7, <1>8, <1>9, Zenon DEF TimersOK

\* unschedule takes a timer out of wherever it is.
LEMMA UnscheduledOK ==
  ASSUME NEW s, TimersOK(s), NEW t \in Timer, NEW w, w = unscheduled(s, t)
  PROVE  TimersOK(w) /\ Unscheduled(s, w, t)
<1>1. /\ s \in State /\ HeapOK(s) /\ ChunkFrom(s, 1) /\ Placed(s, Timer) /\ Ordered(s.heap)
      /\ Fresh(s) /\ s.heap \in Seq(Entry) /\ s.pos \in [Timer -> Int]
  BY StateParts DEF HeapOK, TimersOK
<1>2. CASE s.pos[t] > 0
  <2>0. PICK i \in 1 .. Len(s.heap) : i = s.pos[t] /\ t = s.heap[i].t
    BY <1>1, <1>2 DEF Placed
  <2> PICK u : u = remove_heap(s, i)
    OBVIOUS
  <2> PICK x : x = taken_off(u, t)
    BY SMTT(30)
  <2>1. t = s.heap[i].t
    BY <2>0, Zenon
  <2>2. /\ HeapOK(x) /\ OthersStay(s, x, t) /\ x.pos[t] = 0 /\ x.expiry_s[t] = 0
        /\ x.runchunk = s.runchunk /\ (i # 1 => Fresh(x))
    <3>1. Fresh(s) /\ HeapOK(s)
      BY <1>1
    <3> QED
      BY <2>1, <3>1, TakenOut, SMTT(30)
  <2>3. u \in State
    BY <1>1, <2>1, RemoveHeap, Zenon DEF Without
  <2>4. w = IF i = 1 THEN set_timer_expiry(x) ELSE x
    <3>1. taken_off(set_timer_expiry(u), t) = set_timer_expiry(x)
      BY <2>3, RefreshAndTakeOff
    <3>2. w = taken_off(IF i = 1 THEN set_timer_expiry(u) ELSE u, t)
      BY <1>2, <2>0, Zenon DEF unscheduled
    <3> QED
      BY <3>1, <3>2
  <2>5. /\ w \in State /\ Fresh(w) /\ HeapOK(w)
        /\ w.pos = x.pos /\ w.expiry_s = x.expiry_s /\ w.runchunk = s.runchunk
    <3>1. x \in State
      BY <2>2 DEF HeapOK
    <3>2. CASE i = 1
      <4>1. /\ w \in State /\ Fresh(w) /\ w.heap = x.heap /\ w.pos = x.pos
            /\ w.expiry_s = x.expiry_s /\ w.runchunk = x.runchunk
        BY <2>4, <3>1, <3>2, Refreshed, Zenon
      <4> QED
        BY <2>2, <4>1, SameHeap, Zenon
    <3>3. CASE i # 1
      BY <2>2, <2>4, <3>1, <3>3, Zenon
    <3> QED
      BY <3>2, <3>3
  <2>6. Unscheduled(s, w, t)
    BY <2>2, <2>5, Zenon DEF Unscheduled, OthersStay
  <2>7. ChunkFrom(w, 1)
    <3>1. s.pos[t] >= 0 /\ w.pos[t] >= 0 /\ OthersStay(s, w, t)
      BY <1>1, <1>2, <2>6 DEF Unscheduled
    <3> QED
      BY <1>1, <2>5, <3>1, NotInChunk, Zenon
  <2> QED
    BY <2>5, <2>6, <2>7 DEF TimersOK
<1>3. CASE ~ (s.pos[t] > 0)
  <2> PICK r : r = off_runchunk(s, t)
    OBVIOUS
  <2> PICK x : x = [s EXCEPT !.runchunk = r]
    BY Zenon
  <2>1. OffChunk(s, r, t, 1)
    BY <1>1, OffRunchunk
  <2>2. r \in Seq(Timer \cup {None})
    <3>1. s.pos[t] < 0 => - s.pos[t] \in 1 .. Len(s.runchunk)
      BY <1>1 DEF ChunkFrom
    <3> QED
      BY <1>1, <3>1, OffRunchunkType
  <2>3. /\ x \in State /\ x.heap = s.heap /\ x.pos = s.pos /\ x.expiry_s = s.expiry_s
        /\ x.runchunk = r /\ x.timer_expiry = s.timer_expiry
    BY <1>1, <2>2, Zenon DEF State
  <2>4. TakenOff(x, w, t)
    <3>1. w = taken_off(x, t)
      BY <1>1, <1>3 DEF unscheduled
    <3> QED
      BY <2>3, <3>1, TakenOffParts
  <2>5. /\ w \in State /\ w.heap = s.heap /\ w.runchunk = r /\ w.timer_expiry = s.timer_expiry
        /\ w.pos[t] = 0 /\ SameBut(s.pos, w.pos, t)
        /\ w.expiry_s[t] = 0 /\ SameBut(s.expiry_s, w.expiry_s, t)
    BY <2>3, <2>4 DEF TakenOff
  <2>6. OthersStay(s, w, t)
    BY <1>1, <2>5 DEF OthersStay, SameBut
  <2>7. HeapOK(w)
    <3>1. \A v \in Timer : (w.pos[v] > 0 <=> s.pos[v] > 0) /\ (s.pos[v] > 0 => w.pos[v] = s.pos[v] /\ v # t)
      BY <1>1, <1>3, <2>5 DEF SameBut
    <3>2. Placed(w, Timer)
      <4>1. ASSUME NEW k \in 1 .. Len(s.heap) PROVE s.heap[k].t \in Timer /\ w.pos[s.heap[k].t] = k
        <5>1. s.heap[k].t \in Timer /\ s.pos[s.heap[k].t] = k /\ k > 0
          BY <1>1 DEF Placed
        <5> QED
          BY <3>1, <5>1, Zenon
      <4> QED
        BY <1>1, <2>5, <3>1, <4>1 DEF Placed
    <3>3. Keyed(w)
      BY <1>1, <2>5, <3>1, Zenon DEF HeapOK, Keyed, SameBut
    <3> QED
      BY <1>1, <2>5, <3>2, <3>3, Zenon DEF HeapOK
  <2>8. Fresh(w)
    BY <1>1, <2>5 DEF Fresh
  <2>9. ChunkFrom(w, 1)
    BY <1>1, <2>1, <2>5, <2>6, ChunkStays
  <2> QED
    BY <2>1, <2>5, <2>6, <2>7, <2>8, <2>9 DEF TimersOK, Unscheduled, OffChunk
<1> QED
  BY <1>2, <1>3

-----------------------------------------------------------------------------
\* l is s with timer t at position p of the heap, where it was or behind all
\* others, with key e.
Listing(s, l, t, e, p) ==
  /\ l \in State /\ p \in 1 .. Len(l.heap)
  /\ \/ Len(l.heap) = Len(s.heap) /\ s.pos[t] = p
     \/ Len(l.heap) = Len(s.heap) + 1 /\ p = Len(l.heap) /\ s.pos[t] <= 0
  /\ l.heap[p] = [expiry_s |-> e, t |-> t]
  /\ \A k \in 1 .. Len(l.heap) : k # p => l.heap[k] = s.heap[k]
  /\ l.pos[t] = p /\ SameBut(s.pos, l.pos, t)
  /\ l.expiry_s[t] = e /\ SameBut(s.expiry_s, l.expiry_s, t)
  /\ l.runchunk = off_runchunk(s, t) /\ l.timer_expiry = s.timer_expiry

\* What listed does to a state.
LEMMA ListedParts ==
  ASSUME NEW s, HeapOK(s), NEW t \in Timer, NEW e \in Time \ {0},
         off_runchunk(s, t) \in Seq(Timer \cup {None}), NEW l, l = listed(s, t, e)
  PROVE  Listing(s, l, t, e, l.pos[t])
<1> DEFINE r == off_runchunk(s, t)
           E == [expiry_s |-> e, t |-> t]
           x == [s.expiry_s EXCEPT ![t] = e]
<1>1. /\ s \in State /\ Placed(s, Timer) /\ s.heap \in Seq(Entry) /\ Len(s.heap) \in Nat
      /\ s.pos \in [Timer -> Int] /\ s.expiry_s \in [Timer -> Time]
  BY StateParts DEF HeapOK
<1>2. E \in Entry
  BY DEF Entry
<1>3. x \in [Timer -> Time] /\ x[t] = e /\ SameBut(s.expiry_s, x, t)
  BY <1>1 DEF SameBut
<1> USE <1>3
<1>4. ASSUME NEW h, NEW p, NEW l1, l1 = [s EXCEPT !.heap = h, !.pos = p],
             h \in Seq(Entry), p \in [Timer -> Int],
             l = [l1 EXCEPT !.expiry_s[t] = e, !.runchunk = r]
      PROVE  /\ l \in State /\ l.heap = h /\ l.pos = p /\ l.expiry_s = x /\ l.runchunk = r
             /\ l.timer_expiry = s.timer_expiry
  <2>1. /\ l1.heap = h /\ l1.pos = p /\ l1.expiry_s = s.expiry_s
        /\ l1.timer_expiry = s.timer_expiry /\ l1 \in State
    BY <1>1, <1>4, Zenon DEF State
  <2> HIDE DEF r
  <2>2. /\ l.heap = h /\ l.pos = p /\ l.expiry_s = x /\ l.runchunk = r
        /\ l.timer_expiry = s.timer_expiry
    BY <1>4, <2>1 DEF State
  <2>3. l = [[l1 EXCEPT !.expiry_s = x] EXCEPT !.runchunk = r]
    BY <1>4, <2>1 DEF State
  <2> HIDE DEF x
  <2>4. l \in State
    BY <2>1, <2>3, Zenon DEF State, r
  <2> QED
    BY <2>2, <2>4
<1> HIDE DEF r, x, E
<1>5. CASE s.pos[t] > 0
  <2>1. PICK p \in 1 .. Len(s.heap) : p = s.pos[t] /\ s.heap[p].t = t
    BY <1>1, <1>5 DEF Placed
  <2> DEFINE h == [s.heap EXCEPT ![p] = E]
  <2>2. h \in Seq(Entry) /\ Len(h) = Len(s.heap) /\ h[p] = E
        /\ \A k \in 1 .. Len(h) : k # p => h[k] = s.heap[k]
    BY <1>1, <1>2
  <2>3. [s.heap[p] EXCEPT !.expiry_s = e] = E
    <3>1. s.heap[p] \in Entry
      BY <1>1
    <3> QED
      BY <2>1, <3>1 DEF Entry, E
  <2>4. l = [[s EXCEPT !.heap = h, !.pos = s.pos] EXCEPT !.expiry_s[t] = e, !.runchunk = r]
    <3>1. [s EXCEPT !.heap[s.pos[t]].expiry_s = e] = [s EXCEPT !.heap = h, !.pos = s.pos]
      BY <1>1, <2>1, <2>3, Zenon DEF State
    <3> QED
      BY <1>5, <3>1, Zenon DEF listed, r
  <2> HIDE DEF h
  <2>5. /\ l \in State /\ l.heap = h /\ l.pos = s.pos /\ l.expiry_s = x /\ l.runchunk = r
        /\ l.timer_expiry = s.timer_expiry
    BY <1>1, <1>4, <2>2, <2>4, Zenon
  <2> QED
    BY <1>1, <2>1, <2>2, <2>5 DEF Listing, SameBut, r, E
<1>6. CASE ~ (s.pos[t] > 0)
  <2> DEFINE h == Append(s.heap, E)
             p == [s.pos EXCEPT ![t] = Len(s.heap) + 1]
  <2>1. h \in Seq(Entry) /\ Len(h) = Len(s.heap) + 1 /\ h[Len(h)] = E
        /\ \A k \in 1 .. Len(h) : k # Len(h) => h[k] = s.heap[k]
    BY <1>1, <1>2
  <2>2. p \in [Timer -> Int] /\ p[t] = Len(s.heap) + 1 /\ SameBut(s.pos, p, t)
    BY <1>1 DEF SameBut
  <2>3. l = [[s EXCEPT !.heap = h, !.pos = p] EXCEPT !.expiry_s[t] = e, !.runchunk = r]
    <3>1. [s EXCEPT !.heap = Append(@, E), !.pos[t] = Len(s.heap) + 1]
            = [s EXCEPT !.heap = h, !.pos = p]
      BY <1>1 DEF State
    <3> QED
      BY <1>6, <3>1, Zenon DEF listed, r, E
  <2> HIDE DEF h, p
  <2>4. /\ l \in State /\ l.heap = h /\ l.pos = p /\ l.expiry_s = x /\ l.runchunk = r
        /\ l.timer_expiry = s.timer_expiry
    BY <1>4, <2>1, <2>2, <2>3, Zenon
  <2> QED
    BY <1>1, <1>6, <2>1, <2>2, <2>4 DEF Listing, r, E
<1> QED
  BY <1>5, <1>6

\* After listed only the place of the timer may be out of order.
LEMMA ListedOK ==
  ASSUME NEW s, HeapOK(s), NEW t \in Timer, NEW e \in Time \ {0},
         NEW l, NEW p, Listing(s, l, t, e, p)
  PROVE  Placed(l, Timer) /\ Keyed(l) /\ OrderedBut(l.heap, p) /\ OthersStay(s, l, t)
<1>1. /\ s \in State /\ Placed(s, Timer) /\ Ordered(s.heap) /\ Keyed(s)
      /\ s.heap \in Seq(Entry) /\ Len(s.heap) \in Nat /\ s.pos \in [Timer -> Int]
      /\ l \in State /\ l.heap \in Seq(Entry) /\ Len(l.heap) \in Nat /\ l.pos \in [Timer -> Int]
  BY StateParts, Zenon DEF HeapOK, Listing
<1>2. /\ p \in 1 .. Len(l.heap) /\ l.pos[t] = p /\ l.heap[p].t = t /\ l.heap[p].expiry_s = e
      /\ l.expiry_s[t] = e
  BY DEF Listing
<1>3. \A k \in 1 .. Len(l.heap) : k # p => k \in 1 .. Len(s.heap) /\ l.heap[k] = s.heap[k]
  BY <1>1 DEF Listing
<1> USE <1>3
<1>4. \A k \in 1 .. Len(s.heap) : k \in 1 .. Len(l.heap)
  BY <1>1 DEF Listing
<1>5. \A v \in Timer \ {t} : l.pos[v] = s.pos[v] /\ l.expiry_s[v] = s.expiry_s[v]
  BY DEF Listing, SameBut
<1>6. s.pos[t] > 0 => s.pos[t] = p
  BY <1>1 DEF Listing
<1>7. ASSUME NEW k \in 1 .. Len(l.heap), k # p
      PROVE  l.heap[k].t \in Timer \ {t} /\ l.pos[l.heap[k].t] = k
  <2>1. k \in 1 .. Len(s.heap) /\ k > 0 /\ l.heap[k] = s.heap[k]
    BY <1>7
  <2>2. s.heap[k].t \in Timer /\ s.pos[s.heap[k].t] = k
    BY <1>1, <2>1, Zenon DEF Placed
  <2>3. s.heap[k].t # t
    BY <1>6, <1>7, <2>1, <2>2, Zenon
  <2> QED
    BY <1>5, <2>1, <2>2, <2>3, Zenon
<1>8. ASSUME NEW v \in Timer \ {t}, l.pos[v] > 0
      PROVE  l.pos[v] \in 1 .. Len(s.heap) /\ l.pos[v] # p /\ s.heap[l.pos[v]].t = v
             /\ s.heap[l.pos[v]].expiry_s = s.expiry_s[v]
  <2>1. s.pos[v] > 0 /\ s.pos[v] = l.pos[v]
    BY <1>5, <1>8, Zenon
  <2>2. s.pos[v] \in 1 .. Len(s.heap) /\ s.heap[s.pos[v]].t = v
        /\ s.heap[s.pos[v]].expiry_s = s.expiry_s[v]
    BY SMTT(30), <1>1, <2>1 DEF Placed, Keyed
  <2>3. s.pos[v] # p
    <3>1. CASE s.pos[t] = p
      <4>1. p > 0
        BY <1>2
      <4> QED
        BY <1>1, <2>2, <3>1, <4>1, Zenon DEF Placed
    <3>2. CASE p = Len(s.heap) + 1
      BY <1>1, <2>2, <3>2
    <3> QED
      BY <3>1, <3>2, Zenon DEF Listing
  <2> QED
    BY <2>1, <2>2, <2>3, Zenon
<1>9. Placed(l, Timer)
  <2>1. \A k \in 1 .. Len(l.heap) : l.heap[k].t \in Timer /\ l.pos[l.heap[k].t] = k
    BY <1>2, <1>7, Zenon
  <2>2. ASSUME NEW v \in Timer, l.pos[v] > 0
        PROVE  l.pos[v] <= Len(l.heap) /\ l.heap[l.pos[v]].t = v
    <3>1. CASE v = t
      BY <1>1, <1>2, <3>1
    <3>2. CASE v # t
      <4>1. l.pos[v] \in 1 .. Len(s.heap) /\ l.pos[v] # p /\ s.heap[l.pos[v]].t = v
        BY <1>8, <2>2, <3>2, Zenon
      <4>2. l.pos[v] \in 1 .. Len(l.heap)
        BY <1>4, <4>1, Zenon
      <4> QED
        BY SMTT(30), <1>1, <4>1, <4>2
    <3> QED
      BY <3>1, <3>2, Zenon
  <2> QED
    BY <2>1, <2>2, Zenon DEF Placed
<1>10. Keyed(l)
  <2> SUFFICES ASSUME NEW v \in Timer, l.pos[v] > 0
               PROVE  l.heap[l.pos[v]].expiry_s = l.expiry_s[v]
    BY DEF Keyed
  <2>1. CASE v = t
    BY <1>2, <2>1, Zenon
  <2>2. CASE v # t
    <3>1. /\ l.pos[v] \in 1 .. Len(s.heap) /\ l.pos[v] # p
          /\ s.heap[l.pos[v]].expiry_s = s.expiry_s[v]
      BY <1>8, <2>2, Zenon
    <3>2. l.pos[v] \in 1 .. Len(l.heap)
      BY <1>4, <3>1, Zenon
    <3> QED
      BY <1>5, <2>2, <3>1, <3>2, Zenon
  <2> QED
    BY <2>1, <2>2, Zenon
<1>11. OthersStay(s, l, t)
  BY <1>1, <1>5 DEF OthersStay
<1>12. ASSUME NEW k \in 2 .. Len(l.heap)
       PROVE  /\ k \in 1 .. Len(l.heap) /\ parent(k) \in 1 .. Len(l.heap) /\ parent(k) < k
              /\ k # p => k \in 2 .. Len(s.heap)
  <2>1. k \in 1 .. Len(l.heap) /\ parent(k) \in 1 .. Len(l.heap) /\ parent(k) < k
    BY <1>1, ParentInHeap
  <2> QED
    BY <2>1
<1>13. ASSUME NEW k \in 2 .. Len(l.heap), k # p, parent(k) # p
       PROVE  l.heap[parent(k)].expiry_s <= l.heap[k].expiry_s
  <2>1. l.heap[k] = s.heap[k] /\ l.heap[parent(k)] = s.heap[parent(k)] /\ k \in 2 .. Len(s.heap)
    BY <1>12, <1>13, Zenon
  <2> QED
    BY <1>1, <2>1, Zenon DEF Ordered
<1>14. ASSUME p > 1, NEW k \in 2 .. Len(l.heap), parent(k) = p
       PROVE  l.heap[parent(p)].expiry_s <= l.heap[k].expiry_s
  <2>1. k # p /\ p \in 2 .. Len(l.heap) /\ k \in 2 .. Len(s.heap) /\ p < k
    BY <1>1, <1>2, <1>12, <1>14
  <2> USE <2>1
  <2>2. p \in 2 .. Len(s.heap) /\ parent(p) \in 1 .. Len(l.heap) /\ parent(p) # p
    BY <1>1, <1>12
  <2>3. l.heap[k] = s.heap[k] /\ l.heap[parent(p)] = s.heap[parent(p)]
    BY <1>12, <2>2, Zenon
  <2>4. s.heap[parent(p)].expiry_s <= s.heap[p].expiry_s /\ s.heap[p].expiry_s <= s.heap[k].expiry_s
    BY <1>1, <1>14, <2>2, Zenon DEF Ordered
  <2>5. /\ s.heap[parent(p)].expiry_s \in Nat /\ s.heap[p].expiry_s \in Nat
        /\ s.heap[k].expiry_s \in Nat
    BY <1>1, <2>2, ParentInHeap, Zenon
  <2> QED
    BY <2>3, <2>4, <2>5
<1>15. OrderedBut(l.heap, p)
  BY <1>13, <1>14, Zenon DEF OrderedBut
<1> QED
  BY <1>9, <1>10, <1>11, <1>15

\* The expiry that is stored is a time, and that of an expired timer stays
\* between what it was and the time of the check.
LEMMA CheckedExpiry ==
  ASSUME NEW when \in Time, timer_check \in 1 .. MaxTime
  PROVE  /\ checked_expiry(when) \in Time \ {0}
         /\ when \in 1 .. timer_check => checked_expiry(when) \in when .. timer_check
<1>1. when \in Nat /\ MaxTime \in Nat /\ timer_check \in Nat /\ timer_check \in Time \ {0}
  BY TimerSetAssumption DEF Time
<1>2. checked_expiry(when) = timer_check \/ checked_expiry(when) = IF when = 0 THEN 1 ELSE when
  BY Zenon DEF checked_expiry
<1> QED
  BY <1>1, <1>2 DEF Time

\* u is s with timer t in the heap, to expire at e.
Rescheduled(s, u, t, e) ==
  /\ OthersStay(s, u, t) /\ u.pos[t] > 0 /\ u.expiry_s[t] = e
  /\ u.runchunk = off_runchunk(s, t)

\* The heap is in order again, and _timer_expiry is the earliest expiry, also
\* when schedule_at_steady does not refresh it.
LEMMA RescheduledOK ==
  ASSUME NEW s, HeapOK(s), Fresh(s), NEW t \in Timer, NEW when \in Time,
         timer_check \in 1 .. MaxTime, off_runchunk(s, t) \in Seq(Timer \cup {None}),
         NEW u, u = rescheduled(s, t, when)
  PROVE  HeapOK(u) /\ Fresh(u) /\ Rescheduled(s, u, t, checked_expiry(when))
<1>1. PICK e \in Time \ {0} : e = checked_expiry(when)
  BY CheckedExpiry
<1> USE <1>1
<1>2. PICK l : l = listed(s, t, e)
  OBVIOUS
<1>3. PICK p : p = l.pos[t]
  OBVIOUS
<1>4. PICK x : x = change_heap(l, p)
  OBVIOUS
<1>5. u = IF s.pos[t] = 1 \/ x.pos[t] = 1 THEN set_timer_expiry(x) ELSE x
  BY <1>2, <1>3, <1>4, Zenon DEF rescheduled
<1>6. Listing(s, l, t, e, p)
  BY <1>2, <1>3, ListedParts, Zenon
<1> USE <1>6
<1>7. Placed(l, Timer) /\ Keyed(l) /\ OrderedBut(l.heap, p) /\ OthersStay(s, l, t)
  BY ListedOK
<1> USE <1>7
<1>8. /\ l \in State /\ p \in 1 .. Len(l.heap) /\ l.pos[t] = p /\ l.heap[p].t = t
      /\ l.expiry_s[t] = e /\ l.runchunk = off_runchunk(s, t) /\ l.timer_expiry = s.timer_expiry
      /\ l.pos \in [Timer -> Int] /\ l.heap \in Seq(Entry) /\ Len(l.heap) \in Nat
  <2>1. l.heap[p] = [expiry_s |-> e, t |-> t] /\ l \in State
    BY Zenon DEF Listing
  <2>2. l.heap[p].t = t
    BY SMTT(30), <2>1
  <2>3. l.pos \in [Timer -> Int] /\ l.heap \in Seq(Entry) /\ Len(l.heap) \in Nat
    BY <2>1, StateParts, Zenon
  <2> QED
    BY <2>1, <2>2, <2>3, Zenon DEF Listing
<1> USE <1>8
<1>9. Rearranged(l, x, Timer) /\ Ordered(x.heap)
  <2>1. PICK T \in SUBSET Timer : T = Timer
    OBVIOUS
  <2>2. Placed(l, T)
    BY SMTT(30), <2>1
  <2>3. Rearranged(l, x, T) /\ Ordered(x.heap)
    BY <1>4, <2>2, ChangeHeap, Zenon
  <2> QED
    BY <2>1, <2>3, Zenon
<1>10. /\ x \in State /\ Placed(x, Timer) /\ Len(x.heap) = Len(l.heap)
       /\ x.expiry_s = l.expiry_s /\ x.runchunk = l.runchunk /\ x.timer_expiry = l.timer_expiry
       /\ \A v \in Timer : l.pos[v] <= 0 => x.pos[v] = l.pos[v]
       /\ \A v \in Timer : l.pos[v] > 0 => x.pos[v] > 0 /\ x.heap[x.pos[v]] = l.heap[l.pos[v]]
  BY <1>9, Zenon DEF Rearranged
<1>11. Keyed(x)
  <2> SUFFICES ASSUME NEW v \in Timer, x.pos[v] > 0
               PROVE  x.heap[x.pos[v]].expiry_s = x.expiry_s[v]
    BY Zenon DEF Keyed
  <2>1. l.pos[v] > 0
    BY <1>10
  <2> QED
    BY <1>10, <2>1, Zenon DEF Keyed
<1>12. HeapOK(x)
  BY <1>9, <1>10, <1>11, Zenon DEF HeapOK
<1>13. Rescheduled(s, x, t, e)
  <2>1. x.pos[t] > 0
    BY SMTT(30), <1>10
  <2>2. ASSUME NEW v \in Timer \ {t}
        PROVE  /\ x.expiry_s[v] = s.expiry_s[v]
               /\ IF s.pos[v] <= 0 THEN x.pos[v] = s.pos[v] ELSE x.pos[v] > 0
    BY <1>10, Zenon DEF OthersStay
  <2> QED
    BY <1>10, <2>1, <2>2, Zenon DEF Rescheduled, OthersStay
<1>14. CASE s.pos[t] = 1 \/ x.pos[t] = 1
  <2>1. u = set_timer_expiry(x)
    BY <1>5, <1>14
  <2>2. /\ u \in State /\ Fresh(u)
        /\ u.heap = x.heap /\ u.pos = x.pos /\ u.expiry_s = x.expiry_s /\ u.runchunk = x.runchunk
    BY <1>10, <2>1, Refreshed, Zenon
  <2>3. HeapOK(u)
    BY <1>12, <2>2, SameHeap, Zenon
  <2> QED
    BY <1>13, <2>2, <2>3, Zenon DEF Rescheduled, OthersStay
<1>15. CASE s.pos[t] # 1 /\ x.pos[t] # 1
  <2>1. u = x
    BY <1>5, <1>15
  <2>2. p # 1
    <3>1. x.pos[t] > 0 /\ x.pos[t] <= Len(l.heap) /\ x.pos[t] \in Int
      BY SMTT(30), <1>10, StateParts DEF Placed
    <3>2. \A q, n \in Int : q > 0 /\ q <= n /\ q # 1 => n # 1
      BY SMTT(30)
    <3>3. Len(l.heap) \in Int
      OBVIOUS
    <3>4. Len(l.heap) # 1
      BY <1>15, <3>1, <3>2, <3>3, Zenon
    <3> QED
      BY <1>15, <3>4, Zenon DEF Listing
  <2>3. p \in 2 .. Len(l.heap) /\ 1 \in 1 .. Len(l.heap)
    BY <2>2
  <2>4. s.heap # << >> /\ l.heap[1] = s.heap[1]
    <3>1. s.heap \in Seq(Entry)
      BY SMTT(30), StateParts DEF HeapOK
    <3> QED
      <4>1. Len(s.heap) = Len(l.heap) \/ Len(l.heap) = Len(s.heap) + 1
        BY Zenon DEF Listing
      <4>2. s.heap # << >>
        BY SMTT(30), <2>3, <3>1, <4>1
      <4>3. l.heap[1] = s.heap[1]
        BY <2>2, <2>3, Zenon DEF Listing
      <4> QED
        BY <4>2, <4>3
  <2>5. x.heap[1].expiry_s = l.heap[1].expiry_s
    <3>1. PICK T \in SUBSET Timer : T = Timer
      OBVIOUS
    <3>2. Placed(l, T) /\ Rearranged(l, x, T) /\ x.pos[l.heap[p].t] # 1
      BY <1>9, <1>15, <3>1, Zenon
    <3> QED
      BY <1>9, <2>3, <3>2, ChangeKeepsFirst, Zenon
  <2>6. x.heap # << >>
    BY SMTT(30), <1>10, <2>3
  <2>7. Fresh(x)
    BY <1>10, <2>4, <2>5, <2>6, Zenon DEF Fresh
  <2> QED
    BY <1>12, <1>13, <2>1, <2>7
<1> QED
  BY <1>14, <1>15

\* schedule_at_steady leaves the timer set in order.
LEMMA ScheduledOK ==
  ASSUME NEW s, TimersOK(s), NEW t \in Timer, NEW when \in Time,
         timer_check \in 1 .. MaxTime, NEW u, u = rescheduled(s, t, when)
  PROVE  /\ TimersOK(u) /\ Rescheduled(s, u, t, checked_expiry(when))
         /\ Len(u.runchunk) = Len(s.runchunk)
<1>1. s \in State /\ HeapOK(s) /\ Fresh(s) /\ ChunkFrom(s, 1) /\ s.pos \in [Timer -> Int]
  BY StateParts DEF TimersOK, HeapOK
<1> USE <1>1
<1>2. off_runchunk(s, t) \in Seq(Timer \cup {None})
  <2>1. s.pos[t] < 0 => - s.pos[t] \in 1 .. Len(s.runchunk)
    BY DEF ChunkFrom
  <2> QED
    BY <2>1, OffRunchunkType, Zenon
<1>3. HeapOK(u) /\ Fresh(u) /\ Rescheduled(s, u, t, checked_expiry(when))
  BY <1>2, RescheduledOK, Zenon
<1>4. u \in State /\ OthersStay(s, u, t) /\ u.pos[t] > 0 /\ u.runchunk = off_runchunk(s, t)
  BY <1>3 DEF HeapOK, Rescheduled
<1> USE <1>4
<1>5. OffChunk(s, u.runchunk, t, 1)
  BY OffRunchunk
<1>6. ChunkFrom(u, 1)
  <2>1. u.pos[t] >= 0
    BY StateParts
  <2> QED
    BY <1>5, <2>1, ChunkStays
<1> QED
  BY <1>3, <1>5, <1>6, Zenon DEF TimersOK, OffChunk

-----------------------------------------------------------------------------
\* The rounds of the loop that fills the run chunk.
Chunks(x, n) == Loop(to_chunk, x, n)
ChunksBy(c, x) == c[0] = x /\ \A k \in Nat : c[k + 1] = to_chunk(c[k])
ChunksIn(S, x, n) == \E c \in [Nat -> S] : ChunksBy(c, x) /\ Chunks(x, n) = c[n]

\* They are the iterates of the body of the loop, in whatever set it stays.
LEMMA ChunkLoop ==
  ASSUME NEW S, NEW x, x \in S, \A y \in S : to_chunk(y) \in S, NEW n, n \in Nat
  PROVE  ChunksIn(S, x, n)
<1> DEFINE f == [y \in S |-> to_chunk(y)]
<1>1. f \in [S -> S] /\ \A y \in S : f[y] = to_chunk(y)
  OBVIOUS
<1> HIDE DEF f
<1>2. PICK d \in [Nat -> S] : Iterates(d, f, x)
  BY <1>1, Iteration
<1> DEFINE F(c) == [k \in Nat |-> IF k = 0 THEN x
                                ELSE CHOOSE y \in {to_chunk(z) : z \in {c[k - 1]}} : TRUE]
           c == CHOOSE c : c = [k \in Nat |-> IF k = 0 THEN x
                                ELSE CHOOSE y \in {to_chunk(z) : z \in {c[k - 1]}} : TRUE]
<1>3. d = F(d)
  <2>1. ASSUME NEW k \in Nat, k # 0 PROVE d[k] = to_chunk(d[k - 1])
    <3>1. k - 1 \in Nat /\ (k - 1) + 1 = k
      BY <2>1
    <3> QED
      BY <1>1, <1>2, <3>1 DEF Iterates
  <2> QED
    BY <1>2, <2>1 DEF Iterates
<1>4. c = F(c)
  BY <1>3, Zenon
<1>5. Chunks(x, n) = c[n]
  BY DEF Chunks, Loop
<1> HIDE DEF c
<1>6. c[0] = x /\ \A k \in Nat : c[k + 1] = to_chunk(c[k])
  BY <1>4
<1>7. c \in [Nat -> S]
  BY <1>4, <1>6, StaysIn
<1> QED
  BY <1>5, <1>6, <1>7 DEF ChunksBy, ChunksIn

\* The rounds of the loop that schedules what is left of the run chunk.
Unruns(x, n) == Loop(unrun_at, x, n)
UnrunsBy(c, x) == c[0] = x /\ \A k \in Nat : c[k + 1] = unrun_at(c[k])
UnrunsIn(S, x, n) == \E c \in [Nat -> S] : UnrunsBy(c, x) /\ Unruns(x, n) = c[n]

\* They are the iterates of the body of the loop, in whatever set it stays.
LEMMA UnrunLoop ==
  ASSUME NEW S, NEW x, x \in S, \A y \in S : unrun_at(y) \in S, NEW n, n \in Nat
  PROVE  UnrunsIn(S, x, n)
<1> DEFINE f == [y \in S |-> unrun_at(y)]
<1>1. f \in [S -> S] /\ \A y \in S : f[y] = unrun_at(y)
  OBVIOUS
<1> HIDE DEF f
<1>2. PICK d \in [Nat -> S] : Iterates(d, f, x)
  BY <1>1, Iteration
<1> DEFINE F(c) == [k \in Nat |-> IF k = 0 THEN x
                                ELSE CHOOSE y \in {unrun_at(z) : z \in {c[k - 1]}} : TRUE]
           c == CHOOSE c : c = [k \in Nat |-> IF k = 0 THEN x
                                ELSE CHOOSE y \in {unrun_at(z) : z \in {c[k - 1]}} : TRUE]
<1>3. d = F(d)
  <2>1. ASSUME NEW k \in Nat, k # 0 PROVE d[k] = unrun_at(d[k - 1])
    <3>1. k - 1 \in Nat /\ (k - 1) + 1 = k
      BY <2>1
    <3> QED
      BY <1>1, <1>2, <3>1 DEF Iterates
  <2> QED
    BY <1>2, <2>1 DEF Iterates
<1>4. c = F(c)
  BY <1>3, Zenon
<1>5. Unruns(x, n) = c[n]
  BY DEF Unruns, Loop
<1> HIDE DEF c
<1>6. c[0] = x /\ \A k \in Nat : c[k + 1] = unrun_at(c[k])
  BY <1>4
<1>7. c \in [Nat -> S]
  BY <1>4, <1>6, StaysIn
<1> QED
  BY <1>5, <1>6, <1>7 DEF UnrunsBy, UnrunsIn

\* The rounds of the loop that removes the timers of a router.
Kills(x, n, r) == Loop(LAMBDA z : kill_at(z, r), x, n)
KillsBy(c, x, r) == c[0] = x /\ \A k \in Nat : c[k + 1] = kill_at(c[k], r)
KillsIn(S, x, n, r) == \E c \in [Nat -> S] : KillsBy(c, x, r) /\ Kills(x, n, r) = c[n]

\* They are the iterates of the body of the loop, in whatever set it stays.
LEMMA KillLoop ==
  ASSUME NEW r, NEW S, NEW x, x \in S, \A y \in S : kill_at(y, r) \in S, NEW n, n \in Nat
  PROVE  KillsIn(S, x, n, r)
<1> DEFINE f == [y \in S |-> kill_at(y, r)]
<1>1. f \in [S -> S] /\ \A y \in S : f[y] = kill_at(y, r)
  OBVIOUS
<1> HIDE DEF f
<1>2. PICK d \in [Nat -> S] : Iterates(d, f, x)
  BY <1>1, Iteration
<1> DEFINE F(c) == [k \in Nat |-> IF k = 0 THEN x
                                ELSE CHOOSE y \in {kill_at(z, r) : z \in {c[k - 1]}} : TRUE]
           c == CHOOSE c : c = [k \in Nat |-> IF k = 0 THEN x
                                ELSE CHOOSE y \in {kill_at(z, r) : z \in {c[k - 1]}} : TRUE]
<1>3. d = F(d)
  <2>1. ASSUME NEW k \in Nat, k # 0 PROVE d[k] = kill_at(d[k - 1], r)
    <3>1. k - 1 \in Nat /\ (k - 1) + 1 = k
      BY <2>1
    <3> QED
      BY <1>1, <1>2, <3>1 DEF Iterates
  <2> QED
    BY <1>2, <2>1 DEF Iterates
<1>4. c = F(c)
  BY <1>3, Zenon
<1>5. Kills(x, n, r) = c[n]
  BY DEF Kills, Loop
<1> HIDE DEF c
<1>6. c[0] = x /\ \A k \in Nat : c[k + 1] = kill_at(c[k], r)
  BY <1>4
<1>7. c \in [Nat -> S]
  BY <1>4, <1>6, StaysIn
<1> QED
  BY <1>5, <1>6, <1>7 DEF KillsBy, KillsIn

-----------------------------------------------------------------------------
\* w is s with some of its expired timers moved to the run chunk.
Chunking(s, w) ==
  /\ HeapOK(w) /\ ChunkFrom(w, 1) /\ w.runchunk \in Seq(Timer)
  /\ w.expiry_s = s.expiry_s
  /\ \A t \in Timer : /\ w.pos[t] # 0 <=> s.pos[t] # 0
                      /\ w.pos[t] < 0 => w.expiry_s[t] \in 1 .. timer_check

\* A round of the loop moves the first timer of the heap if it has expired.
LEMMA ChunkRound ==
  ASSUME NEW s, NEW w, Chunking(s, w), timer_check \in 1 .. MaxTime, NEW u, u = to_chunk(w)
  PROVE  /\ Chunking(s, u)
         /\ IF expired(w, timer_check) THEN Len(u.runchunk) = Len(w.runchunk) + 1 ELSE u = w
<1>1. CASE ~ expired(w, timer_check)
  BY <1>1 DEF to_chunk
<1>2. CASE expired(w, timer_check)
  <2>1. PICK t : t = w.heap[1].t
    OBVIOUS
  <2>2. PICK x : x = remove_heap(w, 1)
    OBVIOUS
  <2>3. PICK p : p = - Len(w.runchunk) - 1
    OBVIOUS
  <2>4. PICK r : r = Append(w.runchunk, t)
    BY Zenon
  <2>5. /\ HeapOK(w) /\ w \in State /\ ChunkFrom(w, 1) /\ Placed(w, Timer) /\ Ordered(w.heap)
        /\ w.heap \in Seq(Entry) /\ 1 \in 1 .. Len(w.heap) /\ w.runchunk \in Seq(Timer)
        /\ w.pos \in [Timer -> Int] /\ Len(w.runchunk) \in Nat
    BY <1>2, StateParts DEF Chunking, HeapOK, expired
  <2>6. t \in Timer /\ w.pos[t] = 1 /\ p \in Int /\ p < 0
    BY <2>1, <2>3, <2>5 DEF Placed
  <2>7. Without(w, x, t)
    BY <2>1, <2>2, <2>5, RemoveHeap
  <2>8. /\ x \in State /\ x.expiry_s = w.expiry_s /\ x.runchunk = w.runchunk
        /\ x.pos \in [Timer -> Int]
    BY <2>7, StateParts DEF Without
  <2>9. /\ r \in Seq(Timer) /\ r \in Seq(Timer \cup {None}) /\ Len(r) = Len(w.runchunk) + 1
        /\ r[Len(r)] = t /\ \A j \in 1 .. Len(w.runchunk) : r[j] = w.runchunk[j]
    BY <2>4, <2>5, <2>6
  <2>10. u = [x EXCEPT !.pos = [x.pos EXCEPT ![t] = p], !.runchunk = r]
    BY <1>2, <2>1, <2>2, <2>3, <2>4, <2>8, Zenon DEF to_chunk, State
  <2>11. /\ u \in State /\ u.heap = x.heap /\ u.runchunk = r /\ u.expiry_s = w.expiry_s
         /\ u.pos = [x.pos EXCEPT ![t] = p]
    <3>1. [x.pos EXCEPT ![t] = p] \in [Timer -> Int]
      BY <2>6, <2>8
    <3> QED
      BY <2>8, <2>9, <2>10, <3>1, Zenon DEF State
  <2>12. u.pos[t] = p /\ SameBut(x.pos, u.pos, t) /\ SameBut(w.expiry_s, u.expiry_s, t)
    BY <2>6, <2>8, <2>11 DEF SameBut
  <2>13. HeapOK(u) /\ OthersStay(w, u, t)
    <3>1. p <= 0
      BY <2>6
    <3> QED
      BY <2>5, <2>6, <2>7, <2>11, <2>12, <3>1, OutOfHeap, Zenon
  <2>14. ChunkFrom(u, 1)
    <3>1. ASSUME NEW j \in 1 .. Len(u.runchunk), u.runchunk[j] # None
          PROVE  u.pos[u.runchunk[j]] = - j
      <4>1. CASE j = Len(r)
        BY <2>3, <2>5, <2>9, <2>11, <2>12, <4>1
      <4>2. CASE j # Len(r)
        <5>1. j \in 1 .. Len(w.runchunk) /\ r[j] = w.runchunk[j] /\ w.runchunk[j] # None
          <6>1. j \in 1 .. Len(r) /\ r[j] # None
            BY <2>11, <3>1
          <6>2. j \in 1 .. Len(w.runchunk)
            BY <2>5, <2>9, <4>2, <6>1
          <6> QED
            BY <2>9, <6>1, <6>2
        <5>2. w.pos[w.runchunk[j]] = - j /\ w.runchunk[j] \in Timer
          BY <2>5, <5>1 DEF ChunkFrom
        <5>3. w.runchunk[j] # t /\ w.pos[w.runchunk[j]] <= 0
          BY <2>6, <5>1, <5>2
        <5> QED
          BY <2>11, <2>13, <5>1, <5>2, <5>3 DEF OthersStay
      <4> QED
        BY <4>1, <4>2
    <3>2. ASSUME NEW v \in Timer, u.pos[v] < 0
          PROVE  - u.pos[v] \in 1 .. Len(u.runchunk) /\ u.runchunk[- u.pos[v]] = v
      <4>1. CASE v = t
        BY <2>3, <2>5, <2>9, <2>11, <2>12, <4>1
      <4>2. CASE v # t
        <5>1. u.pos[v] = w.pos[v] /\ w.pos[v] < 0
          <6>1. w.pos[v] \in Int /\ u.pos[v] \in Int
            BY <2>5, <2>11, StateParts
          <6> QED
            BY <2>13, <3>2, <4>2, <6>1 DEF OthersStay
        <5>2. - w.pos[v] \in 1 .. Len(w.runchunk) /\ w.runchunk[- w.pos[v]] = v
          BY <2>5, <5>1 DEF ChunkFrom
        <5>3. PICK j \in 1 .. Len(w.runchunk) : j = - w.pos[v] /\ w.runchunk[j] = v
          BY <5>2
        <5>4. r[j] = v /\ j \in 1 .. Len(r)
          BY SMTT(30), <2>5, <2>9, <5>3
        <5> QED
          BY <2>11, <5>1, <5>3, <5>4
      <4> QED
        BY <4>1, <4>2
    <3> QED
      BY <3>1, <3>2 DEF ChunkFrom
  <2>15. u.expiry_s = s.expiry_s
    BY <2>11 DEF Chunking
  <2>16. ASSUME NEW v \in Timer
         PROVE  /\ u.pos[v] # 0 <=> s.pos[v] # 0
                /\ u.pos[v] < 0 => u.expiry_s[v] \in 1 .. timer_check
    <3>1. CASE v = t
      <4>1. w.expiry_s[t] = w.heap[1].expiry_s
        BY <2>5, <2>6 DEF HeapOK, Keyed
      <4>2. w.expiry_s[t] \in 1 .. timer_check
        <5>1. w.heap[1].expiry_s <= timer_check
          BY <1>2 DEF expired
        <5>2. w.heap[1].expiry_s \in Nat /\ w.heap[1].expiry_s # 0
          BY <2>5, KeyIsTime
        <5>3. timer_check \in Nat
          BY TimerSetAssumption
        <5> QED
          BY <4>1, <5>1, <5>2, <5>3
      <4> QED
        BY SMTT(30), <2>6, <2>11, <2>12, <3>1, <4>2 DEF Chunking
    <3>2. CASE v # t
      <4>1. w.pos[v] # 0 <=> s.pos[v] # 0
        BY DEF Chunking
      <4>2. w.pos[v] < 0 => w.expiry_s[v] \in 1 .. timer_check
        BY DEF Chunking
      <4>3. IF w.pos[v] <= 0 THEN u.pos[v] = w.pos[v] ELSE u.pos[v] > 0
        BY <2>13, <3>2, Zenon DEF OthersStay
      <4>4. w.pos[v] \in Int /\ u.pos[v] \in Int
        BY <2>5, <2>11, StateParts
      <4> QED
        BY <2>11, <4>1, <4>2, <4>3, <4>4
    <3> QED
      BY <3>1, <3>2
  <2>17. Chunking(s, u)
    BY <2>9, <2>11, <2>13, <2>14, <2>15, <2>16, Zenon DEF Chunking
  <2> QED
    BY <1>2, <2>9, <2>11, <2>17
<1> QED
  BY <1>1, <1>2

\* The loop leaves the timer set in order, but for the earliest expiry, which
\* is refreshed after it, and there is a timer to run.
LEMMA ChunkedOK ==
  ASSUME NEW s, TimersOK(s), s.runchunk = << >>, timer_check \in 1 .. MaxTime,
         expired(s, timer_check), NEW u, u = chunked(s)
  PROVE  Chunking(s, u) /\ TimersOK(u) /\ Len(u.runchunk) \in Nat /\ Len(u.runchunk) >= 1
<1> DEFINE S == {w \in State : Chunking(s, w)}
<1>1. /\ s \in State /\ HeapOK(s) /\ ChunkFrom(s, 1) /\ s.heap \in Seq(Entry)
      /\ Len(s.heap) \in Nat /\ Len(s.heap) > 0
  BY StateParts DEF TimersOK, HeapOK, expired
<1>2. s \in S
  <2>1. \A t \in Timer : ~ (s.pos[t] < 0)
    BY <1>1 DEF ChunkFrom
  <2>2. s.runchunk \in Seq(Timer)
    OBVIOUS
  <2> QED
    BY <1>1, <2>1, <2>2, Zenon DEF Chunking
<1>3. ASSUME NEW w \in S
      PROVE  /\ to_chunk(w) \in S /\ Len(w.runchunk) \in Nat
             /\ IF expired(w, timer_check) THEN Len(to_chunk(w).runchunk) = Len(w.runchunk) + 1
                ELSE to_chunk(w) = w
  <2>1. PICK x : x = to_chunk(w)
    OBVIOUS
  <2>2. /\ Chunking(s, x)
        /\ IF expired(w, timer_check) THEN Len(x.runchunk) = Len(w.runchunk) + 1 ELSE x = w
    BY <2>1, ChunkRound
  <2>3. x \in State /\ Len(w.runchunk) \in Nat
    BY <2>2, StateParts DEF Chunking, HeapOK
  <2> QED
    BY <2>1, <2>2, <2>3
<1>4. \A w \in S : to_chunk(w) \in S
  BY <1>3
<1> DEFINE n == Len(s.heap)
<1> HIDE DEF S, n
<1>5. n \in Nat /\ n > 0
  BY <1>1 DEF n
<1>6. PICK c \in [Nat -> S] : ChunksBy(c, s) /\ Chunks(s, n) = c[n]
  <2>1. ChunksIn(S, s, n)
    BY <1>2, <1>4, <1>5, ChunkLoop
  <2> QED
    BY <2>1 DEF ChunksIn
<1>7. c[0] = s /\ \A k \in Nat : c[k] \in S /\ c[k + 1] = to_chunk(c[k])
  BY <1>6 DEF ChunksBy
<1> DEFINE G == {k \in Nat : k > 0 => Len(c[k].runchunk) >= 1}
<1>8. 0 \in G
  OBVIOUS
<1>9. ASSUME NEW k \in Nat, k \in G PROVE k + 1 \in G
  <2>1. PICK w \in S : w = c[k]
    BY <1>7
  <2>2. PICK x : x = to_chunk(w)
    OBVIOUS
  <2>3. c[k + 1] = x
    BY <1>7, <2>1, <2>2, Zenon
  <2>4. /\ Len(w.runchunk) \in Nat
        /\ IF expired(w, timer_check) THEN Len(x.runchunk) = Len(w.runchunk) + 1 ELSE x = w
    BY <1>3, <2>2
  <2>5. k > 0 => Len(w.runchunk) >= 1
    BY <1>9, <2>1
  <2>6. k = 0 => expired(w, timer_check)
    BY <1>7, <2>1
  <2>7. Len(x.runchunk) >= 1
    BY <2>4, <2>5, <2>6
  <2> QED
    BY <2>3, <2>7
<1>10. n \in G
  <2>1. Nat \subseteq G
    <3> HIDE DEF G
    <3> QED
      BY <1>8, <1>9, SetInduction
  <2> QED
    BY <1>5, <2>1
<1>11. PICK x : x = c[n]
  OBVIOUS
<1>12. Len(x.runchunk) >= 1
  BY <1>5, <1>10, <1>11
<1>13. x \in State /\ Chunking(s, x)
  BY <1>5, <1>7, <1>11 DEF S
<1>14. u = set_timer_expiry(x)
  BY <1>6, <1>11 DEF chunked, Chunks, n
<1>15. /\ u \in State /\ Fresh(u)
       /\ u.heap = x.heap /\ u.pos = x.pos /\ u.expiry_s = x.expiry_s /\ u.runchunk = x.runchunk
  BY <1>13, <1>14, Refreshed
<1>16. HeapOK(u)
  BY <1>13, <1>15, SameHeap DEF Chunking
<1>17. Chunking(s, u)
  BY <1>13, <1>15, <1>16 DEF Chunking, ChunkFrom
<1>18. Len(u.runchunk) \in Nat
  BY SMTT(30), <1>15, StateParts
<1> QED
  BY <1>12, <1>15, <1>17, <1>18 DEF TimersOK, Chunking

\* The first timer left in the run chunk is taken from it.
LEMMA ChunkTaken ==
  ASSUME NEW s, TimersOK(s), NEW i \in 1 .. Len(s.runchunk), s.runchunk[i] # None,
         \A j \in 1 .. i - 1 : s.runchunk[j] = None, NEW t, t = s.runchunk[i],
         NEW x, x = taken_off(s, t),
         NEW u, u = [x EXCEPT !.runchunk = [j \in 1 .. Len(@) |-> IF j <= i THEN None ELSE @[j]]]
  PROVE  TimersOK(u) /\ t \in Timer /\ s.pos[t] = - i /\ Unscheduled(s, u, t)
<1>1. /\ s \in State /\ HeapOK(s) /\ ChunkFrom(s, 1) /\ Fresh(s) /\ Placed(s, Timer)
      /\ s.runchunk \in Seq(Timer \cup {None}) /\ Len(s.runchunk) \in Nat
      /\ s.pos \in [Timer -> Int]
  BY StateParts DEF TimersOK, HeapOK
<1>2. t \in Timer /\ s.pos[t] = - i /\ i \in Nat /\ i > 0
  BY <1>1 DEF ChunkFrom
<1>3. TakenOff(s, x, t)
  BY <1>1, <1>2, TakenOffParts
<1>4. /\ x \in State /\ x.heap = s.heap /\ x.runchunk = s.runchunk
      /\ x.timer_expiry = s.timer_expiry /\ x.pos[t] = 0 /\ SameBut(s.pos, x.pos, t)
      /\ x.expiry_s[t] = 0 /\ SameBut(s.expiry_s, x.expiry_s, t)
  BY <1>3 DEF TakenOff
<1>5. PICK r : r = [j \in 1 .. Len(s.runchunk) |-> IF j <= i THEN None ELSE s.runchunk[j]]
  BY Zenon
<1>6. /\ r \in Seq(Timer \cup {None}) /\ Len(r) = Len(s.runchunk)
      /\ \A j \in 1 .. Len(r) : r[j] = IF j <= i THEN None ELSE s.runchunk[j]
  <2>1. \A j \in 1 .. Len(s.runchunk) : s.runchunk[j] \in Timer \cup {None}
    BY <1>1
  <2> QED
    BY <1>1, <1>5, <2>1
<1>7. u = [x EXCEPT !.runchunk = r]
  BY <1>4, <1>5 DEF State
<1>8. /\ u \in State /\ u.heap = s.heap /\ u.pos = x.pos /\ u.expiry_s = x.expiry_s
      /\ u.runchunk = r /\ u.timer_expiry = s.timer_expiry
  BY <1>4, <1>6, <1>7, Zenon DEF State
<1>9. \A v \in Timer \ {t} : u.pos[v] = s.pos[v] /\ u.expiry_s[v] = s.expiry_s[v]
  BY <1>4, <1>8 DEF SameBut
<1>10. OthersStay(s, u, t) /\ u.pos[t] = 0 /\ u.expiry_s[t] = 0
  BY <1>1, <1>4, <1>8, <1>9 DEF OthersStay
<1>11. HeapOK(u)
  <2>1. \A v \in Timer : s.pos[v] > 0 \/ u.pos[v] > 0 => v \in Timer \ {t}
    BY <1>1, <1>2, <1>10
  <2>2. ASSUME NEW k \in 1 .. Len(s.heap) PROVE s.heap[k].t \in Timer /\ u.pos[s.heap[k].t] = k
    <3>1. s.heap[k].t \in Timer /\ s.pos[s.heap[k].t] = k /\ k > 0
      BY SMTT(30), <1>1 DEF Placed
    <3> QED
      BY <1>9, <2>1, <3>1
  <2>3. Placed(u, Timer)
    BY ZenonT(40), <1>1, <1>8, <1>9, <2>1, <2>2 DEF Placed
  <2>4. Keyed(u)
    BY <1>1, <1>8, <1>9, <2>1 DEF HeapOK, Keyed
  <2> QED
    BY <1>1, <1>8, <2>3, <2>4, Zenon DEF HeapOK
<1>12. OffChunk(s, u.runchunk, t, 1)
  <2> SUFFICES ASSUME NEW j \in 1 .. Len(r)
               PROVE  r[j] # t /\ (r[j] = s.runchunk[j] \/ (s.runchunk[j] = t /\ r[j] = None))
    BY <1>6, <1>8 DEF OffChunk
  <2>1. t # None
    OBVIOUS
  <2>2. CASE j < i
    BY <1>2, <1>6, <2>1, <2>2
  <2>3. CASE j = i
    BY <1>2, <1>6, <2>1, <2>3
  <2>4. CASE j > i
    <3>1. r[j] = s.runchunk[j] /\ j \in 1 .. Len(s.runchunk)
      BY <1>2, <1>6, <2>4
    <3>2. s.runchunk[j] # t
      BY <1>1, <1>2, <2>1, <2>4, <3>1 DEF ChunkFrom
    <3> QED
      BY <3>1, <3>2
  <2> QED
    BY <1>2, <2>2, <2>3, <2>4
<1>13. ChunkFrom(u, 1)
  <2>1. /\ s \in State /\ u \in State /\ t \in Timer /\ ChunkFrom(s, 1) /\ OthersStay(s, u, t)
        /\ u.pos[t] >= 0
    BY <1>1, <1>2, <1>8, <1>10
  <2>2. PICK k \in Nat : k = 1
    OBVIOUS
  <2>3. k > 0 /\ ChunkFrom(s, k) /\ OffChunk(s, u.runchunk, t, k)
    BY <1>12, <2>1, <2>2
  <2>4. ChunkFrom(u, k)
    BY <2>1, <2>3, ChunkStays, Zenon
  <2> QED
    BY <2>2, <2>4
<1>14. Fresh(u)
  BY <1>1, <1>8 DEF Fresh
<1> QED
  BY <1>2, <1>6, <1>8, <1>10, <1>11, <1>13, <1>14, Zenon DEF TimersOK, Unscheduled
=============================================================================
