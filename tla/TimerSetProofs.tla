--------------------------- MODULE TimerSetProofs ---------------------------
(***************************************************************************)
(* Proofs about the timer set, for any number of timers and routers: the   *)
(* heap, the run chunk and the fields of the timers agree, the driver      *)
(* sleeps until the earliest expiry, and the timer set implements the      *)
(* promise to its timers.                                                  *)
(***************************************************************************)
EXTENDS TimerProofs, TimerSetService

-----------------------------------------------------------------------------
\* What scheduling what is left of the run chunk may change: the expiry of an
\* overdue timer may become later, but not later than the time of the check.
Kept(s, w) ==
  \A t \in Timer :
    /\ w.pos[t] # 0 <=> s.pos[t] # 0
    /\ \/ w.expiry_s[t] = s.expiry_s[t]
       \/ s.pos[t] # 0 /\ s.expiry_s[t] # 0 /\ w.expiry_s[t] \in s.expiry_s[t] .. timer_check

\* w is s with the timers in the slots before j scheduled.
Unrunning(s, w, j) ==
  /\ HeapOK(w) /\ Fresh(w) /\ ChunkFrom(w, j) /\ w.runchunk = s.runchunk /\ Kept(s, w)
  /\ \A t \in Timer : w.pos[t] < 0 => w.expiry_s[t] \in 1 .. timer_check

\* The timer of a slot is scheduled.
Reinserted(w, t) == rescheduled([w EXCEPT !.pos[t] = 0], t, w.expiry_s[t])

\* A round of the loop schedules the timer in a slot.
LEMMA UnrunSlot ==
  ASSUME NEW s \in State, NEW w, NEW j \in 1 .. Len(w.runchunk), Unrunning(s, w, j),
         timer_check \in 1 .. MaxTime, NEW t, t = w.runchunk[j], t # None,
         NEW u, u = Reinserted(w, t)
  PROVE  Unrunning(s, u, j + 1)
<1> PICK z : z = [w EXCEPT !.pos[t] = 0]
  BY Zenon
<1> PICK e : e = w.expiry_s[t]
  OBVIOUS
<1>0. u = rescheduled(z, t, e)
  BY DEF Reinserted
<1>1. /\ w \in State /\ HeapOK(w) /\ Fresh(w) /\ ChunkFrom(w, j) /\ Placed(w, Timer)
      /\ w.runchunk \in Seq(Timer \cup {None}) /\ Len(w.runchunk) \in Nat
      /\ w.pos \in [Timer -> Int] /\ w.expiry_s \in [Timer -> Time]
  BY StateParts DEF Unrunning, HeapOK
<1>2. /\ t \in Timer /\ w.pos[t] = - j /\ j \in Nat /\ j > 0 /\ j + 1 \in Nat /\ j + 1 > 0
      /\ e \in Time /\ e \in 1 .. timer_check
  BY <1>1 DEF ChunkFrom, Unrunning
<1>3. /\ z \in State /\ z.heap = w.heap /\ z.pos = [w.pos EXCEPT ![t] = 0]
      /\ z.expiry_s = w.expiry_s /\ z.runchunk = w.runchunk /\ z.timer_expiry = w.timer_expiry
  <2>1. [w.pos EXCEPT ![t] = 0] \in [Timer -> Int]
    BY <1>1
  <2> QED
    BY <1>1, <2>1, Zenon DEF State
<1>4. z.pos[t] = 0 /\ \A v \in Timer \ {t} : z.pos[v] = w.pos[v]
  BY <1>1, <1>2, <1>3
<1>5. HeapOK(z)
  <2>1. \A v \in Timer : w.pos[v] > 0 \/ z.pos[v] > 0 => v \in Timer \ {t}
    BY <1>1, <1>2, <1>4
  <2>2. ASSUME NEW k \in 1 .. Len(w.heap) PROVE w.heap[k].t \in Timer /\ z.pos[w.heap[k].t] = k
    <3>1. w.heap[k].t \in Timer /\ w.pos[w.heap[k].t] = k /\ k > 0
      BY <1>1 DEF Placed
    <3> QED
      BY <1>4, <2>1, <3>1
  <2>3. Placed(z, Timer)
    BY <1>1, <1>3, <1>4, <2>1, <2>2 DEF Placed
  <2>4. Keyed(z)
    BY <1>1, <1>3, <1>4, <2>1 DEF HeapOK, Keyed
  <2> QED
    BY <1>1, <1>3, <2>3, <2>4 DEF HeapOK
<1>6. Fresh(z)
  BY <1>1, <1>3 DEF Fresh
<1>7. off_runchunk(z, t) = w.runchunk
  BY <1>3, <1>4 DEF off_runchunk
<1>8. HeapOK(u) /\ Fresh(u) /\ Rescheduled(z, u, t, checked_expiry(e))
  <2>1. off_runchunk(z, t) \in Seq(Timer \cup {None})
    BY <1>1, <1>7
  <2> QED
    BY <1>0, <1>2, <1>5, <1>6, <2>1, RescheduledOK
<1>9. /\ u \in State /\ OthersStay(z, u, t) /\ u.pos[t] > 0 /\ u.expiry_s[t] = checked_expiry(e)
      /\ u.runchunk = w.runchunk /\ u.pos \in [Timer -> Int]
  BY <1>7, <1>8, StateParts DEF HeapOK, Rescheduled
<1>9a. u.pos[t] \in Int /\ u.pos[t] >= 0 /\ u.pos[t] # 0 /\ ~ (u.pos[t] < 0)
  <2>1. \A q \in Int : q > 0 => q >= 0 /\ q # 0 /\ ~ (q < 0)
    OBVIOUS
  <2>2. u.pos[t] \in Int
    BY <1>2, <1>9
  <2> QED
    BY <1>9, <2>1, <2>2, Zenon
<1>10. \A k \in j + 1 .. Len(w.runchunk) : w.runchunk[k] # t
  <2>1. \A k \in j .. Len(w.runchunk) : w.runchunk[k] = t => w.pos[t] = - k
    BY <1>1 DEF ChunkFrom
  <2> QED
    BY <1>1, <1>2, <2>1
<1>11. ChunkFrom(z, j + 1)
  <2>1. ASSUME NEW k \in j + 1 .. Len(w.runchunk), w.runchunk[k] # None
        PROVE  z.pos[w.runchunk[k]] = - k
    <3>1. k \in j .. Len(w.runchunk) /\ k \in 1 .. Len(w.runchunk)
      BY <1>1, <1>2
    <3>2. w.pos[w.runchunk[k]] = - k /\ w.runchunk[k] \in Timer /\ w.runchunk[k] # t
      BY <1>1, <1>10, <2>1, <3>1 DEF ChunkFrom
    <3> QED
      BY <1>4, <3>2
  <2>2. ASSUME NEW v \in Timer, z.pos[v] < 0
        PROVE  - z.pos[v] \in j + 1 .. Len(w.runchunk) /\ w.runchunk[- z.pos[v]] = v
    <3>1. v # t /\ z.pos[v] = w.pos[v]
      BY <1>4, <2>2
    <3>2. - w.pos[v] \in j .. Len(w.runchunk) /\ w.runchunk[- w.pos[v]] = v
      BY <1>1, <2>2, <3>1 DEF ChunkFrom
    <3>3. - w.pos[v] # j
      BY <3>1, <3>2
    <3> QED
      BY <1>1, <1>2, <3>1, <3>2, <3>3
  <2> QED
    BY <1>3, <2>1, <2>2 DEF ChunkFrom
<1>12. ChunkFrom(u, j + 1)
  <2>1. PICK k \in Nat : k = j + 1
    BY <1>2
  <2>2. k > 0 /\ ChunkFrom(z, k) /\ u.pos[t] >= 0
    BY <1>9a, <1>2, <1>11, <2>1
  <2>3. OffChunk(z, u.runchunk, t, k)
    BY <1>3, <1>9, <1>10, <2>1, Zenon DEF OffChunk
  <2>4. ChunkFrom(u, k)
    BY <1>2, <1>3, <1>9, <2>2, <2>3, ChunkStays, Zenon
  <2> QED
    BY <2>1, <2>4
<1>13. checked_expiry(e) \in e .. timer_check /\ checked_expiry(e) \in Time \ {0}
  BY <1>2, CheckedExpiry
<1>14. ASSUME NEW v \in Timer \ {t}
       PROVE  /\ u.expiry_s[v] = w.expiry_s[v] /\ (u.pos[v] # 0 <=> w.pos[v] # 0)
              /\ u.pos[v] < 0 => w.pos[v] < 0
  <2>1. z.pos[v] = w.pos[v] /\ z.expiry_s[v] = w.expiry_s[v] /\ w.pos[v] \in Int /\ u.pos[v] \in Int
    BY <1>1, <1>3, <1>4, <1>9
  <2>2. /\ u.expiry_s[v] = z.expiry_s[v]
        /\ IF z.pos[v] <= 0 THEN u.pos[v] = z.pos[v] ELSE u.pos[v] > 0
    BY <1>9 DEF OthersStay
  <2> QED
    BY <2>1, <2>2
<1>15. Kept(s, u)
  <2> SUFFICES ASSUME NEW v \in Timer
               PROVE  /\ u.pos[v] # 0 <=> s.pos[v] # 0
                      /\ \/ u.expiry_s[v] = s.expiry_s[v]
                         \/ /\ s.pos[v] # 0 /\ s.expiry_s[v] # 0
                            /\ u.expiry_s[v] \in s.expiry_s[v] .. timer_check
    BY DEF Kept
  <2>1. /\ w.pos[v] # 0 <=> s.pos[v] # 0
        /\ \/ w.expiry_s[v] = s.expiry_s[v]
           \/ /\ s.pos[v] # 0 /\ s.expiry_s[v] # 0
              /\ w.expiry_s[v] \in s.expiry_s[v] .. timer_check
    BY DEF Unrunning, Kept
  <2>2. CASE v = t
    <3>1. u.pos[t] # 0 /\ w.pos[t] # 0 /\ s.pos[t] # 0
      <4>1. w.pos[t] # 0
        BY <1>2
      <4> QED
        BY <1>9a, <2>1, <2>2, <4>1
    <3>2. s.expiry_s[t] \in Nat /\ timer_check \in Nat /\ e \in Nat /\ e # 0
      <4>1. timer_check \in Nat /\ MaxTime \in Nat
        BY TimerSetAssumption
      <4>2. e \in Nat /\ e # 0
        BY <1>2, <4>1
      <4>3. s.expiry_s[t] \in Time
        BY <1>2, StateParts
      <4> QED
        BY <4>1, <4>2, <4>3 DEF Time
    <3>3. s.expiry_s[t] # 0 /\ s.expiry_s[t] <= e
      <4>1. CASE w.expiry_s[t] = s.expiry_s[t]
        BY <3>2, <4>1
      <4>2. CASE s.expiry_s[t] # 0 /\ w.expiry_s[t] \in s.expiry_s[t] .. timer_check
        BY <3>2, <4>2
      <4> QED
        BY <2>1, <2>2, <4>1, <4>2
    <3>4. u.expiry_s[t] \in s.expiry_s[t] .. timer_check
      <4>1. \A a, b, c \in Nat : \A d \in b .. c : a <= b => d \in a .. c
        OBVIOUS
      <4>2. checked_expiry(e) \in s.expiry_s[t] .. timer_check
        BY <1>13, <3>2, <3>3, <4>1, Zenon
      <4> QED
        BY <1>9, <4>2
    <3> QED
      BY <2>2, <3>1, <3>3, <3>4, Zenon
  <2>3. CASE v # t
    BY <1>14, <2>1, <2>3
  <2> QED
    BY <2>2, <2>3
<1>16. ASSUME NEW v \in Timer, u.pos[v] < 0 PROVE u.expiry_s[v] \in 1 .. timer_check
  <2>1. v # t
    BY <1>9a, <1>16
  <2>2. w.pos[v] < 0 /\ u.expiry_s[v] = w.expiry_s[v]
    BY <1>14, <1>16, <2>1
  <2> QED
    BY <2>2 DEF Unrunning
<1> QED
  BY <1>8, <1>9, <1>12, <1>15, <1>16 DEF Unrunning

\* A round of the loop goes on to the next slot.
LEMMA UnrunRound ==
  ASSUME NEW s \in State, NEW w \in State, NEW j \in 1 .. Len(s.runchunk) + 1,
         Unrunning(s, w, j), timer_check \in 1 .. MaxTime,
         NEW y, y = unrun_at([s |-> w, i |-> j])
  PROVE  /\ y = [s |-> y.s, i |-> y.i] /\ y.s \in State
         /\ y.i = IF j <= Len(s.runchunk) THEN j + 1 ELSE j
         /\ Unrunning(s, y.s, y.i)
<1>1. /\ w.runchunk = s.runchunk /\ Len(s.runchunk) \in Nat /\ j \in Nat
      /\ w.runchunk \in Seq(Timer \cup {None}) /\ w.pos \in [Timer -> Int] /\ w \in State
  BY StateParts DEF Unrunning
<1>2. CASE j > Len(s.runchunk)
  <2>1. y = [s |-> w, i |-> j]
    BY <1>1, <1>2 DEF unrun_at
  <2> QED
    BY <1>1, <1>2, <2>1
<1>3. CASE j <= Len(s.runchunk) /\ w.runchunk[j] = None
  <2>1. y = [s |-> w, i |-> j + 1]
    BY <1>1, <1>3 DEF unrun_at
  <2>2. ChunkFrom(w, j + 1)
    <3>1. ChunkFrom(w, j)
      BY DEF Unrunning
    <3>2. ASSUME NEW k \in j + 1 .. Len(w.runchunk), w.runchunk[k] # None
          PROVE  w.pos[w.runchunk[k]] = - k
      BY <1>1, <3>1, <3>2 DEF ChunkFrom
    <3>3. ASSUME NEW v \in Timer, w.pos[v] < 0
          PROVE  - w.pos[v] \in j + 1 .. Len(w.runchunk) /\ w.runchunk[- w.pos[v]] = v
      <4>1. - w.pos[v] \in j .. Len(w.runchunk) /\ w.runchunk[- w.pos[v]] = v
        BY <3>1, <3>3 DEF ChunkFrom
      <4>2. v # None
        BY TimerSetAssumption
      <4>3. - w.pos[v] # j
        BY <1>3, <4>1, <4>2
      <4> QED
        BY <1>1, <4>1, <4>3
    <3> QED
      BY <3>2, <3>3 DEF ChunkFrom
  <2>3. Unrunning(s, w, j + 1)
    BY <2>2 DEF Unrunning
  <2> QED
    BY <1>1, <1>3, <2>1, <2>3
<1>4. CASE j <= Len(s.runchunk) /\ w.runchunk[j] # None
  <2>1. PICK t : t = w.runchunk[j]
    OBVIOUS
  <2>2. PICK u : u = Reinserted(w, t)
    OBVIOUS
  <2>3. y = [s |-> u, i |-> j + 1]
    <3>1. PICK a : a = [s |-> w, i |-> j]
      OBVIOUS
    <3>2. a.s = w /\ a.i = j /\ y = unrun_at(a)
      BY <3>1
    <3>3. ~ (j > Len(w.runchunk))
      BY <1>1, <1>4
    <3>4. unrun_at(a) = [s |-> Reinserted(a.s, t), i |-> a.i + 1]
      BY <1>4, <2>1, <3>2, <3>3 DEF unrun_at, Reinserted
    <3> QED
      BY <2>2, <3>2, <3>4
  <2>4. j \in 1 .. Len(w.runchunk) /\ t # None
    BY <1>1, <1>4, <2>1
  <2>5. Unrunning(s, u, j + 1)
    BY SMTT(30), <2>1, <2>2, <2>4, UnrunSlot
  <2>6. u \in State
    BY <2>5 DEF Unrunning, HeapOK
  <2> QED
    BY <1>1, <1>4, <2>3, <2>5, <2>6
<1> QED
  BY <1>1, <1>2, <1>3, <1>4

\* When run_timers ends, every timer left in the run chunk is in the heap.
LEMMA UnrunOK ==
  ASSUME NEW s, TimersOK(s), timer_check \in 1 .. MaxTime,
         \A t \in Timer : s.pos[t] < 0 => s.expiry_s[t] \in 1 .. timer_check,
         NEW u, u = unrun(s)
  PROVE  TimersOK(u) /\ u.runchunk = << >> /\ Kept(s, u)
<1> DEFINE n == Len(s.runchunk)
           S == {y \in [s : State, i : 1 .. n + 1] : Unrunning(s, y.s, y.i)}
           start == [s |-> s, i |-> 1]
<1>1. /\ s \in State /\ HeapOK(s) /\ ChunkFrom(s, 1) /\ Fresh(s) /\ n \in Nat
      /\ s.expiry_s \in [Timer -> Time]
  BY StateParts DEF TimersOK, HeapOK
<1>2. start \in S
  <2>1. Unrunning(s, s, 1)
    BY <1>1 DEF Unrunning, Kept
  <2> QED
    BY <1>1, <2>1
<1>3. ASSUME NEW y \in S
      PROVE  /\ unrun_at(y) \in S /\ y.i \in 1 .. n + 1
             /\ unrun_at(y).i = IF y.i <= n THEN y.i + 1 ELSE y.i
  <2>1. PICK w \in State, j \in 1 .. n + 1 : y = [s |-> w, i |-> j]
    OBVIOUS
  <2>2. Unrunning(s, w, j)
    BY <2>1
  <2>3. PICK x : x = unrun_at([s |-> w, i |-> j])
    OBVIOUS
  <2>4. /\ x = [s |-> x.s, i |-> x.i] /\ x.s \in State
        /\ x.i = (IF j <= Len(s.runchunk) THEN j + 1 ELSE j)
        /\ Unrunning(s, x.s, x.i)
    BY <1>1, <2>2, <2>3, UnrunRound
  <2>5. x.i \in 1 .. n + 1
    BY <1>1, <2>4
  <2>6. x \in S
    BY <2>4, <2>5
  <2> QED
    BY <2>1, <2>3, <2>4, <2>6
<1>4. \A y \in S : unrun_at(y) \in S
  BY <1>3
<1> HIDE DEF S, start, n
<1>5. PICK c \in [Nat -> S] : UnrunsBy(c, start) /\ Unruns(start, n) = c[n]
  <2>1. UnrunsIn(S, start, n)
    BY <1>1, <1>2, <1>4, UnrunLoop
  <2> QED
    BY <2>1 DEF UnrunsIn
<1>6. c[0] = start /\ \A k \in Nat : c[k] \in S /\ c[k + 1] = unrun_at(c[k])
  BY <1>5 DEF UnrunsBy
<1> DEFINE G == {k \in Nat : k <= n => c[k].i = k + 1}
<1>7. 0 \in G
  BY <1>6 DEF start
<1>8. ASSUME NEW k \in Nat, k \in G PROVE k + 1 \in G
  <2>1. c[k] \in S /\ c[k + 1] = unrun_at(c[k])
    BY <1>6
  <2>2. c[k + 1].i = IF c[k].i <= n THEN c[k].i + 1 ELSE c[k].i
    BY <1>3, <2>1
  <2> QED
    BY <1>1, <1>8, <2>2
<1>9. n \in G
  <2>1. Nat \subseteq G
    <3> HIDE DEF G
    <3> QED
      BY <1>7, <1>8, SetInduction
  <2> QED
    BY <1>1, <2>1
<1>10. c[n] \in S /\ c[n].i = n + 1
  BY <1>1, <1>6, <1>9
<1>11. PICK w \in State : c[n].s = w /\ Unrunning(s, w, n + 1)
  BY <1>10 DEF S
<1>12. u = [w EXCEPT !.runchunk = << >>]
  BY <1>5, <1>11, Zenon DEF unrun, Unruns, start, n
<1>13. /\ HeapOK(w) /\ Fresh(w) /\ ChunkFrom(w, n + 1) /\ Kept(s, w) /\ Len(w.runchunk) = n
       /\ w.pos \in [Timer -> Int]
  BY <1>11, StateParts DEF Unrunning, n
<1>14. /\ u \in State /\ u.heap = w.heap /\ u.pos = w.pos /\ u.expiry_s = w.expiry_s
       /\ u.runchunk = << >> /\ u.timer_expiry = w.timer_expiry
  <2>1. << >> \in Seq(Timer \cup {None})
    OBVIOUS
  <2> QED
    BY <1>12, <2>1, Zenon DEF State
<1>15. HeapOK(u)
  BY <1>13, <1>14, SameHeap
<1>16. ChunkFrom(u, 1)
  <2>1. \A t \in Timer : ~ (w.pos[t] < 0)
    BY <1>1, <1>13 DEF ChunkFrom
  <2> QED
    BY <1>14, <2>1 DEF ChunkFrom
<1>17. Fresh(u) /\ Kept(s, u)
  BY <1>13, <1>14 DEF Fresh, Kept
<1> QED
  BY <1>14, <1>15, <1>16, <1>17 DEF TimersOK

-----------------------------------------------------------------------------
\* w is s without some of the timers of router r; the run chunk is empty.
Killing(s, w, r) ==
  /\ HeapOK(w) /\ w.runchunk = << >>
  /\ \A t \in Timer :
       /\ w.pos[t] >= 0
       /\ \/ owner[t] = r /\ w.pos[t] = 0
          \/ w.expiry_s[t] = s.expiry_s[t] /\ (w.pos[t] # 0 <=> s.pos[t] # 0)

\* A round of the loop removes the timer it has come to if it is one of the
\* router's.
LEMMA KillRound ==
  ASSUME NEW s, NEW r, NEW w \in State, NEW j \in Nat, j <= Len(w.heap), Killing(s, w, r),
         NEW y, y = kill_at([s |-> w, i |-> j], r)
  PROVE  /\ y = [s |-> y.s, i |-> y.i] /\ y.s \in State /\ y.i \in Nat /\ y.i <= Len(y.s.heap)
         /\ Killing(s, y.s, r)
<1>1. PICK a : a = [s |-> w, i |-> j]
  OBVIOUS
<1>2. a.s = w /\ a.i = j /\ y = kill_at(a, r)
  BY <1>1
<1>3. /\ HeapOK(w) /\ w.heap \in Seq(Entry) /\ Len(w.heap) \in Nat /\ w.pos \in [Timer -> Int]
      /\ Placed(w, Timer)
  BY StateParts DEF Killing, HeapOK
<1>4. PICK t : t = w.heap[j].t
  OBVIOUS
<1>5. CASE j = 0
  <2>1. y = a
    BY <1>2, <1>5 DEF kill_at
  <2> QED
    BY <1>1, <2>1
<1>6. CASE j # 0 /\ owner[t] # r
  <2>1. y = [s |-> a.s, i |-> a.i - 1]
    BY <1>2, <1>4, <1>6 DEF kill_at
  <2> QED
    BY SMTT(30), <1>2, <1>3, <1>6, <2>1
<1>7. CASE j # 0 /\ owner[t] = r
  <2>1. PICK x : x = remove_heap(w, j)
    OBVIOUS
  <2>2. PICK u : u = taken_off(x, t)
    OBVIOUS
  <2>3. y = [s |-> u, i |-> j - 1]
    <3>1. y = [s |-> taken_off(remove_heap(a.s, a.i), t), i |-> a.i - 1]
      BY <1>2, <1>4, <1>7 DEF kill_at
    <3> QED
      BY SMTT(30), <1>2, <2>1, <2>2, <3>1
  <2>4. j \in 1 .. Len(w.heap) /\ t \in Timer
    BY SMTT(30), <1>3, <1>4, <1>7 DEF Placed
  <2>5. /\ HeapOK(u) /\ OthersStay(w, u, t) /\ u.pos[t] = 0 /\ u.expiry_s[t] = 0
        /\ u.runchunk = w.runchunk /\ Len(u.heap) = Len(w.heap) - 1
    BY SMTT(30), <1>3, <1>4, <2>1, <2>2, <2>4, TakenOut
  <2>6. u \in State /\ j - 1 \in Nat /\ j - 1 <= Len(u.heap)
    BY SMTT(30), <1>3, <2>4, <2>5 DEF HeapOK
  <2>7. ASSUME NEW v \in Timer
        PROVE  /\ u.pos[v] >= 0
               /\ \/ owner[v] = r /\ u.pos[v] = 0
                  \/ u.expiry_s[v] = s.expiry_s[v] /\ (u.pos[v] # 0 <=> s.pos[v] # 0)
    <3>1. CASE v = t
      BY <1>7, <2>5, <3>1
    <3>2. CASE v # t
      <4>1. /\ u.expiry_s[v] = w.expiry_s[v]
            /\ IF w.pos[v] <= 0 THEN u.pos[v] = w.pos[v] ELSE u.pos[v] > 0
        BY <2>5, <3>2 DEF OthersStay
      <4>2. /\ w.pos[v] >= 0
            /\ \/ owner[v] = r /\ w.pos[v] = 0
               \/ w.expiry_s[v] = s.expiry_s[v] /\ (w.pos[v] # 0 <=> s.pos[v] # 0)
        BY DEF Killing
      <4>3. w.pos[v] \in Int /\ u.pos[v] \in Int
        BY <1>3, <2>6, StateParts
      <4> QED
        BY SMTT(30), <4>1, <4>2, <4>3
    <3> QED
      BY SMTT(30), <3>1, <3>2
  <2>8. Killing(s, u, r)
    BY <2>5, <2>7 DEF Killing
  <2> QED
    BY <2>3, <2>6, <2>8
<1> QED
  BY <1>5, <1>6, <1>7

\* kill_router leaves the timer set in order and the timers of other routers
\* as they are.
LEMMA KilledOK ==
  ASSUME NEW s, TimersOK(s), s.runchunk = << >>, NEW r, NEW u, u = killed(s, r)
  PROVE  TimersOK(u) /\ Killing(s, u, r)
<1> DEFINE n == Len(s.heap)
           S == {y \in [s : State, i : Nat] : Killing(s, y.s, r) /\ y.i <= Len(y.s.heap)}
           start == [s |-> s, i |-> n]
<1>1. s \in State /\ HeapOK(s) /\ ChunkFrom(s, 1) /\ n \in Nat /\ s.pos \in [Timer -> Int]
  BY StateParts DEF TimersOK, HeapOK
<1>2. start \in S
  <2>1. \A t \in Timer : ~ (s.pos[t] < 0)
    BY <1>1 DEF ChunkFrom
  <2>2. \A t \in Timer : s.pos[t] >= 0
    BY <1>1, <2>1
  <2>3. Killing(s, s, r)
    BY SMTT(30), <1>1, <2>2 DEF Killing
  <2> QED
    BY <1>1, <2>3
<1>3. ASSUME NEW y \in S PROVE kill_at(y, r) \in S
  <2>1. PICK w \in State, j \in Nat : y = [s |-> w, i |-> j]
    OBVIOUS
  <2>2. Killing(s, w, r) /\ j <= Len(w.heap)
    BY <2>1
  <2>3. PICK x : x = kill_at([s |-> w, i |-> j], r)
    OBVIOUS
  <2>4. /\ x = [s |-> x.s, i |-> x.i] /\ x.s \in State /\ x.i \in Nat /\ x.i <= Len(x.s.heap)
        /\ Killing(s, x.s, r)
    BY <2>2, <2>3, KillRound
  <2>5. x \in S
    BY <2>4
  <2> QED
    BY <2>1, <2>3, <2>5
<1>4. \A y \in S : kill_at(y, r) \in S
  BY <1>3
<1> HIDE DEF S, start, n
<1>5. PICK c \in [Nat -> S] : KillsBy(c, start, r) /\ Kills(start, n, r) = c[n]
  <2>1. KillsIn(S, start, n, r)
    BY SMTT(30), <1>1, <1>2, <1>4, KillLoop
  <2> QED
    BY <2>1 DEF KillsIn
<1>6. c[n] \in S
  BY <1>1, <1>5
<1>7. PICK w \in State : c[n].s = w /\ Killing(s, w, r)
  BY <1>6, Zenon DEF S
<1>8. u = set_timer_expiry(w)
  BY <1>5, <1>7 DEF killed, Kills, start, n
<1>9. /\ u \in State /\ Fresh(u)
      /\ u.heap = w.heap /\ u.pos = w.pos /\ u.expiry_s = w.expiry_s /\ u.runchunk = w.runchunk
  BY <1>8, Refreshed
<1>10. HeapOK(u)
  BY <1>7, <1>9, SameHeap DEF Killing
<1>11. Killing(s, u, r)
  BY <1>7, <1>9, <1>10 DEF Killing
<1>12. ChunkFrom(u, 1)
  <2>1. \A t \in Timer : ~ (u.pos[t] < 0)
    <3>1. u.pos \in [Timer -> Int] /\ \A t \in Timer : u.pos[t] >= 0
      BY <1>9, <1>11, StateParts DEF Killing
    <3> QED
      BY <3>1
  <2>2. u.runchunk = << >>
    BY <1>11 DEF Killing
  <2> QED
    BY <2>1, <2>2 DEF ChunkFrom
<1> QED
  BY <1>9, <1>10, <1>11, <1>12 DEF TimersOK

-----------------------------------------------------------------------------
\* The inductive invariant: the timer set is in order, only a run chunk that
\* is being run holds timers, and these have expired.
Inv ==
  /\ TimersOK(ts)
  /\ now \in 1 .. MaxTime /\ timer_check \in 1 .. now
  /\ owner \in [Timer -> Router \cup {None}]
  /\ \A t \in Timer : owner[t] = RouterOf[t] \/ owner[t] = None
  /\ max_timers \in 0 .. MaxTimers
  /\ \/ running = None /\ current = None
     \/ running \in {"heap", "chunk"} /\ current \in Timer
  /\ running # "chunk" => ts.runchunk = << >>
  /\ \A t \in Timer : ts.pos[t] < 0 => ts.expiry_s[t] \in 1 .. timer_check

\* What a timer set promises: the variable due of TimerService.
Promise(s) == [t \in Timer |-> IF s.pos[t] # 0 THEN s.expiry_s[t] ELSE None]

ServiceStep == [Service!Next]_(Service!vars)

\* The parts of the invariant that are about numbers and the timer set.
LEMMA InvParts ==
  ASSUME Inv
  PROVE  /\ timer_check \in 1 .. MaxTime /\ timer_check \in Nat /\ now \in Nat
         /\ timer_check <= now /\ MaxTime \in Nat
         /\ TimersOK(ts) /\ ts \in State /\ HeapOK(ts) /\ Placed(ts, Timer) /\ Keyed(ts)
         /\ ts.heap \in Seq(Entry) /\ ts.pos \in [Timer -> Int] /\ ts.expiry_s \in [Timer -> Time]
         /\ ts.runchunk \in Seq(Timer \cup {None}) /\ Len(ts.runchunk) \in Nat
<1>1. MaxTime \in Nat
  BY TimerSetAssumption
<1>2. /\ timer_check \in 1 .. MaxTime /\ timer_check \in Nat /\ now \in Nat
      /\ timer_check <= now
  BY <1>1 DEF Inv
<1>3. TimersOK(ts) /\ ts \in State /\ HeapOK(ts) /\ Placed(ts, Timer) /\ Keyed(ts)
  BY DEF Inv, TimersOK, HeapOK
<1> QED
  BY <1>1, <1>2, <1>3, StateParts

\* What changes when one timer is scheduled or unscheduled.
LEMMA OneTimer ==
  ASSUME NEW s \in State, NEW u \in State, NEW t \in Timer, OthersStay(s, u, t),
         u.pos[t] >= 0, Len(u.runchunk) = Len(s.runchunk)
  PROVE  /\ \A v \in Timer : u.pos[v] < 0 => s.pos[v] < 0 /\ u.expiry_s[v] = s.expiry_s[v]
         /\ s.runchunk = << >> => u.runchunk = << >>
         /\ Promise(u) = [Promise(s) EXCEPT ![t] = Promise(u)[t]]
         /\ Promise(u)[t] = IF u.pos[t] = 0 THEN None ELSE u.expiry_s[t]
<1>1. s.pos \in [Timer -> Int] /\ u.pos \in [Timer -> Int] /\ u.runchunk \in Seq(Timer \cup {None})
  BY StateParts
<1>2. ASSUME NEW v \in Timer, u.pos[v] < 0 PROVE s.pos[v] < 0 /\ u.expiry_s[v] = s.expiry_s[v]
  <2>1. v # t
    BY <1>1, <1>2
  <2> QED
    BY <1>1, <1>2, <2>1 DEF OthersStay
<1>3. s.runchunk = << >> => u.runchunk = << >>
  BY <1>1
<1>4. ASSUME NEW v \in Timer \ {t} PROVE Promise(u)[v] = Promise(s)[v]
  <2>1. u.expiry_s[v] = s.expiry_s[v] /\ (u.pos[v] # 0 <=> s.pos[v] # 0)
    BY <1>1 DEF OthersStay
  <2> QED
    BY <2>1 DEF Promise
<1>5. Promise(u) = [Promise(s) EXCEPT ![t] = Promise(u)[t]]
  <2>1. Promise(u) = [v \in Timer |-> Promise(u)[v]] /\ Promise(s) = [v \in Timer |-> Promise(s)[v]]
    BY DEF Promise
  <2> HIDE DEF Promise
  <2> QED
    BY <1>4, <2>1
<1>6. Promise(u)[t] = IF u.pos[t] = 0 THEN None ELSE u.expiry_s[t]
  BY DEF Promise
<1> QED
  BY <1>2, <1>3, <1>5, <1>6

\* schedule_at_steady schedules a timer.
LEMMA ScheduleStep ==
  ASSUME Inv, NEW t \in Timer, NEW when \in Time, schedule_at_steady(t, when)
  PROVE  Inv' /\ ServiceStep
<1>1. ts' = rescheduled(ts, t, when) /\ UNCHANGED <<owner, runVars, stop_flag, now>>
  BY DEF schedule_at_steady
<1>2. /\ TimersOK(ts') /\ Rescheduled(ts, ts', t, checked_expiry(when))
      /\ Len(ts'.runchunk) = Len(ts.runchunk)
  BY <1>1, InvParts, ScheduledOK
<1>3. checked_expiry(when) \in Time
  BY InvParts, CheckedExpiry
<1>4. /\ ts' \in State /\ OthersStay(ts, ts', t) /\ ts'.pos[t] \in Int /\ ts'.pos[t] > 0
      /\ ts'.expiry_s[t] \in Time
  BY <1>2, <1>3, StateParts DEF TimersOK, HeapOK, Rescheduled
<1>5. /\ \A v \in Timer : ts'.pos[v] < 0 => ts.pos[v] < 0 /\ ts'.expiry_s[v] = ts.expiry_s[v]
      /\ ts.runchunk = << >> => ts'.runchunk = << >>
      /\ Promise(ts') = [Promise(ts) EXCEPT ![t] = Promise(ts')[t]]
      /\ Promise(ts')[t] \in Time
  <2>1. ts'.pos[t] >= 0 /\ ts'.pos[t] # 0
    BY <1>4
  <2> QED
    BY <1>2, <1>4, <2>1, InvParts, OneTimer
<1>6. Inv'
  BY <1>1, <1>2, <1>5 DEF Inv, runVars
<1>7. Service!Schedule(t)
  BY <1>1, <1>5 DEF Service!Schedule, Promise, runVars
<1> QED
  BY <1>6, <1>7 DEF ServiceStep, Service!Next

\* unschedule unschedules it.
LEMMA UnscheduleStep ==
  ASSUME Inv, NEW t \in Timer, unschedule(t)
  PROVE  Inv' /\ ServiceStep
<1>1. ts' = unscheduled(ts, t) /\ UNCHANGED <<owner, runVars, stop_flag, now>>
  BY DEF unschedule
<1>2. TimersOK(ts') /\ Unscheduled(ts, ts', t)
  BY <1>1, InvParts, UnscheduledOK
<1>3. /\ ts' \in State /\ OthersStay(ts, ts', t) /\ ts'.pos[t] = 0 /\ ts'.pos[t] >= 0
      /\ Len(ts'.runchunk) = Len(ts.runchunk)
  BY <1>2 DEF TimersOK, HeapOK, Unscheduled
<1>4. /\ \A v \in Timer : ts'.pos[v] < 0 => ts.pos[v] < 0 /\ ts'.expiry_s[v] = ts.expiry_s[v]
      /\ ts.runchunk = << >> => ts'.runchunk = << >>
      /\ Promise(ts') = [Promise(ts) EXCEPT ![t] = Promise(ts')[t]]
      /\ Promise(ts')[t] = None
  BY <1>3, InvParts, OneTimer
<1>5. Inv'
  BY SMTT(30), <1>1, <1>2, <1>4 DEF Inv, runVars
<1>6. Service!Unschedule(t)
  BY <1>1, <1>4, Zenon DEF Service!Unschedule, Promise, runVars
<1> QED
  BY <1>5, <1>6 DEF ServiceStep, Service!Next

\* A timer fires when its expiry has come.
LEMMA FireStep ==
  ASSUME NEW t \in Timer, Promise(ts)[t] \in Time, Promise(ts)[t] <= now,
         Promise(ts') = [Promise(ts) EXCEPT ![t] = None], current' = t, now' = now
  PROVE  ServiceStep
<1>1. Promise(ts)[t] # None
  BY TimerSetAssumption DEF Time
<1>2. Service!Fire(t)
  BY <1>1 DEF Service!Fire, Promise
<1> QED
  BY <1>2 DEF ServiceStep, Service!Next

\* The first timer of the heap is run if it has expired at the time of the
\* check.
LEMMA RunFirstStep ==
  ASSUME Inv, NEW check \in timer_check .. now, expired(ts, check), run_first(check),
         running # "chunk", max_timers' \in 0 .. MaxTimers, UNCHANGED <<owner, stop_flag, now>>
  PROVE  Inv' /\ ServiceStep
<1>1. PICK t : t = ts.heap[1].t
  OBVIOUS
<1>2. running' = "heap" /\ current' = t /\ ts' = popped(ts) /\ timer_check' = check
  BY <1>1 DEF run_first
<1>3. ts.heap # << >> /\ ts.heap[1].expiry_s <= check
  BY DEF expired
<1>4. TimersOK(ts') /\ t \in Timer /\ Unscheduled(ts, ts', t) /\ ts'.runchunk = ts.runchunk
  BY <1>1, <1>2, <1>3, InvParts, Popped, Zenon
<1>5. /\ ts' \in State /\ OthersStay(ts, ts', t) /\ ts'.pos[t] = 0 /\ ts'.pos[t] >= 0
      /\ Len(ts'.runchunk) = Len(ts.runchunk)
  BY <1>4 DEF TimersOK, HeapOK, Unscheduled
<1>6. /\ \A v \in Timer : ts'.pos[v] < 0 => ts.pos[v] < 0 /\ ts'.expiry_s[v] = ts.expiry_s[v]
      /\ Promise(ts') = [Promise(ts) EXCEPT ![t] = Promise(ts')[t]]
      /\ Promise(ts')[t] = None
  BY <1>4, <1>5, InvParts, OneTimer, Zenon
<1>7. check \in Nat /\ timer_check <= check /\ check <= now /\ check \in 1 .. now
  BY InvParts
<1>8. ts.pos[t] = 1 /\ ts.expiry_s[t] = ts.heap[1].expiry_s /\ ts.expiry_s[t] \in Time
  <2>1. ts.heap \in Seq(Entry) /\ 1 \in 1 .. Len(ts.heap)
    BY SMTT(30), <1>3, InvParts
  <2>2. ts.pos[t] = 1
    BY <1>1, <2>1, InvParts DEF Placed
  <2> QED
    BY SMTT(30), <1>4, <2>2, InvParts DEF Keyed
<1>9. Inv'
  <2>1. ts.runchunk = << >> /\ \A v \in Timer : ~ (ts.pos[v] < 0)
    <3>1. ts.runchunk = << >> /\ ChunkFrom(ts, 1)
      BY DEF Inv, TimersOK
    <3> QED
      BY <3>1 DEF ChunkFrom
  <2>2. ts'.runchunk = << >> /\ \A v \in Timer : ~ (ts'.pos[v] < 0)
    BY <1>4, <1>6, <2>1
  <2> QED
    BY <1>2, <1>4, <1>7, <2>2 DEF Inv
<1>10. ServiceStep
  <2>1. ts.expiry_s[t] <= now
    BY <1>3, <1>7, <1>8, InvParts DEF Time
  <2>2. Promise(ts)[t] = ts.expiry_s[t]
    BY <1>4, <1>8 DEF Promise
  <2>3. Promise(ts') = [Promise(ts) EXCEPT ![t] = None]
    BY <1>6
  <2> QED
    BY <1>2, <1>4, <1>8, <2>1, <2>2, <2>3, FireStep, Zenon
<1> QED
  BY <1>9, <1>10

\* run_timers runs the first timer, or notes the time.
LEMMA RunTimersStep ==
  ASSUME Inv, run_timers
  PROVE  Inv' /\ ServiceStep
<1>1. running = None /\ UNCHANGED <<owner, stop_flag, now>>
  BY DEF run_timers
<1>2. running # "chunk" /\ MaxTimers \in 0 .. MaxTimers
  BY <1>1, TimerSetAssumption
<1>3. now \in timer_check .. now
  BY InvParts
<1>4. CASE expired(ts, now) /\ run_first(now) /\ max_timers' = MaxTimers
  BY <1>1, <1>2, <1>3, <1>4, RunFirstStep
<1>5. CASE timer_check' = now /\ UNCHANGED <<ts, max_timers, running, current>>
  <2>1. now \in 1 .. now
    BY DEF Inv
  <2>2. \A t \in Timer : ts.pos[t] < 0 => ts.expiry_s[t] \in 1 .. now
    BY InvParts DEF Inv
  <2>3. Inv'
    BY <1>1, <1>5, <2>1, <2>2 DEF Inv
  <2>4. UNCHANGED Service!vars
    BY <1>1, <1>5 DEF Service!vars
  <2> QED
    BY <2>3, <2>4 DEF ServiceStep
<1> QED
  BY <1>4, <1>5 DEF run_timers

\* A timer of the run chunk is run.
LEMMA RunChunkStep ==
  ASSUME Inv, NEW s, TimersOK(s), Promise(s) = Promise(ts),
         \A v \in Timer : s.pos[v] < 0 => s.expiry_s[v] \in 1 .. timer_check,
         NEW i \in 1 .. Len(s.runchunk), s.runchunk[i] # None,
         \A j \in 1 .. i - 1 : s.runchunk[j] = None,
         run_chunk_at(s, i), UNCHANGED <<owner, timer_check, max_timers, stop_flag, now>>
  PROVE  Inv' /\ ServiceStep
<1>1. PICK t : t = s.runchunk[i]
  OBVIOUS
<1>2. PICK x : x = taken_off(s, t)
  OBVIOUS
<1>3. /\ running' = "chunk" /\ current' = t
      /\ ts' = [x EXCEPT !.runchunk = [j \in 1 .. Len(@) |-> IF j <= i THEN None ELSE @[j]]]
  BY <1>1, <1>2 DEF run_chunk_at
<1>4. TimersOK(ts') /\ t \in Timer /\ s.pos[t] = - i /\ Unscheduled(s, ts', t)
  BY SMTT(30), <1>1, <1>2, <1>3, ChunkTaken
<1>5. /\ s \in State /\ ts' \in State /\ OthersStay(s, ts', t) /\ ts'.pos[t] = 0
      /\ ts'.pos[t] >= 0 /\ Len(ts'.runchunk) = Len(s.runchunk)
  BY <1>4 DEF TimersOK, HeapOK, Unscheduled
<1>6. /\ \A v \in Timer : ts'.pos[v] < 0 => s.pos[v] < 0 /\ ts'.expiry_s[v] = s.expiry_s[v]
      /\ Promise(ts') = [Promise(s) EXCEPT ![t] = Promise(ts')[t]]
      /\ Promise(ts')[t] = None
  BY <1>4, <1>5, OneTimer
<1>7. Inv'
  <2>1. \A v \in Timer : ts'.pos[v] < 0 => ts'.expiry_s[v] \in 1 .. timer_check'
    BY <1>6
  <2>2. running' \in {"heap", "chunk"} /\ current' \in Timer
    BY <1>3, <1>4
  <2> QED
    BY <1>3, <1>4, <2>1, <2>2 DEF Inv
<1>8. s.pos[t] < 0 /\ s.pos[t] # 0 /\ s.expiry_s[t] \in Time
  BY SMTT(30), <1>4, <1>5, StateParts
<1>9. Promise(ts)[t] = s.expiry_s[t] /\ s.expiry_s[t] <= now
  <2>1. s.expiry_s[t] \in 1 .. timer_check
    BY <1>4, <1>8
  <2> QED
    BY SMTT(30), <1>4, <1>8, <2>1, InvParts DEF Promise
<1>10. Promise(ts') = [Promise(ts) EXCEPT ![t] = None]
  BY <1>6
<1>11. ServiceStep
  BY <1>3, <1>4, <1>8, <1>9, <1>10, FireStep
<1> QED
  BY <1>7, <1>11

\* The promise is one of times.
LEMMA PromiseType ==
  ASSUME NEW s \in State
  PROVE  Promise(s) \in [Timer -> Time \cup {None}]
BY StateParts DEF Promise

\* A hook called from the first loop returns: the next timer is run, from the
\* heap or from the run chunk, or run_timers ends.
LEMMA HeapHookStep ==
  ASSUME Inv, heap_hook_returns
  PROVE  Inv' /\ ServiceStep
<1>1. running = "heap" /\ running # "chunk" /\ UNCHANGED <<owner, stop_flag, now>>
  BY DEF heap_hook_returns
<1>2. current # None /\ current \in Timer
  BY <1>1, TimerSetAssumption DEF Inv
<1>3. CASE /\ expired(ts, timer_check) /\ max_timers > 0
           /\ run_first(timer_check) /\ max_timers' = max_timers - 1
  <2>1. max_timers - 1 \in 0 .. MaxTimers
    BY <1>3, TimerSetAssumption DEF Inv
  <2>2. timer_check \in timer_check .. now
    BY SMTT(30), InvParts
  <2> QED
    BY <1>1, <1>3, <2>1, <2>2, RunFirstStep, Zenon
<1>4. CASE /\ expired(ts, timer_check) /\ \E s \in {chunked(ts)} : run_chunk_at(s, 1)
           /\ UNCHANGED <<timer_check, max_timers>>
  <2>1. PICK s : s = chunked(ts) /\ run_chunk_at(s, 1)
    BY <1>4
  <2>2. ts.runchunk = << >>
    BY SMTT(30), <1>1 DEF Inv
  <2>3. Chunking(ts, s) /\ TimersOK(s) /\ Len(s.runchunk) \in Nat /\ Len(s.runchunk) >= 1
    BY <1>4, <2>1, <2>2, InvParts, ChunkedOK, Zenon
  <2>4. Promise(s) = Promise(ts)
    BY SMTT(30), <2>3 DEF Chunking, Promise
  <2>5. \A v \in Timer : s.pos[v] < 0 => s.expiry_s[v] \in 1 .. timer_check
    BY <2>3 DEF Chunking
  <2>6. PICK i \in 1 .. Len(s.runchunk) : i = 1
    BY <2>3
  <2>7. s.runchunk[i] # None
    <3>1. s.runchunk \in Seq(Timer)
      BY <2>3 DEF Chunking
    <3> QED
      BY SMTT(30), <3>1, TimerSetAssumption
  <2>8. \A j \in 1 .. i - 1 : s.runchunk[j] = None
    BY <2>6
  <2>9. run_chunk_at(s, i)
    BY <2>1, <2>6
  <2> QED
    BY <1>1, <1>4, <2>3, <2>4, <2>5, <2>7, <2>8, <2>9, RunChunkStep, Zenon
<1>5. CASE finish /\ UNCHANGED <<ts, timer_check>>
  <2>1. running' = None /\ current' = None /\ max_timers' = 0
    BY <1>5 DEF finish
  <2>2. None # "chunk" /\ 0 \in 0 .. MaxTimers
    BY SMTT(30), TimerSetAssumption
  <2>3. ts.runchunk = << >>
    BY <1>1 DEF Inv
  <2>4. Inv'
    BY <1>1, <1>5, <2>1, <2>2, <2>3, Zenon DEF Inv
  <2>5. Promise(ts) \in [Timer -> Time \cup {None}]
    BY SMTT(30), InvParts, PromiseType
  <2>6. Service!Return
    BY <1>1, <1>2, <1>5, <2>1, <2>5, Zenon DEF Service!Return, Promise
  <2> QED
    BY <2>4, <2>6 DEF ServiceStep, Service!Next
<1> QED
  BY <1>3, <1>4, <1>5 DEF heap_hook_returns

\* What a promise becomes when the timers of the run chunk are put back.
LEMMA KeptPromise ==
  ASSUME NEW s \in State, NEW u \in State, Kept(s, u), timer_check \in Nat,
         now \in Nat, timer_check <= now
  PROVE  \A t \in Timer :
           \/ Promise(u)[t] = Promise(s)[t]
           \/ /\ None \notin {Promise(s)[t], Promise(u)[t]}
              /\ Promise(s)[t] <= Promise(u)[t] /\ Promise(u)[t] <= now
<1> TAKE t \in Timer
<1>1. s.expiry_s[t] \in Time /\ u.expiry_s[t] \in Time /\ (u.pos[t] # 0 <=> s.pos[t] # 0)
  BY StateParts DEF Kept
<1>2. CASE u.expiry_s[t] = s.expiry_s[t]
  BY <1>1, <1>2, Zenon DEF Promise
<1>3. CASE s.pos[t] # 0 /\ u.expiry_s[t] \in s.expiry_s[t] .. timer_check
  <2>1. Promise(s)[t] = s.expiry_s[t] /\ Promise(u)[t] = u.expiry_s[t]
    BY <1>1, <1>3 DEF Promise
  <2>2. None \notin {s.expiry_s[t], u.expiry_s[t]}
    BY <1>1, TimerSetAssumption DEF Time
  <2>3. s.expiry_s[t] <= u.expiry_s[t] /\ u.expiry_s[t] <= now
    BY <1>1, <1>3, TimerSetAssumption DEF Time
  <2> QED
    BY <2>1, <2>2, <2>3, Zenon
<1> QED
  BY <1>2, <1>3 DEF Kept

\* A hook called from the loop over the run chunk returns: the next timer of
\* the run chunk is run, or those left in it are put back into the heap.
LEMMA ChunkHookStep ==
  ASSUME Inv, chunk_hook_returns
  PROVE  Inv' /\ ServiceStep
<1> DEFINE left == {i \in 1 .. Len(ts.runchunk) : ts.runchunk[i] # None}
<1>1. running = "chunk" /\ UNCHANGED <<owner, timer_check, stop_flag, now>>
  BY DEF chunk_hook_returns
<1>2. current # None
  BY <1>1, TimerSetAssumption DEF Inv
<1>3. \A v \in Timer : ts.pos[v] < 0 => ts.expiry_s[v] \in 1 .. timer_check
  BY DEF Inv
<1>4. CASE /\ \E i \in left : (\A j \in left : i <= j) /\ run_chunk_at(ts, i)
           /\ UNCHANGED max_timers
  <2>1. PICK i \in left : (\A j \in left : i <= j) /\ run_chunk_at(ts, i)
    BY <1>4
  <2>2. i \in 1 .. Len(ts.runchunk) /\ ts.runchunk[i] # None
    OBVIOUS
  <2>3. \A j \in 1 .. i - 1 : ts.runchunk[j] = None
    <3>1. ASSUME NEW j \in 1 .. i - 1 PROVE j \in 1 .. Len(ts.runchunk) /\ ~ (i <= j)
      BY <2>2, InvParts
    <3> QED
      BY <2>1, <3>1
  <2>4. TimersOK(ts)
    BY InvParts
  <2> QED
    BY <1>1, <1>3, <1>4, <2>1, <2>2, <2>3, <2>4, RunChunkStep
<1>5. CASE finish /\ ts' = unrun(ts)
  <2>1. running' = None /\ current' = None /\ max_timers' = 0
    BY <1>5 DEF finish
  <2>2. TimersOK(ts') /\ ts'.runchunk = << >> /\ Kept(ts, ts')
    BY <1>3, <1>5, InvParts, UnrunOK, Zenon
  <2>3. ts' \in State /\ \A v \in Timer : ts'.pos[v] < 0 => - ts'.pos[v] \in 1 .. 0
    BY <2>2 DEF TimersOK, HeapOK, ChunkFrom
  <2>4. \A v \in Timer : ~ (ts'.pos[v] < 0)
    BY <2>3, StateParts
  <2>5. None # "chunk" /\ 0 \in 0 .. MaxTimers
    BY TimerSetAssumption
  <2>6. Inv'
    BY <1>1, <2>1, <2>2, <2>4, <2>5 DEF Inv
  <2>7. Promise(ts') \in [Timer -> Time \cup {None}]
    BY <2>3, PromiseType, Zenon
  <2>8. \A t \in Timer :
          \/ Promise(ts')[t] = Promise(ts)[t]
          \/ /\ None \notin {Promise(ts)[t], Promise(ts')[t]}
             /\ Promise(ts)[t] <= Promise(ts')[t] /\ Promise(ts')[t] <= now
    BY <2>2, <2>3, InvParts, KeptPromise, Zenon
  <2>9. Service!Return
    BY <1>1, <1>2, <2>1, <2>7, <2>8 DEF Service!Return, Promise
  <2> QED
    BY <2>6, <2>9 DEF ServiceStep, Service!Next
<1> QED
  BY <1>4, <1>5 DEF chunk_hook_returns

\* A router is killed.
LEMMA KillStep ==
  ASSUME Inv, NEW r \in Router, kill_router(r)
  PROVE  Inv' /\ ServiceStep
<1>1. /\ running = None /\ UNCHANGED <<runVars, stop_flag, now>>
      /\ UNCHANGED <<timer_check, max_timers, running, current>>
  BY SMTT(30) DEF kill_router, runVars
<1>2. current = None /\ running # "chunk" /\ ts.runchunk = << >>
  BY SMTT(30), <1>1, TimerSetAssumption DEF Inv
<1>3. TimersOK(ts') /\ Killing(ts, ts', r)
  BY <1>2, InvParts, KilledOK, Zenon DEF kill_router
<1>4. ts' \in State /\ ts'.runchunk = << >> /\ \A t \in Timer : ts'.pos[t] >= 0
  BY <1>3 DEF TimersOK, HeapOK, Killing
<1>5. \A t \in Timer : ~ (ts'.pos[t] < 0)
  BY <1>4, StateParts
<1>6. /\ owner' \in [Timer -> Router \cup {None}]
      /\ \A t \in Timer : owner'[t] = RouterOf[t] \/ owner'[t] = None
  BY DEF Inv, kill_router
<1>7. Inv'
  BY <1>1, <1>3, <1>4, <1>5, <1>6 DEF Inv
<1>8. Promise(ts') \in [Timer -> Time \cup {None}]
  BY SMTT(30), <1>4, PromiseType
<1>9. ASSUME NEW t \in Timer
      PROVE  Promise(ts')[t] = Promise(ts)[t] \/ (Promise(ts')[t] = None /\ RouterOf[t] = r)
  <2>1. CASE owner[t] = r /\ ts'.pos[t] = 0
    <3>1. RouterOf[t] = r
      BY <2>1, TimerSetAssumption DEF Inv
    <3> QED
      BY <2>1, <3>1, Zenon DEF Promise
  <2>2. CASE ts'.expiry_s[t] = ts.expiry_s[t] /\ (ts'.pos[t] # 0 <=> ts.pos[t] # 0)
    BY <2>2 DEF Promise
  <2> QED
    BY <1>3, <2>1, <2>2, Zenon DEF Killing
<1>10. Service!Kill(r)
  BY <1>1, <1>2, <1>8, <1>9 DEF Service!Kill, Promise
<1> QED
  BY <1>7, <1>10, Zenon DEF ServiceStep, Service!Next

\* The stop flag is set or cleared, or time passes.
LEMMA OtherStep ==
  ASSUME Inv, please_stop \/ verify_stop \/ Tick \/ UNCHANGED vars
  PROVE  Inv' /\ ServiceStep
<1>1. UNCHANGED <<ts, owner, timer_check, max_timers, running, current>>
  BY DEF please_stop, verify_stop, Tick, vars, runVars
<1>2. Promise(ts') = Promise(ts)
  BY <1>1
<1>3. CASE now' = now
  <2>1. Inv'
    BY <1>1, <1>3, Zenon DEF Inv
  <2>2. UNCHANGED Service!vars
    BY <1>1, <1>2, <1>3 DEF Service!vars, Promise
  <2> QED
    BY <2>1, <2>2 DEF ServiceStep
<1>4. CASE Tick
  <2>1. now' \in 1 .. MaxTime /\ timer_check \in 1 .. now' /\ now' > now
    BY SMTT(30), <1>4, InvParts DEF Inv, Tick
  <2>2. Inv'
    BY <1>1, <2>1 DEF Inv
  <2>3. Service!Pass
    BY <1>1, <1>2, <2>1 DEF Service!Pass, Promise
  <2> QED
    BY <2>2, <2>3, Zenon DEF ServiceStep, Service!Next
<1> QED
  BY <1>3, <1>4 DEF please_stop, verify_stop, vars

\* Nothing is scheduled at first.
LEMMA InitInv ==
  ASSUME Init
  PROVE  Inv /\ Service!Init
<1>1. 0 \in Time /\ 1 \in Time /\ 1 \in 1 .. MaxTime /\ 0 \in 0 .. MaxTimers
  BY TimerSetAssumption DEF Time
<1>2. /\ ts.heap = << >> /\ ts.runchunk = << >> /\ ts.timer_expiry = 0
      /\ ts.pos = [t \in Timer |-> 0] /\ ts.expiry_s = [t \in Timer |-> 0]
  BY Zenon DEF Init
<1>3. ts \in State
  BY <1>1 DEF Init, State
<1>4. Len(ts.heap) = 0 /\ Len(ts.runchunk) = 0 /\ \A t \in Timer : ts.pos[t] = 0
  BY <1>2
<1>5. TimersOK(ts)
  BY SMTT(30), <1>2, <1>3, <1>4 DEF TimersOK, HeapOK, Placed, Ordered, Keyed, ChunkFrom, Fresh
<1>6. Inv
  BY <1>1, <1>2, <1>4, <1>5, TimerSetAssumption DEF Init, Inv
<1>7. Service!Init
  BY <1>1, <1>4 DEF Init, Service!Init
<1> QED
  BY <1>6, <1>7

\* Every step keeps the invariant and is a step of the promise.
LEMMA NextInv ==
  ASSUME Inv, [Next]_vars
  PROVE  Inv' /\ ServiceStep
<1>1. ASSUME NEW t \in Timer, NEW when \in Time, schedule_at_steady(t, when)
      PROVE  Inv' /\ ServiceStep
  BY <1>1, ScheduleStep
<1>2. ASSUME NEW t \in Timer, unschedule(t) PROVE Inv' /\ ServiceStep
  BY <1>2, UnscheduleStep
<1>3. CASE run_timers
  BY <1>3, RunTimersStep
<1>4. CASE heap_hook_returns
  BY <1>4, HeapHookStep
<1>5. CASE chunk_hook_returns
  BY <1>5, ChunkHookStep
<1>6. ASSUME NEW r \in Router, kill_router(r) PROVE Inv' /\ ServiceStep
  BY <1>6, KillStep
<1>7. CASE please_stop \/ verify_stop \/ Tick \/ UNCHANGED vars
  BY <1>7, OtherStep
<1> QED
  BY <1>1, <1>2, <1>3, <1>4, <1>5, <1>6, <1>7 DEF Next

\* The invariant always holds.
LEMMA AlwaysInv == Spec => []Inv
<1>1. Init => Inv
  BY InitInv
<1>2. Inv /\ [Next]_vars => Inv'
  BY NextInv
<1> QED
  BY <1>1, <1>2, PTL DEF Spec

\* Type correctness of the timer set: _schedpos1 stays within the heap or the
\* run chunk whatever schedule, unschedule, run_timers and kill_router do.
THEOREM TypeCorrect == Spec => []TypeOK
<1>1. Inv => TypeOK
  <2> SUFFICES ASSUME Inv PROVE TypeOK
    OBVIOUS
  <2>1. ASSUME NEW t \in Timer PROVE ts.pos[t] \in - Len(ts.runchunk) .. Len(ts.heap)
    <3>1. /\ ts.pos[t] \in Int /\ Len(ts.heap) \in Nat /\ Len(ts.runchunk) \in Nat
          /\ ts.pos[t] > 0 => ts.pos[t] <= Len(ts.heap)
      BY SMTT(30), InvParts, StateParts DEF Placed
    <3>2. ts.pos[t] < 0 => - ts.pos[t] <= Len(ts.runchunk)
      BY <3>1, InvParts DEF TimersOK, ChunkFrom
    <3> QED
      BY <3>1, <3>2
  <2>2. ts.timer_expiry \in Time
    BY InvParts, StateParts
  <2>3. current \in Timer \cup {None} /\ owner \in [Timer -> Router \cup {None}]
    BY DEF Inv
  <2>4. max_timers \in 0 .. MaxTimers
    BY DEF Inv
  <2> QED
    BY <2>1, <2>2, <2>3, <2>4, InvParts DEF TypeOK, Entry
<1> QED
  BY <1>1, AlwaysInv, PTL

\* _schedpos1 and the entries of heap and run chunk always lead to each other,
\* so that unschedule finds the timer wherever run_timers has put it.
THEOREM AlwaysLinked == Spec => []Linked
<1>1. Inv => Linked
  <2> SUFFICES ASSUME Inv PROVE Linked
    OBVIOUS
  <2>1. ASSUME NEW i \in 1 .. Len(ts.heap)
        PROVE  ts.pos[ts.heap[i].t] = i /\ ts.heap[i].expiry_s = ts.expiry_s[ts.heap[i].t]
    <3>1. PICK t \in Timer : t = ts.heap[i].t /\ ts.pos[t] = i
      BY SMTT(30), InvParts DEF Placed
    <3>2. ts.heap[ts.pos[t]].expiry_s = ts.expiry_s[t]
      BY SMTT(30), <3>1, InvParts DEF Keyed
    <3> QED
      BY <3>1, <3>2
  <2>2. /\ \A i \in 1 .. Len(ts.runchunk) :
             ts.runchunk[i] # None => ts.pos[ts.runchunk[i]] = - i
        /\ \A t \in Timer : ts.pos[t] < 0 => ts.runchunk[- ts.pos[t]] = t
    BY InvParts DEF TimersOK, ChunkFrom
  <2>3. \A t \in Timer : ts.pos[t] > 0 => ts.heap[ts.pos[t]].t = t
    BY InvParts DEF Placed
  <2> QED
    BY <2>1, <2>2, <2>3 DEF Linked
<1> QED
  BY <1>1, AlwaysInv, PTL

\* _timer_expiry, until which the driver sleeps, is always the earliest expiry
\* in the heap.
THEOREM AlwaysSleepsUntilEarliest == Spec => []SleepsUntilEarliest
<1>1. Inv => SleepsUntilEarliest
  <2> SUFFICES ASSUME Inv PROVE SleepsUntilEarliest
    OBVIOUS
  <2>1. PICK h : h = ts.heap
    BY SMTT(30)
  <2>2. /\ h \in Seq(Entry) /\ Ordered(h)
        /\ ts.timer_expiry = IF h = << >> THEN 0 ELSE h[1].expiry_s
    BY SMTT(30), <2>1, InvParts DEF TimersOK, HeapOK, Fresh
  <2>3. \A k \in 1 .. Len(h) : h[1].expiry_s <= h[k].expiry_s
    BY <2>2, FirstIsLeast
  <2>4. CASE h = << >>
    BY <2>1, <2>2, <2>4 DEF SleepsUntilEarliest
  <2>5. CASE h # << >>
    <3>1. 1 \in 1 .. Len(h)
      BY <2>2, <2>5
    <3> QED
      BY <2>1, <2>2, <2>3, <2>5, <3>1 DEF SleepsUntilEarliest
  <2> QED
    BY <2>4, <2>5
<1> QED
  BY <1>1, AlwaysInv, PTL

\* What kill_router asserts: outside run_timers the run chunk is empty, since
\* run_timers puts back what it has not run.
THEOREM AlwaysChunkRunOut == Spec => []ChunkRunOut
<1>1. Inv => ChunkRunOut
  BY TimerSetAssumption DEF Inv, ChunkRunOut
<1> QED
  BY <1>1, AlwaysInv, PTL

\* The timer set implements the promise to its timers: none fires before its
\* expiry, and none is lost when others are run, chunked or killed.
THEOREM KeepsPromise == Spec => ServiceSpec
<1>1. Init => Service!Init
  BY InitInv
<1>2. Inv /\ [Next]_vars => [Service!Next]_(Service!vars)
  BY NextInv DEF ServiceStep
<1> QED
  BY <1>1, <1>2, AlwaysInv, PTL DEF Spec, ServiceSpec, Service!Spec
=============================================================================
