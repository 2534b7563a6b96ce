----------------------------- MODULE HeapProofs -----------------------------
(***************************************************************************)
(* Proofs about the heap of timers, for heaps of every length and arity:   *)
(* change_heap and remove_heap keep the elements, their recorded positions *)
(* and the order.  What a loop computes is proved by induction, here over  *)
(* sets of numbers.                                                        *)
(***************************************************************************)
EXTENDS TimerSet, WellFoundedInduction, TLAPS

-----------------------------------------------------------------------------
\* A set of numbers has a least one.
LEMMA LeastNumber ==
  ASSUME NEW T \in SUBSET Nat, T # {}
  PROVE  \E n \in T : \A m \in T : n <= m
<1> DEFINE R == OpToRel(<, Nat)
<1>1. IsWellFoundedOn(R, Nat)
  BY NatLessThanWellFounded, Zenon
<1>2. \A m, n \in Nat : m < n => <<m, n>> \in R
  BY DEF OpToRel
<1> HIDE DEF R
<1>3. PICK n \in T : \A m \in T : ~ (<<m, n>> \in R)
  BY <1>1, WFMin, Zenon
<1>4. \A m \in T : ~ (m < n)
  BY <1>2, <1>3, Zenon
<1>5. \A m \in T : m \in Nat /\ n \in Nat
  OBVIOUS
<1>6. \A m \in T : n <= m
  BY <1>4, <1>5
<1> QED
  BY <1>6

\* Induction over the numbers, for a property given as a set.
LEMMA SetInduction ==
  ASSUME NEW S, 0 \in S, \A n \in Nat : n \in S => n + 1 \in S
  PROVE  Nat \subseteq S
<1> DEFINE T == Nat \ S
<1> SUFFICES ASSUME T # {} PROVE FALSE
  OBVIOUS
<1>1. PICK n \in T : \A m \in T : n <= m
  BY LeastNumber, Zenon
<1>2. n - 1 \in Nat /\ n - 1 \notin T
  BY <1>1
<1> QED
  BY <1>1, <1>2

\* The values x, f[x], f[f[x]] and so on.
Iterates(c, f, x) == c[0] = x /\ \A n \in Nat : c[n + 1] = f[c[n]]

\* There are such values: for each n there are the first n of them, and those
\* of two n agree.
LEMMA Iteration ==
  ASSUME NEW S, NEW f, f \in [S -> S], NEW x, x \in S
  PROVE  \E c \in [Nat -> S] : Iterates(c, f, x)
<1> DEFINE Upto(n) == {c \in [0 .. n -> S] : c[0] = x /\ \A k \in 0 .. n - 1 : c[k + 1] = f[c[k]]}
           Good == {n \in Nat : Upto(n) # {}}
<1>1. 0 \in Good
  <2>1. [k \in 0 .. 0 |-> x] \in Upto(0)
    OBVIOUS
  <2> QED
    BY <2>1
<1>2. ASSUME NEW n \in Nat, n \in Good PROVE n + 1 \in Good
  <2>1. PICK c : c \in Upto(n)
    BY <1>2
  <2> DEFINE d == [k \in 0 .. n + 1 |-> IF k = n + 1 THEN f[c[n]] ELSE c[k]]
  <2>2. d \in [0 .. n + 1 -> S] /\ d[0] = x
    BY <2>1
  <2>3. ASSUME NEW k \in 0 .. (n + 1) - 1 PROVE d[k + 1] = f[d[k]]
    BY <2>1
  <2>4. d \in Upto(n + 1)
    BY <2>2, <2>3, Zenon
  <2> QED
    BY <2>4
<1>3. Nat \subseteq Good
  <2> HIDE DEF Good
  <2> QED
    BY <1>1, <1>2, SetInduction
<1> DEFINE first == [n \in Nat |-> CHOOSE c : c \in Upto(n)]
<1>4. \A n \in Nat : first[n] \in Upto(n)
  BY <1>3, Zenon
<1> HIDE DEF first
<1>5. ASSUME NEW n \in Nat
      PROVE  /\ first[n] \in [0 .. n -> S] /\ first[n][0] = x
             /\ \A k \in 0 .. n - 1 : first[n][k + 1] = f[first[n][k]]
  BY <1>4
<1> HIDE DEF Upto
<1> DEFINE Agreed == {k \in Nat : \A m \in Nat : k <= m => first[m][k] = first[k][k]}
<1>6. 0 \in Agreed
  BY <1>5
<1>7. ASSUME NEW k \in Nat, k \in Agreed PROVE k + 1 \in Agreed
  <2> SUFFICES ASSUME NEW m \in Nat, k + 1 <= m
               PROVE  first[m][k + 1] = first[k + 1][k + 1]
    OBVIOUS
  <2>1. first[m][k] = first[k][k] /\ first[k + 1][k] = first[k][k]
    BY <1>7
  <2>2. k \in 0 .. m - 1 /\ k \in 0 .. (k + 1) - 1 /\ k + 1 \in Nat
    OBVIOUS
  <2>3. first[m][k + 1] = f[first[m][k]] /\ first[k + 1][k + 1] = f[first[k + 1][k]]
    BY <1>5, <2>2, Zenon
  <2> QED
    BY <2>1, <2>3
<1>8. Nat \subseteq Agreed
  <2> HIDE DEF Agreed
  <2> QED
    BY <1>6, <1>7, SetInduction
<1> DEFINE c == [n \in Nat |-> first[n][n]]
<1>9. c \in [Nat -> S] /\ c[0] = x
  BY <1>5
<1>10. ASSUME NEW n \in Nat PROVE c[n + 1] = f[c[n]]
  <2>1. n \in 0 .. (n + 1) - 1 /\ n + 1 \in Nat /\ n <= n + 1
    OBVIOUS
  <2> USE <2>1
  <2>2. first[n + 1][n + 1] = f[first[n + 1][n]]
    BY <1>5
  <2>3. first[n + 1][n] = first[n][n]
    BY <1>8
  <2> QED
    BY <2>2, <2>3
<1> HIDE DEF c
<1> QED
  BY <1>9, <1>10 DEF Iterates

\* What every round of a loop keeps holds after each of them.
LEMMA StaysIn ==
  ASSUME NEW S, NEW c, c[0] \in S, \A k \in Nat : c[k] \in S => c[k + 1] \in S
  PROVE  \A k \in Nat : c[k] \in S
<1> DEFINE G == {k \in Nat : c[k] \in S}
<1>1. 0 \in G /\ \A k \in Nat : k \in G => k + 1 \in G
  OBVIOUS
<1>2. Nat \subseteq G
  <2> HIDE DEF G
  <2> QED
    BY <1>1, SetInduction
<1> QED
  BY <1>2

\* The rounds of the loop that moves an element up.
Rises(x, n) == Loop(rise, x, n)
RisesBy(c, S, x) == c \in [Nat -> S] /\ c[0] = x /\ \A k \in Nat : c[k + 1] = rise(c[k])
RisesStay(S) == \A y \in S : rise(y) \in S

LEMMA RiseLoop ==
  ASSUME NEW S, NEW x, x \in S, RisesStay(S), NEW n, n \in Nat
  PROVE  \E c : RisesBy(c, S, x) /\ Rises(x, n) = c[n]
<1> DEFINE f == [y \in S |-> rise(y)]
<1>1. f \in [S -> S] /\ \A y \in S : f[y] = rise(y)
  BY DEF RisesStay
<1> HIDE DEF f
<1>2. PICK d \in [Nat -> S] : Iterates(d, f, x)
  BY <1>1, Iteration
<1> DEFINE F(c) == [k \in Nat |-> IF k = 0 THEN x
                                ELSE CHOOSE y \in {rise(z) : z \in {c[k - 1]}} : TRUE]
           c == CHOOSE c : c = [k \in Nat |-> IF k = 0 THEN x
                                ELSE CHOOSE y \in {rise(z) : z \in {c[k - 1]}} : TRUE]
<1>3. d = F(d)
  <2>1. ASSUME NEW k \in Nat, k # 0 PROVE d[k] = rise(d[k - 1])
    <3>1. k - 1 \in Nat /\ (k - 1) + 1 = k
      BY <2>1
    <3> QED
      BY <1>1, <1>2, <3>1 DEF Iterates
  <2> QED
    BY <1>2, <2>1 DEF Iterates
<1>4. c = F(c)
  BY <1>3, Zenon
<1>5. Rises(x, n) = c[n]
  BY DEF Rises, Loop
<1> HIDE DEF c
<1>6. c[0] = x /\ \A k \in Nat : c[k + 1] = rise(c[k])
  BY <1>4
<1>7. c \in [Nat -> S]
  BY <1>4, <1>6, StaysIn DEF RisesStay
<1>8. RisesBy(c, S, x)
  BY <1>6, <1>7, Zenon DEF RisesBy
<1> QED
  BY <1>5, <1>8, Zenon

\* The rounds of the loop that moves an element down.
Sinks(x, n) == Loop(sink, x, n)
SinksBy(c, S, x) == c \in [Nat -> S] /\ c[0] = x /\ \A k \in Nat : c[k + 1] = sink(c[k])
SinksStay(S) == \A y \in S : sink(y) \in S

LEMMA SinkLoop ==
  ASSUME NEW S, NEW x, x \in S, SinksStay(S), NEW n, n \in Nat
  PROVE  \E c : SinksBy(c, S, x) /\ Sinks(x, n) = c[n]
<1> DEFINE f == [y \in S |-> sink(y)]
<1>1. f \in [S -> S] /\ \A y \in S : f[y] = sink(y)
  BY DEF SinksStay
<1> HIDE DEF f
<1>2. PICK d \in [Nat -> S] : Iterates(d, f, x)
  BY <1>1, Iteration
<1> DEFINE F(c) == [k \in Nat |-> IF k = 0 THEN x
                                ELSE CHOOSE y \in {sink(z) : z \in {c[k - 1]}} : TRUE]
           c == CHOOSE c : c = [k \in Nat |-> IF k = 0 THEN x
                                ELSE CHOOSE y \in {sink(z) : z \in {c[k - 1]}} : TRUE]
<1>3. d = F(d)
  <2>1. ASSUME NEW k \in Nat, k # 0 PROVE d[k] = sink(d[k - 1])
    <3>1. k - 1 \in Nat /\ (k - 1) + 1 = k
      BY <2>1
    <3> QED
      BY <1>1, <1>2, <3>1 DEF Iterates
  <2> QED
    BY <1>2, <2>1 DEF Iterates
<1>4. c = F(c)
  BY <1>3, Zenon
<1>5. Sinks(x, n) = c[n]
  BY DEF Sinks, Loop
<1> HIDE DEF c
<1>6. c[0] = x /\ \A k \in Nat : c[k + 1] = sink(c[k])
  BY <1>4
<1>7. c \in [Nat -> S]
  BY <1>4, <1>6, StaysIn DEF SinksStay
<1>8. SinksBy(c, S, x)
  BY <1>6, <1>7, Zenon DEF SinksBy
<1> QED
  BY <1>5, <1>8, Zenon

-----------------------------------------------------------------------------
\* A position but the first has a parent before it.
LEMMA ParentBefore ==
  ASSUME NEW k \in Nat, k > 1
  PROVE  parent(k) \in 1 .. k - 1
<1> DEFINE q == (k - 1) \div Arity
<1>1. Arity \in Nat /\ Arity > 2 /\ k - 1 \in Nat
  BY ArityAssumption
<1> USE <1>1
<1>2. q \in Nat /\ Arity * q <= k - 1
  OBVIOUS
<1> USE <1>2
<1> HIDE DEF q
<1>3. 2 * q <= Arity * q
  OBVIOUS
<1>4. q <= k - 2
  BY <1>3
<1> QED
  BY <1>4 DEF parent, q

\* The children of a position are those whose parent it is.
LEMMA ChildrenHaveParent ==
  ASSUME NEW i \in Nat, i > 0, NEW k \in Nat
  PROVE  k \in children(i) <=> k > 1 /\ parent(k) = i
<1> DEFINE q == (k - 1) \div Arity
           r == (k - 1) % Arity
<1>1. Arity \in Nat /\ Arity > 2
  BY ArityAssumption
<1> USE <1>1
<1>2. ASSUME k > 0
      PROVE  q \in Int /\ r \in Int /\ 0 <= r /\ r < Arity /\ k - 1 = Arity * q + r
  BY <1>2
<1> HIDE DEF q, r
<1> DEFINE j == i - 1
<1>3. j \in Nat /\ (i - 1) * Arity = Arity * j /\ i * Arity = Arity * j + Arity
  OBVIOUS
<1> USE <1>3
<1> HIDE DEF j
<1>4. ASSUME k > 0 PROVE q = j <=> Arity * j + 1 <= k /\ k <= Arity * j + Arity
  <2>1. CASE q = j
    BY <1>2, <1>4, <2>1
  <2>2. CASE q < j
    <3>1. Arity * (q + 1) <= Arity * j
      BY <1>2, <1>4, <2>2
    <3> QED
      BY <1>2, <1>4, <2>2, <3>1
  <2>3. CASE q > j
    <3>1. Arity * (j + 1) <= Arity * q
      BY <1>2, <1>4, <2>3
    <3> QED
      BY <1>2, <1>4, <2>3, <3>1
  <2> QED
    BY <1>2, <1>4, <2>1, <2>2, <2>3
<1>5. parent(k) = q + 1
  BY DEF parent, q
<1>6. CASE i = 1
  <2>1. Arity * j = 0
    BY <1>6 DEF j
  <2> QED
    BY <1>2, <1>4, <1>5, <1>6, <2>1 DEF children, j
<1>7. CASE i > 1
  <2>1. Arity * j > 0
    BY <1>7 DEF j
  <2> QED
    BY <1>2, <1>4, <1>5, <1>7, <2>1 DEF children, j
<1> QED
  BY <1>6, <1>7

-----------------------------------------------------------------------------
Entry == [expiry_s : Time \ {0}, t : Timer]

\* The timer set and the timers' own fields.
State ==
  [heap : Seq(Entry), pos : [Timer -> Int], expiry_s : [Timer -> Time],
   runchunk : Seq(Timer \cup {None}), timer_expiry : Time]

\* The timers of T lead to their entries of the heap, and these back.
Placed(s, T) ==
  /\ \A k \in 1 .. Len(s.heap) : s.heap[k].t \in T /\ s.pos[s.heap[k].t] = k
  /\ \A t \in T : s.pos[t] > 0 => s.pos[t] <= Len(s.heap) /\ s.heap[s.pos[t]].t = t

\* The heap of u has the entries of the heap of s, perhaps elsewhere, and
\* nothing else has changed.
Rearranged(s, u, T) ==
  /\ u \in State /\ Placed(u, T)
  /\ Len(u.heap) = Len(s.heap)
  /\ u.expiry_s = s.expiry_s /\ u.runchunk = s.runchunk /\ u.timer_expiry = s.timer_expiry
  /\ \A t \in Timer : t \notin T \/ s.pos[t] <= 0 => u.pos[t] = s.pos[t]
  /\ \A t \in T : s.pos[t] > 0 => u.pos[t] > 0 /\ u.heap[u.pos[t]] = s.heap[s.pos[t]]

\* A swap of two elements only rearranges the heap.
LEMMA SwapRearranges ==
  ASSUME NEW T \in SUBSET Timer, NEW s \in State, Placed(s, T),
         NEW i \in 1 .. Len(s.heap), NEW k \in 1 .. Len(s.heap), i # k
  PROVE  /\ swap(s, i, k).heap = [s.heap EXCEPT ![i] = s.heap[k], ![k] = s.heap[i]]
         /\ Rearranged(s, swap(s, i, k), T)
<1> DEFINE h == s.heap
           u == swap(s, i, k)
           a == h[i].t
           b == h[k].t
<1>1. h \in Seq(Entry) /\ h[i] \in Entry /\ h[k] \in Entry /\ s.pos \in [Timer -> Int]
  BY DEF State
<1> USE <1>1
<1>2. a \in T /\ b \in T /\ s.pos[a] = i /\ s.pos[b] = k /\ a # b
  BY Zenon DEF Placed
<1> USE <1>2
<1>3. /\ u.heap = [h EXCEPT ![i] = h[k], ![k] = h[i]]
      /\ u.pos = [s.pos EXCEPT ![a] = k, ![b] = i]
      /\ u.expiry_s = s.expiry_s /\ u.runchunk = s.runchunk /\ u.timer_expiry = s.timer_expiry
  BY DEF swap, State
<1> USE <1>3
<1>4. u.heap \in Seq(Entry) /\ Len(u.heap) = Len(h) /\ u.pos \in [Timer -> Int]
  OBVIOUS
<1> USE <1>4
<1>5. u \in State
  BY Zenon DEF swap, State
<1> HIDE DEF u, a, b
<1>6. ASSUME NEW j \in 1 .. Len(h) PROVE u.heap[j].t \in T /\ u.pos[u.heap[j].t] = j
  <2>1. s.heap[j].t \in T /\ s.pos[s.heap[j].t] = j
    BY DEF Placed
  <2>2. CASE j = i
    BY <2>2 DEF a, b
  <2>3. CASE j = k
    BY <2>3 DEF a, b
  <2>4. CASE j # i /\ j # k
    <3>1. u.heap[j] = h[j] /\ h[j].t # a /\ h[j].t # b
      BY <2>1, <2>4
    <3> QED
      BY <2>1, <3>1
  <2> QED
    BY <2>2, <2>3, <2>4, Zenon
<1>7. ASSUME NEW t \in T, s.pos[t] > 0
      PROVE  u.pos[t] > 0 /\ u.pos[t] <= Len(h) /\ u.heap[u.pos[t]] = h[s.pos[t]]
  <2>1. s.pos[t] \in 1 .. Len(h) /\ h[s.pos[t]].t = t
    BY <1>7 DEF Placed
  <2>2. CASE t = a
    BY <2>2 DEF a
  <2>3. CASE t = b
    BY <2>3 DEF b
  <2>4. CASE t # a /\ t # b
    <3>1. s.pos[t] # i /\ s.pos[t] # k
      BY <2>1, <2>4 DEF a, b
    <3> QED
      BY <2>1, <2>4, <3>1
  <2> QED
    BY <2>2, <2>3, <2>4, Zenon
<1>8. ASSUME NEW t \in Timer, t \notin T \/ s.pos[t] <= 0 PROVE u.pos[t] = s.pos[t]
  BY <1>8
<1>9. Placed(u, T)
  <2>1. ASSUME NEW t \in T, u.pos[t] > 0 PROVE u.pos[t] <= Len(u.heap) /\ u.heap[u.pos[t]].t = t
    <3>1. s.pos[t] > 0
      BY <1>8, <2>1
    <3>2. h[s.pos[t]].t = t
      BY <3>1, Zenon DEF Placed
    <3> QED
      BY <1>7, <3>1, <3>2, Zenon
  <2> QED
    BY <1>6, <2>1, Zenon DEF Placed
<1> QED
  BY <1>5, <1>7, <1>8, <1>9, Zenon DEF Rearranged, u

\* What is rearranged twice is rearranged.
LEMMA RearrangedTwice ==
  ASSUME NEW T \in SUBSET Timer, NEW s \in State, NEW u, NEW v,
         Rearranged(s, u, T), Rearranged(u, v, T)
  PROVE  Rearranged(s, v, T)
<1>1. \A t \in Timer : t \notin T \/ s.pos[t] <= 0 => v.pos[t] = s.pos[t]
  BY DEF Rearranged
<1>2. \A t \in T : s.pos[t] > 0 => v.pos[t] > 0 /\ v.heap[v.pos[t]] = s.heap[s.pos[t]]
  BY DEF Rearranged
<1> QED
  BY <1>1, <1>2, Zenon DEF Rearranged

-----------------------------------------------------------------------------
\* No element is less than its parent.
Ordered(h) == \A k \in 2 .. Len(h) : h[parent(k)].expiry_s <= h[k].expiry_s

\* The same without element i, whose children are not less than its parent:
\* what change_heap is to repair.
OrderedBut(h, i) ==
  /\ \A k \in 2 .. Len(h) :
       k # i /\ parent(k) # i => h[parent(k)].expiry_s <= h[k].expiry_s
  /\ i > 1 => \A k \in 2 .. Len(h) : parent(k) = i => h[parent(i)].expiry_s <= h[k].expiry_s

NotLess(h, i) == i > 1 => h[parent(i)].expiry_s <= h[i].expiry_s
NotMore(h, i) == \A k \in 2 .. Len(h) : parent(k) = i => h[i].expiry_s <= h[k].expiry_s

\* The parent of a position of a heap is another one.
LEMMA ParentInHeap ==
  ASSUME NEW h \in Seq(Entry), NEW k \in 2 .. Len(h)
  PROVE  /\ parent(k) \in 1 .. Len(h) /\ parent(k) < k
         /\ h[k].expiry_s \in Nat /\ h[parent(k)].expiry_s \in Nat
<1>1. parent(k) \in 1 .. k - 1 /\ k \in Nat /\ Len(h) \in Nat
  BY ParentBefore
<1>2. h[k] \in Entry /\ h[parent(k)] \in Entry
  BY <1>1
<1> QED
  BY SMTT(30), <1>1, <1>2, TimerSetAssumption DEF Entry, Time

\* When element i is in order with its neighbours the heap is ordered.
LEMMA OrderedAgain ==
  ASSUME NEW h, NEW i, OrderedBut(h, i), NotLess(h, i), NotMore(h, i)
  PROVE  Ordered(h)
  BY DEF OrderedBut, NotLess, NotMore, Ordered

\* An element that is less than its parent swaps with it.
LEMMA RiseKeepsOrder ==
  ASSUME NEW h \in Seq(Entry), NEW i \in 2 .. Len(h), OrderedBut(h, i),
         h[i].expiry_s < h[parent(i)].expiry_s
  PROVE  OrderedBut([h EXCEPT ![i] = h[parent(i)], ![parent(i)] = h[i]], parent(i))
<1> DEFINE q == parent(i)
           g == [h EXCEPT ![i] = h[q], ![q] = h[i]]
<1>1. q \in 1 .. Len(h) /\ q < i /\ h[i].expiry_s \in Nat /\ h[q].expiry_s \in Nat
  BY ParentInHeap
<1>2. Len(g) = Len(h) /\ g[i] = h[q] /\ g[q] = h[i]
  BY <1>1
<1> USE <1>2
<1>3. \A k \in 1 .. Len(h) : k # i /\ k # q => g[k] = h[k]
  BY <1>1
<1> HIDE DEF q, g
<1>4. ASSUME NEW k \in 2 .. Len(h), k # q, parent(k) # q
      PROVE  g[parent(k)].expiry_s <= g[k].expiry_s
  <2>1. parent(k) \in 1 .. Len(h) /\ parent(k) < k /\ k # i
    BY <1>4, ParentInHeap DEF q
  <2> USE <2>1
  <2>2. CASE parent(k) = i
    <3>1. h[q].expiry_s <= h[k].expiry_s
      BY <2>2 DEF OrderedBut, q
    <3> QED
      BY <1>3, <1>4, <2>2, <3>1
  <2>3. CASE parent(k) # i
    <3>1. h[parent(k)].expiry_s <= h[k].expiry_s
      BY <2>3 DEF OrderedBut
    <3> QED
      BY <1>3, <1>4, <2>3, <3>1
  <2> QED
    BY <2>2, <2>3
<1>5. ASSUME q > 1, NEW k \in 2 .. Len(h), parent(k) = q
      PROVE  g[parent(q)].expiry_s <= g[k].expiry_s
  <2>1. q \in 2 .. Len(h)
    BY <1>1, <1>5
  <2>2. /\ parent(q) \in 1 .. Len(h) /\ parent(q) < q
        /\ h[parent(q)].expiry_s \in Nat /\ h[k].expiry_s \in Nat
    BY <2>1, ParentInHeap
  <2>3. h[parent(q)].expiry_s <= h[q].expiry_s
    BY <1>1, <2>1, <2>2 DEF OrderedBut
  <2>4. g[parent(q)] = h[parent(q)]
    BY <1>1, <1>3, <2>2
  <2>5. CASE k = i
    BY <2>3, <2>4, <2>5
  <2>6. CASE k # i
    <3>1. h[q].expiry_s <= h[k].expiry_s /\ k # q
      BY <1>1, <1>5, <2>2, <2>6, ParentInHeap DEF OrderedBut
    <3>2. g[k] = h[k]
      BY <1>3, <2>6, <3>1
    <3> QED
      BY <1>1, <2>2, <2>3, <2>4, <3>1, <3>2
  <2> QED
    BY <2>5, <2>6
<1> QED
  BY <1>4, <1>5, Zenon DEF OrderedBut, g, q

\* An element that is more than a child swaps with the least of them.
LEMMA SinkKeepsOrder ==
  ASSUME NEW h \in Seq(Entry), NEW i \in 1 .. Len(h), OrderedBut(h, i), NotLess(h, i),
         NEW m \in 2 .. Len(h), parent(m) = i, h[m].expiry_s < h[i].expiry_s,
         \A k \in 2 .. Len(h) : parent(k) = i => h[m].expiry_s <= h[k].expiry_s
  PROVE  LET g == [h EXCEPT ![i] = h[m], ![m] = h[i]]
         IN  OrderedBut(g, m) /\ NotLess(g, m)
<1> DEFINE g == [h EXCEPT ![i] = h[m], ![m] = h[i]]
<1>1. i < m /\ h[i].expiry_s \in Nat /\ h[m].expiry_s \in Nat
  BY ParentInHeap
<1> USE <1>1
<1>2. Len(g) = Len(h) /\ g[i] = h[m] /\ g[m] = h[i]
  OBVIOUS
<1> USE <1>2
<1>3. \A k \in 1 .. Len(h) : k # i /\ k # m => g[k] = h[k]
  OBVIOUS
<1> HIDE DEF g
<1>4. ASSUME NEW k \in 2 .. Len(h), k # m, parent(k) # m
      PROVE  g[parent(k)].expiry_s <= g[k].expiry_s
  <2>1. parent(k) \in 1 .. Len(h) /\ parent(k) < k
    BY ParentInHeap
  <2> USE <2>1
  <2>2. CASE parent(k) = i
    BY <1>3, <1>4, <2>2
  <2>3. CASE k = i
    <3>1. h[parent(i)].expiry_s <= h[m].expiry_s
      BY <2>3 DEF OrderedBut
    <3> QED
      BY <1>3, <1>4, <2>3, <3>1, Zenon
  <2>4. CASE k # i /\ parent(k) # i
    <3>1. h[parent(k)].expiry_s <= h[k].expiry_s
      BY <2>4 DEF OrderedBut
    <3> QED
      BY <1>3, <1>4, <2>4, <3>1
  <2> QED
    BY <2>2, <2>3, <2>4
<1>5. ASSUME NEW k \in 2 .. Len(h), parent(k) = m
      PROVE  g[parent(m)].expiry_s <= g[k].expiry_s
  <2>1. m < k
    BY <1>5, ParentInHeap
  <2>2. h[m].expiry_s <= h[k].expiry_s
    BY <1>5, <2>1 DEF OrderedBut
  <2> QED
    BY <1>3, <2>1, <2>2
<1>6. NotLess(g, m)
  BY DEF NotLess
<1> QED
  BY <1>4, <1>5, <1>6, Zenon DEF OrderedBut, g

\* Whatever out of order element i may be, no other is less than the first.
LEMMA FirstIsLeastBut ==
  ASSUME NEW h \in Seq(Entry), NEW i \in 2 .. Len(h), OrderedBut(h, i)
  PROVE  \A k \in 1 .. Len(h) : k # i => h[1].expiry_s <= h[k].expiry_s
<1> DEFINE T == {k \in 1 .. Len(h) : k # i /\ ~ (h[1].expiry_s <= h[k].expiry_s)}
<1> SUFFICES ASSUME T # {} PROVE FALSE
  OBVIOUS
<1>1. T \in SUBSET Nat
  OBVIOUS
<1>2. PICK k \in T : \A m \in T : k <= m
  BY <1>1, LeastNumber, Zenon
<1>3. 1 \in 1 .. Len(h) /\ h[1] \in Entry
  OBVIOUS
<1>4. h[1].expiry_s \in Nat
  BY <1>3, TimerSetAssumption DEF Entry, Time
<1> USE <1>4
<1>5. k \in 2 .. Len(h)
  BY <1>2
<1> USE <1>5
<1>6. parent(k) \in 1 .. Len(h) /\ parent(k) < k
      /\ h[k].expiry_s \in Nat /\ h[parent(k)].expiry_s \in Nat
  BY ParentInHeap
<1>7. CASE parent(k) # i
  <2>1. h[parent(k)].expiry_s <= h[k].expiry_s
    BY <1>2, <1>7 DEF OrderedBut
  <2>2. parent(k) \in T
    BY <1>2, <1>6, <1>7, <2>1
  <2> QED
    BY <1>2, <1>6, <2>2
<1>8. CASE parent(k) = i
  <2>1. /\ parent(i) \in 1 .. Len(h) /\ parent(i) < i
        /\ h[parent(i)].expiry_s \in Nat
    BY ParentInHeap
  <2>2. h[parent(i)].expiry_s <= h[k].expiry_s
    BY <1>8 DEF OrderedBut
  <2>3. parent(i) \in T
    BY <1>2, <1>6, <2>1, <2>2
  <2> QED
    BY <1>2, <1>6, <1>8, <2>1, <2>3
<1> QED
  BY <1>7, <1>8

\* The first of an ordered heap is the least.
LEMMA FirstIsLeast ==
  ASSUME NEW h \in Seq(Entry), Ordered(h)
  PROVE  \A k \in 1 .. Len(h) : h[1].expiry_s <= h[k].expiry_s
<1> SUFFICES ASSUME NEW k \in 1 .. Len(h) PROVE h[1].expiry_s <= h[k].expiry_s
  OBVIOUS
<1> DEFINE T == {j \in 1 .. Len(h) : ~ (h[1].expiry_s <= h[j].expiry_s)}
<1> SUFFICES ASSUME T # {} PROVE FALSE
  OBVIOUS
<1>1. T \in SUBSET Nat
  OBVIOUS
<1>2. PICK j \in T : \A m \in T : j <= m
  BY <1>1, LeastNumber, Zenon
<1>3. 1 \in 1 .. Len(h) /\ h[1] \in Entry
  OBVIOUS
<1>4. h[1].expiry_s \in Nat
  BY <1>3, TimerSetAssumption DEF Entry, Time
<1>5. j \in 2 .. Len(h)
  BY <1>2, <1>4
<1>6. parent(j) \in 1 .. Len(h) /\ parent(j) < j
      /\ h[j].expiry_s \in Nat /\ h[parent(j)].expiry_s \in Nat
  BY <1>5, ParentInHeap
<1>7. h[parent(j)].expiry_s <= h[j].expiry_s
  BY <1>5 DEF Ordered
<1>8. parent(j) \in T
  BY <1>2, <1>4, <1>6, <1>7
<1> QED
  BY <1>2, <1>5, <1>6, <1>8

-----------------------------------------------------------------------------
\* smallest stays at i when no child is less, and is the least child else.
LEMMA SmallestChild ==
  ASSUME NEW h \in Seq(Entry), NEW i \in 1 .. Len(h), NEW m, m = smallest(h, i)
  PROVE  \/ m = i /\ NotMore(h, i)
         \/ /\ m \in 2 .. Len(h) /\ parent(m) = i /\ h[m].expiry_s < h[i].expiry_s
            /\ \A k \in 2 .. Len(h) : parent(k) = i => h[m].expiry_s <= h[k].expiry_s
<1> DEFINE below == {k \in children(i) : k <= Len(h) /\ heap_less(h[k], h[i])}
           first(k) == \A j \in below : heap_less(h[k], h[j]) \/ (~ heap_less(h[j], h[k]) /\ k <= j)
<1>1. \A k \in 1 .. Len(h) : h[k].expiry_s \in Nat
  <2>1. \A k \in 1 .. Len(h) : h[k] \in Entry
    OBVIOUS
  <2> QED
    BY <2>1, TimerSetAssumption DEF Entry, Time
<1>2. children(i) \subseteq Nat
  <2>1. Arity \in Nat /\ (i - 1) * Arity \in Int /\ i * Arity \in Int /\ (i - 1) * Arity >= 0
    BY ArityAssumption
  <2> QED
    BY <2>1 DEF children
<1>3. ASSUME NEW k
      PROVE  k \in below <=> k \in 2 .. Len(h) /\ parent(k) = i /\ h[k].expiry_s < h[i].expiry_s
  <2>1. k \in Nat => (k \in children(i) <=> k > 1 /\ parent(k) = i)
    BY ChildrenHaveParent
  <2> QED
    BY <1>2, <2>1 DEF heap_less
<1>4. m = IF below = {} THEN i ELSE CHOOSE k \in below : first(k)
  BY DEF smallest
<1> HIDE DEF below
<1>5. CASE below = {}
  <2>1. \A k \in 2 .. Len(h) : parent(k) = i => h[i].expiry_s <= h[k].expiry_s
    BY <1>1, <1>3, <1>5
  <2> QED
    BY <1>4, <1>5, <2>1 DEF NotMore
<1>6. CASE below # {}
  <2> DEFINE Keys == {h[k].expiry_s : k \in below}
  <2>1. Keys \in SUBSET Nat /\ Keys # {}
    BY <1>1, <1>3, <1>6
  <2>2. PICK e \in Keys : \A d \in Keys : e <= d
    BY <2>1, LeastNumber, Zenon
  <2> DEFINE Least == {k \in below : h[k].expiry_s = e}
  <2>3. Least \in SUBSET Nat /\ Least # {}
    BY <1>3
  <2>4. PICK k \in Least : \A j \in Least : k <= j
    BY <2>3, LeastNumber, Zenon
  <2>5. ASSUME NEW j \in below
        PROVE  heap_less(h[k], h[j]) \/ (~ heap_less(h[j], h[k]) /\ k <= j)
    <3>1. e <= h[j].expiry_s /\ h[k].expiry_s = e /\ h[j].expiry_s \in Nat /\ e \in Nat
      BY <1>1, <1>3, <2>1, <2>2, <2>4
    <3>2. h[j].expiry_s = e => k <= j
      BY <2>4
    <3> QED
      BY <3>1, <3>2 DEF heap_less
  <2>6. k \in below /\ first(k)
    BY <2>4, <2>5
  <2> HIDE DEF first
  <2>7. m \in below /\ first(m)
    BY <1>4, <1>6, <2>6
  <2>8. m \in 2 .. Len(h) /\ parent(m) = i /\ h[m].expiry_s < h[i].expiry_s
    BY <1>3, <2>7
  <2>9. ASSUME NEW j \in 2 .. Len(h), parent(j) = i PROVE h[m].expiry_s <= h[j].expiry_s
    <3>1. h[m].expiry_s \in Nat /\ h[j].expiry_s \in Nat /\ h[i].expiry_s \in Nat
      BY <1>1, <2>8
    <3>2. CASE j \in below
      BY <2>7, <3>1, <3>2 DEF first, heap_less
    <3>3. CASE j \notin below
      BY SMTT(30), <1>3, <2>8, <2>9, <3>1, <3>3
    <3> QED
      BY <3>2, <3>3
  <2> QED
    BY <2>8, <2>9
<1> QED
  BY <1>5, <1>6

\* A round of the first loop of change_heap.
LEMMA RiseRound ==
  ASSUME NEW T \in SUBSET Timer, NEW s \in State, NEW i \in 1 .. Len(s.heap),
         Placed(s, T), OrderedBut(s.heap, i), NEW r, r = rise([s |-> s, i |-> i])
  PROVE  \/ NotLess(s.heap, i) /\ r = [s |-> s, i |-> i]
         \/ /\ r = [s |-> r.s, i |-> r.i] /\ r.i \in 1 .. Len(s.heap) /\ r.i < i
            /\ Rearranged(s, r.s, T) /\ OrderedBut(r.s.heap, r.i)
<1> DEFINE h == s.heap
           q == parent(i)
<1>1. h \in Seq(Entry)
  BY DEF State
<1>2. CASE i > 1 /\ h[i].expiry_s < h[q].expiry_s
  <2>1. i \in 2 .. Len(h)
    BY <1>2
  <2>2. q \in 1 .. Len(h) /\ q < i
    BY <1>1, <2>1, ParentInHeap
  <2>3. r = [s |-> swap(s, i, q), i |-> q]
    BY <1>2 DEF rise, heap_less
  <2>4. OrderedBut([h EXCEPT ![i] = h[q], ![q] = h[i]], q)
    BY <1>1, <1>2, <2>1, RiseKeepsOrder
  <2> HIDE DEF q
  <2>5. /\ swap(s, i, q).heap = [s.heap EXCEPT ![i] = s.heap[q], ![q] = s.heap[i]]
        /\ Rearranged(s, swap(s, i, q), T)
    <3>1. i # q
      BY <2>2
    <3> QED
      BY <2>2, <3>1, SwapRearranges
  <2> QED
    BY <2>2, <2>3, <2>4, <2>5
<1>3. CASE ~ (i > 1 /\ h[i].expiry_s < h[q].expiry_s)
  <2>1. r = [s |-> s, i |-> i]
    BY <1>3 DEF rise, heap_less
  <2>2. ASSUME i > 1 PROVE h[q].expiry_s <= h[i].expiry_s
    <3>1. i \in 2 .. Len(h)
      BY <2>2
    <3>2. h[i].expiry_s \in Nat /\ h[q].expiry_s \in Nat
      BY <1>1, <3>1, ParentInHeap
    <3> QED
      BY <1>3, <2>2, <3>2
  <2> QED
    BY <2>1, <2>2 DEF NotLess
<1> QED
  BY <1>2, <1>3

\* The first loop of change_heap ends where the element is not less than its
\* parent, and has only rearranged the heap.
LEMMA Risen ==
  ASSUME NEW T \in SUBSET Timer, NEW s \in State, Placed(s, T),
         NEW i \in 1 .. Len(s.heap), OrderedBut(s.heap, i),
         NEW x, x = Rises([s |-> s, i |-> i], i - 1)
  PROVE  /\ x \in [s : State, i : 1 .. Len(s.heap)]
         /\ Rearranged(s, x.s, T) /\ OrderedBut(x.s.heap, x.i) /\ NotLess(x.s.heap, x.i)
<1> DEFINE S == {y \in [s : State, i : 1 .. Len(s.heap)] :
                   Rearranged(s, y.s, T) /\ OrderedBut(y.s.heap, y.i)}
           start == [s |-> s, i |-> i]
<1>1. start \in S
  BY DEF Rearranged
<1>2. ASSUME NEW y \in S
      PROVE  /\ rise(y) \in S
             /\ (NotLess(y.s.heap, y.i) /\ rise(y) = y) \/ rise(y).i < y.i
  <2>1. PICK w \in State, j \in 1 .. Len(s.heap) : y = [s |-> w, i |-> j]
    OBVIOUS
  <2> USE <2>1
  <2>2. Rearranged(s, w, T) /\ OrderedBut(w.heap, j) /\ Placed(w, T) /\ j \in 1 .. Len(w.heap)
    BY Zenon DEF Rearranged
  <2> DEFINE r == rise([s |-> w, i |-> j])
  <2> HIDE DEF r
  <2>3. \/ NotLess(w.heap, j) /\ r = [s |-> w, i |-> j]
        \/ /\ r = [s |-> r.s, i |-> r.i] /\ r.i \in 1 .. Len(w.heap) /\ r.i < j
           /\ Rearranged(w, r.s, T) /\ OrderedBut(r.s.heap, r.i)
    BY <2>2, RiseRound, Zenon DEF r
  <2>4. CASE NotLess(w.heap, j) /\ r = [s |-> w, i |-> j]
    BY <2>4 DEF r
  <2>5. CASE /\ r = [s |-> r.s, i |-> r.i] /\ r.i \in 1 .. Len(w.heap) /\ r.i < j
             /\ Rearranged(w, r.s, T) /\ OrderedBut(r.s.heap, r.i)
    <3>1. Rearranged(s, r.s, T)
      BY <2>2, <2>5, RearrangedTwice
    <3>2. r.s \in State /\ Len(w.heap) = Len(s.heap)
      BY <2>2, <3>1, Zenon DEF Rearranged
    <3> QED
      BY <2>5, <3>1, <3>2, Zenon DEF r
  <2> QED
    BY <2>3, <2>4, <2>5, Zenon
<1>3. RisesStay(S)
  BY <1>2 DEF RisesStay
<1>4. i - 1 \in Nat /\ i \in Nat /\ \A y \in S : y.i \in 1 .. Len(s.heap)
  BY DEF State
<1> USE <1>4
<1> DEFINE n == i - 1
<1> HIDE DEF start, S, n
<1>5. PICK c : RisesBy(c, S, start) /\ Rises(start, n) = c[n]
  <2>1. n \in Nat
    BY DEF n
  <2> QED
    BY <1>1, <1>3, <2>1, RiseLoop, Zenon
<1>6. c[0] = start /\ \A k \in Nat : c[k] \in S /\ c[k + 1] = rise(c[k])
  BY <1>5, Zenon DEF RisesBy
<1> DEFINE G == {k \in Nat : (NotLess(c[k].s.heap, c[k].i) /\ c[k + 1] = c[k]) \/ c[k].i + k <= i}
<1>7. 0 \in G
  <2>1. c[0].i = i
    BY <1>6 DEF start
  <2> QED
    BY <2>1
<1>8. ASSUME NEW k \in Nat, k \in G PROVE k + 1 \in G
  <2>1. /\ c[k + 1] = rise(c[k]) /\ c[(k + 1) + 1] = rise(c[k + 1]) /\ c[k] \in S /\ c[k + 1] \in S
        /\ c[k].i \in Nat /\ c[k + 1].i \in Nat
    <3>1. k + 1 \in Nat /\ \A y \in S : y.i \in Nat
      OBVIOUS
    <3> QED
      BY <1>6, <3>1, Zenon
  <2> USE <2>1
  <2>2. (NotLess(c[k].s.heap, c[k].i) /\ c[k + 1] = c[k]) \/ c[k + 1].i < c[k].i
    BY <1>2, Zenon
  <2>3. k + 1 \in Nat /\ (c[k + 1].i < c[k].i /\ c[k].i + k <= i => c[k + 1].i + (k + 1) <= i)
    OBVIOUS
  <2> QED
    BY <1>8, <2>2, <2>3, Zenon
<1>9. i - 1 \in G
  <2>1. Nat \subseteq G
    <3> HIDE DEF G
    <3> QED
      BY <1>7, <1>8, SetInduction, Zenon
  <2> QED
    BY <2>1
<1>10. x = c[i - 1] /\ x \in S
  <2>1. x = c[i - 1]
    BY <1>5, Zenon DEF start, n
  <2> QED
    BY <1>6, <2>1, Zenon
<1>11. NotLess(x.s.heap, x.i)
  <2>1. CASE x.i + (i - 1) <= i
    <3>1. x.i = 1
      BY <1>10, <2>1
    <3> QED
      BY <3>1 DEF NotLess
  <2> QED
    BY <1>9, <1>10, <2>1
<1> QED
  BY <1>10, <1>11, Zenon DEF S

\* A round of the second loop of change_heap.
LEMMA SinkRound ==
  ASSUME NEW T \in SUBSET Timer, NEW s \in State, NEW i \in 1 .. Len(s.heap),
         Placed(s, T), OrderedBut(s.heap, i), NotLess(s.heap, i),
         NEW r, r = sink([s |-> s, i |-> i])
  PROVE  \/ NotMore(s.heap, i) /\ r = [s |-> s, i |-> i]
         \/ /\ r = [s |-> r.s, i |-> r.i] /\ r.i \in 1 .. Len(s.heap) /\ i < r.i
            /\ Rearranged(s, r.s, T) /\ OrderedBut(r.s.heap, r.i) /\ NotLess(r.s.heap, r.i)
<1> DEFINE h == s.heap
           m == smallest(h, i)
<1>1. h \in Seq(Entry)
  BY DEF State
<1> USE <1>1
<1>2. r = IF m = i THEN [s |-> s, i |-> i] ELSE [s |-> swap(s, i, m), i |-> m]
  BY DEF sink
<1> HIDE DEF m
<1>3. \/ m = i /\ NotMore(h, i)
      \/ /\ m \in 2 .. Len(h) /\ parent(m) = i /\ h[m].expiry_s < h[i].expiry_s
         /\ \A k \in 2 .. Len(h) : parent(k) = i => h[m].expiry_s <= h[k].expiry_s
  BY SmallestChild, Zenon DEF m
<1>4. CASE m = i /\ NotMore(h, i)
  BY <1>2, <1>4
<1>5. CASE /\ m \in 2 .. Len(h) /\ parent(m) = i /\ h[m].expiry_s < h[i].expiry_s
           /\ \A k \in 2 .. Len(h) : parent(k) = i => h[m].expiry_s <= h[k].expiry_s
  <2>1. i < m /\ m \in 1 .. Len(h) /\ i # m
    BY <1>5, ParentInHeap
  <2>2. /\ OrderedBut([h EXCEPT ![i] = h[m], ![m] = h[i]], m)
        /\ NotLess([h EXCEPT ![i] = h[m], ![m] = h[i]], m)
    BY <1>5, SinkKeepsOrder, Zenon
  <2>3. /\ swap(s, i, m).heap = [s.heap EXCEPT ![i] = s.heap[m], ![m] = s.heap[i]]
        /\ Rearranged(s, swap(s, i, m), T)
    BY <2>1, SwapRearranges, Zenon
  <2> QED
    BY <1>2, <2>1, <2>2, <2>3
<1> QED
  BY <1>3, <1>4, <1>5, Zenon

\* The second loop of change_heap ends where the element is not more than its
\* children, and has only rearranged the heap: it is ordered.
LEMMA Sunk ==
  ASSUME NEW T \in SUBSET Timer, NEW s \in State, Placed(s, T),
         NEW i \in 1 .. Len(s.heap), OrderedBut(s.heap, i), NotLess(s.heap, i),
         NEW x, x = Sinks([s |-> s, i |-> i], Len(s.heap) - 1)
  PROVE  Rearranged(s, x.s, T) /\ Ordered(x.s.heap)
<1> DEFINE len == Len(s.heap)
           S == {y \in [s : State, i : 1 .. len] :
                   Rearranged(s, y.s, T) /\ OrderedBut(y.s.heap, y.i) /\ NotLess(y.s.heap, y.i)}
           start == [s |-> s, i |-> i]
<1>1. start \in S
  BY DEF Rearranged
<1>2. ASSUME NEW y \in S
      PROVE  /\ sink(y) \in S
             /\ (NotMore(y.s.heap, y.i) /\ sink(y) = y) \/ y.i < sink(y).i
  <2>1. PICK w \in State, j \in 1 .. len : y = [s |-> w, i |-> j]
    OBVIOUS
  <2>2. /\ Rearranged(s, w, T) /\ OrderedBut(w.heap, j) /\ NotLess(w.heap, j)
        /\ Placed(w, T) /\ j \in 1 .. Len(w.heap)
    BY <2>1, Zenon DEF Rearranged
  <2> DEFINE r == sink([s |-> w, i |-> j])
  <2> HIDE DEF r
  <2>3. \/ NotMore(w.heap, j) /\ r = [s |-> w, i |-> j]
        \/ /\ r = [s |-> r.s, i |-> r.i] /\ r.i \in 1 .. Len(w.heap) /\ j < r.i
           /\ Rearranged(w, r.s, T) /\ OrderedBut(r.s.heap, r.i) /\ NotLess(r.s.heap, r.i)
    BY <2>2, SinkRound, Zenon DEF r
  <2>4. CASE NotMore(w.heap, j) /\ r = [s |-> w, i |-> j]
    BY <2>1, <2>4 DEF r
  <2>5. CASE /\ r = [s |-> r.s, i |-> r.i] /\ r.i \in 1 .. Len(w.heap) /\ j < r.i
             /\ Rearranged(w, r.s, T) /\ OrderedBut(r.s.heap, r.i) /\ NotLess(r.s.heap, r.i)
    <3>1. Rearranged(s, r.s, T)
      BY <2>2, <2>5, RearrangedTwice, Zenon
    <3>2. r.s \in State /\ Len(w.heap) = Len(s.heap)
      BY <2>2, <3>1, Zenon DEF Rearranged
    <3> QED
      BY <2>1, <2>5, <3>1, <3>2, Zenon DEF r
  <2> QED
    BY <2>3, <2>4, <2>5, Zenon
<1>3. SinksStay(S)
  BY <1>2 DEF SinksStay
<1>4. len - 1 \in Nat /\ len \in Nat /\ i \in Nat /\ i >= 1 /\ \A y \in S : y.i \in 1 .. len
  BY DEF State
<1> USE <1>4
<1> DEFINE n == len - 1
<1> HIDE DEF start, S, n
<1>5. PICK c : SinksBy(c, S, start) /\ Sinks(start, n) = c[n]
  <2>1. n \in Nat
    BY DEF n
  <2> QED
    BY <1>1, <1>3, <2>1, SinkLoop, Zenon
<1>6. c[0] = start /\ \A k \in Nat : c[k] \in S /\ c[k + 1] = sink(c[k])
  BY <1>5, Zenon DEF SinksBy
<1> DEFINE G == {k \in Nat : (NotMore(c[k].s.heap, c[k].i) /\ c[k + 1] = c[k]) \/ c[k].i >= 1 + k}
<1>7. 0 \in G
  <2>1. c[0].i = i
    BY <1>6 DEF start
  <2> QED
    BY <2>1
<1>8. ASSUME NEW k \in Nat, k \in G PROVE k + 1 \in G
  <2>1. /\ c[k + 1] = sink(c[k]) /\ c[(k + 1) + 1] = sink(c[k + 1]) /\ c[k] \in S /\ c[k + 1] \in S
        /\ c[k].i \in Nat /\ c[k + 1].i \in Nat
    <3>1. k + 1 \in Nat /\ \A y \in S : y.i \in Nat
      OBVIOUS
    <3> QED
      BY <1>6, <3>1, Zenon
  <2> USE <2>1
  <2>2. (NotMore(c[k].s.heap, c[k].i) /\ c[k + 1] = c[k]) \/ c[k].i < c[k + 1].i
    BY <1>2, Zenon
  <2>3. k + 1 \in Nat /\ (c[k].i < c[k + 1].i /\ c[k].i >= 1 + k => c[k + 1].i >= 1 + (k + 1))
    OBVIOUS
  <2> QED
    BY <1>8, <2>2, <2>3, Zenon
<1>9. len - 1 \in G
  <2>1. Nat \subseteq G
    <3> HIDE DEF G
    <3> QED
      BY <1>7, <1>8, SetInduction, Zenon
  <2> QED
    BY <2>1, Zenon
<1>10. x = c[len - 1] /\ x \in S
  <2>1. x = c[len - 1]
    BY <1>5, Zenon DEF start, n
  <2> QED
    BY <1>6, <2>1, Zenon
<1>11. x.s \in State /\ Rearranged(s, x.s, T) /\ OrderedBut(x.s.heap, x.i) /\ NotLess(x.s.heap, x.i)
  BY <1>10, Zenon DEF S
<1>12. NotMore(x.s.heap, x.i)
  <2>1. CASE x.i >= 1 + (len - 1)
    <3>1. x.i = len
      BY <1>10, <2>1
    <3>2. Len(x.s.heap) = len /\ x.s.heap \in Seq(Entry)
      BY <1>11, Zenon DEF Rearranged, State
    <3>3. ASSUME NEW k \in 2 .. Len(x.s.heap) PROVE parent(k) # x.i
      <4>1. parent(k) < k
        BY <3>2, ParentInHeap
      <4> QED
        BY <3>1, <3>2, <4>1
    <3> QED
      BY <3>3, Zenon DEF NotMore
  <2> QED
    BY <1>9, <1>10, <2>1, Zenon
<1> QED
  BY <1>11, <1>12, OrderedAgain, Zenon

\* change_heap orders a heap in which at most element i is out of order, and
\* only rearranges it: every element stays, and its position is recorded.
THEOREM ChangeHeap ==
  ASSUME NEW T \in SUBSET Timer, NEW s \in State, Placed(s, T),
         NEW i \in 1 .. Len(s.heap), OrderedBut(s.heap, i),
         NEW u, u = change_heap(s, i)
  PROVE  Rearranged(s, u, T) /\ Ordered(u.heap)
<1> DEFINE x == Rises([s |-> s, i |-> i], i - 1)
           y == Sinks(x, Len(s.heap) - 1)
<1>1. u = y.s
  BY DEF change_heap, Rises, Sinks
<1> HIDE DEF x, y
<1>2. /\ x \in [s : State, i : 1 .. Len(s.heap)]
      /\ Rearranged(s, x.s, T) /\ OrderedBut(x.s.heap, x.i) /\ NotLess(x.s.heap, x.i)
  BY Risen, Zenon DEF x
<1>3. PICK w \in State, j \in 1 .. Len(s.heap) : x = [s |-> w, i |-> j]
  BY <1>2
<1>4. /\ Len(w.heap) = Len(s.heap) /\ j \in 1 .. Len(w.heap) /\ Placed(w, T)
      /\ Rearranged(s, w, T) /\ OrderedBut(w.heap, j) /\ NotLess(w.heap, j)
  BY <1>2, <1>3, Zenon DEF Rearranged
<1> USE <1>4
<1>5. y = Sinks([s |-> w, i |-> j], Len(w.heap) - 1)
  BY <1>3 DEF y
<1>6. Rearranged(w, y.s, T) /\ Ordered(y.s.heap)
  BY <1>5, Sunk, Zenon
<1> QED
  BY <1>1, <1>6, RearrangedTwice

\* Every entry of the heap of u is one of the heap of s.
EntriesFrom(s, u) ==
  \A k \in 1 .. Len(u.heap) :
    \E j \in 1 .. Len(s.heap) : u.heap[k] = s.heap[j] /\ s.pos[u.heap[k].t] = j

\* The entries of a rearranged heap are those it had before.
LEMMA RearrangedEntries ==
  ASSUME NEW T \in SUBSET Timer, NEW s \in State, NEW u, Placed(s, T), Rearranged(s, u, T)
  PROVE  EntriesFrom(s, u)
<1> SUFFICES ASSUME NEW k \in 1 .. Len(u.heap)
             PROVE  \E j \in 1 .. Len(s.heap) : u.heap[k] = s.heap[j] /\ s.pos[u.heap[k].t] = j
  BY DEF EntriesFrom
<1> DEFINE b == u.heap[k].t
<1>1. b \in T /\ b \in Timer /\ u.pos[b] = k /\ s.pos[b] \in Int /\ k \in Nat /\ k > 0
  BY DEF Rearranged, Placed, State
<1> USE <1>1
<1> HIDE DEF b
<1>2. s.pos[b] > 0
  BY DEF Rearranged
<1>3. s.pos[b] \in 1 .. Len(s.heap)
  BY <1>2 DEF Placed, State
<1>4. u.heap[k] = s.heap[s.pos[b]]
  BY <1>2 DEF Rearranged
<1> QED
  BY <1>3, <1>4, Zenon DEF b

\* An element that change_heap neither finds nor leaves in the first place
\* does not change what expires first.
LEMMA ChangeKeepsFirst ==
  ASSUME NEW T \in SUBSET Timer, NEW s \in State, Placed(s, T),
         NEW i \in 2 .. Len(s.heap), OrderedBut(s.heap, i),
         NEW u, Rearranged(s, u, T), Ordered(u.heap), u.pos[s.heap[i].t] # 1
  PROVE  u.heap[1].expiry_s = s.heap[1].expiry_s
<1> DEFINE a == s.heap[1].t
<1>1. /\ s.heap \in Seq(Entry) /\ u.heap \in Seq(Entry) /\ u \in State /\ Placed(u, T)
      /\ Len(u.heap) = Len(s.heap) /\ 1 \in 1 .. Len(s.heap) /\ Len(s.heap) \in Nat
  BY DEF Rearranged, State
<1> USE <1>1
<1>2. a \in T /\ s.pos[a] = 1
  BY Zenon DEF Placed
<1> USE <1>2
<1>3. u.pos[a] > 0 /\ u.heap[u.pos[a]] = s.heap[1]
  BY DEF Rearranged
<1>4. u.pos[a] \in 1 .. Len(u.heap)
  <2>1. u.pos[a] \in Int
    BY Zenon DEF State
  <2>2. u.pos[a] <= Len(u.heap)
    BY <1>3, Zenon DEF Placed
  <2> QED
    BY <1>3, <2>1, <2>2
<1>5. u.heap[1].expiry_s <= s.heap[1].expiry_s
  BY <1>3, <1>4, FirstIsLeast, Zenon
<1>6. PICK j \in 1 .. Len(s.heap) : u.heap[1] = s.heap[j] /\ s.pos[u.heap[1].t] = j
  <2>1. EntriesFrom(s, u)
    BY RearrangedEntries
  <2> QED
    BY <2>1, Zenon DEF EntriesFrom
<1>7. j # i
  BY <1>6 DEF Placed
<1>8. s.heap[1].expiry_s <= s.heap[j].expiry_s
  BY <1>7, FirstIsLeastBut, Zenon
<1>9. s.heap[1] \in Entry /\ s.heap[j] \in Entry
  OBVIOUS
<1>10. s.heap[1].expiry_s \in Nat /\ s.heap[j].expiry_s \in Nat
  BY <1>9, TimerSetAssumption DEF Entry, Time
<1> QED
  BY <1>5, <1>6, <1>8, <1>10

-----------------------------------------------------------------------------
\* The timers other than t are in u where they are in s, but that entries of
\* the heap may have moved.
OthersKept(s, u, t) ==
  \A v \in Timer \ {t} :
    IF s.pos[v] <= 0 THEN u.pos[v] = s.pos[v]
    ELSE u.pos[v] > 0 /\ u.heap[u.pos[v]] = s.heap[s.pos[v]]

\* The heap of u is an ordered one of the entries of s but that of timer t,
\* and nothing else has changed; perhaps _schedpos1 of t is still to be reset.
Without(s, u, t) ==
  /\ u \in State /\ Placed(u, Timer \ {t}) /\ Ordered(u.heap)
  /\ Len(u.heap) = Len(s.heap) - 1
  /\ u.expiry_s = s.expiry_s /\ u.runchunk = s.runchunk /\ u.timer_expiry = s.timer_expiry
  /\ OthersKept(s, u, t)

\* The last element in the place of the i-th: only that place may be out of
\* order.
LEMMA GapFilled ==
  ASSUME NEW s \in State, Placed(s, Timer), Ordered(s.heap),
         NEW i \in 1 .. Len(s.heap), i # Len(s.heap), NEW t, t = s.heap[i].t,
         NEW g, g = fill_gap(s, i)
  PROVE  /\ g \in State /\ Placed(g, Timer \ {t}) /\ OrderedBut(g.heap, i)
         /\ Len(g.heap) = Len(s.heap) - 1 /\ i \in 1 .. Len(g.heap)
         /\ g.expiry_s = s.expiry_s /\ g.runchunk = s.runchunk /\ g.timer_expiry = s.timer_expiry
         /\ OthersKept(s, g, t)
<1> DEFINE h == s.heap
           n == Len(h)
           l == h[n].t
<1>1. /\ h \in Seq(Entry) /\ n \in Nat /\ i \in 1 .. n - 1 /\ n \in 1 .. n /\ s.pos \in [Timer -> Int]
  BY DEF State
<1>2. h[n] \in Entry /\ l \in Timer /\ s.pos[l] = n /\ t \in Timer /\ s.pos[t] = i /\ l # t
  <2>1. \A k \in 1 .. n : h[k] \in Entry /\ h[k].t \in Timer /\ s.pos[h[k].t] = k
    BY <1>1 DEF Placed
  <2>2. i \in 1 .. n /\ i # n
    BY <1>1
  <2> HIDE DEF n, h
  <2> QED
    BY <1>1, <2>1, <2>2, Zenon DEF h
<1>3. /\ g.heap = [SubSeq(h, 1, n - 1) EXCEPT ![i] = h[n]]
      /\ g.pos = [s.pos EXCEPT ![l] = i]
      /\ g.expiry_s = s.expiry_s /\ g.runchunk = s.runchunk /\ g.timer_expiry = s.timer_expiry
  BY DEF fill_gap, State
<1>4. SubSeq(h, 1, n - 1) \in Seq(Entry) /\ Len(SubSeq(h, 1, n - 1)) = n - 1
  BY <1>1
<1>5. \A k \in 1 .. n - 1 : SubSeq(h, 1, n - 1)[k] = h[k]
  BY <1>1
<1>6. g.heap = [k \in 1 .. n - 1 |-> IF k = i THEN h[n] ELSE h[k]]
  <2>1. SubSeq(h, 1, n - 1) = [k \in 1 .. n - 1 |-> h[k]]
    BY <1>1
  <2>2. [[k \in 1 .. n - 1 |-> h[k]] EXCEPT ![i] = h[n]]
          = [k \in 1 .. n - 1 |-> IF k = i THEN h[n] ELSE h[k]]
    <3> HIDE DEF n, h
    <3> QED
      BY <1>1, Zenon
  <2> QED
    BY <1>3, <2>1, <2>2, Zenon
<1>7. g.heap \in Seq(Entry) /\ Len(g.heap) = n - 1 /\ g.pos \in [Timer -> Int]
  BY <1>1, <1>2, <1>3, <1>4
<1>8. g \in State
  BY <1>3, <1>7, Zenon DEF fill_gap, State
<1> HIDE DEF l, n
<1>9. \A k \in 1 .. n : h[k].t \in Timer /\ s.pos[h[k].t] = k
  BY Zenon DEF Placed, n
<1>10. ASSUME NEW k \in 1 .. n - 1 PROVE g.heap[k].t \in Timer \ {t} /\ g.pos[g.heap[k].t] = k
  <2>1. CASE k = i
    BY <1>1, <1>2, <1>3, <1>6, <2>1, Zenon DEF l
  <2>2. CASE k # i
    <3>1. g.heap[k] = h[k] /\ h[k].t \in Timer /\ s.pos[h[k].t] = k
      BY <1>1, <1>6, <1>9, <2>2
    <3>2. h[k].t # l /\ h[k].t # t
      BY <1>1, <1>2, <2>2, <3>1
    <3> QED
      BY <1>1, <1>3, <3>1, <3>2, Zenon
  <2> QED
    BY <2>1, <2>2, Zenon
<1>11. ASSUME NEW v \in Timer \ {t}, s.pos[v] > 0
       PROVE  g.pos[v] \in 1 .. n - 1 /\ g.heap[g.pos[v]] = h[s.pos[v]] /\ h[s.pos[v]].t = v
  <2>1. s.pos[v] \in 1 .. n /\ h[s.pos[v]].t = v
    BY <1>1, <1>11 DEF Placed, n
  <2>2. CASE v = l
    BY <1>1, <1>2, <1>3, <1>6, <2>1, <2>2, Zenon
  <2>3. CASE v # l
    <3>1. s.pos[v] # n /\ s.pos[v] # i
      BY <2>1, <2>3, Zenon DEF l
    <3> QED
      BY <1>1, <1>2, <1>3, <1>6, <2>1, <2>3, <3>1
  <2> QED
    BY <2>2, <2>3, Zenon
<1>12. ASSUME NEW v \in Timer \ {t}, s.pos[v] <= 0 PROVE g.pos[v] = s.pos[v]
  BY <1>1, <1>2, <1>3, <1>12
<1>13. Placed(g, Timer \ {t})
  <2>1. ASSUME NEW v \in Timer \ {t}, g.pos[v] > 0
        PROVE  g.pos[v] <= Len(g.heap) /\ g.heap[g.pos[v]].t = v
    <3>1. s.pos[v] > 0
      BY <1>1, <1>12, <2>1
    <3>2. g.pos[v] \in 1 .. n - 1 /\ g.heap[g.pos[v]].t = v
      BY <1>11, <3>1, Zenon
    <3> QED
      BY <1>1, <1>7, <3>2
  <2> QED
    BY <1>7, <1>10, <2>1, Zenon DEF Placed
<1>14. OrderedBut(g.heap, i)
  <2>1. ASSUME NEW k \in 2 .. n - 1, k # i, parent(k) # i
        PROVE  g.heap[parent(k)].expiry_s <= g.heap[k].expiry_s
    <3>1. k \in 2 .. Len(h) /\ k \in 1 .. n - 1
      BY <1>1 DEF n
    <3>2. parent(k) \in 1 .. n - 1 /\ h[parent(k)].expiry_s <= h[k].expiry_s
      BY <1>1, <3>1, ParentInHeap DEF Ordered
    <3> QED
      BY <1>6, <2>1, <3>1, <3>2, Zenon
  <2>2. ASSUME i > 1, NEW k \in 2 .. n - 1, parent(k) = i
        PROVE  g.heap[parent(i)].expiry_s <= g.heap[k].expiry_s
    <3>1. k \in 2 .. Len(h) /\ i \in 2 .. Len(h) /\ k \in 1 .. n - 1
      BY <1>1, <2>2 DEF n
    <3>2. /\ h[parent(i)].expiry_s <= h[i].expiry_s /\ h[i].expiry_s <= h[k].expiry_s
          /\ parent(i) < i /\ i < k /\ parent(i) \in 1 .. n - 1
          /\ h[parent(i)].expiry_s \in Nat /\ h[i].expiry_s \in Nat /\ h[k].expiry_s \in Nat
      BY <1>1, <2>2, <3>1, ParentInHeap DEF Ordered
    <3>3. g.heap[parent(i)] = h[parent(i)] /\ g.heap[k] = h[k]
      BY <1>1, <1>6, <3>1, <3>2
    <3> QED
      BY <3>2, <3>3
  <2> QED
    BY <1>7, <2>1, <2>2, Zenon DEF OrderedBut
<1> QED
  BY <1>1, <1>3, <1>6, <1>7, <1>8, <1>11, <1>12, <1>13, <1>14 DEF n, OthersKept

\* Removing the last element needs no repair.
LEMMA LastRemoved ==
  ASSUME NEW s \in State, Placed(s, Timer), Ordered(s.heap), s.heap # << >>,
         NEW t, t = s.heap[Len(s.heap)].t, NEW u, u = remove_heap(s, Len(s.heap))
  PROVE  Without(s, u, t)
<1> DEFINE h == s.heap
           n == Len(h)
<1>1. h \in Seq(Entry) /\ n \in Nat /\ n \in 1 .. n /\ s.pos \in [Timer -> Int]
  BY DEF State
<1>2. /\ u.heap = SubSeq(h, 1, n - 1) /\ u.pos = s.pos
      /\ u.expiry_s = s.expiry_s /\ u.runchunk = s.runchunk /\ u.timer_expiry = s.timer_expiry
  BY DEF remove_heap, State
<1>3. u.heap \in Seq(Entry) /\ Len(u.heap) = n - 1 /\ \A k \in 1 .. n - 1 : u.heap[k] = h[k]
  BY <1>1, <1>2
<1>4. u \in State
  BY <1>2, <1>3, Zenon DEF remove_heap, State
<1>5. s.pos[t] = n
  BY <1>1, Zenon DEF Placed
<1>6. ASSUME NEW v \in Timer \ {t}, s.pos[v] > 0
      PROVE  s.pos[v] \in 1 .. n - 1 /\ h[s.pos[v]].t = v
  <2>1. s.pos[v] \in 1 .. n /\ h[s.pos[v]].t = v
    BY <1>1, <1>6 DEF Placed
  <2> QED
    BY <1>1, <2>1
<1> HIDE DEF n
<1>7. \A k \in 1 .. n - 1 : h[k].t \in Timer \ {t} /\ s.pos[h[k].t] = k
  <2> TAKE k \in 1 .. n - 1
  <2>1. h[k].t \in Timer /\ s.pos[h[k].t] = k
    BY <1>1 DEF Placed, n
  <2> QED
    BY <1>1, <1>5, <2>1
<1>8. Placed(u, Timer \ {t})
  BY <1>2, <1>3, <1>6, <1>7 DEF Placed
<1>9. Ordered(u.heap)
  <2> SUFFICES ASSUME NEW k \in 2 .. n - 1
               PROVE  u.heap[parent(k)].expiry_s <= u.heap[k].expiry_s
    BY <1>3, Zenon DEF Ordered
  <2>1. k \in 2 .. Len(h) /\ k \in 1 .. n - 1
    BY <1>1 DEF n
  <2>2. parent(k) \in 1 .. n - 1 /\ h[parent(k)].expiry_s <= h[k].expiry_s
    BY <1>1, <2>1, ParentInHeap DEF Ordered
  <2> QED
    BY <1>3, <2>1, <2>2, Zenon
<1> QED
  BY <1>1, <1>2, <1>3, <1>4, <1>6, <1>8, <1>9 DEF Without, OthersKept, n

\* remove_heap takes one timer out of the heap and leaves it in order.
THEOREM RemoveHeap ==
  ASSUME NEW s \in State, Placed(s, Timer), Ordered(s.heap), NEW i \in 1 .. Len(s.heap),
         NEW t, t = s.heap[i].t, NEW u, u = remove_heap(s, i)
  PROVE  Without(s, u, t)
<1>1. CASE i = Len(s.heap)
  <2>1. s.heap # << >>
    BY SMTT(30) DEF State
  <2> QED
    BY <1>1, <2>1, LastRemoved
<1>2. CASE i # Len(s.heap)
  <2> DEFINE T == Timer \ {t}
  <2> PICK g : g = fill_gap(s, i)
    OBVIOUS
  <2>1. u = change_heap(g, i)
    BY <1>2 DEF remove_heap
  <2>2. /\ g \in State /\ Placed(g, T) /\ OrderedBut(g.heap, i)
        /\ Len(g.heap) = Len(s.heap) - 1 /\ i \in 1 .. Len(g.heap)
        /\ g.expiry_s = s.expiry_s /\ g.runchunk = s.runchunk /\ g.timer_expiry = s.timer_expiry
        /\ OthersKept(s, g, t)
    BY <1>2, GapFilled, Zenon
  <2>3. T \in SUBSET Timer
    OBVIOUS
  <2> HIDE DEF T
  <2>4. Rearranged(g, u, T) /\ Ordered(u.heap)
    BY <2>1, <2>2, <2>3, ChangeHeap, Zenon
  <2>5. ASSUME NEW v \in T
        PROVE  IF s.pos[v] <= 0 THEN u.pos[v] = s.pos[v]
               ELSE u.pos[v] > 0 /\ u.heap[u.pos[v]] = s.heap[s.pos[v]]
    <3>1. v \in Timer /\ s.pos[v] \in Int /\ g.pos[v] \in Int
      BY SMTT(30), <2>2, <2>3 DEF State
    <3> USE <3>1
    <3>2. CASE s.pos[v] <= 0
      BY <2>2, <2>4, <3>2, Zenon DEF Rearranged, OthersKept, T
    <3>3. CASE s.pos[v] > 0
      <4>1. g.pos[v] > 0 /\ g.heap[g.pos[v]] = s.heap[s.pos[v]]
        BY <2>2, <3>3 DEF OthersKept, T
      <4>2. u.pos[v] > 0 /\ u.heap[u.pos[v]] = g.heap[g.pos[v]]
        BY <2>4, <4>1, Zenon DEF Rearranged
      <4> QED
        BY <3>3, <4>1, <4>2
    <3> QED
      BY <3>2, <3>3
  <2> QED
    BY <2>2, <2>4, <2>5, Zenon DEF Rearranged, Without, OthersKept, T
<1> QED
  BY <1>1, <1>2

\* Unless it was the first, the timer removed does not change what expires
\* first.
LEMMA RemoveKeepsFirst ==
  ASSUME NEW s \in State, Placed(s, Timer), Ordered(s.heap), NEW i \in 2 .. Len(s.heap),
         NEW t, t = s.heap[i].t, NEW u, Without(s, u, t)
  PROVE  u.heap # << >> /\ u.heap[1].expiry_s = s.heap[1].expiry_s
<1> DEFINE a == s.heap[1].t
           b == u.heap[1].t
<1>1. /\ s.heap \in Seq(Entry) /\ u.heap \in Seq(Entry) /\ Len(s.heap) \in Nat
      /\ s.pos \in [Timer -> Int] /\ u.pos \in [Timer -> Int]
      /\ Len(u.heap) = Len(s.heap) - 1 /\ 1 \in 1 .. Len(s.heap) /\ 1 \in 1 .. Len(u.heap)
      /\ Ordered(u.heap) /\ Placed(u, Timer \ {t})
  BY DEF Without, State
<1>2. s.pos[a] = 1 /\ s.pos[t] = i /\ a \in Timer \ {t}
  <2>1. s.pos[s.heap[i].t] = i
    BY <1>1 DEF Placed
  <2> QED
    BY <1>1, <2>1 DEF Placed
<1>3. u.pos[a] > 0 /\ u.heap[u.pos[a]] = s.heap[1]
  BY <1>2 DEF Without, OthersKept
<1>4. u.pos[a] \in 1 .. Len(u.heap)
  <2>1. u.pos[a] \in Int
    BY <1>1, <1>2, Zenon
  <2>2. u.pos[a] <= Len(u.heap)
    BY <1>1, <1>2, <1>3, Zenon DEF Placed
  <2> QED
    BY <1>1, <1>3, <2>1, <2>2
<1>5. u.heap[1].expiry_s <= s.heap[1].expiry_s
  BY <1>1, <1>3, <1>4, FirstIsLeast, Zenon
<1>6. b \in Timer \ {t} /\ u.pos[b] = 1
  BY <1>1, Zenon DEF Placed
<1> HIDE DEF b
<1>7. s.pos[b] > 0 /\ u.heap[1] = s.heap[s.pos[b]]
  BY <1>1, <1>6 DEF Without, OthersKept
<1>8. s.pos[b] \in 1 .. Len(s.heap)
  BY <1>1, <1>6, <1>7 DEF Placed
<1>9. s.heap[1].expiry_s <= u.heap[1].expiry_s
  BY <1>1, <1>7, <1>8, FirstIsLeast, Zenon
<1>10. s.heap[1].expiry_s \in Nat /\ u.heap[1].expiry_s \in Nat
  <2>1. s.heap[1] \in Entry /\ u.heap[1] \in Entry
    BY <1>1
  <2> QED
    BY <2>1, TimerSetAssumption DEF Entry, Time
<1> QED
  BY <1>1, <1>5, <1>9, <1>10
=============================================================================
