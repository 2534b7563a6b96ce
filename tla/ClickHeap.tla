----------------------------- MODULE ClickHeap -----------------------------
(***************************************************************************)
(* The d-ary heap of click/heap.hh as TimerSet uses it.  Elements are      *)
(* records with an expiry_s, which orders them, and a timer t; the         *)
(* placement function heap_place writes the position of an element, from   *)
(* 1, into the table pos.  The operations are applied to a record s of     *)
(* which heap and pos are two fields.                                      *)
(***************************************************************************)
EXTENDS Integers, Sequences

CONSTANT Arity  \* the template parameter of the heap functions, 4 in TimerSet

ASSUME ArityAssumption == Arity \in Nat /\ Arity > 2

heap_less(a, b) == a.expiry_s < b.expiry_s

\* The root has one child less than the other nodes.
parent(i) == ((i - 1) \div Arity) + 1
children(i) == IF i = 1 THEN 2 .. Arity ELSE ((i - 1) * Arity + 1) .. (i * Arity)

\* n rounds of a loop.  The bound variables have TLC evaluate a round once.
Loop(round(_), x, n) ==
  LET after[k \in Nat] ==
        IF k = 0 THEN x ELSE CHOOSE y \in {round(z) : z \in {after[k - 1]}} : TRUE
  IN  after[n]

\* Two elements swap and are placed.  The code places the one that moves on
\* only once, at its last position.
swap(s, i, k) ==
  [s EXCEPT !.heap = [@ EXCEPT ![i] = s.heap[k], ![k] = s.heap[i]],
            !.pos = [@ EXCEPT ![s.heap[i].t] = k, ![s.heap[k].t] = i]]

\* A round of the first loop of change_heap, and of its second, for x.i the
\* position of the element; at its end a loop leaves x as it is.
rise(x) ==
  IF x.i > 1 /\ heap_less(x.s.heap[x.i], x.s.heap[parent(x.i)])
  THEN [s |-> swap(x.s, x.i, parent(x.i)), i |-> parent(x.i)]
  ELSE x

\* The first of the least children of i, if one of them is less than i.
smallest(h, i) ==
  LET below == {k \in children(i) : k <= Len(h) /\ heap_less(h[k], h[i])}
  IN  IF below = {} THEN i
      ELSE CHOOSE k \in below : \A j \in below :
             heap_less(h[k], h[j]) \/ (~ heap_less(h[j], h[k]) /\ k <= j)

sink(x) ==
  LET k == smallest(x.s.heap, x.i)
  IN  IF k = x.i THEN x ELSE [s |-> swap(x.s, x.i, k), i |-> k]

\* There are fewer rounds than positions before and after i.
change_heap(s, i) ==
  Loop(sink, Loop(rise, [s |-> s, i |-> i], i - 1), Len(s.heap) - 1).s

\* The last element takes the place of the i-th and is placed there.
fill_gap(s, i) ==
  LET last == s.heap[Len(s.heap)]
  IN  [s EXCEPT !.heap = [SubSeq(@, 1, Len(@) - 1) EXCEPT ![i] = last], !.pos[last.t] = i]

\* A variant that leaves the last element where the removed one was.
remove_heap_unsifted(s, i) ==
  IF i = Len(s.heap) THEN [s EXCEPT !.heap = SubSeq(@, 1, i - 1)] ELSE fill_gap(s, i)

\* remove_heap, pop_heap when i is 1, and the pop_back that follows every
\* call of them.
remove_heap(s, i) ==
  IF i = Len(s.heap) THEN [s EXCEPT !.heap = SubSeq(@, 1, i - 1)]
  ELSE change_heap(fill_gap(s, i), i)
=============================================================================
