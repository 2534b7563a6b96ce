---------------------------- MODULE ClickVector ----------------------------
(***************************************************************************)
(* Click's Vector<T> as the elements use it: positions count from 1, a     *)
(* loop that erases while it walks leaves the elements it kept in their    *)
(* order.  Kept(v, K) is the set whose only element is the vector v with   *)
(* all positions outside K erased.                                         *)
(***************************************************************************)
EXTENDS Integers, Sequences, FiniteSets

Enumeration(K) ==
  {f \in [1 .. Cardinality(K) -> K] :
     \A i, j \in 1 .. Cardinality(K) : i < j => f[i] < f[j]}

Kept(v, K) == {[j \in 1 .. Cardinality(K) |-> v[f[j]]] : f \in Enumeration(K)}

\* v.erase(v.begin() + i); erasing at or past end() does nothing.
erase(v, i) ==
  IF i \in 1 .. Len(v)
  THEN [j \in 1 .. (Len(v) - 1) |-> IF j < i THEN v[j] ELSE v[j + 1]]
  ELSE v

\* The position a forward search with a break ends at, and the one a search
\* without a break ends at, among the positions in K.
IsFirst(i, K) == i \in K /\ \A j \in K : i <= j
IsLast(i, K) == i \in K /\ \A j \in K : j <= i
=============================================================================
