------------------------------- MODULE Deque -------------------------------
(***************************************************************************)
(* What a queue of tickets promises to its users: a bounded list to which  *)
(* items are added at either end and from which they leave at the front,   *)
(* or from the middle by position.  CircularQueue implements it.           *)
(***************************************************************************)
EXTENDS Integers, Sequences

CONSTANTS Item, MaxLength

VARIABLE q

Init == q = << >>

PushBack(x) == Len(q) < MaxLength /\ q' = Append(q, x)

PushFront(x) == Len(q) < MaxLength /\ q' = << x >> \o q

PopFront == q # << >> /\ q' = Tail(q)

\* The item at position k (counted from 1) leaves, the others close the gap.
Remove(k) ==
  q' = [i \in 1 .. Len(q) - 1 |-> IF i < k THEN q[i] ELSE q[i + 1]]

Clear == q' = << >>

Next ==
  \/ \E x \in Item : PushBack(x) \/ PushFront(x)
  \/ PopFront
  \/ \E k \in 1 .. Len(q) : Remove(k)
  \/ Clear

Spec == Init /\ [][Next]_q
=============================================================================
