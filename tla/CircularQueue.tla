--------------------------- MODULE CircularQueue ---------------------------
(***************************************************************************)
(* The growing ring buffer of sql/circular_queue.h, in which the metadata  *)
(* lock manager keeps its free tickets.  vec is the heap array, head the   *)
(* slot of the first item, cnt the number of items.  A fresh array holds   *)
(* None (make_unique value-initialises it) and removed items stay in their *)
(* slots, as in the code.                                                  *)
(***************************************************************************)
EXTENDS Integers, Sequences

CONSTANTS
  Item,             \* what the template is instantiated with
  None,             \* the value of a slot never written
  InitCapacity,     \* the argument of the constructor
  DefaultCapacity,  \* the 8 of the constructor and of Reset()
  MaxLength         \* bound: no enqueue at this many items

ASSUME QueueAssumption ==
  /\ None \notin Item
  /\ InitCapacity \in Nat /\ InitCapacity >= 2
  /\ DefaultCapacity \in Nat /\ DefaultCapacity >= 2
  /\ MaxLength \in Nat

VARIABLES vec, head, cnt, capacity

vars == << vec, head, cnt, capacity >>

FreshArray(n) == [i \in 0 .. n - 1 |-> None]

Init ==
  /\ vec = FreshArray(InitCapacity)
  /\ head = 0
  /\ cnt = 0
  /\ capacity = InitCapacity

-----------------------------------------------------------------------------
Get(index) == vec[(head + index) % capacity]

Peek == vec[head]

\* The two copies "Head --> N-1" and "0 --> Tail" into an array of n slots.
Linearized(n) ==
  [i \in 0 .. n - 1 |->
     IF i < capacity - head THEN vec[head + i]
     ELSE IF i < capacity THEN vec[i - (capacity - head)]
     ELSE None]

PutIntoEmpty(item) ==
  /\ cnt = 0
  /\ vec' = [vec EXCEPT ![0] = item]
  /\ head' = 0
  /\ cnt' = 1
  /\ UNCHANGED capacity

PutAtTail(item) ==
  /\ cnt # 0
  /\ cnt # capacity
  /\ vec' = [vec EXCEPT ![(head + cnt) % capacity] = item]
  /\ cnt' = cnt + 1
  /\ UNCHANGED << head, capacity >>

GrowAndPutAtTail(item, n) ==
  /\ cnt # 0
  /\ cnt = capacity
  /\ vec' = [Linearized(n) EXCEPT ![capacity] = item]
  /\ head' = 0
  /\ cnt' = capacity + 1
  /\ capacity' = n

\* Enqueue(const T &) doubles a full array.
Enqueue(item) ==
  /\ cnt < MaxLength
  /\ \/ PutIntoEmpty(item)
     \/ GrowAndPutAtTail(item, capacity * 2)
     \/ PutAtTail(item)

\* Enqueue(T &&) grows a full array by half, rounded down.
EnqueueMoved(item) ==
  /\ cnt < MaxLength
  /\ \/ PutIntoEmpty(item)
     \/ GrowAndPutAtTail(item, (capacity * 3) \div 2)
     \/ PutAtTail(item)

GrowAndPutAtHead(item, n) ==
  /\ cnt # 0
  /\ cnt = capacity
  /\ vec' = [Linearized(n) EXCEPT ![n - 1] = item]
  /\ head' = n - 1
  /\ cnt' = capacity + 1
  /\ capacity' = n

PutAtHead(item) ==
  /\ cnt # 0
  /\ cnt # capacity
  /\ head' = IF head # 0 THEN head - 1 ELSE capacity - 1
  /\ vec' = [vec EXCEPT ![head'] = item]
  /\ cnt' = cnt + 1
  /\ UNCHANGED capacity

EnqueueAsFirst(item) ==
  /\ cnt < MaxLength
  /\ \/ PutIntoEmpty(item)
     \/ GrowAndPutAtHead(item, (capacity * 3) \div 2)
     \/ PutAtHead(item)

\* Mutant: head is not wrapped around.
Mut_Dequeue ==
  /\ cnt > 0
  /\ head' = head + 1
  /\ cnt' = cnt - 1
  /\ UNCHANGED << vec, capacity >>

\* On an empty queue Dequeue() does nothing.
Dequeue ==
  /\ cnt > 0
  /\ head' = IF head + 1 = capacity THEN 0 ELSE head + 1
  /\ cnt' = cnt - 1
  /\ UNCHANGED << vec, capacity >>

\* Mutant: the shift starts one slot late, so the wrong item leaves.
Mut_Erase(index) ==
  /\ index < cnt
  /\ vec' = [i \in 0 .. capacity - 1 |->
               IF \E j \in index + 1 .. cnt - 2 : i = (head + j) % capacity
               THEN vec[(i + 1) % capacity] ELSE vec[i]]
  /\ cnt' = cnt - 1
  /\ head' = IF cnt = 1 THEN 0 ELSE head
  /\ UNCHANGED capacity

\* Mutant: the shift does not follow the items around the end of the array.
Mut_EraseNoWrap(index) ==
  /\ index < cnt
  /\ vec' = [i \in 0 .. capacity - 1 |->
               IF i \in head + index .. head + cnt - 2 THEN vec[(i + 1) % capacity] ELSE vec[i]]
  /\ cnt' = cnt - 1
  /\ head' = IF cnt = 1 THEN 0 ELSE head
  /\ UNCHANGED capacity

\* Every slot from index up to the last but one takes its successor's item.
Erase(index) ==
  /\ index < cnt
  /\ vec' = [i \in 0 .. capacity - 1 |->
               IF \E j \in index .. cnt - 2 : i = (head + j) % capacity
               THEN vec[(i + 1) % capacity] ELSE vec[i]]
  /\ cnt' = cnt - 1
  /\ head' = IF cnt = 1 THEN 0 ELSE head
  /\ UNCHANGED capacity

Reset ==
  /\ head' = 0
  /\ cnt' = 0
  /\ IF capacity > DefaultCapacity
     THEN capacity' = DefaultCapacity /\ vec' = FreshArray(DefaultCapacity)
     ELSE UNCHANGED << vec, capacity >>

Next ==
  \/ \E item \in Item : Enqueue(item) \/ EnqueueMoved(item) \/ EnqueueAsFirst(item)
  \/ Dequeue
  \/ \E index \in 0 .. cnt - 1 : Erase(index)
  \/ Reset

Spec == Init /\ [][Next]_vars

-----------------------------------------------------------------------------
\* The items in queue order, read through Get().
Contents == [i \in 1 .. cnt |-> Get(i - 1)]

D == INSTANCE Deque WITH q <- Contents

\* Shape of the buffer: head is a slot of the array, the count fits in it.
TypeOK ==
  /\ capacity \in Nat /\ capacity >= 2
  /\ head \in 0 .. capacity - 1
  /\ cnt \in 0 .. capacity
  /\ vec \in [0 .. capacity - 1 -> Item \cup {None}]

\* Growing, wrapping around and erasing never expose a slot that was not
\* filled: what Get() returns for a position below Size() is an item.
OnlyItemsVisible == \A i \in 0 .. cnt - 1 : Get(i) \in Item

\* The ring buffer is a list: no item is lost, duplicated or reordered when
\* the array wraps, grows, shrinks or closes a gap.
ImplementsDeque == D!Spec

\* Every operation is the list operation of its name, at the same end and at
\* the same position: Erase(index) removes that item and no other.
OperationsMatch ==
  [][/\ \A item \in Item :
          /\ Enqueue(item) \/ EnqueueMoved(item) => D!PushBack(item)
          /\ EnqueueAsFirst(item) => D!PushFront(item)
     /\ Dequeue => D!PopFront
     /\ \A index \in 0 .. cnt - 1 : Erase(index) => D!Remove(index + 1)
     /\ Reset => D!Clear]_vars
=============================================================================
