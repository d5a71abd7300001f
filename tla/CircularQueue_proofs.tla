------------------------ MODULE CircularQueue_proofs ------------------------
(***************************************************************************)
(* Proofs about the ring buffer, for every pair of capacities of at least  *)
(* two slots, every item type and every bound on the length.               *)
(***************************************************************************)
EXTENDS CircularQueue, TLAPS

\* The slot arithmetic of the code never wraps more than once.
LEMMA ModWrap ==
  ASSUME NEW a \in Nat, NEW b \in Nat, NEW c \in Nat, c > 0, a < c, b <= c
  PROVE  (a + b) % c = IF a + b < c THEN a + b ELSE a + b - c
<1>1. CASE a + b < c
  BY <1>1, Z3
<1>2. CASE ~(a + b < c)
  BY <1>2, Z3
<1> QED BY <1>1, <1>2

\* Growing by half makes room for one more item from two slots on.
LEMMA GrowthByHalf ==
  ASSUME NEW c \in Nat, c >= 2
  PROVE  (c * 3) \div 2 \in Nat /\ (c * 3) \div 2 >= c + 1
OBVIOUS

\* Position i is in slot head + i, or head + i - capacity past the end.
LEMMA SlotOf ==
  ASSUME TypeOK, NEW i \in 0 .. capacity
  PROVE  /\ (head + i) % capacity =
              IF head + i < capacity THEN head + i ELSE head + i - capacity
         /\ (head + i) % capacity \in 0 .. capacity - 1
<1>1. /\ capacity \in Nat /\ capacity > 0 /\ head \in Nat /\ head < capacity
      /\ i \in Nat /\ i <= capacity
  BY DEF TypeOK
<1>2. (head + i) % capacity =
        IF head + i < capacity THEN head + i ELSE head + i - capacity
  BY <1>1, ModWrap
<1> QED BY <1>1, <1>2

-----------------------------------------------------------------------------
\* A fresh queue is well formed.
LEMMA TypeInit == Init => TypeOK
BY QueueAssumption DEF Init, TypeOK, FreshArray

\* Enqueueing into an empty queue keeps it well formed.
LEMMA TypePutIntoEmpty ==
  ASSUME TypeOK, NEW item \in Item, PutIntoEmpty(item)
  PROVE  TypeOK'
BY DEF TypeOK, PutIntoEmpty

\* So does Enqueue() into a free slot,
LEMMA TypePutAtTail ==
  ASSUME TypeOK, NEW item \in Item, PutAtTail(item)
  PROVE  TypeOK'
<1>1. (head + cnt) % capacity \in 0 .. capacity - 1
  BY SlotOf DEF TypeOK
<1> QED BY <1>1 DEF TypeOK, PutAtTail

\* the copy into a larger vector,
LEMMA TypeLinearized ==
  ASSUME TypeOK, NEW n \in Nat, n > capacity
  PROVE  Linearized(n) \in [0 .. n - 1 -> Item \cup {None}]
BY DEF TypeOK, Linearized

\* Enqueue() that grows the vector,
LEMMA TypeGrowAtTail ==
  ASSUME TypeOK, NEW item \in Item, NEW n \in Nat, n >= capacity + 1,
         GrowAndPutAtTail(item, n)
  PROVE  TypeOK'
BY TypeLinearized DEF TypeOK, GrowAndPutAtTail

\* EnqueueAsFirst() that grows the vector,
LEMMA TypeGrowAtHead ==
  ASSUME TypeOK, NEW item \in Item, NEW n \in Nat, n >= capacity + 1,
         GrowAndPutAtHead(item, n)
  PROVE  TypeOK'
BY TypeLinearized DEF TypeOK, GrowAndPutAtHead

\* EnqueueAsFirst() into a free slot,
LEMMA TypePutAtHead ==
  ASSUME TypeOK, NEW item \in Item, PutAtHead(item)
  PROVE  TypeOK'
BY DEF TypeOK, PutAtHead

\* and Erase().
LEMMA TypeErase ==
  ASSUME TypeOK, NEW index \in 0 .. cnt - 1, Erase(index)
  PROVE  TypeOK'
<1>1. \A i \in 0 .. capacity - 1 : (i + 1) % capacity \in 0 .. capacity - 1
  <2> SUFFICES ASSUME NEW i \in 0 .. capacity - 1
               PROVE  (i + 1) % capacity \in 0 .. capacity - 1
    OBVIOUS
  <2>1. /\ capacity \in Nat /\ capacity > 0 /\ i \in Nat /\ i < capacity
        /\ 1 \in Nat /\ 1 <= capacity
    BY DEF TypeOK
  <2>2. (i + 1) % capacity = IF i + 1 < capacity THEN i + 1 ELSE i + 1 - capacity
    BY <2>1, ModWrap
  <2> QED BY <2>1, <2>2
<1>2. vec' \in [0 .. capacity - 1 -> Item \cup {None}]
  <2>1. vec \in [0 .. capacity - 1 -> Item \cup {None}]
    BY DEF TypeOK
  <2> QED BY <1>1, <2>1, SMTT(60) DEF Erase
<1>3. cnt' = cnt - 1 /\ head' = (IF cnt = 1 THEN 0 ELSE head) /\ capacity' = capacity
  BY DEF Erase
<1> QED BY <1>2, <1>3 DEF TypeOK

\* The shape of the buffer is kept by every operation: in particular a
\* grown array always has room for the item that made it grow.
LEMMA TypeNext == TypeOK /\ [Next]_vars => TypeOK'
<1> SUFFICES ASSUME TypeOK, [Next]_vars PROVE TypeOK'
  OBVIOUS
<1>g. /\ capacity * 2 \in Nat /\ capacity * 2 >= capacity + 1
      /\ (capacity * 3) \div 2 \in Nat /\ (capacity * 3) \div 2 >= capacity + 1
  BY GrowthByHalf DEF TypeOK
<1>1. ASSUME NEW item \in Item, Enqueue(item) PROVE TypeOK'
  BY <1>1, <1>g, TypePutIntoEmpty, TypePutAtTail, TypeGrowAtTail DEF Enqueue
<1>2. ASSUME NEW item \in Item, EnqueueMoved(item) PROVE TypeOK'
  BY <1>2, <1>g, TypePutIntoEmpty, TypePutAtTail, TypeGrowAtTail DEF EnqueueMoved
<1>3. ASSUME NEW item \in Item, EnqueueAsFirst(item) PROVE TypeOK'
  BY <1>3, <1>g, TypePutIntoEmpty, TypePutAtHead, TypeGrowAtHead DEF EnqueueAsFirst
<1>4. CASE Dequeue
  BY <1>4 DEF TypeOK, Dequeue
<1>5. ASSUME NEW index \in 0 .. cnt - 1, Erase(index) PROVE TypeOK'
  BY <1>5, TypeErase
<1>6. CASE Reset
  BY <1>6, QueueAssumption DEF TypeOK, Reset, FreshArray
<1>7. CASE UNCHANGED vars
  BY <1>7 DEF TypeOK, vars
<1> QED BY <1>1, <1>2, <1>3, <1>4, <1>5, <1>6, <1>7 DEF Next

\* The buffer keeps its shape: head is always a slot, the count fits.
THEOREM TypeCorrect == Spec => []TypeOK
<1>1. TypeOK /\ [Next]_vars => TypeOK'
  BY TypeNext
<1> QED BY TypeInit, <1>1, PTL DEF Spec

-----------------------------------------------------------------------------
\* The list the buffer stands for, in terms of slots.
Shape ==
  /\ cnt \in Nat
  /\ Contents \in Seq(Item \cup {None})
  /\ Len(Contents) = cnt
  /\ \A i \in 1 .. cnt :
       Contents[i] = vec[IF head + i - 1 < capacity THEN head + i - 1
                         ELSE head + i - 1 - capacity]

\* In a well formed queue the shape of the contents is known,
LEMMA ContentsShape == TypeOK => Shape
<1> SUFFICES ASSUME TypeOK PROVE Shape
  OBVIOUS
<1>1. \A i \in 1 .. cnt :
        /\ (head + (i - 1)) % capacity =
             IF head + i - 1 < capacity THEN head + i - 1 ELSE head + i - 1 - capacity
        /\ (head + (i - 1)) % capacity \in 0 .. capacity - 1
  <2> SUFFICES ASSUME NEW i \in 1 .. cnt
      PROVE /\ (head + (i - 1)) % capacity =
                 IF head + i - 1 < capacity THEN head + i - 1 ELSE head + i - 1 - capacity
            /\ (head + (i - 1)) % capacity \in 0 .. capacity - 1
    OBVIOUS
  <2>1. i - 1 \in 0 .. capacity
    BY DEF TypeOK
  <2>2. /\ (head + (i - 1)) % capacity =
             IF head + (i - 1) < capacity THEN head + (i - 1)
             ELSE head + (i - 1) - capacity
        /\ (head + (i - 1)) % capacity \in 0 .. capacity - 1
    BY <2>1, SlotOf
  <2> QED BY <2>2 DEF TypeOK
<1>2. \A i \in 1 .. cnt :
        vec[(head + (i - 1)) % capacity] =
          vec[IF head + i - 1 < capacity THEN head + i - 1 ELSE head + i - 1 - capacity]
  BY <1>1
<1>3. \A i \in 1 .. cnt : vec[(head + (i - 1)) % capacity] \in Item \cup {None}
  BY <1>1 DEF TypeOK
<1>4. cnt \in Nat
  BY DEF TypeOK
<1> QED BY <1>2, <1>3, <1>4 DEF Contents, Get, Shape

\* also after a step.
LEMMA ContentsShapePrime == TypeOK' => Shape'
BY ContentsShape, PTL

\* Two lists with the same items in the same places are one.
LEMMA SameList ==
  ASSUME NEW S, NEW s \in Seq(S), NEW t \in Seq(S), Len(s) = Len(t),
         \A i \in 1 .. Len(s) : s[i] = t[i]
  PROVE  s = t
OBVIOUS

\* A step that keeps every position and fills the next one is an append.
LEMMA IsPushBack ==
  ASSUME Shape, Shape', NEW item \in Item, cnt' = cnt + 1,
         \A i \in 1 .. cnt : Contents'[i] = Contents[i],
         Contents'[cnt + 1] = item
  PROVE  Contents' = Append(Contents, item)
<1>1. /\ Append(Contents, item) \in Seq(Item \cup {None})
      /\ Len(Append(Contents, item)) = cnt + 1
      /\ \A i \in 1 .. cnt : Append(Contents, item)[i] = Contents[i]
      /\ Append(Contents, item)[cnt + 1] = item
  BY DEF Shape
<1>2. Contents' \in Seq(Item \cup {None}) /\ Len(Contents') = cnt + 1
  BY DEF Shape
<1>3. \A i \in 1 .. Len(Contents') : Contents'[i] = Append(Contents, item)[i]
  BY <1>1, <1>2 DEF Shape
<1> QED BY <1>1, <1>2, <1>3, SameList

\* A step that moves every position back by one and fills the first.
LEMMA IsPushFront ==
  ASSUME Shape, Shape', NEW item \in Item, cnt' = cnt + 1,
         \A i \in 1 .. cnt : Contents'[i + 1] = Contents[i],
         Contents'[1] = item
  PROVE  Contents' = << item >> \o Contents
<1>1. /\ << item >> \o Contents \in Seq(Item \cup {None})
      /\ Len(<< item >> \o Contents) = cnt + 1
      /\ \A i \in 2 .. cnt + 1 : (<< item >> \o Contents)[i] = Contents[i - 1]
      /\ (<< item >> \o Contents)[1] = item
  BY DEF Shape
<1>2. Contents' \in Seq(Item \cup {None}) /\ Len(Contents') = cnt + 1
  BY DEF Shape
<1>3. \A i \in 2 .. cnt + 1 : Contents'[i] = Contents[i - 1]
  <2> SUFFICES ASSUME NEW i \in 2 .. cnt + 1 PROVE Contents'[i] = Contents[i - 1]
    OBVIOUS
  <2>1. i - 1 \in 1 .. cnt /\ (i - 1) + 1 = i
    BY DEF Shape
  <2> QED BY <2>1
<1>4. \A i \in 1 .. Len(Contents') : Contents'[i] = (<< item >> \o Contents)[i]
  BY <1>1, <1>2, <1>3 DEF Shape
<1> QED BY <1>1, <1>2, <1>4, SameList

-----------------------------------------------------------------------------
\* Each operation acts on the contents as on a list: into an empty queue,
LEMMA AppendIntoEmpty ==
  ASSUME TypeOK, TypeOK', NEW item \in Item, PutIntoEmpty(item)
  PROVE  /\ Contents' = Append(Contents, item)
         /\ Contents' = << item >> \o Contents
<1>1. Shape /\ Shape'
  BY ContentsShape, ContentsShapePrime
<1>2. cnt = 0 /\ cnt' = cnt + 1 /\ Contents'[1] = item
  BY <1>1 DEF PutIntoEmpty, Shape, TypeOK
<1> QED BY <1>1, <1>2, IsPushBack, IsPushFront

\* at the tail,
LEMMA AppendAtTail ==
  ASSUME TypeOK, TypeOK', NEW item \in Item, PutAtTail(item)
  PROVE  Contents' = Append(Contents, item)
<1>1. Shape /\ Shape'
  BY ContentsShape, ContentsShapePrime
<1>2. (head + cnt) % capacity =
        IF head + cnt < capacity THEN head + cnt ELSE head + cnt - capacity
  BY SlotOf, SMTT(60) DEF TypeOK
<1>3. vec' = [vec EXCEPT ![IF head + cnt < capacity THEN head + cnt
                           ELSE head + cnt - capacity] = item]
  BY <1>2, Zenon DEF PutAtTail
<1>4. cnt' = cnt + 1 /\ cnt < capacity /\ head' = head /\ capacity' = capacity
  BY DEF PutAtTail, TypeOK
<1>5. Contents'[cnt + 1] = item
  BY <1>1, <1>3, <1>4 DEF Shape, TypeOK
<1>6. \A i \in 1 .. cnt : Contents'[i] = Contents[i]
  BY <1>1, <1>3, <1>4, SMTT(60) DEF Shape, TypeOK
<1> QED BY <1>1, <1>4, <1>5, <1>6, IsPushBack

\* After a growth position i of the old list is in slot i of the new array.
LEMMA LinearizedKeepsOrder ==
  ASSUME TypeOK, cnt = capacity, NEW n \in Nat, n > capacity, NEW i \in 1 .. cnt
  PROVE  Linearized(n)[i - 1] = Contents[i]
<1>1. Shape
  BY ContentsShape
<1> QED BY <1>1 DEF Linearized, Shape, TypeOK

\* at the tail of a full vector,
LEMMA AppendGrowing ==
  ASSUME TypeOK, TypeOK', NEW item \in Item, NEW n \in Nat, n >= capacity + 1,
         GrowAndPutAtTail(item, n)
  PROVE  Contents' = Append(Contents, item)
<1>1. Shape /\ Shape'
  BY ContentsShape, ContentsShapePrime
<1>2. /\ cnt = capacity /\ cnt' = cnt + 1 /\ head' = 0 /\ capacity' = n
      /\ vec' = [Linearized(n) EXCEPT ![capacity] = item]
  BY DEF GrowAndPutAtTail
<1>3. Linearized(n) \in [0 .. n - 1 -> Item \cup {None}]
  BY TypeLinearized DEF TypeOK
<1>4. Contents'[cnt + 1] = item
  BY <1>1, <1>2, <1>3 DEF Shape, TypeOK
<1>5. ASSUME NEW i \in 1 .. cnt PROVE Contents'[i] = Contents[i]
  <2>1. Contents'[i] = vec'[i - 1]
    BY <1>1, <1>2, SMTT(60) DEF Shape, TypeOK
  <2>2. vec'[i - 1] = Linearized(n)[i - 1]
    BY <1>2, <1>3 DEF TypeOK
  <2>3. Linearized(n)[i - 1] = Contents[i]
    BY <1>2, LinearizedKeepsOrder DEF TypeOK
  <2> QED BY <2>1, <2>2, <2>3
<1> QED BY <1>1, <1>2, <1>4, <1>5, IsPushBack

\* at the head of a full vector,
LEMMA PrependGrowing ==
  ASSUME TypeOK, TypeOK', NEW item \in Item, NEW n \in Nat, n >= capacity + 1,
         GrowAndPutAtHead(item, n)
  PROVE  Contents' = << item >> \o Contents
<1>1. Shape /\ Shape'
  BY ContentsShape, ContentsShapePrime
<1>2. /\ cnt = capacity /\ cnt' = cnt + 1 /\ head' = n - 1 /\ capacity' = n
      /\ vec' = [Linearized(n) EXCEPT ![n - 1] = item]
  BY DEF GrowAndPutAtHead
<1>3. Linearized(n) \in [0 .. n - 1 -> Item \cup {None}]
  BY TypeLinearized DEF TypeOK
<1>4. Contents'[1] = item
  BY <1>1, <1>2, <1>3 DEF Shape, TypeOK
<1>5. ASSUME NEW i \in 1 .. cnt PROVE Contents'[i + 1] = Contents[i]
  <2>1. Contents'[i + 1] = vec'[i - 1]
    BY <1>1, <1>2, SMTT(60) DEF Shape, TypeOK
  <2>2. vec'[i - 1] = Linearized(n)[i - 1]
    BY <1>2, <1>3 DEF TypeOK
  <2>3. Linearized(n)[i - 1] = Contents[i]
    BY <1>2, LinearizedKeepsOrder DEF TypeOK
  <2> QED BY <2>1, <2>2, <2>3
<1> QED BY <1>1, <1>2, <1>4, <1>5, IsPushFront

\* at the head,
LEMMA PrependAtHead ==
  ASSUME TypeOK, TypeOK', NEW item \in Item, PutAtHead(item)
  PROVE  Contents' = << item >> \o Contents
<1>1. Shape /\ Shape'
  BY ContentsShape, ContentsShapePrime
<1>2. /\ cnt' = cnt + 1 /\ cnt < capacity /\ capacity' = capacity
      /\ head' = (IF head # 0 THEN head - 1 ELSE capacity - 1)
      /\ vec' = [vec EXCEPT ![head'] = item]
  BY DEF PutAtHead, TypeOK
<1>3. Contents'[1] = item
  BY <1>1, <1>2 DEF Shape, TypeOK
<1>4. \A i \in 1 .. cnt : Contents'[i + 1] = Contents[i]
  BY <1>1, <1>2 DEF Shape, TypeOK
<1> QED BY <1>1, <1>2, <1>3, <1>4, IsPushFront

\* Dequeue() pops the front,
LEMMA DequeuePopsFront ==
  ASSUME TypeOK, TypeOK', Dequeue
  PROVE  Contents # << >> /\ Contents' = Tail(Contents)
<1>1. Shape /\ Shape'
  BY ContentsShape, ContentsShapePrime
<1>2. /\ cnt > 0 /\ cnt' = cnt - 1 /\ vec' = vec /\ capacity' = capacity
      /\ head' = (IF head + 1 = capacity THEN 0 ELSE head + 1)
  BY DEF Dequeue
<1>3. \A i \in 1 .. cnt - 1 : Contents'[i] = Contents[i + 1]
  BY <1>1, <1>2, SMTT(60) DEF Shape, TypeOK
<1>4. /\ Contents # << >>
      /\ Tail(Contents) \in Seq(Item \cup {None})
      /\ Len(Tail(Contents)) = cnt - 1
      /\ \A i \in 1 .. cnt - 1 : Tail(Contents)[i] = Contents[i + 1]
  BY <1>1, <1>2 DEF Shape
<1>5. Contents' \in Seq(Item \cup {None}) /\ Len(Contents') = cnt - 1
  BY <1>1, <1>2 DEF Shape
<1> QED BY <1>3, <1>4, <1>5, SameList

\* Erase() removes one item and keeps the order.
LEMMA EraseRemoves ==
  ASSUME TypeOK, TypeOK', NEW index \in 0 .. cnt - 1, Erase(index)
  PROVE  D!Remove(index + 1)
<1> DEFINE At(j) == IF head + j < capacity THEN head + j ELSE head + j - capacity
<1>1. Shape /\ Shape'
  BY ContentsShape, ContentsShapePrime
<1>2. \A j \in 0 .. capacity : (head + j) % capacity = At(j)
  BY SlotOf
<1>3. \A i \in 0 .. capacity - 1 : (i + 1) % capacity = IF i + 1 < capacity THEN i + 1 ELSE 0
  <2> SUFFICES ASSUME NEW i \in 0 .. capacity - 1
               PROVE  (i + 1) % capacity = IF i + 1 < capacity THEN i + 1 ELSE 0
    OBVIOUS
  <2>1. /\ capacity \in Nat /\ capacity > 0 /\ i \in Nat /\ i < capacity
        /\ 1 \in Nat /\ 1 <= capacity
    BY DEF TypeOK
  <2>2. (i + 1) % capacity = IF i + 1 < capacity THEN i + 1 ELSE i + 1 - capacity
    BY <2>1, ModWrap
  <2> QED BY <2>1, <2>2
<1>4. cnt' = cnt - 1 /\ head' = (IF cnt = 1 THEN 0 ELSE head) /\ capacity' = capacity
  BY DEF Erase
<1>5. ASSUME NEW i \in 1 .. cnt - 1
      PROVE  Contents'[i] = IF i < index + 1 THEN Contents[i] ELSE Contents[i + 1]
  <2>1. At(i - 1) \in 0 .. capacity - 1 /\ Contents'[i] = vec'[At(i - 1)]
    BY <1>1, <1>4 DEF Shape, TypeOK
  <2>2. CASE i < index + 1
    <3>1. ASSUME NEW j \in index .. cnt - 2 PROVE At(i - 1) # (head + j) % capacity
      <4>1. (head + j) % capacity = At(j)
        BY <1>2, SMTT(60) DEF TypeOK
      <4> QED BY <4>1, <2>2, SMTT(60) DEF TypeOK
    <3>2. vec'[At(i - 1)] = vec[At(i - 1)]
      BY <3>1, <2>1 DEF Erase
    <3>3. Contents[i] = vec[At(i - 1)]
      BY <1>1 DEF Shape, TypeOK
    <3> QED BY <2>1, <2>2, <3>2, <3>3
  <2>3. CASE ~(i < index + 1)
    <3>a. i - 1 \in index .. cnt - 2 /\ i - 1 \in 0 .. capacity
      BY <2>3 DEF TypeOK
    <3>1. i - 1 \in index .. cnt - 2 /\ At(i - 1) = (head + (i - 1)) % capacity
      <4> HIDE DEF At
      <4> QED BY <1>2, <3>a
    <3>2. vec'[At(i - 1)] = vec[(At(i - 1) + 1) % capacity]
      BY <3>1, <2>1 DEF Erase
    <3>3. (At(i - 1) + 1) % capacity = At(i)
      <4>1. (At(i - 1) + 1) % capacity = IF At(i - 1) + 1 < capacity THEN At(i - 1) + 1 ELSE 0
        BY <1>3, <2>1
      <4> QED BY <4>1 DEF TypeOK
    <3>4. Contents[i + 1] = vec[At(i)]
      <4>1. /\ i + 1 \in 1 .. cnt /\ head + (i + 1) - 1 = head + i
            /\ head + (i + 1) - 1 - capacity = head + i - capacity
        BY DEF TypeOK
      <4>2. Contents[i + 1] = vec[IF head + (i + 1) - 1 < capacity
                                  THEN head + (i + 1) - 1 ELSE head + (i + 1) - 1 - capacity]
        BY <1>1, <4>1 DEF Shape
      <4> QED BY <4>1, <4>2
    <3> QED BY <2>1, <2>3, <3>2, <3>3, <3>4
  <2> QED BY <2>2, <2>3
<1>6. Len(Contents) = cnt /\ cnt \in Nat
  BY <1>1 DEF Shape
<1>7. Contents' = [i \in 1 .. cnt - 1 |-> Contents'[i]]
  BY <1>4 DEF Contents
<1>8. Contents' = [i \in 1 .. cnt - 1 |->
                     IF i < index + 1 THEN Contents[i] ELSE Contents[i + 1]]
  BY <1>5, <1>7
<1> QED BY <1>6, <1>8 DEF D!Remove

-----------------------------------------------------------------------------
\* Each operation is the list operation of its name.
LEMMA OperationLemma ==
  ASSUME TypeOK, TypeOK'
  PROVE  /\ \A item \in Item :
              /\ Enqueue(item) \/ EnqueueMoved(item) => D!PushBack(item)
              /\ EnqueueAsFirst(item) => D!PushFront(item)
         /\ Dequeue => D!PopFront
         /\ \A index \in 0 .. cnt - 1 : Erase(index) => D!Remove(index + 1)
         /\ Reset => D!Clear
<1>s. Shape /\ Shape'
  BY ContentsShape, ContentsShapePrime
<1>g. /\ capacity * 2 \in Nat /\ capacity * 2 >= capacity + 1
      /\ (capacity * 3) \div 2 \in Nat /\ (capacity * 3) \div 2 >= capacity + 1
  BY GrowthByHalf DEF TypeOK
<1>1. ASSUME NEW item \in Item, Enqueue(item) PROVE D!PushBack(item)
  <2>1. Contents' = Append(Contents, item)
    BY <1>1, <1>g, AppendIntoEmpty, AppendAtTail, AppendGrowing, Zenon DEF Enqueue
  <2> QED BY <1>1, <1>s, <2>1 DEF Enqueue, Shape, D!PushBack
<1>2. ASSUME NEW item \in Item, EnqueueMoved(item) PROVE D!PushBack(item)
  <2>1. Contents' = Append(Contents, item)
    BY <1>2, <1>g, AppendIntoEmpty, AppendAtTail, AppendGrowing, Zenon DEF EnqueueMoved
  <2> QED BY <1>2, <1>s, <2>1 DEF EnqueueMoved, Shape, D!PushBack
<1>3. ASSUME NEW item \in Item, EnqueueAsFirst(item) PROVE D!PushFront(item)
  <2>1. Contents' = << item >> \o Contents
    BY <1>3, <1>g, AppendIntoEmpty, PrependAtHead, PrependGrowing DEF EnqueueAsFirst
  <2> QED BY <1>3, <1>s, <2>1 DEF EnqueueAsFirst, Shape, D!PushFront
<1>4. Dequeue => D!PopFront
  BY DequeuePopsFront DEF D!PopFront
<1>5. ASSUME NEW index \in 0 .. cnt - 1, Erase(index) PROVE D!Remove(index + 1)
  BY <1>5, EraseRemoves
<1>6. Reset => D!Clear
  BY <1>s DEF Reset, Shape, D!Clear
<1> QED BY <1>1, <1>2, <1>3, <1>4, <1>5, <1>6

\* Hence every step is a step of the list.
LEMMA StepRefines == TypeOK /\ TypeOK' /\ [Next]_vars => [D!Next]_Contents
<1> SUFFICES ASSUME TypeOK, TypeOK', [Next]_vars PROVE [D!Next]_Contents
  OBVIOUS
<1>1. ASSUME NEW index \in 0 .. cnt - 1, Erase(index) PROVE D!Next
  <2>1. D!Remove(index + 1)
    BY <1>1, OperationLemma
  <2>2. index + 1 \in 1 .. Len(Contents)
    BY ContentsShape DEF Shape
  <2> QED BY <2>1, <2>2 DEF D!Next
<1>2. CASE UNCHANGED vars
  BY <1>2 DEF vars, Contents, Get
<1> QED BY <1>1, <1>2, OperationLemma DEF Next, D!Next

\* Each operation has the effect of its list operation, for every capacity.
THEOREM OperationsAreListOperations == Spec => OperationsMatch
<1>1. TypeOK /\ TypeOK' /\ [Next]_vars =>
        [/\ \A item \in Item :
              /\ Enqueue(item) \/ EnqueueMoved(item) => D!PushBack(item)
              /\ EnqueueAsFirst(item) => D!PushFront(item)
         /\ Dequeue => D!PopFront
         /\ \A index \in 0 .. cnt - 1 : Erase(index) => D!Remove(index + 1)
         /\ Reset => D!Clear]_vars
  BY OperationLemma
<1> QED BY <1>1, TypeCorrect, PTL DEF Spec, OperationsMatch

\* The ring buffer implements the list, whatever its capacity: wrapping,
\* doubling, growing by half, shrinking and closing gaps are invisible.
THEOREM RingBufferIsDeque == Spec => ImplementsDeque
<1>1. Init => D!Init
  BY DEF Init, D!Init, Contents
<1> QED BY <1>1, TypeCorrect, StepRefines, PTL DEF Spec, D!Spec, ImplementsDeque

\* Every list operation keeps a list of items a list of items.
LEMMA DequeKeepsItems ==
  ASSUME Shape, Shape', [D!Next]_Contents, \A i \in 1 .. cnt : Contents[i] \in Item
  PROVE  \A i \in 1 .. cnt' : Contents'[i] \in Item
<1>1. Len(Contents) = cnt /\ Len(Contents') = cnt' /\ cnt \in Nat
      /\ Contents \in Seq(Item \cup {None})
  BY DEF Shape
<1>2. ASSUME NEW x \in Item, D!PushBack(x) PROVE \A i \in 1 .. cnt' : Contents'[i] \in Item
  BY <1>1, <1>2 DEF D!PushBack
<1>3. ASSUME NEW x \in Item, D!PushFront(x) PROVE \A i \in 1 .. cnt' : Contents'[i] \in Item
  BY <1>1, <1>3 DEF D!PushFront
<1>4. CASE D!PopFront
  BY <1>1, <1>4 DEF D!PopFront
<1>5. ASSUME NEW k \in 1 .. Len(Contents), D!Remove(k)
      PROVE  \A i \in 1 .. cnt' : Contents'[i] \in Item
  <2>1. cnt' = cnt - 1
    BY <1>1, <1>5 DEF D!Remove
  <2> QED BY <1>1, <1>5, <2>1 DEF D!Remove
<1>6. CASE D!Clear
  BY <1>1, <1>6 DEF D!Clear
<1>7. CASE UNCHANGED Contents
  BY <1>1, <1>7
<1> QED BY <1>2, <1>3, <1>4, <1>5, <1>6, <1>7 DEF D!Next

\* Get() never returns an unwritten slot for a position below Size().
THEOREM VisibleSlotsHoldItems == Spec => []OnlyItemsVisible
<1> DEFINE P == \A i \in 1 .. cnt : Contents[i] \in Item
<1>1. Init => P
  BY DEF Init
<1>2. P /\ TypeOK /\ TypeOK' /\ [Next]_vars => P'
  BY DequeKeepsItems, StepRefines, ContentsShape, ContentsShapePrime
<1>3. P /\ TypeOK => OnlyItemsVisible
  <2> SUFFICES ASSUME P, TypeOK, NEW i \in 0 .. cnt - 1 PROVE Get(i) \in Item
    BY DEF OnlyItemsVisible
  <2>1. i + 1 \in 1 .. cnt /\ (i + 1) - 1 = i
    BY DEF TypeOK
  <2> QED BY <2>1 DEF Contents
<1> QED BY <1>1, <1>2, <1>3, TypeCorrect, PTL DEF Spec
=============================================================================
