------------------------ MODULE MessageQueue_proofs ------------------------
(***************************************************************************)
(* Proofs about the ring of MessageQueue for every Size and every set of   *)
(* items: type correctness, freedom from data races on the slots, that the *)
(* ring implements the bounded FIFO, that unused slots are cleared and     *)
(* that the counters account for the used ones.                            *)
(***************************************************************************)
EXTENDS MessageQueue, TLAPS, SequenceTheorems

-----------------------------------------------------------------------------
\* Index arithmetic without %.

LEMMA SlotsAreIntegers ==
  /\ Size \in Int /\ 0 < Size
  /\ \A i : i \in Slots <=> (i \in Int /\ 0 <= i /\ i < Size)
  BY SizeAssumption DEF Slots

LEMMA IncrementIf ==
  ASSUME NEW i \in Slots
  PROVE  /\ Increment(i) = IF i + 1 = Size THEN 0 ELSE i + 1
         /\ Increment(i) \in Slots
  BY SizeAssumption, SMTT(30) DEF Increment, Slots

LEMMA DistanceIf ==
  ASSUME NEW i \in Slots, NEW j \in Slots
  PROVE  /\ Distance(i, j) = IF j >= i THEN j - i ELSE Size - i + j
         /\ Distance(i, j) \in Slots
  BY SizeAssumption, SMTT(30) DEF Distance, Slots

LEMMA WrapIf ==
  ASSUME NEW i \in Slots, NEW k \in Slots
  PROVE  /\ (i + k) % Size = IF i + k < Size THEN i + k ELSE i + k - Size
         /\ (i + k) % Size \in Slots
  BY SizeAssumption, SMTT(30) DEF Slots

LEMMA CountUpType ==
  ASSUME NEW c \in 0 .. CounterMod - 1
  PROVE  CountUp(c) \in 0 .. CounterMod - 1
  BY CounterAssumption, SMTT(30) DEF CountUp

-----------------------------------------------------------------------------
\* Type correctness.

LEMMA TypeInit == Init => TypeOK
<1> SUFFICES ASSUME Init PROVE TypeOK
  OBVIOUS
<1>1. 0 \in Slots /\ 0 \in 0 .. CounterMod - 1
  BY SizeAssumption, CounterAssumption DEF Slots
<1>2. buffer \in [Slots -> Items \cup {Null}]
  BY DEF Init
<1> QED
  BY <1>1, <1>2 DEF Init, TypeOK

LEMMA TypeNext == TypeOK /\ [Next]_vars => TypeOK'
<1> SUFFICES ASSUME TypeOK, [Next]_vars PROVE TypeOK'
  OBVIOUS
<1> USE DEF TypeOK, vars, ring, counters, producer, consumer
<1>1. ASSUME NEW b \in Items, EnqueueBegin(b) PROVE TypeOK'
  BY <1>1 DEF EnqueueBegin
<1>2. CASE EnqueueFull
  BY <1>2, CountUpType DEF EnqueueFull
<1>3. CASE EnqueueRoom
  BY <1>3 DEF EnqueueRoom
<1>4. CASE StoreSlot
  BY <1>4 DEF StoreSlot
<1>5. CASE PublishTail
  BY <1>5, IncrementIf DEF PublishTail
<1>6. CASE CountEnqueued
  BY <1>6, CountUpType DEF CountEnqueued
<1>7. CASE DequeueBegin
  BY <1>7 DEF DequeueBegin
<1>8. CASE DequeueEmpty
  BY <1>8 DEF DequeueEmpty
<1>9. CASE DequeueFound
  BY <1>9 DEF DequeueFound
<1>10. CASE ReadSlot
  BY <1>10 DEF ReadSlot
<1>11. CASE ClearSlot
  BY <1>11 DEF ClearSlot
<1>12. CASE PublishHead
  BY <1>12, IncrementIf DEF PublishHead
<1>13. CASE CountDequeued
  BY <1>13, CountUpType DEF CountDequeued
<1>14. CASE UNCHANGED vars
  BY <1>14
<1> QED
  BY <1>1, <1>2, <1>3, <1>4, <1>5, <1>6, <1>7, <1>8, <1>9, <1>10, <1>11,
     <1>12, <1>13, <1>14 DEF Next, Enqueue, Dequeue

(* Every variable of the ring, of its counters and of the two threads      *)
(* keeps its type: the indices stay inside buffer_[Size], a slot holds an  *)
(* item or nullptr, the counters wrap (MessageQueue.h, SPSCQueue.h).       *)
THEOREM TypeCorrect == Spec => []TypeOK
<1>1. Init => TypeOK
  BY TypeInit
<1>2. TypeOK /\ [Next]_vars => TypeOK'
  BY TypeNext
<1> QED
  BY <1>1, <1>2, PTL DEF Spec

-----------------------------------------------------------------------------
\* The inductive invariant.

\* Which slots lie in the window that starts at f and ends before t.
LEMMA WindowIf ==
  ASSUME NEW f \in Slots, NEW t \in Slots, NEW i \in Slots
  PROVE  Distance(f, i) < Distance(f, t) <=> IF f <= t THEN f <= i /\ i < t
                                                       ELSE f <= i \/ i < t
<1>1. f \in Int /\ t \in Int /\ i \in Int /\ Size \in Int
  BY SizeAssumption DEF Slots
<1>2. Distance(f, i) = IF i >= f THEN i - f ELSE Size - f + i
  BY DistanceIf
<1>3. Distance(f, t) = IF t >= f THEN t - f ELSE Size - f + t
  BY DistanceIf
<1>4. 0 <= f /\ f < Size /\ 0 <= t /\ t < Size /\ 0 <= i /\ i < Size
  BY SizeAssumption DEF Slots
<1> QED
  BY <1>1, <1>2, <1>3, <1>4

\* Publishing the slot at t adds it to the window.
LEMMA WindowGrows ==
  ASSUME NEW f \in Slots, NEW t \in Slots, NEW i \in Slots, Increment(t) # f
  PROVE  Distance(f, i) < Distance(f, Increment(t)) <=>
           (Distance(f, i) < Distance(f, t) \/ i = t)
<1>1. f \in Int /\ t \in Int /\ i \in Int /\ Size \in Int
  BY SizeAssumption DEF Slots
<1>2. 0 <= f /\ f < Size /\ 0 <= t /\ t < Size /\ 0 <= i /\ i < Size
  BY SizeAssumption DEF Slots
<1>3. Increment(t) \in Slots /\ Increment(t) = IF t + 1 = Size THEN 0 ELSE t + 1
  BY IncrementIf
<1>4. Distance(f, i) < Distance(f, t) <=> IF f <= t THEN f <= i /\ i < t
                                                    ELSE f <= i \/ i < t
  BY WindowIf
<1>5. Distance(f, i) < Distance(f, Increment(t)) <=>
        IF f <= Increment(t) THEN f <= i /\ i < Increment(t)
                             ELSE f <= i \/ i < Increment(t)
  BY <1>3, WindowIf
<1> QED
  BY <1>1, <1>2, <1>3, <1>4, <1>5

\* Taking the item at f removes it from the window.
LEMMA WindowShrinks ==
  ASSUME NEW f \in Slots, NEW t \in Slots, NEW i \in Slots, f # t
  PROVE  Distance(Increment(f), i) < Distance(Increment(f), t) <=>
           (Distance(f, i) < Distance(f, t) /\ i # f)
<1>1. f \in Int /\ t \in Int /\ i \in Int /\ Size \in Int
  BY SizeAssumption DEF Slots
<1>2. 0 <= f /\ f < Size /\ 0 <= t /\ t < Size /\ 0 <= i /\ i < Size
  BY SizeAssumption DEF Slots
<1>3. Increment(f) \in Slots /\ Increment(f) = IF f + 1 = Size THEN 0 ELSE f + 1
  BY IncrementIf
<1>4. Distance(f, i) < Distance(f, t) <=> IF f <= t THEN f <= i /\ i < t
                                                    ELSE f <= i \/ i < t
  BY WindowIf
<1>5. Distance(Increment(f), i) < Distance(Increment(f), t) <=>
        IF Increment(f) <= t THEN Increment(f) <= i /\ i < t
                             ELSE Increment(f) <= i \/ i < t
  BY <1>3, WindowIf
<1> QED
  BY <1>1, <1>2, <1>3, <1>4, <1>5

LEMMA IncrementInjective ==
  ASSUME NEW i \in Slots, NEW j \in Slots, Increment(i) = Increment(j)
  PROVE  i = j
<1>1. i \in Int /\ j \in Int /\ Size \in Int
  BY SizeAssumption DEF Slots
<1>2. 0 <= i /\ 0 <= j
  BY SizeAssumption DEF Slots
<1> QED
  BY <1>1, <1>2, IncrementIf

LEMMA FirstType == TypeOK => First \in Slots /\ tail \in Slots
  BY IncrementIf DEF First, TypeOK

LEMMA RingInvInit == Init => RingInv
<1> SUFFICES ASSUME Init PROVE RingInv
  OBVIOUS
<1>1. TypeOK
  BY TypeInit
<1>2. PublishedAreItems
  <2> SUFFICES ASSUME NEW i \in Slots PROVE ~ Occupied(i)
    BY DEF PublishedAreItems
  <2>1. First = 0 /\ tail = 0
    BY DEF Init, First, HoldsSlot
  <2>2. 0 \in Slots
    BY SizeAssumption DEF Slots
  <2>3. Distance(0, i) \in Nat /\ Distance(0, 0) = 0
    BY <2>2, DistanceIf, SizeAssumption DEF Slots
  <2> QED
    BY <2>1, <2>3 DEF Occupied
<1>3. UnusedSlotsAreNull
  BY DEF Init, UnusedSlotsAreNull
<1> QED
  BY <1>1, <1>2, <1>3 DEF Init, RingInv, OwnIndex, TestStillHolds, ArgumentIsItem,
                          StoredIsArgument

\* The parts of the invariant that speak of the indices only.
IndexInv == OwnIndex /\ TestStillHolds

LEMMA IndexNext ==
  ASSUME TypeOK, IndexInv, [Next]_vars
  PROVE  IndexInv'
<1> USE DEF IndexInv, OwnIndex, TestStillHolds, TypeOK, vars, ring, counters,
            producer, consumer
<1>1. ASSUME NEW b \in Items, EnqueueBegin(b) PROVE IndexInv'
  BY <1>1 DEF EnqueueBegin
<1>2. CASE EnqueueFull
  BY <1>2 DEF EnqueueFull
<1>3. CASE EnqueueRoom
  BY <1>3 DEF EnqueueRoom
<1>4. CASE StoreSlot
  BY <1>4 DEF StoreSlot
<1>5. CASE PublishTail
  BY <1>5, IncrementIf DEF PublishTail
<1>6. CASE CountEnqueued
  BY <1>6 DEF CountEnqueued
<1>7. CASE DequeueBegin
  BY <1>7 DEF DequeueBegin
<1>8. CASE DequeueEmpty
  BY <1>8 DEF DequeueEmpty
<1>9. CASE DequeueFound
  BY <1>9 DEF DequeueFound
<1>10. CASE ReadSlot
  BY <1>10 DEF ReadSlot
<1>11. CASE ClearSlot
  BY <1>11 DEF ClearSlot
<1>12. CASE PublishHead
  <2>1. head # tail
    BY <1>12 DEF PublishHead
  <2>2. Increment(tail) # Increment(head)
    BY <2>1, IncrementIf, SizeAssumption DEF Slots
  <2> QED
    BY <1>12, <2>2 DEF PublishHead
<1>13. CASE CountDequeued
  BY <1>13 DEF CountDequeued
<1>14. CASE UNCHANGED vars
  BY <1>14
<1> QED
  BY <1>1, <1>2, <1>3, <1>4, <1>5, <1>6, <1>7, <1>8, <1>9, <1>10, <1>11,
     <1>12, <1>13, <1>14 DEF Next, Enqueue, Dequeue

(* The producer and the consumer never access the same slot of buffer_ at  *)
(* the same time, whatever Size is: the plain accesses of enqueue() and    *)
(* dequeue() to buffer_[] are free of data races.                          *)
THEOREM SlotRaceFree == Spec => []NoSlotRace
<1>1. Init => TypeOK /\ IndexInv
  BY TypeInit DEF Init, IndexInv, OwnIndex, TestStillHolds
<1>2. TypeOK /\ IndexInv /\ [Next]_vars => (TypeOK /\ IndexInv)'
  BY TypeNext, IndexNext
<1>3. TypeOK /\ IndexInv => NoSlotRace
  BY DEF IndexInv, OwnIndex, TestStillHolds, NoSlotRace
<1> QED
  BY <1>1, <1>2, <1>3, PTL DEF Spec

-----------------------------------------------------------------------------
\* How the actions move the first slot still to be taken.

LEMMA FirstNext ==
  ASSUME TypeOK, IndexInv, [Next]_vars
  PROVE  /\ ReadSlot => First = head /\ First' = Increment(First)
         /\ ~ ReadSlot => First' = First
<1> USE DEF First, HoldsSlot, TypeOK, vars, ring, counters, producer, consumer
<1>1. ASSUME NEW b \in Items, EnqueueBegin(b)
      PROVE  First' = First /\ ~ ReadSlot
  BY <1>1 DEF EnqueueBegin, ReadSlot
<1>2. CASE EnqueueFull
  BY <1>2 DEF EnqueueFull, ReadSlot
<1>3. CASE EnqueueRoom
  BY <1>3 DEF EnqueueRoom, ReadSlot
<1>4. CASE StoreSlot
  BY <1>4 DEF StoreSlot, ReadSlot
<1>5. CASE PublishTail
  BY <1>5 DEF PublishTail, ReadSlot
<1>6. CASE CountEnqueued
  BY <1>6 DEF CountEnqueued, ReadSlot
<1>7. CASE DequeueBegin
  BY <1>7 DEF DequeueBegin, ReadSlot
<1>8. CASE DequeueEmpty
  BY <1>8 DEF DequeueEmpty, ReadSlot
<1>9. CASE DequeueFound
  BY <1>9 DEF DequeueFound, ReadSlot
<1>10. CASE ReadSlot
  BY <1>10 DEF ReadSlot
<1>11. CASE ClearSlot
  BY <1>11 DEF ClearSlot, ReadSlot
<1>12. CASE PublishHead
  BY <1>12 DEF PublishHead, ReadSlot, IndexInv, OwnIndex
<1>13. CASE CountDequeued
  BY <1>13 DEF CountDequeued, ReadSlot
<1>14. CASE UNCHANGED vars
  BY <1>14 DEF ReadSlot
<1> QED
  BY <1>1, <1>2, <1>3, <1>4, <1>5, <1>6, <1>7, <1>8, <1>9, <1>10, <1>11,
     <1>12, <1>13, <1>14 DEF Next, Enqueue, Dequeue

\* The parts of the invariant that speak of what the slots contain.
DataInv == ArgumentIsItem /\ StoredIsArgument /\ PublishedAreItems

LEMMA ArgumentNext ==
  ASSUME TypeOK, IndexInv, ArgumentIsItem, StoredIsArgument, [Next]_vars
  PROVE  ArgumentIsItem' /\ StoredIsArgument'
<1> USE DEF ArgumentIsItem, StoredIsArgument, IndexInv, OwnIndex, TestStillHolds,
            TypeOK, vars, ring, counters, producer, consumer
<1>1. ASSUME NEW b \in Items, EnqueueBegin(b)
      PROVE  ArgumentIsItem' /\ StoredIsArgument'
  BY <1>1 DEF EnqueueBegin
<1>2. CASE EnqueueFull
  BY <1>2 DEF EnqueueFull
<1>3. CASE EnqueueRoom
  BY <1>3 DEF EnqueueRoom
<1>4. CASE StoreSlot
  BY <1>4 DEF StoreSlot
<1>5. CASE PublishTail
  BY <1>5 DEF PublishTail
<1>6. CASE CountEnqueued
  BY <1>6 DEF CountEnqueued
<1>7. CASE DequeueBegin
  BY <1>7 DEF DequeueBegin
<1>8. CASE DequeueEmpty
  BY <1>8 DEF DequeueEmpty
<1>9. CASE DequeueFound
  BY <1>9 DEF DequeueFound
<1>10. CASE ReadSlot
  BY <1>10 DEF ReadSlot
<1>11. CASE ClearSlot
  BY <1>11 DEF ClearSlot
<1>12. CASE PublishHead
  BY <1>12 DEF PublishHead
<1>13. CASE CountDequeued
  BY <1>13 DEF CountDequeued
<1>14. CASE UNCHANGED vars
  BY <1>14
<1> QED
  BY <1>1, <1>2, <1>3, <1>4, <1>5, <1>6, <1>7, <1>8, <1>9, <1>10, <1>11,
     <1>12, <1>13, <1>14 DEF Next, Enqueue, Dequeue

LEMMA PublishedNext ==
  ASSUME TypeOK, IndexInv, DataInv, [Next]_vars
  PROVE  PublishedAreItems'
<1> SUFFICES ASSUME NEW i \in Slots, Occupied(i)' PROVE buffer'[i] \in Items
  BY DEF PublishedAreItems
<1> USE DEF TypeOK, vars, ring, counters, producer, consumer
<1>1. First \in Slots /\ tail \in Slots
  BY FirstType
<1>2. Occupied(i) => buffer[i] \in Items
  BY DEF DataInv, PublishedAreItems
<1>3. CASE StoreSlot
  <2>1. pbuf \in Items
    BY <1>3 DEF StoreSlot, DataInv, ArgumentIsItem
  <2>2. Occupied(i)
    BY <1>3, FirstNext DEF StoreSlot, ReadSlot, Occupied
  <2> QED
    BY <1>2, <1>3, <2>1, <2>2 DEF StoreSlot
<1>4. CASE PublishTail
  <2>1. buffer[tail] \in Items
    BY <1>4 DEF PublishTail, DataInv, ArgumentIsItem, StoredIsArgument
  <2>2. First' = First /\ buffer' = buffer /\ tail' = Increment(tail)
    BY <1>4, FirstNext DEF PublishTail, ReadSlot, IndexInv, OwnIndex
  <2>3. Increment(tail) # First
    BY <1>4, IncrementInjective
       DEF PublishTail, First, HoldsSlot, IndexInv, TestStillHolds
  <2>4. Occupied(i) \/ i = tail
    BY <1>1, <2>2, <2>3, WindowGrows DEF Occupied
  <2> QED
    BY <1>2, <2>1, <2>2, <2>4
<1>5. CASE ReadSlot
  <2>1. First = head /\ First' = Increment(First) /\ UNCHANGED <<buffer, tail>>
    BY <1>5, FirstNext DEF ReadSlot
  <2>2. First # tail
    BY <1>5, <2>1 DEF ReadSlot, IndexInv, TestStillHolds
  <2>3. Occupied(i)
    BY <1>1, <2>1, <2>2, WindowShrinks DEF Occupied
  <2> QED
    BY <1>2, <2>1, <2>3
<1>6. CASE ClearSlot
  <2>1. First' = First /\ tail' = tail
    BY <1>6, FirstNext DEF ClearSlot, ReadSlot
  <2>2. First = Increment(head) /\ current_head = head /\ head # tail
    BY <1>6 DEF ClearSlot, First, HoldsSlot, IndexInv, OwnIndex, TestStillHolds
  <2>3. Occupied(i)
    BY <2>1 DEF Occupied
  <2>4. i # head
    BY <1>1, <2>2, <2>3, WindowShrinks DEF Occupied
  <2>5. buffer'[i] = buffer[i]
    BY <1>6, <2>2, <2>4 DEF ClearSlot
  <2> QED
    BY <1>2, <2>3, <2>5
<1>7. CASE ~ (StoreSlot \/ PublishTail \/ ReadSlot \/ ClearSlot)
  <2>1. UNCHANGED <<buffer, tail>>
    BY <1>7 DEF Next, Enqueue, Dequeue, EnqueueBegin, EnqueueFull, EnqueueRoom,
       CountEnqueued, DequeueBegin, DequeueEmpty, DequeueFound, PublishHead, CountDequeued
  <2>2. Occupied(i)
    BY <1>7, <2>1, FirstNext DEF Occupied
  <2> QED
    BY <1>2, <2>1, <2>2
<1> QED
  BY <1>3, <1>4, <1>5, <1>6, <1>7

LEMMA UnusedNext ==
  ASSUME TypeOK, IndexInv, UnusedSlotsAreNull, [Next]_vars
  PROVE  UnusedSlotsAreNull'
<1> SUFFICES ASSUME Instrumented, NEW i \in Slots,
                    ~ Occupied(i)', ~ (ppc' = "publish" /\ i = current_tail'),
                    ~ (cpc' = "clear" /\ i = current_head')
             PROVE  buffer'[i] = Null
  BY DEF UnusedSlotsAreNull
<1> USE DEF TypeOK, vars, ring, counters, producer, consumer
<1>1. First \in Slots /\ tail \in Slots
  BY FirstType
<1>2. \/ Occupied(i)
      \/ ppc = "publish" /\ i = current_tail
      \/ cpc = "clear" /\ i = current_head
      \/ buffer[i] = Null
  BY DEF UnusedSlotsAreNull
<1>3. CASE StoreSlot
  <2>1. First' = First /\ UNCHANGED <<tail, cpc, current_head, current_tail>>
        /\ ppc = "store" /\ ppc' = "publish"
    BY <1>3, FirstNext DEF StoreSlot, ReadSlot
  <2>2. i # current_tail /\ buffer'[i] = buffer[i]
    BY <1>3, <2>1 DEF StoreSlot
  <2> QED
    BY <1>2, <2>1, <2>2 DEF Occupied
<1>4. CASE PublishTail
  <2>1. First' = First /\ UNCHANGED <<buffer, cpc, current_head>> /\ tail' = Increment(tail)
        /\ current_tail = tail
    BY <1>4, FirstNext DEF PublishTail, ReadSlot, IndexInv, OwnIndex
  <2>2. Increment(tail) # First
    BY <1>4, IncrementInjective
       DEF PublishTail, First, HoldsSlot, IndexInv, TestStillHolds
  <2>3. ~ Occupied(i) /\ i # tail
    BY <1>1, <2>1, <2>2, WindowGrows DEF Occupied
  <2> QED
    BY <1>2, <2>1, <2>3
<1>5. CASE ReadSlot
  <2>1. /\ First = head /\ First' = Increment(First) /\ UNCHANGED <<buffer, tail, ppc, current_tail>>
        /\ cpc = "read" /\ cpc' = "clear" /\ current_head' = current_head /\ current_head = head
    BY <1>5, FirstNext DEF ReadSlot, IndexInv, OwnIndex
  <2>2. First # tail
    BY <1>5, <2>1 DEF ReadSlot, IndexInv, TestStillHolds
  <2>3. ~ Occupied(i)
    BY <1>1, <2>1, <2>2, WindowShrinks DEF Occupied
  <2> QED
    BY <1>2, <2>1, <2>3
<1>6. CASE ClearSlot
  <2>1. First' = First /\ UNCHANGED <<tail, ppc, current_tail>>
        /\ buffer' = [buffer EXCEPT ![current_head] = Null]
    BY <1>6, FirstNext DEF ClearSlot, ReadSlot
  <2>2. CASE i = current_head
    BY <2>1, <2>2
  <2>3. CASE i # current_head
    BY <1>2, <2>1, <2>3 DEF Occupied
  <2> QED
    BY <2>2, <2>3
<1>7. CASE ~ (StoreSlot \/ PublishTail \/ ReadSlot \/ ClearSlot)
  <2>1. UNCHANGED <<buffer, tail>>
    BY <1>7 DEF Next, Enqueue, Dequeue, EnqueueBegin, EnqueueFull, EnqueueRoom,
       CountEnqueued, DequeueBegin, DequeueEmpty, DequeueFound, PublishHead, CountDequeued
  <2>2. ppc = "publish" => ppc' = "publish" /\ current_tail' = current_tail
    BY <1>7 DEF Next, Enqueue, Dequeue, EnqueueBegin, EnqueueFull, EnqueueRoom,
       CountEnqueued, DequeueBegin, DequeueEmpty, DequeueFound, PublishHead, CountDequeued
  <2>3. cpc = "clear" => cpc' = "clear" /\ current_head' = current_head
    BY <1>7 DEF Next, Enqueue, Dequeue, EnqueueBegin, EnqueueFull, EnqueueRoom,
       CountEnqueued, DequeueBegin, DequeueEmpty, DequeueFound, PublishHead, CountDequeued
  <2>4. ~ Occupied(i)
    BY <1>7, <2>1, FirstNext DEF Occupied
  <2> QED
    BY <1>2, <2>1, <2>2, <2>3, <2>4
<1> QED
  BY <1>3, <1>4, <1>5, <1>6, <1>7

LEMMA RingInvNext == RingInv /\ [Next]_vars => RingInv'
<1> SUFFICES ASSUME RingInv, [Next]_vars PROVE RingInv'
  OBVIOUS
<1>1. TypeOK /\ IndexInv /\ DataInv
  BY DEF RingInv, IndexInv, DataInv
<1>2. TypeOK' /\ IndexInv'
  BY <1>1, TypeNext, IndexNext
<1>3. ArgumentIsItem' /\ StoredIsArgument'
  BY <1>1, ArgumentNext DEF DataInv
<1>4. PublishedAreItems'
  BY <1>1, PublishedNext
<1>5. UnusedSlotsAreNull'
  BY <1>1, UnusedNext DEF RingInv
<1> QED
  BY <1>2, <1>3, <1>4, <1>5 DEF RingInv, IndexInv

(* The inductive invariant of the ring: every published slot holds an      *)
(* item, so that dequeue() never hands out nullptr or a stale pointer.     *)
THEOREM RingInvariant == Spec => []RingInv
  BY RingInvInit, RingInvNext, PTL DEF Spec

(* The clear in dequeue() leaves no pointer behind: a slot that is neither *)
(* published nor in the hands of a thread contains nullptr.                *)
THEOREM UnusedSlotsCleared == Spec => []UnusedSlotsAreNull
<1>1. RingInv => UnusedSlotsAreNull
  BY DEF RingInv
<1> QED
  BY <1>1, RingInvariant, PTL

-----------------------------------------------------------------------------
\* The items in the ring as a sequence.

Position(f, k) == (f + k - 1) % Size

LEMMA PositionIf ==
  ASSUME NEW f \in Slots, NEW k \in 1 .. Size
  PROVE  /\ Position(f, k) = IF f + k - 1 < Size THEN f + k - 1 ELSE f + k - 1 - Size
         /\ Position(f, k) \in Slots
<1>1. k - 1 \in Slots /\ f + (k - 1) = f + k - 1
  BY SlotsAreIntegers
<1> QED
  BY <1>1, WrapIf DEF Position

\* The slot after the last of a window is the one its end index names.
LEMMA PositionAfterLast ==
  ASSUME NEW f \in Slots, NEW t \in Slots
  PROVE  Position(f, Distance(f, t) + 1) = t
<1>1. /\ Distance(f, t) = IF t >= f THEN t - f ELSE Size - f + t
      /\ Distance(f, t) \in Slots
  BY DistanceIf
<1>2. Distance(f, t) + 1 \in 1 .. Size
  BY <1>1, SlotsAreIntegers
<1>3. Position(f, Distance(f, t) + 1) =
        IF f + (Distance(f, t) + 1) - 1 < Size THEN f + (Distance(f, t) + 1) - 1
                                               ELSE f + (Distance(f, t) + 1) - 1 - Size
  BY <1>2, PositionIf
<1> QED
  BY <1>1, <1>3, SlotsAreIntegers

\* Starting one slot later reaches the same slot one step earlier.
LEMMA PositionShift ==
  ASSUME NEW f \in Slots, NEW k \in 1 .. Size - 1
  PROVE  Position(Increment(f), k) = Position(f, k + 1)
<1>1. /\ Increment(f) = IF f + 1 = Size THEN 0 ELSE f + 1
      /\ Increment(f) \in Slots
  BY IncrementIf
<1>2. k \in 1 .. Size /\ k + 1 \in 1 .. Size
  BY SlotsAreIntegers
<1>3. Position(Increment(f), k) =
        IF Increment(f) + k - 1 < Size THEN Increment(f) + k - 1
                                       ELSE Increment(f) + k - 1 - Size
  BY <1>1, <1>2, PositionIf
<1>4. Position(f, k + 1) = IF f + (k + 1) - 1 < Size THEN f + (k + 1) - 1
                                                     ELSE f + (k + 1) - 1 - Size
  BY <1>2, PositionIf
<1> QED
  BY <1>1, <1>3, <1>4, SlotsAreIntegers

LEMMA LengthGrows ==
  ASSUME NEW f \in Slots, NEW t \in Slots, Increment(t) # f
  PROVE  /\ Distance(f, t) < Size - 1
         /\ Distance(f, Increment(t)) = Distance(f, t) + 1
<1>1. /\ Increment(t) = IF t + 1 = Size THEN 0 ELSE t + 1
      /\ Increment(t) \in Slots
  BY IncrementIf
<1>2. Distance(f, t) = IF t >= f THEN t - f ELSE Size - f + t
  BY DistanceIf
<1>3. Distance(f, Increment(t)) =
        IF Increment(t) >= f THEN Increment(t) - f ELSE Size - f + Increment(t)
  BY <1>1, DistanceIf
<1> QED
  BY <1>1, <1>2, <1>3, SlotsAreIntegers

LEMMA LengthShrinks ==
  ASSUME NEW f \in Slots, NEW t \in Slots, f # t
  PROVE  /\ Distance(f, t) \in Nat \ {0}
         /\ Distance(Increment(f), t) = Distance(f, t) - 1
<1>1. /\ Increment(f) = IF f + 1 = Size THEN 0 ELSE f + 1
      /\ Increment(f) \in Slots
  BY IncrementIf
<1>2. Distance(f, t) = IF t >= f THEN t - f ELSE Size - f + t
  BY DistanceIf
<1>3. Distance(Increment(f), t) =
        IF t >= Increment(f) THEN t - Increment(f) ELSE Size - Increment(f) + t
  BY <1>1, DistanceIf
<1> QED
  BY <1>1, <1>2, <1>3, SlotsAreIntegers

\* The k-th slot of a window lies in it.
LEMMA PositionInWindow ==
  ASSUME NEW f \in Slots, NEW t \in Slots, NEW k \in 1 .. Distance(f, t)
  PROVE  /\ Position(f, k) \in Slots
         /\ Distance(f, Position(f, k)) = k - 1
         /\ Distance(f, Position(f, k)) < Distance(f, t)
<1>1. Distance(f, t) \in Slots
  BY DistanceIf
<1>2. k \in 1 .. Size
  BY <1>1, SlotsAreIntegers
<1>3. /\ Position(f, k) = IF f + k - 1 < Size THEN f + k - 1 ELSE f + k - 1 - Size
      /\ Position(f, k) \in Slots
  BY <1>2, PositionIf
<1>4. Distance(f, Position(f, k)) =
        IF Position(f, k) >= f THEN Position(f, k) - f ELSE Size - f + Position(f, k)
  BY <1>3, DistanceIf
<1> QED
  BY <1>1, <1>3, <1>4, SlotsAreIntegers

LEMMA ContentsIsSeq ==
  ASSUME TypeOK
  PROVE  /\ Contents \in Seq(Items \cup {Null})
         /\ Len(Contents) = Distance(First, tail)
         /\ \A k \in 1 .. Distance(First, tail) :
              Contents[k] = buffer[Position(First, k)]
<1>1. First \in Slots /\ tail \in Slots
  BY FirstType
<1>2. Distance(First, tail) \in Nat
  BY <1>1, DistanceIf, SizeAssumption DEF Slots
<1>3. \A k \in 1 .. Distance(First, tail) :
        buffer[Position(First, k)] \in Items \cup {Null}
  BY <1>1, PositionInWindow DEF TypeOK
<1>4. Contents = [k \in 1 .. Distance(First, tail) |-> buffer[Position(First, k)]]
  BY DEF Contents, Position
<1> QED
  BY <1>2, <1>3, <1>4

\* Contents changes only when its window does, or a slot in it is written.
LEMMA ContentsUnchanged ==
  ASSUME TypeOK, TypeOK', First' = First, tail' = tail,
         \A i \in Slots : Occupied(i) => buffer'[i] = buffer[i]
  PROVE  Contents' = Contents
<1>1. First \in Slots /\ tail \in Slots
  BY FirstType
<1>2. \A k \in 1 .. Distance(First, tail) :
        buffer'[Position(First, k)] = buffer[Position(First, k)]
  BY <1>1, PositionInWindow DEF Occupied
<1> QED
  BY <1>2 DEF Contents, Position

LEMMA StutterSteps ==
  ASSUME RingInv, [Next]_vars,
         ~ (EnqueueFull \/ PublishTail \/ DequeueEmpty \/ ReadSlot)
  PROVE  UNCHANGED Fifo!fifoVars
<1> USE DEF vars, ring, counters, producer, consumer
<1>1. TypeOK /\ IndexInv /\ TypeOK' /\ First' = First
  BY TypeNext, FirstNext DEF RingInv, IndexInv
<1>2. First \in Slots /\ tail \in Slots
  BY <1>1, FirstType
<1>3. UNCHANGED <<tail, cbuf, penqueued, cdequeued>>
  BY DEF Next, Enqueue, Dequeue, EnqueueBegin, EnqueueRoom, StoreSlot, CountEnqueued,
     DequeueBegin, DequeueFound, ClearSlot, PublishHead, CountDequeued
<1>4. ASSUME NEW i \in Slots, Occupied(i) PROVE buffer'[i] = buffer[i]
  <2>1. CASE StoreSlot
    <3>1. i # tail
      <4>1. Distance(First, tail) \in Int
        BY <1>2, DistanceIf, SlotsAreIntegers
      <4> QED
        BY <1>4, <4>1 DEF Occupied
    <3> QED
      BY <2>1, <3>1 DEF StoreSlot, RingInv, OwnIndex
  <2>2. CASE ClearSlot
    <3>1. First = Increment(head) /\ current_head = head /\ head # tail /\ head \in Slots
      BY <2>2 DEF ClearSlot, First, HoldsSlot, RingInv, OwnIndex, TestStillHolds, TypeOK
    <3>2. i # head
      BY <1>2, <1>4, <3>1, WindowShrinks DEF Occupied
    <3> QED
      BY <2>2, <3>1, <3>2 DEF ClearSlot
  <2>3. CASE ~ (StoreSlot \/ ClearSlot)
    BY <2>3 DEF Next, Enqueue, Dequeue, EnqueueBegin, EnqueueRoom, CountEnqueued,
       DequeueBegin, DequeueFound, PublishHead, CountDequeued
  <2> QED
    BY <2>1, <2>2, <2>3
<1>5. Contents' = Contents
  BY <1>1, <1>3, <1>4, ContentsUnchanged
<1> QED
  BY <1>3, <1>5 DEF Fifo!fifoVars

LEMMA PutStep ==
  ASSUME RingInv, [Next]_vars, PublishTail
  PROVE  Fifo!Put(pbuf) /\ pbuf \in Items
<1> DEFINE D == Distance(First, tail)
<1>1. TypeOK /\ IndexInv /\ TypeOK'
  BY TypeNext DEF RingInv, IndexInv
<1>2. First \in Slots /\ tail \in Slots
  BY <1>1, FirstType
<1>3. First' = First /\ buffer' = buffer /\ tail' = Increment(tail)
  BY <1>1, FirstNext DEF PublishTail, ReadSlot, IndexInv, OwnIndex, ring, consumer
<1>4. Increment(tail) # First
  BY <1>1, IncrementInjective
     DEF PublishTail, First, HoldsSlot, IndexInv, TestStillHolds, TypeOK
<1>5. /\ D \in Nat /\ D < Size - 1
      /\ Distance(First, Increment(tail)) = D + 1
  BY <1>2, <1>4, LengthGrows, DistanceIf, SlotsAreIntegers
<1>6. pbuf \in Items /\ buffer[tail] = pbuf
  BY DEF PublishTail, RingInv, ArgumentIsItem, StoredIsArgument
<1>7. Position(First, D + 1) = tail
  BY <1>2, PositionAfterLast
<1>8. /\ Contents \in Seq(Items \cup {Null})
      /\ Len(Contents) = D
      /\ \A k \in 1 .. D : Contents[k] = buffer[Position(First, k)]
  BY <1>1, ContentsIsSeq
<1>9. Contents' = [k \in 1 .. D + 1 |-> buffer[Position(First, k)]]
  BY <1>3, <1>5 DEF Contents, Position
<1>10. Contents' = Append(Contents, pbuf)
  <2>1. D + 1 \in Nat /\ \A k \in 1 .. D + 1 : k \in 1 .. D \/ k = D + 1
    BY <1>5
  <2>2. \A k \in 1 .. D + 1 : buffer[Position(First, k)] =
                               IF k \in 1 .. D THEN Contents[k] ELSE pbuf
    BY <1>6, <1>7, <1>8, <2>1
  <2>3. \A k \in 1 .. D + 1 : buffer[Position(First, k)] \in Items \cup {Null}
    BY <1>6, <1>8, <2>1, <2>2, ElementOfSeq
  <2>4. /\ Contents' \in Seq(Items \cup {Null})
        /\ Len(Contents') = D + 1
        /\ \A k \in 1 .. D + 1 : Contents'[k] = buffer[Position(First, k)]
    BY <1>9, <2>1, <2>3
  <2>5. /\ Append(Contents, pbuf) \in Seq(Items \cup {Null})
        /\ Len(Append(Contents, pbuf)) = D + 1
        /\ \A k \in 1 .. D + 1 :
             Append(Contents, pbuf)[k] = IF k \in 1 .. D THEN Contents[k] ELSE pbuf
    BY <1>5, <1>6, <1>8, <2>1, AppendProperties
  <2> QED
    BY <2>2, <2>4, <2>5, SeqEqual
<1> QED
  BY <1>5, <1>6, <1>8, <1>10 DEF Fifo!Put, PublishTail, consumer

LEMMA TakeStep ==
  ASSUME RingInv, [Next]_vars, ReadSlot
  PROVE  Fifo!Take
<1> DEFINE D == Distance(First, tail)
<1>1. TypeOK /\ IndexInv /\ TypeOK'
  BY TypeNext DEF RingInv, IndexInv
<1>2. First \in Slots /\ tail \in Slots
  BY <1>1, FirstType
<1>3. First = head /\ First' = Increment(First) /\ UNCHANGED <<buffer, tail>>
  BY <1>1, FirstNext DEF ReadSlot, ring
<1>4. First # tail /\ current_head = First
  BY <1>1, <1>3 DEF ReadSlot, IndexInv, OwnIndex, TestStillHolds
<1>5. D \in Nat \ {0} /\ D < Size /\ Distance(Increment(First), tail) = D - 1
  BY <1>2, <1>4, LengthShrinks, DistanceIf, SlotsAreIntegers
<1>6. Position(First, 1) = First
  BY <1>2, PositionIf, SlotsAreIntegers
<1>7. ASSUME NEW k \in 1 .. D - 1
      PROVE  Position(Increment(First), k) = Position(First, k + 1)
  BY <1>2, <1>5, PositionShift, SlotsAreIntegers
<1>8. /\ Contents \in Seq(Items \cup {Null})
      /\ Len(Contents) = D
      /\ \A k \in 1 .. D : Contents[k] = buffer[Position(First, k)]
  BY <1>1, ContentsIsSeq
<1>9. Contents' = [k \in 1 .. D - 1 |-> buffer[Position(Increment(First), k)]]
  BY <1>3, <1>5 DEF Contents, Position
<1>10. Contents # <<>> /\ Head(Contents) = buffer[First]
  BY <1>5, <1>6, <1>8
<1>11. Contents' = Tail(Contents)
  <2>1. D - 1 \in Nat /\ \A k \in 1 .. D - 1 : k + 1 \in 1 .. D
    BY <1>5
  <2>2. \A k \in 1 .. D - 1 : buffer[Position(Increment(First), k)] = Contents[k + 1]
    BY <1>7, <1>8, <2>1
  <2>3. \A k \in 1 .. D - 1 : Contents[k + 1] \in Items \cup {Null}
    BY <1>8, <2>1, ElementOfSeq
  <2>4. /\ Contents' \in Seq(Items \cup {Null})
        /\ Len(Contents') = D - 1
        /\ \A k \in 1 .. D - 1 : Contents'[k] = Contents[k + 1]
    BY <1>9, <2>1, <2>2, <2>3
  <2>5. /\ Tail(Contents) \in Seq(Items \cup {Null})
        /\ Len(Tail(Contents)) = D - 1
        /\ \A k \in 1 .. D - 1 : Tail(Contents)[k] = Contents[k + 1]
    BY <1>8, <1>10, HeadTailProperties
  <2> QED
    BY <2>4, <2>5, SeqEqual
<1> QED
  BY <1>4, <1>10, <1>11 DEF Fifo!Take, ReadSlot, producer

LEMMA RefuseStep ==
  ASSUME RingInv, [Next]_vars, EnqueueFull
  PROVE  Fifo!Refuse
<1>1. TypeOK /\ IndexInv /\ TypeOK'
  BY TypeNext DEF RingInv, IndexInv
<1>2. First \in Slots /\ tail \in Slots
  BY <1>1, FirstType
<1>3. First' = First /\ UNCHANGED <<buffer, tail>>
  BY <1>1, FirstNext DEF EnqueueFull, ReadSlot, ring, consumer
<1>4. Contents' = Contents
  BY <1>3 DEF Contents
<1>5. Len(Contents) = Distance(First, tail)
  BY <1>1, ContentsIsSeq
<1>6. head \in Slots /\ head = Increment(tail) /\ First \in {head, Increment(head)}
  BY <1>1 DEF EnqueueFull, First, IndexInv, OwnIndex, TypeOK
<1>7. Distance(First, tail) + 1 >= Size - 1
  <2>1. Distance(First, tail) = IF tail >= First THEN tail - First ELSE Size - First + tail
    BY <1>2, DistanceIf
  <2>2. head = IF tail + 1 = Size THEN 0 ELSE tail + 1
    BY <1>2, <1>6, IncrementIf
  <2>3. First = head \/ First = IF head + 1 = Size THEN 0 ELSE head + 1
    BY <1>6, IncrementIf
  <2> QED
    BY <1>2, <1>6, <2>1, <2>2, <2>3, SlotsAreIntegers
<1> QED
  BY <1>4, <1>5, <1>7 DEF Fifo!Refuse, EnqueueFull, consumer

LEMMA FindEmptyStep ==
  ASSUME RingInv, [Next]_vars, DequeueEmpty
  PROVE  Fifo!FindEmpty
<1>1. TypeOK /\ IndexInv /\ TypeOK'
  BY TypeNext DEF RingInv, IndexInv
<1>2. First = head /\ head = tail
  BY <1>1 DEF DequeueEmpty, First, HoldsSlot, IndexInv, OwnIndex
<1>3. First' = First /\ UNCHANGED <<buffer, tail>>
  BY <1>1, FirstNext DEF DequeueEmpty, ReadSlot, ring
<1>4. Contents' = Contents
  BY <1>3 DEF Contents
<1>5. Distance(First, tail) = 0
  BY <1>1, <1>2, FirstType, DistanceIf, SlotsAreIntegers
<1>6. Contents = <<>>
  BY <1>5 DEF Contents
<1> QED
  BY <1>4, <1>6 DEF Fifo!FindEmpty, DequeueEmpty, producer

LEMMA FifoInit == Init => Fifo!Init
<1> SUFFICES ASSUME Init PROVE Fifo!Init
  OBVIOUS
<1>1. First = 0 /\ tail = 0 /\ 0 \in Slots
  BY SlotsAreIntegers DEF Init, First, HoldsSlot
<1>2. Distance(First, tail) = 0
  BY <1>1, DistanceIf
<1>3. Contents = <<>>
  BY <1>2 DEF Contents
<1> QED
  BY <1>3 DEF Init, Fifo!Init

(* The ring, at the granularity of single loads and stores of head_, tail_ *)
(* and buffer_[], implements the bounded FIFO for every Size: whatever the *)
(* interleaving of enqueue() and dequeue(), nothing is lost, duplicated,   *)
(* reordered or read too early, and false is returned only when it should. *)
THEOREM RingImplementsFifo == Spec => ImplementsFifo
<1>1. RingInv /\ [Next]_vars => [Fifo!Next]_(Fifo!fifoVars)
  <2> SUFFICES ASSUME RingInv, [Next]_vars PROVE [Fifo!Next]_(Fifo!fifoVars)
    OBVIOUS
  <2>1. CASE PublishTail
    BY <2>1, PutStep DEF Fifo!Next
  <2>2. CASE ReadSlot
    BY <2>2, TakeStep DEF Fifo!Next
  <2>3. CASE EnqueueFull
    BY <2>3, RefuseStep DEF Fifo!Next
  <2>4. CASE DequeueEmpty
    BY <2>4, FindEmptyStep DEF Fifo!Next
  <2>5. CASE ~ (EnqueueFull \/ PublishTail \/ DequeueEmpty \/ ReadSlot)
    BY <2>5, StutterSteps
  <2> QED
    BY <2>1, <2>2, <2>3, <2>4, <2>5
<1> QED
  BY <1>1, FifoInit, RingInvInit, RingInvNext, PTL DEF Spec, Fifo!Spec, ImplementsFifo

-----------------------------------------------------------------------------
\* The counters of getStatistics().

\* What the counters will be ahead of the ring when both threads have counted.
Balance ==
  total_enqueued + (IF ppc = "count" THEN 1 ELSE 0)
    - total_dequeued - (IF cpc = "count" THEN 1 ELSE 0) - Distance(head, tail)

\* A counter wraps by CounterMod; no step changes the balance by anything else.
Balanced == Instrumented => \E k \in Int : Balance = k * CounterMod

LEMMA CountUpWraps ==
  ASSUME Instrumented, NEW c \in 0 .. CounterMod - 1
  PROVE  CountUp(c) = c + 1 \/ CountUp(c) = c + 1 - CounterMod
  BY CounterAssumption, SMTT(30) DEF CountUp

LEMMA BalanceWraps ==
  ASSUME TypeOK, TypeOK', IndexInv, Instrumented, [Next]_vars
  PROVE  /\ Balance \in Int
         /\ \/ Balance' = Balance
            \/ Balance' = Balance + CounterMod
            \/ Balance' = Balance - CounterMod
<1> USE DEF vars, ring, counters, producer, consumer
<1>1. /\ head \in Slots /\ tail \in Slots /\ Distance(head, tail) \in Int
      /\ total_enqueued \in 0 .. CounterMod - 1 /\ total_dequeued \in 0 .. CounterMod - 1
      /\ total_enqueued \in Int /\ total_dequeued \in Int /\ CounterMod \in Int
  <2>1. head \in Slots /\ tail \in Slots
    BY DEF TypeOK
  <2>2. Distance(head, tail) \in Int
    BY <2>1, DistanceIf, SlotsAreIntegers
  <2> QED
    BY <2>1, <2>2, CounterAssumption DEF TypeOK
<1>2. CASE PublishTail
  <2>1. /\ ppc = "publish" /\ ppc' = "count" /\ tail' = Increment(tail)
        /\ UNCHANGED <<head, cpc, total_enqueued, total_dequeued>> /\ Increment(tail) # head
    BY <1>2 DEF PublishTail, IndexInv, OwnIndex, TestStillHolds
  <2>2. Distance(head', tail') = Distance(head, tail) + 1
    BY <1>1, <2>1, LengthGrows
  <2> QED
    BY <1>1, <2>1, <2>2 DEF Balance
<1>3. CASE CountEnqueued
  <2>1. /\ ppc = "count" /\ ppc' = "idle" /\ total_enqueued' = CountUp(total_enqueued)
        /\ UNCHANGED <<head, tail, cpc, total_dequeued>>
    BY <1>3 DEF CountEnqueued
  <2>2. total_enqueued' = total_enqueued + 1 \/ total_enqueued' = total_enqueued + 1 - CounterMod
    BY <1>1, <2>1, CountUpWraps
  <2> QED
    BY <1>1, <2>1, <2>2 DEF Balance
<1>4. CASE PublishHead
  <2>1. /\ cpc = "publish" /\ cpc' = "count" /\ head' = Increment(head)
        /\ UNCHANGED <<tail, ppc, total_enqueued, total_dequeued>> /\ head # tail
    BY <1>4 DEF PublishHead, IndexInv, OwnIndex, TestStillHolds
  <2>2. Distance(head', tail') = Distance(head, tail) - 1
    BY <1>1, <2>1, LengthShrinks
  <2> QED
    BY <1>1, <2>1, <2>2 DEF Balance
<1>5. CASE CountDequeued
  <2>1. /\ cpc = "count" /\ cpc' = "idle" /\ total_dequeued' = CountUp(total_dequeued)
        /\ UNCHANGED <<head, tail, ppc, total_enqueued>>
    BY <1>5 DEF CountDequeued
  <2>2. total_dequeued' = total_dequeued + 1 \/ total_dequeued' = total_dequeued + 1 - CounterMod
    BY <1>1, <2>1, CountUpWraps
  <2> QED
    BY <1>1, <2>1, <2>2 DEF Balance
<1>6. CASE ~ (PublishTail \/ CountEnqueued \/ PublishHead \/ CountDequeued)
  <2>1. UNCHANGED <<head, tail, total_enqueued, total_dequeued>>
    BY <1>6 DEF Next, Enqueue, Dequeue, EnqueueBegin, EnqueueFull, EnqueueRoom, StoreSlot,
       DequeueBegin, DequeueEmpty, DequeueFound, ReadSlot, ClearSlot
  <2>2. (ppc' = "count" <=> ppc = "count") /\ (cpc' = "count" <=> cpc = "count")
    BY <1>6 DEF Next, Enqueue, Dequeue, EnqueueBegin, EnqueueFull, EnqueueRoom, StoreSlot,
       DequeueBegin, DequeueEmpty, DequeueFound, ReadSlot, ClearSlot
  <2> QED
    BY <1>1, <2>1, <2>2 DEF Balance
<1> QED
  BY <1>2, <1>3, <1>4, <1>5, <1>6

LEMMA BalancedNext ==
  ASSUME TypeOK, TypeOK', IndexInv, Balanced, [Next]_vars
  PROVE  Balanced'
<1> SUFFICES ASSUME Instrumented PROVE \E k \in Int : Balance' = k * CounterMod
  BY DEF Balanced
<1>1. PICK k \in Int : Balance = k * CounterMod
  BY DEF Balanced
<1>2. CounterMod \in Int
  BY CounterAssumption
<1>3. /\ k * CounterMod + CounterMod = (k + 1) * CounterMod
      /\ k * CounterMod - CounterMod = (k - 1) * CounterMod
  BY <1>2
<1> QED
  BY <1>1, <1>3, BalanceWraps

(* total_enqueued_ and total_dequeued_ account for the slots in use, up to *)
(* the operation each thread has still to count, for any width at which    *)
(* the counters wrap.                                                      *)
THEOREM CountersAddUp == Spec => []CountersAccountForSlots
<1>1. Init => TypeOK /\ IndexInv /\ Balanced
  <2> SUFFICES ASSUME Init PROVE IndexInv /\ Balance = 0 * CounterMod
    BY TypeInit DEF Balanced
  <2>1. Distance(0, 0) = 0
    BY SlotsAreIntegers, DistanceIf
  <2>2. IndexInv
    BY DEF Init, IndexInv, OwnIndex, TestStillHolds
  <2> QED
    BY <2>1, <2>2, CounterAssumption DEF Init, Balance
<1>2. TypeOK /\ IndexInv /\ Balanced /\ [Next]_vars => (TypeOK /\ IndexInv /\ Balanced)'
  BY TypeNext, IndexNext, BalancedNext
<1>3. Balanced => CountersAccountForSlots
  <2> SUFFICES ASSUME Instrumented, Balanced PROVE Balance % CounterMod = 0
    BY DEF CountersAccountForSlots, Balance
  <2>1. PICK k \in Int : Balance = k * CounterMod
    BY DEF Balanced
  <2>2. (k * CounterMod) % CounterMod = 0
    BY CounterAssumption, SMTT(30)
  <2> QED
    BY <2>1, <2>2
<1> QED
  BY <1>1, <1>2, <1>3, PTL DEF Spec
=============================================================================
