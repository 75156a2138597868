------------------------- MODULE BufferPool_proofs -------------------------
(***************************************************************************)
(* Proofs about the buffer pool for every PoolSize and QueueCapacity: the  *)
(* free count and the buffers in circulation add up, the free list never   *)
(* overflows, the message queue has room for every allocated buffer, and   *)
(* until an allocation and a deallocation have been on their way to one    *)
(* slot every buffer is in one place and the pool is an atomic FreePool.   *)
(***************************************************************************)
EXTENDS BufferPool, TLAPS, SequenceTheorems, FiniteSetTheorems

LEMMA SizeType == PoolSize \in Int /\ PoolSize > 0 /\ 0 \in Buffers /\ Slots = Buffers
  BY PoolSizeAssumption DEF Buffers, Slots

LEMMA SlotBelow ==
  ASSUME NEW c \in 0 .. PoolSize, c > 0
  PROVE  c - 1 \in Slots
  BY SizeType DEF Slots

LEMMA PoolInvInit == Init => PoolInv
<1> SUFFICES ASSUME Init PROVE PoolInv
  OBVIOUS
<1>1. TypeOK
  BY SizeType DEF Init, TypeOK, Labels, Threads
<1>2. CountsAddUp
  BY SizeType DEF Init, CountsAddUp, HasTaken, One, Threads
<1> QED
  BY <1>1, <1>2 DEF Init, PoolInv, NoOverflow, SlotInRange

-----------------------------------------------------------------------------
\* Each action preserves the invariant.

LEMMA AllocLoadStep ==
  ASSUME PoolInv, NEW t \in Threads, AllocLoad(t)
  PROVE  PoolInv'
<1> USE DEF PoolInv, TypeOK, AllocLoad, Goto, Threads, Labels
<1>1. TypeOK'
  BY SizeType
<1>2. CountsAddUp'
  BY DEF CountsAddUp, HasTaken, One
<1>3. NoOverflow' /\ SlotInRange'
  BY DEF NoOverflow, SlotInRange
<1> QED
  BY <1>1, <1>2, <1>3

LEMMA AllocExhaustedStep ==
  ASSUME PoolInv, NEW t \in Threads, AllocExhausted(t)
  PROVE  PoolInv'
<1> USE DEF PoolInv, TypeOK, AllocExhausted, Goto, Threads, Labels
<1>1. TypeOK'
  BY SizeType DEF SlotInRange, Slots
<1>2. CountsAddUp'
  BY SizeType DEF CountsAddUp, HasTaken, One
<1>3. NoOverflow' /\ SlotInRange'
  BY SizeType DEF NoOverflow, SlotInRange, CountsAddUp, HasTaken, One
<1> QED
  BY <1>1, <1>2, <1>3

LEMMA AllocCasStep ==
  ASSUME PoolInv, NEW t \in Threads, AllocCas(t)
  PROVE  PoolInv'
<1> USE DEF PoolInv, TypeOK, AllocCas, Goto, Threads, Labels
<1>1. TypeOK'
  <2>1. overlapped' \in BOOLEAN
    OBVIOUS
  <2>2. free_count' \in 0 .. PoolSize
    BY SizeType
  <2>3. pc' \in [Threads -> Labels] /\ pc'["worker"] \notin {"alloc", "pop", "mark"}
    OBVIOUS
  <2> QED
    BY <2>1, <2>2, <2>3
<1>2. CountsAddUp'
  BY SizeType DEF CountsAddUp, HasTaken, One
<1>3. NoOverflow' /\ SlotInRange'
  BY SizeType DEF NoOverflow, SlotInRange, CountsAddUp, HasTaken, One
<1> QED
  BY <1>1, <1>2, <1>3

LEMMA CasRetryStep ==
  ASSUME PoolInv, NEW t \in Threads, CasRetry(t)
  PROVE  PoolInv'
<1> USE DEF PoolInv, TypeOK, CasRetry, Goto, Threads, Labels
<1>1. TypeOK'
  BY SizeType DEF SlotInRange, Slots
<1>2. CountsAddUp'
  BY SizeType DEF CountsAddUp, HasTaken, One
<1>3. NoOverflow' /\ SlotInRange'
  BY SizeType DEF NoOverflow, SlotInRange, CountsAddUp, HasTaken, One
<1> QED
  BY <1>1, <1>2, <1>3

LEMMA PopFreeListStep ==
  ASSUME PoolInv, NEW t \in Threads, PopFreeList(t)
  PROVE  PoolInv'
<1> USE DEF PoolInv, TypeOK, PopFreeList, Goto, Threads, Labels
<1>1. TypeOK'
  <2>1. count[t] - 1 \in Slots
    <3>1. count[t] \in 0 .. PoolSize /\ count[t] > 0
      BY DEF SlotInRange
    <3> QED
      BY <3>1, SlotBelow
  <2>2. free_list[count[t] - 1] \in Buffers
    BY <2>1
  <2> QED
    BY <2>2
<1>2. CountsAddUp'
  BY SizeType DEF CountsAddUp, HasTaken, One
<1>3. NoOverflow' /\ SlotInRange'
  BY SizeType DEF NoOverflow, SlotInRange, CountsAddUp, HasTaken, One
<1> QED
  BY <1>1, <1>2, <1>3

LEMMA MarkInUseStep ==
  ASSUME PoolInv, NEW t \in Threads, MarkInUse(t)
  PROVE  PoolInv'
<1> USE DEF PoolInv, TypeOK, MarkInUse, Goto, Threads, Labels
<1>1. TypeOK'
  BY SizeType DEF SlotInRange, Slots
<1>2. CountsAddUp'
  BY SizeType DEF CountsAddUp, HasTaken, One
<1>3. NoOverflow' /\ SlotInRange'
  BY SizeType DEF NoOverflow, SlotInRange, CountsAddUp, HasTaken, One
<1> QED
  BY <1>1, <1>2, <1>3

LEMMA HandOverStep ==
  ASSUME PoolInv, NEW t \in Threads, HandOver(t)
  PROVE  PoolInv'
<1> USE DEF PoolInv, TypeOK, HandOver, Goto, Threads, Labels
<1>1. TypeOK'
  <2>1. buf[t] \in Buffers
    OBVIOUS
  <2>2. queue' \in Seq(Buffers) /\ Len(queue') = Len(queue) + 1
    BY <2>1, AppendProperties
  <2> QED
    BY <2>2
<1>2. CountsAddUp'
  BY SizeType DEF CountsAddUp, HasTaken, One
<1>3. NoOverflow' /\ SlotInRange'
  BY SizeType DEF NoOverflow, SlotInRange, CountsAddUp, HasTaken, One
<1> QED
  BY <1>1, <1>2, <1>3

LEMMA TakeOverStep ==
  ASSUME PoolInv, NEW t \in Threads, TakeOver(t)
  PROVE  PoolInv'
<1> USE DEF PoolInv, TypeOK, TakeOver, Goto, Threads, Labels
<1>1. Head(queue) \in Buffers /\ queue' \in Seq(Buffers) /\ Len(queue') = Len(queue) - 1
  BY HeadTailProperties
<1>2. TypeOK'
  BY <1>1
<1>3. CountsAddUp'
  <2>1. One(HasTaken("worker")) = 0 /\ One(HasTaken("worker")') = 1
    BY DEF HasTaken, One
  <2>2. HasTaken("subscriber")' = HasTaken("subscriber")
    BY DEF HasTaken
  <2>3. Len(queue) \in Int /\ free_count \in Int /\ free_count' = free_count
    BY SizeType, LenProperties
  <2>4. One(HasTaken("subscriber")) \in Int
    BY DEF One
  <2> QED
    BY <1>1, <2>1, <2>2, <2>3, <2>4 DEF CountsAddUp
<1>4. NoOverflow' /\ SlotInRange'
  BY SizeType DEF NoOverflow, SlotInRange, CountsAddUp, HasTaken, One
<1> QED
  BY <1>2, <1>3, <1>4

LEMMA MarkUnusedStep ==
  ASSUME PoolInv, NEW t \in Threads, MarkUnused(t)
  PROVE  PoolInv'
<1> USE DEF PoolInv, TypeOK, MarkUnused, Goto, Threads, Labels
<1>1. TypeOK'
  BY SizeType DEF SlotInRange, Slots
<1>2. CountsAddUp'
  BY SizeType DEF CountsAddUp, HasTaken, One
<1>3. NoOverflow' /\ SlotInRange'
  BY SizeType DEF NoOverflow, SlotInRange, CountsAddUp, HasTaken, One
<1> QED
  BY <1>1, <1>2, <1>3

LEMMA DeallocLoadStep ==
  ASSUME PoolInv, NEW t \in Threads, DeallocLoad(t)
  PROVE  PoolInv'
<1> USE DEF PoolInv, TypeOK, DeallocLoad, Goto, Threads, Labels
<1>1. TypeOK'
  BY SizeType DEF SlotInRange, Slots
<1>2. CountsAddUp'
  BY SizeType DEF CountsAddUp, HasTaken, One
<1>3. NoOverflow' /\ SlotInRange'
  BY SizeType DEF NoOverflow, SlotInRange, CountsAddUp, HasTaken, One
<1> QED
  BY <1>1, <1>2, <1>3

LEMMA DeallocCasStep ==
  ASSUME PoolInv, NEW t \in Threads, DeallocCas(t)
  PROVE  PoolInv'
<1> USE DEF PoolInv, TypeOK, DeallocCas, Goto, Threads, Labels
<1>1. TypeOK'
  <2>1. overlapped' \in BOOLEAN
    OBVIOUS
  <2>2. free_count' \in 0 .. PoolSize
    BY SizeType
  <2>3. pc' \in [Threads -> Labels] /\ pc'["worker"] \notin {"alloc", "pop", "mark"}
    OBVIOUS
  <2> QED
    BY <2>1, <2>2, <2>3
<1>2. CountsAddUp'
  BY SizeType DEF CountsAddUp, HasTaken, One
<1>3. NoOverflow' /\ SlotInRange'
  BY SizeType DEF NoOverflow, SlotInRange, CountsAddUp, HasTaken, One
<1> QED
  BY <1>1, <1>2, <1>3

LEMMA PushFreeListStep ==
  ASSUME PoolInv, NEW t \in Threads, PushFreeList(t)
  PROVE  PoolInv'
<1> USE DEF PoolInv, TypeOK, PushFreeList, Goto, Threads, Labels
<1>1. TypeOK'
  BY SizeType DEF SlotInRange, Slots
<1>2. CountsAddUp'
  BY SizeType DEF CountsAddUp, HasTaken, One
<1>3. NoOverflow' /\ SlotInRange'
  BY SizeType DEF NoOverflow, SlotInRange, CountsAddUp, HasTaken, One
<1> QED
  BY <1>1, <1>2, <1>3

LEMMA PoolInvNext == PoolInv /\ [Next]_vars => PoolInv'
<1> SUFFICES ASSUME PoolInv, [Next]_vars PROVE PoolInv'
  OBVIOUS
<1>1. CASE UNCHANGED vars
  BY <1>1 DEF vars, PoolInv, TypeOK, CountsAddUp, HasTaken, One, NoOverflow, SlotInRange
<1>2. ASSUME NEW t \in Threads, Allocate(t) PROVE PoolInv'
  BY <1>2, AllocLoadStep, AllocExhaustedStep, AllocCasStep, PopFreeListStep, MarkInUseStep
     DEF Allocate
<1>3. ASSUME NEW t \in Threads, Deallocate(t) PROVE PoolInv'
  BY <1>3, MarkUnusedStep, DeallocLoadStep, DeallocCasStep, PushFreeListStep DEF Deallocate
<1>4. ASSUME NEW t \in Threads, CasRetry(t) \/ HandOver(t) \/ TakeOver(t) PROVE PoolInv'
  BY <1>4, CasRetryStep, HandOverStep, TakeOverStep
<1> QED
  BY <1>1, <1>2, <1>3, <1>4 DEF Next

-----------------------------------------------------------------------------
(* The pool's types, the accounting of free_count_ and the ranges of the   *)
(* loaded counts hold in every reachable state, for every PoolSize.        *)
THEOREM PoolInvariant == Spec => []PoolInv
  BY PoolInvInit, PoolInvNext, PTL DEF Spec

(* The "free list overflow" branch of deallocate() is dead code for the    *)
(* subscriber and the worker, for every PoolSize.                          *)
THEOREM NeverOverflows == Spec => []NoOverflow
<1>1. PoolInv => NoOverflow
  BY DEF PoolInv
<1> QED
  BY <1>1, PoolInvariant, PTL

(* The queue-full branch of handleMessageFastPath() is dead code whenever  *)
(* the queue has a place for each buffer of the pool, as in main.cpp; and  *)
(* this although buffers may be handed out twice.                          *)
THEOREM QueueAlwaysHasRoom == Spec => []QueueHasRoom
<1>1. PoolInv => QueueHasRoom
  BY SizeType, QueueCapacityAssumption
     DEF PoolInv, TypeOK, CountsAddUp, HasTaken, One, QueueHasRoom, Threads
<1> QED
  BY <1>1, PoolInvariant, PTL

-----------------------------------------------------------------------------
\* Where the buffers are, as long as no allocation and deallocation have been on
\* their way to one slot.

\* The buffer a thread counts for.
Hand(t) == IF pc[t] = "pop" THEN free_list[count[t] - 1] ELSE buf[t]

\* The slots under way: pushes below free_count, pops above, no two to one slot.
SlotsApart ==
  /\ \A t \in Threads : pc[t] = "push" => count[t] < free_count
  /\ \A t \in Threads : pc[t] = "pop" => free_count < count[t]
  /\ \A t, u \in Threads : pc[t] = "push" /\ pc[u] = "push" /\ count[t] = count[u] => t = u

\* No two places hold the same buffer.
ListApart  == \A i, j \in 0 .. free_count - 1 : Listed(i) = Listed(j) => i = j
ListQueue  == \A i \in 0 .. free_count - 1 : \A k \in 1 .. Len(queue) : Listed(i) # queue[k]
ListHands  == \A i \in 0 .. free_count - 1 : \A t \in Threads : HasTaken(t) => Listed(i) # Hand(t)
QueueApart == \A k, l \in 1 .. Len(queue) : queue[k] = queue[l] => k = l
QueueHands == \A k \in 1 .. Len(queue) : \A t \in Threads : HasTaken(t) => queue[k] # Hand(t)
HandsApart == \A t, u \in Threads : HasTaken(t) /\ HasTaken(u) /\ Hand(t) = Hand(u) => t = u

PlacesDistinct == ListApart /\ ListQueue /\ ListHands /\ QueueApart /\ QueueHands /\ HandsApart

\* in_use marks the buffers that are out.
OutInUse ==
  \A b \in Buffers :
    in_use[b] <=> \/ \E k \in 1 .. Len(queue) : queue[k] = b
                  \/ \E t \in Threads : pc[t] = "owner" /\ buf[t] = b

Parted == SlotsApart /\ PlacesDistinct /\ OutInUse

\* What the buffers' places satisfy, added to PoolInv.
PartInv == ~ overlapped => Parted

LEMMA ListedPushed ==
  ASSUME SlotsApart, NEW i, NEW t \in Threads, Pushes(t, i)
  PROVE  Listed(i) = buf[t]
<1> DEFINE u == CHOOSE x \in Threads : Pushes(x, i)
<1>1. u \in Threads /\ Pushes(u, i)
  OBVIOUS
<1>2. u = t
  BY <1>1 DEF SlotsApart, Pushes
<1>3. Listed(i) = buf[u]
  BY DEF Listed
<1> QED
  BY <1>2, <1>3

LEMMA ListedPushedNext ==
  ASSUME SlotsApart', NEW i, NEW t \in Threads, Pushes(t, i)'
  PROVE  Listed(i)' = buf'[t]
<1> DEFINE u == CHOOSE x \in Threads : pc'[x] = "push" /\ i = count'[x]
<1>1. pc'[t] = "push" /\ i = count'[t]
  BY DEF Pushes
<1>2. u \in Threads /\ pc'[u] = "push" /\ i = count'[u]
  BY <1>1
<1>3. u = t
  BY <1>1, <1>2 DEF SlotsApart
<1>4. Listed(i)' = buf'[u]
  BY <1>1 DEF Listed, Pushes
<1> QED
  BY <1>3, <1>4

LEMMA ListedUnpushed ==
  ASSUME NEW i, \A t \in Threads : ~ Pushes(t, i)
  PROVE  Listed(i) = free_list[i]
  BY DEF Listed

LEMMA ListedUnpushedNext ==
  ASSUME NEW i, \A t \in Threads : ~ Pushes(t, i)'
  PROVE  Listed(i)' = free_list'[i]
  BY DEF Listed

\* A step that leaves a slot and the pushes to it alone.
LEMMA ListedSame ==
  ASSUME SlotsApart, SlotsApart', NEW i, free_list'[i] = free_list[i],
         \A t \in Threads : Pushes(t, i)' <=> Pushes(t, i),
         \A t \in Threads : Pushes(t, i) => buf'[t] = buf[t]
  PROVE  Listed(i)' = Listed(i)
<1>1. CASE \E t \in Threads : Pushes(t, i)
  <2>1. PICK t \in Threads : Pushes(t, i)
    BY <1>1
  <2>2. Listed(i) = buf[t]
    BY <2>1, ListedPushed
  <2>3. Listed(i)' = buf'[t]
    BY <2>1, ListedPushedNext
  <2> QED
    BY <2>1, <2>2, <2>3
<1>2. CASE \A t \in Threads : ~ Pushes(t, i)
  <2>1. Listed(i) = free_list[i]
    BY <1>2, ListedUnpushed
  <2>2. Listed(i)' = free_list'[i]
    BY <1>2, ListedUnpushedNext
  <2> QED
    BY <2>1, <2>2
<1> QED
  BY <1>1, <1>2

\* A step after which every place holds what it held.
SamePlaces ==
  /\ free_count' = free_count /\ queue' = queue
  /\ \A i \in 0 .. free_count - 1 : Listed(i)' = Listed(i)
  /\ \A t \in Threads : (HasTaken(t)' <=> HasTaken(t)) /\ (HasTaken(t) => Hand(t)' = Hand(t))

LEMMA PlacesFrame ==
  ASSUME PlacesDistinct, SamePlaces
  PROVE  PlacesDistinct'
<1> USE DEF SamePlaces
<1>1. ListApart'
  BY DEF PlacesDistinct, ListApart
<1>2. ListQueue'
  BY DEF PlacesDistinct, ListQueue
<1>3. ListHands'
  BY DEF PlacesDistinct, ListHands
<1>4. QueueApart'
  BY DEF PlacesDistinct, QueueApart
<1>5. QueueHands'
  BY DEF PlacesDistinct, QueueHands
<1>6. HandsApart'
  BY DEF PlacesDistinct, HandsApart
<1> QED
  BY <1>1, <1>2, <1>3, <1>4, <1>5, <1>6 DEF PlacesDistinct

\* The steps between two compare-and-swaps of a thread that do not touch free_list.
Quiet(t) == AllocLoad(t) \/ AllocExhausted(t) \/ CasRetry(t) \/ PopFreeList(t)
            \/ MarkInUse(t) \/ MarkUnused(t) \/ DeallocLoad(t)

LEMMA QuietPlaces ==
  ASSUME PoolInv, Parted, NEW t \in Threads, Quiet(t)
  PROVE  SlotsApart' /\ PlacesDistinct' /\ SamePlaces
<1>1. free_list' = free_list /\ free_count' = free_count /\ queue' = queue
  BY DEF Quiet, AllocLoad, AllocExhausted, CasRetry, PopFreeList, MarkInUse, MarkUnused, DeallocLoad
<1>2. pc[t] # "push" /\ pc'[t] \notin {"push", "pop"}
  BY DEF Quiet, AllocLoad, AllocExhausted, CasRetry, PopFreeList, MarkInUse, MarkUnused, DeallocLoad,
         PoolInv, TypeOK, Goto
<1>3. ASSUME NEW u \in Threads, u # t
      PROVE  pc'[u] = pc[u] /\ count'[u] = count[u] /\ buf'[u] = buf[u]
  BY <1>3 DEF Quiet, AllocLoad, AllocExhausted, CasRetry, PopFreeList, MarkInUse, MarkUnused, DeallocLoad,
              PoolInv, TypeOK, Goto
<1>4. ASSUME NEW u \in Threads
      PROVE  pc'[u] \in {"push", "pop"} => u # t /\ pc'[u] = pc[u] /\ count'[u] = count[u]
  BY <1>2, <1>3
<1>5. SlotsApart'
  BY <1>1, <1>4 DEF Parted, SlotsApart
<1>6. ASSUME NEW i \in 0 .. free_count - 1 PROVE Listed(i)' = Listed(i)
  <2>1. \A u \in Threads : (Pushes(u, i)' <=> Pushes(u, i)) /\ (Pushes(u, i) => buf'[u] = buf[u])
    BY <1>2, <1>3 DEF Pushes
  <2> QED
    BY <1>1, <1>5, <2>1, ListedSame DEF Parted
<1>7. (HasTaken(t)' <=> HasTaken(t)) /\ (HasTaken(t) => Hand(t)' = Hand(t))
  BY DEF Quiet, AllocLoad, AllocExhausted, CasRetry, PopFreeList, MarkInUse, MarkUnused, DeallocLoad,
         PoolInv, TypeOK, Goto, HasTaken, Hand
<1>8. ASSUME NEW u \in Threads
      PROVE (HasTaken(u)' <=> HasTaken(u)) /\ (HasTaken(u) => Hand(u)' = Hand(u))
  <2>1. CASE u = t
    BY <1>7, <2>1
  <2>2. CASE u # t
    BY <1>1, <1>3, <2>2 DEF HasTaken, Hand
  <2> QED
    BY <2>1, <2>2
<1>9. SamePlaces
  BY <1>1, <1>6, <1>8 DEF SamePlaces
<1> QED
  BY <1>5, <1>9, PlacesFrame DEF Parted

LEMMA PushPlaces ==
  ASSUME PoolInv, Parted, NEW t \in Threads, PushFreeList(t)
  PROVE  SlotsApart' /\ PlacesDistinct' /\ SamePlaces
<1>1. free_count' = free_count /\ queue' = queue /\ count' = count /\ buf' = buf
  BY DEF PushFreeList
<1>2. /\ pc[t] = "push" /\ pc'[t] = "idle" /\ \A u \in Threads : u # t => pc'[u] = pc[u]
      /\ count[t] \in Slots /\ count[t] < free_count
      /\ free_list' = [free_list EXCEPT ![count[t]] = buf[t]] /\ free_list \in [Slots -> Buffers]
  BY SizeType DEF PushFreeList, PoolInv, TypeOK, Goto, Parted, SlotsApart, SlotInRange, Slots
<1>3. SlotsApart'
  BY <1>1, <1>2 DEF Parted, SlotsApart
<1>4. ASSUME NEW i \in 0 .. free_count - 1 PROVE Listed(i)' = Listed(i)
  <2>1. CASE i = count[t]
    <3>1. \A u \in Threads : ~ Pushes(u, i)'
      BY <1>1, <1>2, <2>1 DEF Pushes, Parted, SlotsApart
    <3>2. Listed(i)' = free_list'[i]
      BY <3>1, ListedUnpushedNext
    <3>3. Listed(i) = buf[t]
      BY <1>2, <2>1, ListedPushed DEF Pushes, Parted
    <3> QED
      BY <1>2, <2>1, <3>2, <3>3
  <2>2. CASE i # count[t]
    <3>1. \A u \in Threads : Pushes(u, i)' <=> Pushes(u, i)
      BY <1>1, <1>2, <2>2 DEF Pushes
    <3>2. free_list'[i] = free_list[i]
      BY <1>2, <2>2
    <3> QED
      BY <1>1, <1>3, <3>1, <3>2, ListedSame DEF Parted
  <2> QED
    BY <2>1, <2>2
<1>5. \A u \in Threads : HasTaken(u)' <=> HasTaken(u)
  BY <1>2 DEF HasTaken
<1>6. ASSUME NEW u \in Threads, HasTaken(u) PROVE Hand(u)' = Hand(u)
  <2>1. u # t /\ pc'[u] = pc[u]
    BY <1>2, <1>6 DEF HasTaken
  <2>2. CASE pc[u] = "pop"
    <3>1. count[u] - 1 # count[t]
      BY <1>2, <2>2, SizeType DEF Parted, SlotsApart, PoolInv, TypeOK
    <3> QED
      BY <1>1, <1>2, <2>1, <2>2, <3>1 DEF Hand, PoolInv, TypeOK
  <2>3. CASE pc[u] # "pop"
    BY <1>1, <2>1, <2>3 DEF Hand
  <2> QED
    BY <2>2, <2>3
<1>7. SamePlaces
  BY <1>1, <1>4, <1>5, <1>6 DEF SamePlaces
<1> QED
  BY <1>3, <1>7, PlacesFrame DEF Parted

\* HandOver and TakeOver leave the free list as it is.
LEMMA QueueStepList ==
  ASSUME PoolInv, Parted, NEW t \in Threads, HandOver(t) \/ TakeOver(t)
  PROVE  /\ SlotsApart'
         /\ free_count' = free_count
         /\ \A i \in 0 .. free_count - 1 : Listed(i)' = Listed(i)
<1>1. free_list' = free_list /\ free_count' = free_count /\ count' = count
  BY DEF HandOver, TakeOver
<1>2. /\ pc[t] \notin {"push", "pop"} /\ pc'[t] \notin {"push", "pop"}
      /\ \A u \in Threads : u # t => pc'[u] = pc[u] /\ buf'[u] = buf[u]
  BY DEF HandOver, TakeOver, PoolInv, TypeOK, Goto
<1>3. SlotsApart'
  BY <1>1, <1>2 DEF Parted, SlotsApart
<1>4. ASSUME NEW i \in 0 .. free_count - 1 PROVE Listed(i)' = Listed(i)
  <2>1. \A u \in Threads : (Pushes(u, i)' <=> Pushes(u, i)) /\ (Pushes(u, i) => buf'[u] = buf[u])
    BY <1>1, <1>2 DEF Pushes
  <2> QED
    BY <1>1, <1>3, <2>1, ListedSame DEF Parted
<1> QED
  BY <1>1, <1>3, <1>4

LEMMA HandOverPlaces ==
  ASSUME PoolInv, Parted, NEW t \in Threads, HandOver(t)
  PROVE  SlotsApart' /\ PlacesDistinct'
<1>1. SlotsApart' /\ free_count' = free_count /\ \A i \in 0 .. free_count - 1 : Listed(i)' = Listed(i)
  BY QueueStepList
<1>2. /\ buf[t] \in Buffers /\ queue \in Seq(Buffers) /\ queue' = Append(queue, buf[t])
      /\ HasTaken(t) /\ Hand(t) = buf[t] /\ ~ HasTaken(t)'
  BY DEF HandOver, PoolInv, TypeOK, Goto, HasTaken, Hand
<1>3. Len(queue') = Len(queue) + 1 /\ Len(queue) \in Nat
  BY <1>2, AppendProperties, LenProperties
<1>4. \A k \in 1 .. Len(queue') : \/ k \in 1 .. Len(queue) /\ queue'[k] = queue[k]
                                  \/ k = Len(queue) + 1 /\ queue'[k] = Hand(t)
  BY <1>2, <1>3
<1>5. ASSUME NEW u \in Threads, HasTaken(u)' PROVE u # t /\ HasTaken(u) /\ Hand(u)' = Hand(u)
  BY <1>2, <1>5 DEF HandOver, PoolInv, TypeOK, Goto, HasTaken, Hand
<1>6. ListApart' /\ ListHands' /\ HandsApart'
  BY <1>1, <1>5 DEF Parted, PlacesDistinct, ListApart, ListHands, HandsApart
<1>7. ListQueue'
  BY <1>1, <1>2, <1>4 DEF Parted, PlacesDistinct, ListQueue, ListHands
<1>8. QueueApart'
  <2>1. \A k \in 1 .. Len(queue) : queue[k] # Hand(t)
    BY <1>2 DEF Parted, PlacesDistinct, QueueHands
  <2>2. \A k, l \in 1 .. Len(queue) : queue[k] = queue[l] => k = l
    BY DEF Parted, PlacesDistinct, QueueApart
  <2> SUFFICES ASSUME NEW k \in 1 .. Len(queue'), NEW l \in 1 .. Len(queue'), queue'[k] = queue'[l]
               PROVE  k = l
    BY DEF QueueApart
  <2> QED
    BY <1>4, <2>1, <2>2
<1>9. QueueHands'
  <2>1. ASSUME NEW u \in Threads, HasTaken(u)'
        PROVE  Hand(t) # Hand(u) /\ \A k \in 1 .. Len(queue) : queue[k] # Hand(u)
    BY <1>2, <1>5, <2>1 DEF Parted, PlacesDistinct, QueueHands, HandsApart
  <2> QED
    BY <1>4, <1>5, <2>1 DEF QueueHands
<1> QED
  BY <1>1, <1>6, <1>7, <1>8, <1>9 DEF PlacesDistinct

LEMMA TakeOverPlaces ==
  ASSUME PoolInv, Parted, NEW t \in Threads, TakeOver(t)
  PROVE  SlotsApart' /\ PlacesDistinct'
<1>1. SlotsApart' /\ free_count' = free_count /\ \A i \in 0 .. free_count - 1 : Listed(i)' = Listed(i)
  BY QueueStepList
<1>2. queue \in Seq(Buffers) /\ queue # <<>> /\ queue' = Tail(queue)
  BY DEF TakeOver, PoolInv, TypeOK
<1>3. /\ Len(queue') = Len(queue) - 1 /\ Len(queue) \in Nat /\ Len(queue) > 0
      /\ \A k \in 1 .. Len(queue') : queue'[k] = queue[k + 1] /\ k + 1 \in 1 .. Len(queue)
  BY <1>2, HeadTailProperties, LenProperties
<1>4. HasTaken(t)' /\ Hand(t)' = queue[1] /\ ~ HasTaken(t)
  BY <1>2 DEF TakeOver, PoolInv, TypeOK, Goto, HasTaken, Hand
<1>5. ASSUME NEW u \in Threads, HasTaken(u)', u # t PROVE HasTaken(u) /\ Hand(u)' = Hand(u)
  BY <1>5 DEF TakeOver, PoolInv, TypeOK, Goto, HasTaken, Hand
<1>6. ListApart' /\ ListQueue'
  BY <1>1, <1>3 DEF Parted, PlacesDistinct, ListApart, ListQueue
<1>7. ListHands'
  <2> SUFFICES ASSUME NEW i \in 0 .. free_count - 1, NEW u \in Threads, HasTaken(u)'
               PROVE  Listed(i) # Hand(u)'
    BY <1>1 DEF ListHands
  <2>1. CASE u = t
    BY <1>3, <1>4, <2>1 DEF Parted, PlacesDistinct, ListQueue
  <2>2. CASE u # t
    BY <1>5, <2>2 DEF Parted, PlacesDistinct, ListHands
  <2> QED
    BY <2>1, <2>2
<1>8. QueueApart'
  <2> SUFFICES ASSUME NEW k \in 1 .. Len(queue'), NEW l \in 1 .. Len(queue'), queue'[k] = queue'[l]
               PROVE  k = l
    BY DEF QueueApart
  <2>1. k + 1 = l + 1
    BY <1>3 DEF Parted, PlacesDistinct, QueueApart
  <2> QED
    BY <1>3, <2>1
<1>9. QueueHands'
  <2> SUFFICES ASSUME NEW k \in 1 .. Len(queue'), NEW u \in Threads, HasTaken(u)'
               PROVE  queue'[k] # Hand(u)'
    BY DEF QueueHands
  <2>1. CASE u = t
    <3>1. k + 1 # 1 /\ 1 \in 1 .. Len(queue)
      BY <1>3
    <3>2. queue[k + 1] # queue[1]
      BY <1>3, <3>1 DEF Parted, PlacesDistinct, QueueApart
    <3> QED
      BY <1>3, <1>4, <2>1, <3>2
  <2>2. CASE u # t
    BY <1>3, <1>5, <2>2 DEF Parted, PlacesDistinct, QueueHands
  <2> QED
    BY <2>1, <2>2
<1>10. HandsApart'
  <2>1. ASSUME NEW u \in Threads, HasTaken(u)', u # t PROVE Hand(u)' # Hand(t)'
    <3>1. 1 \in 1 .. Len(queue)
      BY <1>3
    <3> QED
      BY <1>4, <1>5, <2>1, <3>1 DEF Parted, PlacesDistinct, QueueHands
  <2>2. ASSUME NEW u \in Threads, NEW v \in Threads, HasTaken(u)', HasTaken(v)', u # t, v # t,
               Hand(u)' = Hand(v)'
        PROVE  u = v
    BY <1>5, <2>2 DEF Parted, PlacesDistinct, HandsApart
  <2> QED
    BY <2>1, <2>2 DEF HandsApart
<1> QED
  BY <1>1, <1>6, <1>7, <1>8, <1>9, <1>10 DEF PlacesDistinct

\* The compare-and-swap of allocate(): the topmost listed buffer is the thread's.
LEMMA AllocCasPlaces ==
  ASSUME PoolInv, Parted, NEW t \in Threads, AllocCas(t), ~ overlapped'
  PROVE  /\ SlotsApart' /\ PlacesDistinct'
         /\ \A i \in 0 .. free_count - 1 : Listed(i)' = Listed(i)
         /\ Hand(t)' = Listed(count[t] - 1)
         /\ \A u \in Threads : u # t /\ HasTaken(u)' => HasTaken(u) /\ Hand(u)' = Hand(u)
<1> DEFINE c == count[t]
<1>1. /\ free_list' = free_list /\ queue' = queue /\ count' = count /\ buf' = buf
      /\ free_count = c /\ free_count' = c - 1 /\ c \in Nat /\ c > 0
  BY SizeType DEF AllocCas, PoolInv, TypeOK
<1>2. /\ pc[t] = "alloc" /\ pc'[t] = "pop"
      /\ \A u \in Threads : u # t => pc'[u] = pc[u] /\ pc[u] # "pop"
  BY DEF AllocCas, PoolInv, TypeOK, Goto, Threads
<1>3. \A u \in Threads : ~ Pushes(u, c - 1)
  BY DEF AllocCas
<1>4. \A u \in Threads : count[u] \in Int
  BY SizeType DEF PoolInv, TypeOK
<1>5. SlotsApart'
  <2>1. ASSUME NEW u \in Threads, pc'[u] = "push" PROVE count'[u] < free_count'
    BY <1>1, <1>2, <1>3, <1>4, <2>1 DEF Parted, SlotsApart, Pushes
  <2>2. ASSUME NEW u \in Threads, pc'[u] = "pop" PROVE free_count' < count'[u]
    BY <1>1, <1>2, <2>2
  <2>3. ASSUME NEW u \in Threads, NEW v \in Threads, pc'[u] = "push", pc'[v] = "push", count'[u] = count'[v]
        PROVE  u = v
    BY <1>1, <1>2, <2>3 DEF Parted, SlotsApart
  <2> QED
    BY <2>1, <2>2, <2>3 DEF SlotsApart
<1>6. \A i \in 0 .. free_count' - 1 : i \in 0 .. free_count - 1 /\ i # c - 1
  BY <1>1
<1>7. c - 1 \in 0 .. free_count - 1
  BY <1>1
<1>8. ASSUME NEW i \in 0 .. free_count - 1 PROVE Listed(i)' = Listed(i)
  <2>1. \A u \in Threads : Pushes(u, i)' <=> Pushes(u, i)
    BY <1>1, <1>2 DEF Pushes
  <2> QED
    BY <1>1, <1>5, <2>1, ListedSame DEF Parted
<1>9. HasTaken(t)' /\ Hand(t)' = Listed(c - 1)
  <2>1. Listed(c - 1) = free_list[c - 1]
    BY <1>3, ListedUnpushed
  <2> QED
    BY <1>1, <1>2, <2>1 DEF HasTaken, Hand
<1>10. ASSUME NEW u \in Threads, HasTaken(u)', u # t PROVE HasTaken(u) /\ Hand(u)' = Hand(u)
  BY <1>1, <1>2, <1>10 DEF HasTaken, Hand
<1>11. ListApart' /\ ListQueue'
  BY <1>1, <1>6, <1>8 DEF Parted, PlacesDistinct, ListApart, ListQueue
<1>12. ListHands'
  <2> SUFFICES ASSUME NEW i \in 0 .. free_count' - 1, NEW u \in Threads, HasTaken(u)'
               PROVE  Listed(i) # Hand(u)'
    BY <1>6, <1>8 DEF ListHands
  <2>1. CASE u = t
    BY <1>6, <1>7, <1>9, <2>1 DEF Parted, PlacesDistinct, ListApart
  <2>2. CASE u # t
    BY <1>6, <1>10, <2>2 DEF Parted, PlacesDistinct, ListHands
  <2> QED
    BY <2>1, <2>2
<1>13. QueueApart' /\ QueueHands'
  <2>1. ASSUME NEW k \in 1 .. Len(queue), NEW u \in Threads, HasTaken(u)' PROVE queue[k] # Hand(u)'
    <3>1. CASE u = t
      BY <1>7, <1>9, <3>1 DEF Parted, PlacesDistinct, ListQueue
    <3>2. CASE u # t
      BY <1>10, <2>1, <3>2 DEF Parted, PlacesDistinct, QueueHands
    <3> QED
      BY <3>1, <3>2
  <2> QED
    BY <1>1, <2>1 DEF Parted, PlacesDistinct, QueueApart, QueueHands
<1>14. HandsApart'
  <2>1. ASSUME NEW u \in Threads, HasTaken(u)', u # t PROVE Hand(u)' # Hand(t)'
    BY <1>7, <1>9, <1>10, <2>1 DEF Parted, PlacesDistinct, ListHands
  <2>2. ASSUME NEW u \in Threads, NEW v \in Threads, HasTaken(u)', HasTaken(v)', u # t, v # t,
               Hand(u)' = Hand(v)'
        PROVE  u = v
    BY <1>10, <2>2 DEF Parted, PlacesDistinct, HandsApart
  <2> QED
    BY <2>1, <2>2 DEF HandsApart
<1>15. PlacesDistinct'
  BY <1>11, <1>12, <1>13, <1>14 DEF PlacesDistinct
<1> QED
  BY <1>5, <1>8, <1>9, <1>10, <1>15

\* The compare-and-swap of deallocate(): the thread's buffer is the topmost listed.
LEMMA DeallocCasPlaces ==
  ASSUME PoolInv, Parted, NEW t \in Threads, DeallocCas(t), ~ overlapped'
  PROVE  /\ SlotsApart' /\ PlacesDistinct'
         /\ \A i \in 0 .. free_count - 1 : Listed(i)' = Listed(i)
         /\ \A c \in 0 .. PoolSize : c = count[t] => Listed(c)' = Hand(t)
         /\ \A u \in Threads : HasTaken(u)' => HasTaken(u) /\ Hand(u)' = Hand(u)
<1>0. PICK c \in 0 .. PoolSize : c = count[t]
  BY DEF PoolInv, TypeOK
<1>1. /\ free_list' = free_list /\ queue' = queue /\ count' = count /\ buf' = buf
      /\ free_count = c /\ free_count' = c + 1 /\ c \in Nat /\ c = count[t]
  BY <1>0, SizeType DEF DeallocCas, PoolInv, TypeOK
<1>2. /\ pc[t] = "dealloc" /\ pc'[t] = "push"
      /\ \A u \in Threads : u # t => pc'[u] = pc[u]
  BY DEF DeallocCas, PoolInv, TypeOK, Goto
<1>3. \A u \in Threads : ~ Pops(u, c)
  BY <1>0 DEF DeallocCas
<1>4. \A u \in Threads : count[u] \in Int
  BY SizeType DEF PoolInv, TypeOK
<1>5. SlotsApart'
  <2>1. ASSUME NEW u \in Threads, pc'[u] = "push"
        PROVE  count'[u] < free_count' /\ (u # t => pc[u] = "push" /\ count[u] < c)
    BY <1>1, <1>2, <1>4, <2>1 DEF Parted, SlotsApart
  <2>2. ASSUME NEW u \in Threads, pc'[u] = "pop" PROVE free_count' < count'[u]
    <3>1. pc[u] = "pop" /\ c < count[u] /\ c # count[u] - 1
      BY <1>1, <1>2, <1>3, <2>2 DEF Parted, SlotsApart, Pops
    <3> QED
      BY <1>1, <1>4, <3>1
  <2>3. ASSUME NEW u \in Threads, NEW v \in Threads, pc'[u] = "push", pc'[v] = "push", count'[u] = count'[v]
        PROVE  u = v
    BY <1>1, <1>4, <2>1, <2>3 DEF Parted, SlotsApart
  <2> QED
    BY <2>1, <2>2, <2>3 DEF SlotsApart
<1>6. \A i \in 0 .. free_count' - 1 : i \in 0 .. free_count - 1 \/ i = c
  BY <1>1
<1>7. ASSUME NEW i \in 0 .. free_count - 1 PROVE Listed(i)' = Listed(i)
  <2>1. i # count[t]
    BY <1>1
  <2>2. \A u \in Threads : Pushes(u, i)' <=> Pushes(u, i)
    BY <1>1, <1>2, <2>1 DEF Pushes
  <2> QED
    BY <1>1, <1>5, <2>2, ListedSame DEF Parted
<1>8. HasTaken(t) /\ ~ HasTaken(t)' /\ Listed(c)' = Hand(t)
  <2>1. Pushes(t, c)'
    BY <1>1, <1>2 DEF Pushes
  <2>2. Listed(c)' = buf'[t]
    BY <1>5, <2>1, ListedPushedNext
  <2> QED
    BY <1>1, <1>2, <2>2 DEF HasTaken, Hand
<1>9. ASSUME NEW u \in Threads, HasTaken(u)' PROVE u # t /\ HasTaken(u) /\ Hand(u)' = Hand(u)
  BY <1>1, <1>2, <1>9 DEF HasTaken, Hand
<1>10. ListApart'
  <2>1. \A i \in 0 .. free_count - 1 : Listed(i)' # Listed(c)'
    BY <1>7, <1>8 DEF Parted, PlacesDistinct, ListHands
  <2>2. \A i, j \in 0 .. free_count - 1 : Listed(i)' = Listed(j)' => i = j
    BY <1>7 DEF Parted, PlacesDistinct, ListApart
  <2> SUFFICES ASSUME NEW i \in 0 .. free_count' - 1, NEW j \in 0 .. free_count' - 1,
                      Listed(i)' = Listed(j)'
               PROVE  i = j
    BY DEF ListApart
  <2>3. CASE i \in 0 .. free_count - 1 /\ j \in 0 .. free_count - 1
    BY <2>2, <2>3
  <2>4. CASE i = c
    BY <1>6, <2>1, <2>4
  <2>5. CASE j = c
    BY <1>6, <2>1, <2>5
  <2> QED
    BY <1>6, <2>3, <2>4, <2>5
<1>11. ListQueue'
  BY <1>1, <1>6, <1>7, <1>8 DEF Parted, PlacesDistinct, ListQueue, QueueHands
<1>12. ListHands'
  <2> SUFFICES ASSUME NEW i \in 0 .. free_count' - 1, NEW u \in Threads, HasTaken(u)'
               PROVE  Listed(i)' # Hand(u)'
    BY DEF ListHands
  <2>1. CASE i \in 0 .. free_count - 1
    BY <1>7, <1>9, <2>1 DEF Parted, PlacesDistinct, ListHands
  <2>2. CASE i = c
    BY <1>8, <1>9, <2>2 DEF Parted, PlacesDistinct, HandsApart
  <2> QED
    BY <1>6, <2>1, <2>2
<1>13. QueueApart' /\ QueueHands' /\ HandsApart'
  BY <1>1, <1>9 DEF Parted, PlacesDistinct, QueueApart, QueueHands, HandsApart
<1>14. PlacesDistinct'
  BY <1>10, <1>11, <1>12, <1>13 DEF PlacesDistinct
<1>15. \A d \in 0 .. PoolSize : d = count[t] => Listed(d)' = Hand(t)
  BY <1>1, <1>8
<1> QED
  BY <1>5, <1>7, <1>9, <1>14, <1>15

-----------------------------------------------------------------------------
\* The flags.

\* A step that changes neither flags nor queue nor who owns which buffer.
LEMMA FlagsFrame ==
  ASSUME PoolInv, OutInUse, NEW t \in Threads,
         \/ AllocLoad(t) \/ AllocExhausted(t) \/ AllocCas(t) \/ CasRetry(t) \/ PopFreeList(t)
         \/ DeallocLoad(t) \/ DeallocCas(t) \/ PushFreeList(t)
  PROVE  OutInUse'
<1>1. in_use' = in_use /\ queue' = queue
  BY DEF AllocLoad, AllocExhausted, AllocCas, CasRetry, PopFreeList, DeallocLoad, DeallocCas, PushFreeList
<1>2. pc[t] # "owner" /\ pc'[t] # "owner"
  BY DEF AllocLoad, AllocExhausted, AllocCas, CasRetry, PopFreeList, DeallocLoad, DeallocCas,
         PushFreeList, PoolInv, TypeOK, Goto
<1>3. \A u \in Threads : u # t => pc'[u] = pc[u] /\ buf'[u] = buf[u]
  BY DEF AllocLoad, AllocExhausted, AllocCas, CasRetry, PopFreeList, DeallocLoad, DeallocCas,
         PushFreeList, PoolInv, TypeOK, Goto
<1> QED
  BY <1>1, <1>2, <1>3 DEF OutInUse

LEMMA MarkInUseFlags ==
  ASSUME PoolInv, OutInUse, NEW t \in Threads, MarkInUse(t)
  PROVE  OutInUse'
<1>1. /\ queue' = queue /\ buf' = buf /\ in_use \in [Buffers -> BOOLEAN] /\ buf[t] \in Buffers
      /\ in_use' = [in_use EXCEPT ![buf[t]] = TRUE]
      /\ pc[t] # "owner" /\ pc'[t] = "owner" /\ \A u \in Threads : u # t => pc'[u] = pc[u]
  BY DEF MarkInUse, PoolInv, TypeOK, Goto
<1> SUFFICES ASSUME NEW b \in Buffers
             PROVE  in_use'[b] <=> \/ \E k \in 1 .. Len(queue) : queue[k] = b
                                   \/ \E u \in Threads : pc'[u] = "owner" /\ buf[u] = b
  BY <1>1 DEF OutInUse
<1>2. CASE b = buf[t]
  BY <1>1, <1>2
<1>3. CASE b # buf[t]
  BY <1>1, <1>3 DEF OutInUse
<1> QED
  BY <1>2, <1>3

LEMMA MarkUnusedFlags ==
  ASSUME PoolInv, Parted, NEW t \in Threads, MarkUnused(t)
  PROVE  OutInUse'
<1>1. /\ queue' = queue /\ buf' = buf /\ in_use \in [Buffers -> BOOLEAN] /\ buf[t] \in Buffers
      /\ in_use' = [in_use EXCEPT ![buf[t]] = FALSE]
      /\ pc[t] = "owner" /\ pc'[t] # "owner" /\ \A u \in Threads : u # t => pc'[u] = pc[u]
  BY DEF MarkUnused, PoolInv, TypeOK, Goto
<1>2. \A k \in 1 .. Len(queue) : queue[k] # buf[t]
  BY <1>1 DEF Parted, PlacesDistinct, QueueHands, HasTaken, Hand
<1>3. \A u \in Threads : pc[u] = "owner" /\ buf[u] = buf[t] => u = t
  BY <1>1 DEF Parted, PlacesDistinct, HandsApart, HasTaken, Hand
<1> SUFFICES ASSUME NEW b \in Buffers
             PROVE  in_use'[b] <=> \/ \E k \in 1 .. Len(queue) : queue[k] = b
                                   \/ \E u \in Threads : pc'[u] = "owner" /\ buf[u] = b
  BY <1>1 DEF OutInUse
<1>4. CASE b = buf[t]
  BY <1>1, <1>2, <1>3, <1>4
<1>5. CASE b # buf[t]
  BY <1>1, <1>5 DEF Parted, OutInUse
<1> QED
  BY <1>4, <1>5

LEMMA HandOverFlags ==
  ASSUME PoolInv, Parted, NEW t \in Threads, HandOver(t)
  PROVE  OutInUse'
<1>1. /\ in_use' = in_use /\ buf' = buf /\ queue \in Seq(Buffers) /\ queue' = Append(queue, buf[t])
      /\ pc[t] = "owner" /\ pc'[t] # "owner" /\ \A u \in Threads : u # t => pc'[u] = pc[u]
  BY DEF HandOver, PoolInv, TypeOK, Goto
<1>2. Len(queue') = Len(queue) + 1 /\ Len(queue) \in Nat
  BY <1>1, AppendProperties, LenProperties DEF PoolInv, TypeOK
<1>3. ASSUME NEW b \in Buffers
      PROVE  (\E k \in 1 .. Len(queue') : queue'[k] = b)
             <=> (b = buf[t] \/ \E k \in 1 .. Len(queue) : queue[k] = b)
  <2>1. \A k \in 1 .. Len(queue) : k \in 1 .. Len(queue') /\ queue'[k] = queue[k]
    BY <1>1, <1>2
  <2>2. Len(queue) + 1 \in 1 .. Len(queue') /\ queue'[Len(queue) + 1] = buf[t]
    BY <1>1, <1>2
  <2>3. \A k \in 1 .. Len(queue') : k \in 1 .. Len(queue) \/ k = Len(queue) + 1
    BY <1>2
  <2> QED
    BY <2>1, <2>2, <2>3
<1> QED
  BY <1>1, <1>3 DEF Parted, OutInUse

LEMMA TakeOverFlags ==
  ASSUME PoolInv, Parted, NEW t \in Threads, TakeOver(t)
  PROVE  OutInUse'
<1>1. /\ in_use' = in_use /\ queue \in Seq(Buffers) /\ queue # <<>> /\ queue' = Tail(queue)
      /\ pc[t] # "owner" /\ pc'[t] = "owner" /\ buf'[t] = queue[1]
      /\ \A u \in Threads : u # t => pc'[u] = pc[u] /\ buf'[u] = buf[u]
  BY DEF TakeOver, PoolInv, TypeOK, Goto
<1>2. /\ Len(queue') = Len(queue) - 1 /\ Len(queue) \in Nat /\ Len(queue) > 0
      /\ \A k \in 1 .. Len(queue') : queue'[k] = queue[k + 1] /\ k + 1 \in 1 .. Len(queue)
  BY <1>1, HeadTailProperties, LenProperties
<1>3. ASSUME NEW b \in Buffers
      PROVE  (\E k \in 1 .. Len(queue) : queue[k] = b)
             <=> (b = queue[1] \/ \E k \in 1 .. Len(queue') : queue'[k] = b)
  <2>1. \A k \in 1 .. Len(queue) : k = 1 \/ (k - 1 \in 1 .. Len(queue') /\ (k - 1) + 1 = k)
    BY <1>2
  <2>2. 1 \in 1 .. Len(queue)
    BY <1>2
  <2>3. ASSUME NEW k \in 1 .. Len(queue), queue[k] = b
        PROVE  b = queue[1] \/ \E l \in 1 .. Len(queue') : queue'[l] = b
    <3>1. CASE k = 1
      BY <2>3, <3>1
    <3>2. CASE k # 1
      <4>1. k - 1 \in 1 .. Len(queue') /\ queue'[k - 1] = queue[k]
        BY <1>2, <2>1, <3>2
      <4> QED
        BY <2>3, <4>1
    <3> QED
      BY <3>1, <3>2
  <2>4. ASSUME NEW l \in 1 .. Len(queue'), queue'[l] = b
        PROVE  \E k \in 1 .. Len(queue) : queue[k] = b
    BY <1>2, <2>4
  <2> QED
    BY <2>2, <2>3, <2>4
<1> QED
  BY <1>1, <1>3 DEF Parted, OutInUse

-----------------------------------------------------------------------------
LEMMA PartInvInit == Init => PartInv
<1> SUFFICES ASSUME Init PROVE Parted
  BY DEF PartInv
<1>1. \A t \in Threads : pc[t] = "idle"
  BY DEF Init
<1>2. SlotsApart
  BY <1>1 DEF SlotsApart
<1>3. free_count \in Int /\ Slots = 0 .. free_count - 1 /\ Len(queue) = 0
  BY SizeType DEF Init, Slots
<1>4. \A i \in Slots : Listed(i) = i
  <2> SUFFICES ASSUME NEW i \in Slots PROVE Listed(i) = i
    OBVIOUS
  <2>1. Listed(i) = free_list[i]
    BY <1>1, ListedUnpushed DEF Pushes
  <2> QED
    BY <2>1 DEF Init
<1>5. \A t \in Threads : ~ HasTaken(t)
  BY <1>1 DEF HasTaken
<1>6. PlacesDistinct
  BY <1>3, <1>4, <1>5
     DEF PlacesDistinct, ListApart, ListQueue, ListHands, QueueApart, QueueHands, HandsApart
<1>7. OutInUse
  BY <1>1, <1>3 DEF Init, OutInUse
<1> QED
  BY <1>2, <1>6, <1>7 DEF Parted

\* The history variable is never reset.
LEMMA OverlapStays ==
  ASSUME PoolInv, NEW t \in Threads,
         Allocate(t) \/ Deallocate(t) \/ CasRetry(t) \/ HandOver(t) \/ TakeOver(t),
         ~ overlapped'
  PROVE  ~ overlapped
  BY DEF Allocate, Deallocate, AllocLoad, AllocExhausted, AllocCas, PopFreeList, MarkInUse,
         MarkUnused, DeallocLoad, DeallocCas, PushFreeList, CasRetry, HandOver, TakeOver

LEMMA PartInvNext == PoolInv /\ PartInv /\ [Next]_vars => PartInv'
<1> SUFFICES ASSUME PoolInv, PartInv, [Next]_vars, ~ overlapped' PROVE Parted'
  BY DEF PartInv
<1>1. CASE UNCHANGED vars
  <2>1. Parted
    BY <1>1 DEF vars, PartInv
  <2>2. SlotsApart'
    BY <1>1, <2>1 DEF vars, Parted, SlotsApart
  <2>3. OutInUse'
    BY <1>1, <2>1 DEF vars, Parted, OutInUse
  <2>4. ASSUME NEW i \in 0 .. free_count - 1 PROVE Listed(i)' = Listed(i)
    BY <1>1, <2>1, <2>2, ListedSame DEF vars, Parted, Pushes
  <2>5. \A t \in Threads : (HasTaken(t)' <=> HasTaken(t)) /\ Hand(t)' = Hand(t)
    BY <1>1 DEF vars, HasTaken, Hand
  <2>6. PlacesDistinct'
    BY <1>1, <2>1, <2>4, <2>5, PlacesFrame DEF vars, Parted, SamePlaces
  <2> QED
    BY <2>2, <2>3, <2>6 DEF Parted
<1>2. ASSUME NEW t \in Threads,
             Allocate(t) \/ Deallocate(t) \/ CasRetry(t) \/ HandOver(t) \/ TakeOver(t)
      PROVE  Parted'
  <2>1. Parted
    BY <1>2, OverlapStays DEF PartInv
  <2>2. SlotsApart' /\ PlacesDistinct'
    BY <1>2, <2>1, QuietPlaces, PushPlaces, HandOverPlaces, TakeOverPlaces, AllocCasPlaces,
       DeallocCasPlaces DEF Allocate, Deallocate, Quiet
  <2>3. OutInUse'
    <3>1. OutInUse
      BY <2>1 DEF Parted
    <3> QED
      BY <1>2, <2>1, <3>1, FlagsFrame, MarkInUseFlags, MarkUnusedFlags, HandOverFlags, TakeOverFlags
         DEF Allocate, Deallocate
  <2> QED
    BY <2>2, <2>3 DEF Parted
<1> QED
  BY <1>1, <1>2 DEF Next

-----------------------------------------------------------------------------
\* Distinct places that hold all buffers are the partition.

Repeatless(p)  == \A i, j \in 1 .. Len(p) : p[i] = p[j] => i = j
Disjoint(p, q) == \A i \in 1 .. Len(p) : \A j \in 1 .. Len(q) : p[i] # q[j]

LEMMA ConcatRepeatless ==
  ASSUME NEW S, NEW p \in Seq(S), NEW q \in Seq(S),
         Repeatless(p), Repeatless(q), Disjoint(p, q)
  PROVE  /\ p \o q \in Seq(S)
         /\ Len(p \o q) = Len(p) + Len(q)
         /\ Repeatless(p \o q)
         /\ \A r : Disjoint(p, r) /\ Disjoint(q, r) => Disjoint(p \o q, r)
<1>1. p \o q \in Seq(S) /\ Len(p \o q) = Len(p) + Len(q) /\ Len(p) \in Nat /\ Len(q) \in Nat
  BY ConcatProperties, LenProperties
<1>2. ASSUME NEW i \in 1 .. Len(p \o q)
      PROVE  \/ i \in 1 .. Len(p) /\ (p \o q)[i] = p[i]
             \/ i - Len(p) \in 1 .. Len(q) /\ (p \o q)[i] = q[i - Len(p)]
  BY <1>1, ConcatProperties
<1>3. ASSUME NEW i \in 1 .. Len(p \o q), NEW j \in 1 .. Len(p \o q), (p \o q)[i] = (p \o q)[j]
      PROVE  i = j
  <2>1. CASE i \in 1 .. Len(p) /\ j \in 1 .. Len(p) /\ (p \o q)[i] = p[i] /\ (p \o q)[j] = p[j]
    BY <1>3, <2>1 DEF Repeatless
  <2>2. CASE /\ i - Len(p) \in 1 .. Len(q) /\ (p \o q)[i] = q[i - Len(p)]
             /\ j - Len(p) \in 1 .. Len(q) /\ (p \o q)[j] = q[j - Len(p)]
    <3>1. i - Len(p) = j - Len(p)
      BY <1>3, <2>2 DEF Repeatless
    <3> QED
      BY <1>1, <3>1
  <2> QED
    BY <1>2, <1>3, <2>1, <2>2 DEF Disjoint
<1>4. ASSUME NEW r, Disjoint(p, r), Disjoint(q, r) PROVE Disjoint(p \o q, r)
  BY <1>2, <1>4 DEF Disjoint
<1> QED
  BY <1>1, <1>3, <1>4 DEF Repeatless

\* A function from a set of N numbers to N numbers that repeats nothing misses nothing.
LEMMA InjectionIsOnto ==
  ASSUME NEW N \in Nat, NEW f \in [1 .. N -> 0 .. N - 1],
         \A i, j \in 1 .. N : f[i] = f[j] => i = j
  PROVE  {f[i] : i \in 1 .. N} = 0 .. N - 1
<1> DEFINE S == 1 .. N
           T == 0 .. N - 1
<1>1. IsFiniteSet(S) /\ Cardinality(S) = N
  BY FS_Interval
<1>2. IsFiniteSet(T) /\ Cardinality(T) = N
  <2>1. 0 \in Int /\ N - 1 \in Int
    OBVIOUS
  <2>2. /\ IsFiniteSet(0 .. N - 1)
        /\ Cardinality(0 .. N - 1) = IF 0 > N - 1 THEN 0 ELSE (N - 1) - 0 + 1
    BY <2>1, FS_Interval, Zenon
  <2> QED
    BY <2>2
<1>3. f \in Injection(S, T)
  BY DEF Injection, IsInjective
<1> HIDE DEF S, T
<1>4. f \in Surjection(S, T)
  BY <1>1, <1>2, <1>3, FS_Injection
<1> QED
  BY <1>4 DEF Surjection, S, T

LEMMA ListedType ==
  ASSUME PoolInv, Parted, NEW i \in 0 .. free_count - 1
  PROVE  Listed(i) \in Buffers
<1>1. CASE \E t \in Threads : Pushes(t, i)
  <2>1. PICK t \in Threads : Pushes(t, i)
    BY <1>1
  <2>2. Listed(i) = buf[t]
    BY <2>1, ListedPushed DEF Parted
  <2> QED
    BY <2>2 DEF PoolInv, TypeOK
<1>2. CASE \A t \in Threads : ~ Pushes(t, i)
  <2>1. Listed(i) = free_list[i]
    BY <1>2, ListedUnpushed
  <2>2. i \in Slots
    BY SizeType DEF PoolInv, TypeOK, Slots
  <2> QED
    BY <2>1, <2>2 DEF PoolInv, TypeOK
<1> QED
  BY <1>1, <1>2

LEMMA AtHandIs ==
  ASSUME PoolInv, NEW t \in Threads
  PROVE  /\ AtHand(t) \in Seq(Buffers)
         /\ Len(AtHand(t)) = One(HasTaken(t))
         /\ \A i \in 1 .. Len(AtHand(t)) : HasTaken(t) /\ i = 1 /\ AtHand(t)[i] = Hand(t)
<1>1. CASE pc[t] = "pop"
  <2>1. count[t] \in 0 .. PoolSize /\ count[t] > 0
    BY <1>1 DEF PoolInv, TypeOK, SlotInRange
  <2>2. count[t] - 1 \in Slots
    BY <2>1, SlotBelow
  <2>3. HasTaken(t) /\ Hand(t) = free_list[count[t] - 1] /\ Hand(t) \in Buffers
    BY <1>1, <2>2 DEF HasTaken, Hand, PoolInv, TypeOK
  <2>4. AtHand(t) = <<Hand(t)>>
    BY <1>1, <2>3 DEF AtHand, Owns
  <2> QED
    BY <2>3, <2>4 DEF One
<1>2. CASE Owns(t)
  <2>1. HasTaken(t) /\ Hand(t) = buf[t] /\ Hand(t) \in Buffers
    BY <1>2 DEF Owns, HasTaken, Hand, PoolInv, TypeOK
  <2>2. AtHand(t) = <<Hand(t)>>
    BY <1>2, <2>1 DEF AtHand, Owns
  <2> QED
    BY <2>1, <2>2 DEF One
<1>3. CASE pc[t] # "pop" /\ ~ Owns(t)
  <2>1. ~ HasTaken(t)
    BY <1>3 DEF Owns, HasTaken
  <2>2. AtHand(t) = <<>>
    BY <1>3 DEF AtHand
  <2> QED
    BY <2>1, <2>2 DEF One
<1> QED
  BY <1>1, <1>2, <1>3

LEMMA EverywhereIs ==
  ASSUME PoolInv, Parted
  PROVE  Everywhere \in Seq(Buffers) /\ Len(Everywhere) = PoolSize /\ Repeatless(Everywhere)
<1> DEFINE L == [i \in 1 .. free_count |-> Listed(i - 1)]
           A == AtHand("subscriber")
           B == AtHand("worker")
<1>1. free_count \in Nat /\ "subscriber" \in Threads /\ "worker" \in Threads /\ queue \in Seq(Buffers)
  BY SizeType DEF PoolInv, TypeOK, Threads
<1>2. /\ L \in Seq(Buffers) /\ Len(L) = free_count
      /\ \A i \in 1 .. Len(L) : i - 1 \in 0 .. free_count - 1 /\ L[i] = Listed(i - 1)
  <2>1. \A i \in 1 .. free_count : i - 1 \in 0 .. free_count - 1
    BY <1>1
  <2>2. \A i \in 1 .. free_count : Listed(i - 1) \in Buffers
    BY <2>1, ListedType
  <2>3. L \in [1 .. free_count -> Buffers]
    BY <2>2
  <2>4. L \in Seq(Buffers) /\ Len(L) = free_count
    BY <1>1, <2>3
  <2> QED
    BY <2>1, <2>4
<1>3. Repeatless(L)
  <2> SUFFICES ASSUME NEW i \in 1 .. Len(L), NEW j \in 1 .. Len(L), L[i] = L[j] PROVE i = j
    BY DEF Repeatless
  <2>1. i - 1 = j - 1
    BY <1>2 DEF Parted, PlacesDistinct, ListApart
  <2> QED
    BY <1>1, <1>2, <2>1
<1>4. Repeatless(queue) /\ Disjoint(L, queue)
  BY <1>2 DEF Parted, PlacesDistinct, QueueApart, ListQueue, Repeatless, Disjoint
<1>5. ASSUME NEW t \in Threads
      PROVE  /\ AtHand(t) \in Seq(Buffers)
             /\ Len(AtHand(t)) = One(HasTaken(t))
             /\ Repeatless(AtHand(t)) /\ Disjoint(L, AtHand(t)) /\ Disjoint(queue, AtHand(t))
  <2>1. /\ AtHand(t) \in Seq(Buffers)
        /\ Len(AtHand(t)) = One(HasTaken(t))
        /\ \A i \in 1 .. Len(AtHand(t)) : HasTaken(t) /\ i = 1 /\ AtHand(t)[i] = Hand(t)
    BY AtHandIs
  <2>2. Disjoint(L, AtHand(t))
    BY <1>2, <2>1 DEF Parted, PlacesDistinct, ListHands, Disjoint
  <2>3. Disjoint(queue, AtHand(t))
    BY <2>1 DEF Parted, PlacesDistinct, QueueHands, Disjoint
  <2>4. Repeatless(AtHand(t))
    BY <2>1 DEF Repeatless
  <2> QED
    BY <2>1, <2>2, <2>3, <2>4
<1>6. /\ A \in Seq(Buffers) /\ Len(A) = One(HasTaken("subscriber"))
      /\ Repeatless(A) /\ Disjoint(L, A) /\ Disjoint(queue, A)
  BY <1>1, <1>5
<1>7. /\ B \in Seq(Buffers) /\ Len(B) = One(HasTaken("worker"))
      /\ Repeatless(B) /\ Disjoint(L, B) /\ Disjoint(queue, B)
  BY <1>1, <1>5
<1>8. Disjoint(A, B)
  <2>1. /\ \A i \in 1 .. Len(A) : HasTaken("subscriber") /\ A[i] = Hand("subscriber")
        /\ \A i \in 1 .. Len(B) : HasTaken("worker") /\ B[i] = Hand("worker")
    BY <1>1, AtHandIs
  <2> QED
    BY <1>1, <2>1 DEF Parted, PlacesDistinct, HandsApart, Disjoint
<1>9. Everywhere = L \o queue \o A \o B
  BY DEF Everywhere
<1> HIDE DEF L, A, B
<1>10. /\ L \o queue \in Seq(Buffers) /\ Len(L \o queue) = Len(L) + Len(queue)
       /\ Repeatless(L \o queue) /\ Disjoint(L \o queue, A) /\ Disjoint(L \o queue, B)
  BY <1>1, <1>2, <1>3, <1>4, <1>6, <1>7, ConcatRepeatless, Zenon
<1>11. /\ L \o queue \o A \in Seq(Buffers) /\ Len(L \o queue \o A) = Len(L \o queue) + Len(A)
       /\ Repeatless(L \o queue \o A) /\ Disjoint(L \o queue \o A, B)
  BY <1>6, <1>7, <1>8, <1>10, ConcatRepeatless, Zenon
<1>12. /\ L \o queue \o A \o B \in Seq(Buffers)
       /\ Len(L \o queue \o A \o B) = Len(L \o queue \o A) + Len(B)
       /\ Repeatless(L \o queue \o A \o B)
  BY <1>7, <1>11, ConcatRepeatless, Zenon
<1>13. Len(L \o queue \o A \o B) = PoolSize
  <2>1. Len(queue) \in Nat /\ Len(A) \in Nat /\ Len(B) \in Nat
    BY <1>1, <1>6, <1>7, LenProperties
  <2> QED
    BY <1>1, <1>2, <1>6, <1>7, <1>10, <1>11, <1>12, <2>1 DEF PoolInv, CountsAddUp
<1> QED
  BY <1>9, <1>12, <1>13

LEMMA PartInvImplies == PoolInv /\ PartInv => PartitionUntilOverlap
<1> SUFFICES ASSUME PoolInv, Parted
             PROVE  /\ Len(Everywhere) = PoolSize
                    /\ {Everywhere[i] : i \in 1 .. PoolSize} = Buffers
                    /\ \A b \in Buffers :
                         in_use[b] <=> \/ \E i \in 1 .. Len(queue) : queue[i] = b
                                       \/ \E t \in Threads : pc[t] = "owner" /\ buf[t] = b
  BY DEF PartInv, PartitionUntilOverlap
<1>1. /\ Everywhere \in Seq(Buffers)
      /\ Len(Everywhere) = PoolSize
      /\ \A i, j \in 1 .. Len(Everywhere) : Everywhere[i] = Everywhere[j] => i = j
  BY EverywhereIs DEF Repeatless
<1>2. PoolSize \in Nat /\ Buffers = 0 .. PoolSize - 1
  BY PoolSizeAssumption DEF Buffers
<1>3. Everywhere \in [1 .. PoolSize -> 0 .. PoolSize - 1]
  BY <1>1, <1>2
<1>4. {Everywhere[i] : i \in 1 .. PoolSize} = Buffers
  BY <1>1, <1>2, <1>3, InjectionIsOnto
<1>5. OutInUse
  BY DEF Parted
<1> QED
  BY <1>1, <1>4, <1>5 DEF OutInUse

(* Each buffer of BufferPool is in exactly one of free_list_, the message  *)
(* queue and the hands of the two threads, and flagged in_use exactly while*)
(* it is out, until allocate() and deallocate() have been on their way to  *)
(* the same entry of free_list_ at once: for every PoolSize, that window   *)
(* is the only way to lose a buffer or to hand it out twice.               *)
THEOREM BuffersPartitioned == Spec => []PartitionUntilOverlap
<1>1. Init => PoolInv /\ PartInv
  BY PoolInvInit, PartInvInit
<1>2. PoolInv /\ PartInv /\ [Next]_vars => (PoolInv /\ PartInv)'
  BY PoolInvNext, PartInvNext
<1>3. PoolInv /\ PartInv => PartitionUntilOverlap
  BY PartInvImplies
<1> QED
  BY <1>1, <1>2, <1>3, PTL DEF Spec
-----------------------------------------------------------------------------
\* The refinement of FreePool, up to an overlap.

\* What a thread holds in terms of the two operators of the invariant.
HeldIs == Held = [t \in Threads |-> IF HasTaken(t) THEN {Hand(t)} ELSE {}]

LEMMA HeldByHand == PoolInv => HeldIs
<1> SUFFICES ASSUME PoolInv, NEW t \in Threads
             PROVE  {AtHand(t)[i] : i \in DOMAIN AtHand(t)} = IF HasTaken(t) THEN {Hand(t)} ELSE {}
  BY DEF HeldIs, Held
<1>1. /\ AtHand(t) \in Seq(Buffers) /\ Len(AtHand(t)) = One(HasTaken(t))
      /\ \A i \in 1 .. Len(AtHand(t)) : HasTaken(t) /\ i = 1 /\ AtHand(t)[i] = Hand(t)
  BY AtHandIs
<1>2. DOMAIN AtHand(t) = 1 .. Len(AtHand(t))
  BY <1>1
<1>3. CASE HasTaken(t)
  <2>1. 1 .. Len(AtHand(t)) = {1}
    BY <1>1, <1>3 DEF One
  <2>2. AtHand(t)[1] = Hand(t)
    BY <1>1, <2>1
  <2> QED
    BY <1>2, <1>3, <2>1, <2>2
<1>4. CASE ~ HasTaken(t)
  <2>1. 1 .. Len(AtHand(t)) = {}
    BY <1>1, <1>4 DEF One
  <2> QED
    BY <1>2, <1>4, <2>1
<1> QED
  BY <1>3, <1>4

LEMMA HeldByHandNext == PoolInv' => HeldIs'
  BY HeldByHand, PTL

LEMMA FreeType ==
  ASSUME PoolInv, Parted
  PROVE  FreeBuffers \subseteq Buffers
  BY ListedType DEF FreeBuffers

\* A step of the code that nobody notices, and one that decides on a nullptr.
LEMMA SameFree ==
  ASSUME PoolInv, PoolInv', SamePlaces
  PROVE  FreeBuffers' = FreeBuffers /\ queue' = queue /\ Held' = Held
<1>1. FreeBuffers' = FreeBuffers
  BY DEF SamePlaces, FreeBuffers
<1>2. HeldIs /\ HeldIs'
  BY HeldByHand, HeldByHandNext
<1>3. \A t \in Threads : (IF HasTaken(t)' THEN {Hand(t)'} ELSE {}) = IF HasTaken(t) THEN {Hand(t)} ELSE {}
  BY DEF SamePlaces
<1>4. Held' = Held
  BY <1>2, <1>3 DEF HeldIs
<1> QED
  BY <1>1, <1>4 DEF SamePlaces

LEMMA NothingHeld ==
  ASSUME PoolInv, NEW t \in Threads
  PROVE  /\ ~ HasTaken(t) => Held[t] = {}
         /\ HasTaken(t) => Held[t] = {Hand(t)}
  BY HeldByHand DEF HeldIs

LEMMA QuietStep ==
  ASSUME PoolInv, PoolInv', Parted, NEW t \in Threads, Quiet(t) \/ PushFreeList(t)
  PROVE  Pool!Refuse \/ Pool!ReturnNull \/ UNCHANGED Pool!poolVars
<1>1. FreeBuffers' = FreeBuffers /\ queue' = queue /\ Held' = Held
  BY QuietPlaces, PushPlaces, SameFree
<1>2. CASE Refused' = Refused
  BY <1>1, <1>2 DEF Pool!poolVars
<1>3. CASE ~ Refused /\ Refused'
  <2>1. pc'["subscriber"] = "alloc" /\ count'["subscriber"] = 0
    BY <1>3 DEF Refused
  <2>2. /\ AllocLoad(t) \/ CasRetry(t)
        /\ t = "subscriber" /\ pc[t] \in {"idle", "alloc"} /\ free_count = 0
    BY <1>3, <2>1 DEF Quiet, AllocLoad, AllocExhausted, CasRetry, PopFreeList, MarkInUse, MarkUnused,
         DeallocLoad, PushFreeList, PoolInv, TypeOK, Goto, Refused, Threads
  <2>3. FreeBuffers = {}
    BY <2>2 DEF FreeBuffers
  <2>4. Held["subscriber"] = {}
    BY <2>2, NothingHeld DEF HasTaken
  <2> QED
    BY <1>1, <1>3, <2>3, <2>4 DEF Pool!Refuse
<1>4. CASE Refused /\ ~ Refused'
  BY <1>1, <1>4 DEF Pool!ReturnNull
<1> QED
  BY <1>2, <1>3, <1>4 DEF Refused

LEMMA AllocateStep ==
  ASSUME PoolInv, PoolInv', Parted, NEW t \in Threads, AllocCas(t), ~ overlapped'
  PROVE  \E b \in Buffers : Pool!Allocate(b)
<1>0. PICK c \in 0 .. PoolSize : c = count[t]
  BY DEF PoolInv, TypeOK
<1>1. /\ free_count = c /\ free_count' = c - 1 /\ c \in Nat /\ c > 0 /\ queue' = queue
      /\ t = "subscriber" /\ pc[t] = "alloc" /\ pc'[t] = "pop"
      /\ \A u \in Threads : u # t => pc'[u] = pc[u]
      /\ count' = count
  BY <1>0, SizeType DEF AllocCas, PoolInv, TypeOK, Goto, Threads
<1>2. /\ \A i \in 0 .. free_count - 1 : Listed(i)' = Listed(i)
      /\ Hand(t)' = Listed(c - 1)
      /\ \A u \in Threads : u # t /\ HasTaken(u)' => HasTaken(u) /\ Hand(u)' = Hand(u)
  BY <1>0, AllocCasPlaces
<1>3. c - 1 \in 0 .. free_count - 1 /\ Listed(c - 1) \in Buffers
  BY <1>1, ListedType
<1>4. Listed(c - 1) \in FreeBuffers
  BY <1>3 DEF FreeBuffers
<1>5. FreeBuffers' = FreeBuffers \ {Listed(c - 1)}
  <2>1. \A i \in 0 .. free_count - 1 : Listed(i) = Listed(c - 1) => i = c - 1
    BY <1>3 DEF Parted, PlacesDistinct, ListApart
  <2>2. FreeBuffers' = {Listed(i) : i \in 0 .. free_count' - 1}
    <3>1. \A i \in 0 .. free_count' - 1 : i \in 0 .. free_count - 1
      BY <1>1
    <3> QED
      BY <1>2, <3>1 DEF FreeBuffers
  <2>3. \A i : i \in 0 .. free_count' - 1 <=> i \in 0 .. free_count - 1 /\ i # c - 1
    BY <1>1
  <2> QED
    BY <2>1, <2>2, <2>3 DEF FreeBuffers
<1>6. Held["subscriber"] = {} /\ ~ Refused /\ Refused' = Refused
  <2>1. ~ HasTaken("subscriber") /\ "subscriber" \in Threads
    BY <1>1 DEF HasTaken
  <2>2. count["subscriber"] # 0 /\ pc'["subscriber"] # "alloc"
    BY <1>0, <1>1
  <2> QED
    BY <2>1, <2>2, NothingHeld DEF Refused
<1>7. Held' = [Held EXCEPT !["subscriber"] = {Listed(c - 1)}]
  <2>1. HeldIs /\ HeldIs'
    BY HeldByHand, HeldByHandNext
  <2>2. \A u \in Threads : (IF HasTaken(u)' THEN {Hand(u)'} ELSE {}) =
          IF u = "subscriber" THEN {Listed(c - 1)} ELSE IF HasTaken(u) THEN {Hand(u)} ELSE {}
    BY <1>1, <1>2 DEF HasTaken
  <2> QED
    BY <2>1, <2>2 DEF HeldIs
<1>8. PICK b \in Buffers : b = Listed(c - 1)
  BY <1>3
<1>9. Pool!Allocate(b)
  BY <1>1, <1>4, <1>5, <1>6, <1>7, <1>8 DEF Pool!Allocate
<1> QED
  BY <1>9

LEMMA DeallocateStep ==
  ASSUME PoolInv, PoolInv', Parted, NEW t \in Threads, DeallocCas(t), ~ overlapped'
  PROVE  \E b \in Buffers : Pool!Deallocate(t, b)
<1>0. PICK c \in 0 .. PoolSize : c = count[t]
  BY DEF PoolInv, TypeOK
<1>1. /\ free_count = c /\ free_count' = c + 1 /\ c \in Nat /\ queue' = queue
      /\ pc[t] = "dealloc" /\ pc'[t] = "push"
      /\ \A u \in Threads : u # t => pc'[u] = pc[u]
      /\ count' = count
  BY <1>0, SizeType DEF DeallocCas, PoolInv, TypeOK, Goto
<1>2. /\ \A i \in 0 .. free_count - 1 : Listed(i)' = Listed(i)
      /\ Listed(c)' = Hand(t)
      /\ \A u \in Threads : HasTaken(u)' => HasTaken(u) /\ Hand(u)' = Hand(u)
  BY <1>0, DeallocCasPlaces
<1>3. HasTaken(t) /\ ~ HasTaken(t)' /\ Hand(t) \in Buffers
  BY <1>1 DEF HasTaken, Hand, PoolInv, TypeOK
<1>4. Hand(t) \notin FreeBuffers
  BY <1>3 DEF FreeBuffers, Parted, PlacesDistinct, ListHands
<1>5. FreeBuffers' = FreeBuffers \cup {Hand(t)}
  <2>1. \A i : i \in 0 .. free_count' - 1 <=> i \in 0 .. free_count - 1 \/ i = c
    BY <1>1
  <2>2. FreeBuffers' = {Listed(i)' : i \in 0 .. free_count' - 1}
    BY DEF FreeBuffers
  <2> QED
    BY <1>2, <2>1, <2>2 DEF FreeBuffers
<1>6. Held[t] = {Hand(t)} /\ Refused' = Refused
  BY <1>1, <1>3, NothingHeld DEF Refused, Threads
<1>7. Held' = [Held EXCEPT ![t] = {}]
  <2>1. HeldIs /\ HeldIs'
    BY HeldByHand, HeldByHandNext
  <2>2. \A u \in Threads : (IF HasTaken(u)' THEN {Hand(u)'} ELSE {}) =
          IF u = t THEN {} ELSE IF HasTaken(u) THEN {Hand(u)} ELSE {}
    BY <1>1, <1>2, <1>3 DEF HasTaken
  <2> QED
    BY <2>1, <2>2 DEF HeldIs
<1>8. PICK b \in Buffers : b = Hand(t)
  BY <1>3
<1>9. Pool!Deallocate(t, b)
  BY <1>1, <1>4, <1>5, <1>6, <1>7, <1>8 DEF Pool!Deallocate
<1> QED
  BY <1>9

LEMMA HandOverStepsPool ==
  ASSUME PoolInv, PoolInv', Parted, NEW t \in Threads, HandOver(t)
  PROVE  \E b \in Buffers : Pool!HandOver(b)
<1>1. /\ queue' = Append(queue, buf[t]) /\ Len(queue) < QueueCapacity
      /\ t = "subscriber" /\ pc[t] = "owner" /\ pc'[t] = "idle"
      /\ \A u \in Threads : u # t => pc'[u] = pc[u]
      /\ free_list' = free_list /\ count' = count /\ buf' = buf
  BY DEF HandOver, PoolInv, TypeOK, Goto
<1>2. FreeBuffers' = FreeBuffers
  BY QueueStepList DEF FreeBuffers
<1>3. HasTaken(t) /\ Hand(t) = buf[t] /\ buf[t] \in Buffers
  BY <1>1 DEF HasTaken, Hand, PoolInv, TypeOK
<1>4. Held["subscriber"] = {buf[t]} /\ Refused' = Refused
  BY <1>1, <1>3, NothingHeld DEF Refused
<1>5. Held' = [Held EXCEPT !["subscriber"] = {}]
  <2>1. HeldIs /\ HeldIs'
    BY HeldByHand, HeldByHandNext
  <2>2. \A u \in Threads : (IF HasTaken(u)' THEN {Hand(u)'} ELSE {}) =
          IF u = "subscriber" THEN {} ELSE IF HasTaken(u) THEN {Hand(u)} ELSE {}
    BY <1>1 DEF HasTaken, Hand
  <2> QED
    BY <2>1, <2>2 DEF HeldIs
<1>6. PICK b \in Buffers : b = buf[t]
  BY <1>3
<1>7. Pool!HandOver(b)
  BY <1>1, <1>2, <1>4, <1>5, <1>6 DEF Pool!HandOver
<1> QED
  BY <1>7

LEMMA TakeOverStepsPool ==
  ASSUME PoolInv, PoolInv', Parted, NEW t \in Threads, TakeOver(t)
  PROVE  Pool!TakeOver
<1>1. /\ queue # <<>> /\ queue' = Tail(queue) /\ buf'[t] = Head(queue)
      /\ t = "worker" /\ pc[t] = "idle" /\ pc'[t] = "owner"
      /\ \A u \in Threads : u # t => pc'[u] = pc[u] /\ buf'[u] = buf[u]
      /\ free_list' = free_list /\ count' = count
  BY DEF TakeOver, PoolInv, TypeOK, Goto
<1>2. FreeBuffers' = FreeBuffers
  BY QueueStepList DEF FreeBuffers
<1>3. Held["worker"] = {} /\ Refused' = Refused
  BY <1>1, NothingHeld DEF Refused, HasTaken, Threads
<1>4. Held' = [Held EXCEPT !["worker"] = {Head(queue)}]
  <2>1. HeldIs /\ HeldIs'
    BY HeldByHand, HeldByHandNext
  <2>2. \A u \in Threads : (IF HasTaken(u)' THEN {Hand(u)'} ELSE {}) =
          IF u = "worker" THEN {Head(queue)} ELSE IF HasTaken(u) THEN {Hand(u)} ELSE {}
    BY <1>1 DEF HasTaken, Hand
  <2> QED
    BY <2>1, <2>2 DEF HeldIs
<1> QED
  BY <1>1, <1>2, <1>3, <1>4 DEF Pool!TakeOver

LEMMA PoolInit == Init => Pool!Init
<1> SUFFICES ASSUME Init PROVE Pool!Init
  OBVIOUS
<1>1. \A t \in Threads : pc[t] = "idle"
  BY DEF Init
<1>2. FreeBuffers = Buffers
  <2>1. ASSUME NEW i \in 0 .. free_count - 1 PROVE Listed(i) = i
    <3>1. \A t \in Threads : ~ Pushes(t, i)
      BY <1>1 DEF Pushes
    <3>2. Listed(i) = free_list[i]
      BY <3>1, ListedUnpushed
    <3> QED
      BY <3>2 DEF Init, Slots
  <2>2. 0 .. free_count - 1 = Buffers
    BY DEF Init, Buffers
  <2> QED
    BY <2>1, <2>2 DEF FreeBuffers
<1>3. Held = [t \in {"subscriber", "worker"} |-> {}]
  <2>1. HeldIs
    BY PoolInvInit, HeldByHand
  <2> QED
    BY <1>1, <2>1 DEF HeldIs, HasTaken, Threads
<1>4. ~ Refused
  BY <1>1 DEF Refused, Threads
<1> QED
  BY <1>2, <1>3, <1>4 DEF Init, Pool!Init

LEMMA PoolNext ==
  ASSUME PoolInv, PoolInv', PartInv, [Next]_vars
  PROVE  [overlapped' \/ Pool!Next]_(Pool!poolVars)
<1> SUFFICES ASSUME ~ overlapped' PROVE [Pool!Next]_(Pool!poolVars)
  OBVIOUS
<1>1. CASE UNCHANGED vars
  BY <1>1 DEF vars, Pool!poolVars, FreeBuffers, Listed, Pushes, Held, AtHand, Owns, Refused
<1>2. ASSUME NEW t \in Threads,
             Allocate(t) \/ Deallocate(t) \/ CasRetry(t) \/ HandOver(t) \/ TakeOver(t)
      PROVE  [Pool!Next]_(Pool!poolVars)
  <2>1. Parted
    BY <1>2, OverlapStays DEF PartInv
  <2>2. CASE Quiet(t) \/ PushFreeList(t)
    BY <2>1, <2>2, QuietStep DEF Pool!Next
  <2>3. CASE AllocCas(t)
    BY <2>1, <2>3, AllocateStep DEF Pool!Next
  <2>4. CASE DeallocCas(t)
    BY <2>1, <2>4, DeallocateStep DEF Pool!Next, Threads
  <2>5. CASE HandOver(t)
    BY <2>1, <2>5, HandOverStepsPool DEF Pool!Next
  <2>6. CASE TakeOver(t)
    BY <2>1, <2>6, TakeOverStepsPool DEF Pool!Next
  <2> QED
    BY <1>2, <2>2, <2>3, <2>4, <2>5, <2>6 DEF Allocate, Deallocate, Quiet
<1> QED
  BY <1>1, <1>2 DEF Next

(* For every PoolSize and QueueCapacity, allocate() and deallocate() with  *)
(* the queue between their threads implement FreePool until they have met  *)
(* on an entry of free_list_: each takes effect at its compare-and-swap,   *)
(* nothing is given back that is free, and allocate() only returns nullptr *)
(* when the pool was empty at the load that told it so.                    *)
THEOREM PoolIsAtomic == Spec => AtomicUntilOverlap
<1>1. PoolInv /\ PartInv /\ [Next]_vars => (PoolInv /\ PartInv)'
  BY PoolInvNext, PartInvNext
<1>2. PoolInv /\ PoolInv' /\ PartInv /\ [Next]_vars => [overlapped' \/ Pool!Next]_(Pool!poolVars)
  BY PoolNext
<1> QED
  BY <1>1, <1>2, PoolInit, PoolInvInit, PartInvInit, PTL DEF Spec, AtomicUntilOverlap
=============================================================================
