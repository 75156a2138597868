---------------------------- MODULE MessageQueue ----------------------------
(***************************************************************************)
(* The lock-free ring shared by one producer and one consumer thread       *)
(* (MessageQueue.h, and SPSCQueue.h, the same algorithm without the slot   *)
(* clearing and the counters).  Every load or store of a variable that the *)
(* other thread also touches is a step of its own.  The acquire and        *)
(* release orderings of the code make the interleaving of these steps the  *)
(* behaviours of the program: the store to a slot happens before the store *)
(* to tail that publishes it, the read of a slot before the store to head  *)
(* that gives it back.                                                     *)
(***************************************************************************)
EXTENDS Integers, Sequences

CONSTANTS Size,         \* slots of the ring, a power of two
          Items,        \* what the producer may enqueue
          Null,         \* nullptr
          Instrumented, \* TRUE: MessageQueue (clears slots, counts); FALSE: SPSCQueue
          CounterMod    \* the counters are unsigned and wrap (2^64 in the code)

\* static_assert((Size & (Size - 1)) == 0): masking by Size - 1 is % Size.
ASSUME SizeAssumption == Size \in Nat \ {0} /\ \E k \in 0 .. Size : Size = 2 ^ k
ASSUME NullAssumption == Null \notin Items
ASSUME InstrumentedAssumption == Instrumented \in BOOLEAN
ASSUME CounterAssumption == CounterMod \in Nat \ {0}

VARIABLES
  buffer, head, tail,                                   \* shared
  total_enqueued, total_dequeued, enqueue_failures,     \* shared counters
  ppc, pbuf, current_tail, penqueued,                   \* producer: pc, argument, local, last answer
  cpc, cbuf, current_head, cdequeued                    \* consumer: pc, result, local, last answer

ring     == <<buffer, head, tail>>
counters == <<total_enqueued, total_dequeued, enqueue_failures>>
producer == <<ppc, pbuf, current_tail, penqueued>>
consumer == <<cpc, cbuf, current_head, cdequeued>>
vars     == <<ring, counters, producer, consumer>>

Slots == 0 .. Size - 1

Increment(i) == (i + 1) % Size

\* size(): the number of published slots between two indices.
Distance(from, to) == (to - from) % Size

CountUp(c) == IF Instrumented THEN (c + 1) % CounterMod ELSE c

Init ==
  /\ buffer = [i \in Slots |-> Null]
  /\ head = 0
  /\ tail = 0
  /\ total_enqueued = 0
  /\ total_dequeued = 0
  /\ enqueue_failures = 0
  /\ ppc = "idle"
  /\ pbuf = Null
  /\ current_tail = 0
  /\ penqueued = FALSE
  /\ cpc = "idle"
  /\ cbuf = Null
  /\ current_head = 0
  /\ cdequeued = FALSE

-----------------------------------------------------------------------------
\* bool enqueue(MessageBuffer* buf)

EnqueueBegin(b) ==
  /\ ppc = "idle"
  /\ pbuf' = b
  /\ current_tail' = tail
  /\ ppc' = "check"
  /\ UNCHANGED <<ring, counters, penqueued, consumer>>

\* Mutant: a refused item is counted as enqueued.
CountRefused ==
  /\ ppc = "check"
  /\ Increment(current_tail) = head
  /\ enqueue_failures' = CountUp(enqueue_failures)
  /\ total_enqueued' = CountUp(total_enqueued)
  /\ penqueued' = FALSE
  /\ ppc' = "idle"
  /\ UNCHANGED <<ring, total_dequeued, pbuf, current_tail, consumer>>

EnqueueFull ==
  /\ ppc = "check"
  /\ Increment(current_tail) = head
  /\ enqueue_failures' = CountUp(enqueue_failures)
  /\ penqueued' = FALSE
  /\ ppc' = "idle"
  /\ UNCHANGED <<ring, total_enqueued, total_dequeued, pbuf, current_tail, consumer>>

\* Mutant: the producer does not test for a full ring.
EnqueueUnchecked ==
  /\ ppc = "check"
  /\ ppc' = "store"
  /\ UNCHANGED <<ring, counters, pbuf, current_tail, penqueued, consumer>>

\* Mutant: the store to tail is visible before the store to the slot.
PublishBeforeStore ==
  /\ ppc = "check"
  /\ Increment(current_tail) # head
  /\ tail' = Increment(current_tail)
  /\ ppc' = "store"
  /\ UNCHANGED <<buffer, head, counters, pbuf, current_tail, penqueued, consumer>>

EnqueueRoom ==
  /\ ppc = "check"
  /\ Increment(current_tail) # head
  /\ ppc' = "store"
  /\ UNCHANGED <<ring, counters, pbuf, current_tail, penqueued, consumer>>

StoreSlot ==
  /\ ppc = "store"
  /\ buffer' = [buffer EXCEPT ![current_tail] = pbuf]
  /\ ppc' = "publish"
  /\ UNCHANGED <<head, tail, counters, pbuf, current_tail, penqueued, consumer>>

PublishTail ==
  /\ ppc = "publish"
  /\ tail' = Increment(current_tail)
  /\ penqueued' = TRUE
  /\ ppc' = IF Instrumented THEN "count" ELSE "idle"
  /\ UNCHANGED <<buffer, head, counters, pbuf, current_tail, consumer>>

CountEnqueued ==
  /\ ppc = "count"
  /\ total_enqueued' = CountUp(total_enqueued)
  /\ ppc' = "idle"
  /\ UNCHANGED <<ring, total_dequeued, enqueue_failures, pbuf, current_tail, penqueued, consumer>>

-----------------------------------------------------------------------------
\* bool dequeue(MessageBuffer*& buf)

DequeueBegin ==
  /\ cpc = "idle"
  /\ current_head' = head
  /\ cpc' = "check"
  /\ UNCHANGED <<ring, counters, producer, cbuf, cdequeued>>

DequeueEmpty ==
  /\ cpc = "check"
  /\ current_head = tail
  /\ cdequeued' = FALSE
  /\ cpc' = "idle"
  /\ UNCHANGED <<ring, counters, producer, cbuf, current_head>>

\* Mutant: the consumer does not test for an empty ring.
DequeueUnchecked ==
  /\ cpc = "check"
  /\ cpc' = "read"
  /\ UNCHANGED <<ring, counters, producer, cbuf, current_head, cdequeued>>

DequeueFound ==
  /\ cpc = "check"
  /\ current_head # tail
  /\ cpc' = "read"
  /\ UNCHANGED <<ring, counters, producer, cbuf, current_head, cdequeued>>

ReadSlot ==
  /\ cpc = "read"
  /\ cbuf' = buffer[current_head]
  /\ cdequeued' = TRUE
  /\ cpc' = IF Instrumented THEN "clear" ELSE "publish"
  /\ UNCHANGED <<ring, counters, producer, current_head>>

ClearSlot ==
  /\ cpc = "clear"
  /\ buffer' = [buffer EXCEPT ![current_head] = Null]
  /\ cpc' = "publish"
  /\ UNCHANGED <<head, tail, counters, producer, cbuf, current_head, cdequeued>>

\* Mutant: the slot is not given back.
KeepHead ==
  /\ cpc = "publish"
  /\ cpc' = IF Instrumented THEN "count" ELSE "idle"
  /\ UNCHANGED <<ring, counters, producer, cbuf, current_head, cdequeued>>

PublishHead ==
  /\ cpc = "publish"
  /\ head' = Increment(current_head)
  /\ cpc' = IF Instrumented THEN "count" ELSE "idle"
  /\ UNCHANGED <<buffer, tail, counters, producer, cbuf, current_head, cdequeued>>

CountDequeued ==
  /\ cpc = "count"
  /\ total_dequeued' = CountUp(total_dequeued)
  /\ cpc' = "idle"
  /\ UNCHANGED <<ring, total_enqueued, enqueue_failures, producer, cbuf, current_head, cdequeued>>

-----------------------------------------------------------------------------
Enqueue ==
  \/ \E b \in Items : EnqueueBegin(b)
  \/ EnqueueFull \/ EnqueueRoom \/ StoreSlot \/ PublishTail \/ CountEnqueued

Dequeue ==
  \/ DequeueBegin \/ DequeueEmpty \/ DequeueFound
  \/ ReadSlot \/ ClearSlot \/ PublishHead \/ CountDequeued

Next == Enqueue \/ Dequeue

Spec == Init /\ [][Next]_vars

\* The consumer thread polls for as long as the program runs.  Nothing obliges
\* the producer to start another enqueue, but one it has started it finishes.
Fairness ==
  /\ WF_vars(Dequeue)
  /\ WF_vars(Enqueue /\ ppc # "idle")

FairSpec == Spec /\ Fairness

-----------------------------------------------------------------------------
\* The consumer has copied its item out but not yet given the slot back.
HoldsSlot == cpc \in {"clear", "publish"}

\* The first slot whose item the consumer has still to take.
First == IF HoldsSlot THEN Increment(head) ELSE head

\* Slot i holds an item that is published and not yet taken.
Occupied(i) == i \in Slots /\ Distance(First, i) < Distance(First, tail)

Contents == [k \in 1 .. Distance(First, tail) |-> buffer[(First + k - 1) % Size]]

Fifo == INSTANCE BoundedFifo WITH
  Capacity <- Size - 1,
  items    <- Contents,
  taken    <- cbuf,
  accepted <- penqueued,
  found    <- cdequeued

-----------------------------------------------------------------------------
TypeOK ==
  /\ buffer \in [Slots -> Items \cup {Null}]
  /\ head \in Slots /\ tail \in Slots
  /\ total_enqueued \in 0 .. CounterMod - 1
  /\ total_dequeued \in 0 .. CounterMod - 1
  /\ enqueue_failures \in 0 .. CounterMod - 1
  /\ ppc \in {"idle", "check", "store", "publish", "count"}
  /\ pbuf \in Items \cup {Null}
  /\ current_tail \in Slots
  /\ penqueued \in BOOLEAN
  /\ cpc \in {"idle", "check", "read", "clear", "publish", "count"}
  /\ cbuf \in Items \cup {Null}
  /\ current_head \in Slots
  /\ cdequeued \in BOOLEAN

(* The producer's plain store to buffer_[current_tail] and the consumer's  *)
(* plain read and clear of buffer_[current_head] never touch the same slot *)
(* at the same time: the data race that the unused slot, the order of the  *)
(* slot access and the index store, and the full and empty tests prevent.  *)
NoSlotRace ==
  ~ /\ ppc = "store"
    /\ cpc \in {"read", "clear"}
    /\ current_tail = current_head

(* Between operations a cleared slot stays cleared: a slot that is neither *)
(* published, nor being filled by the producer, nor held by the consumer   *)
(* contains nullptr (the "optional, for debugging" clear of dequeue()).    *)
UnusedSlotsAreNull ==
  Instrumented =>
    \A i \in Slots :
      \/ Occupied(i)
      \/ ppc = "publish" /\ i = current_tail
      \/ cpc = "clear" /\ i = current_head
      \/ buffer[i] = Null

(* The counters of getStatistics() lag behind the ring by at most the one  *)
(* operation each thread has published and not yet counted, and otherwise  *)
(* account for exactly the slots in use, also when they wrap.              *)
CountersAccountForSlots ==
  Instrumented =>
    ( total_enqueued + (IF ppc = "count" THEN 1 ELSE 0)
      - total_dequeued - (IF cpc = "count" THEN 1 ELSE 0)
      - Distance(head, tail) ) % CounterMod = 0

(* The ring is a bounded FIFO: no item is lost, duplicated, reordered or   *)
(* read before it was written, a dequeue fails only on an empty queue and  *)
(* an enqueue only on a queue with no place left but one being given back. *)
ImplementsFifo == Fifo!Spec

(* Every item that was enqueued reaches the consumer as long as it polls.  *)
DeliveredEventually ==
  \A b \in Items :
    (\E k \in DOMAIN Contents : Contents[k] = b) ~> (cbuf = b)

-----------------------------------------------------------------------------
\* The invariant of the proofs.

\* A thread's copy of its own index is the index.
OwnIndex ==
  /\ ppc \in {"check", "store", "publish"} => current_tail = tail
  /\ cpc \in {"check", "read", "clear", "publish"} => current_head = head

\* What the full test of enqueue() and the empty test of dequeue() established
\* still holds while the operation is under way.
TestStillHolds ==
  /\ ppc \in {"store", "publish"} => Increment(tail) # head
  /\ cpc \in {"read", "clear", "publish"} => head # tail

\* What the producer is about to publish, and everything published and not yet
\* taken, is an item.
ArgumentIsItem == ppc \in {"check", "store", "publish"} => pbuf \in Items
StoredIsArgument == ppc = "publish" => buffer[tail] = pbuf
PublishedAreItems == \A i \in Slots : Occupied(i) => buffer[i] \in Items

RingInv ==
  /\ TypeOK
  /\ OwnIndex
  /\ TestStillHolds
  /\ ArgumentIsItem
  /\ StoredIsArgument
  /\ PublishedAreItems
  /\ UnusedSlotsAreNull
=============================================================================
