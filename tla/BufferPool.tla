----------------------------- MODULE BufferPool -----------------------------
(***************************************************************************)
(* The lock-free buffer pool (BufferPool.h) between the two threads that   *)
(* use it: the subscriber allocates a buffer per message and hands it over *)
(* through the message queue, or gives it back when the message is a       *)
(* duplicate or the queue is full; the worker gives back what it has       *)
(* dequeued.  Every access to memory both threads touch is a step, so that *)
(* the gap between the compare-and-swap on free_count_ and the plain       *)
(* access to free_list_[] is visible.  The queue is the FIFO that          *)
(* MessageQueue implements.                                                *)
(***************************************************************************)
EXTENDS Integers, Sequences, FiniteSets

CONSTANTS PoolSize,       \* number of buffers
          QueueCapacity   \* how many buffers fit in the message queue

ASSUME PoolSizeAssumption == PoolSize \in Nat \ {0}
ASSUME QueueCapacityAssumption == QueueCapacity \in Nat

Buffers == 0 .. PoolSize - 1     \* addresses within buffers_[]
Slots   == 0 .. PoolSize - 1     \* indices of free_list_[]
Threads == {"subscriber", "worker"}

VARIABLES
  free_list, free_count,  \* the pool
  in_use,                 \* the flag of each buffer
  queue,                  \* buffers on their way to the worker
  pc, count, buf,         \* per thread: control, local copy of free_count_, buffer at hand
  overlapped              \* history: an allocation and a deallocation have been
                          \* on their way to the same slot at the same time

vars == <<free_list, free_count, in_use, queue, pc, count, buf, overlapped>>

Init ==
  /\ free_list = [i \in Slots |-> i]
  /\ free_count = PoolSize
  /\ in_use = [b \in Buffers |-> FALSE]
  /\ queue = <<>>
  /\ pc = [t \in Threads |-> "idle"]
  /\ count = [t \in Threads |-> 0]
  /\ buf = [t \in Threads |-> 0]
  /\ overlapped = FALSE

Goto(t, label) == pc' = [pc EXCEPT ![t] = label]

\* The slot a thread is on its way to after its compare-and-swap.
Pops(t, i)   == pc[t] = "pop" /\ i = count[t] - 1
Pushes(t, i) == pc[t] = "push" /\ i = count[t]

-----------------------------------------------------------------------------
\* MessageBuffer* allocate(), called by the subscriber for each message.

AllocLoad(t) ==
  /\ t = "subscriber"
  /\ pc[t] = "idle"
  /\ count' = [count EXCEPT ![t] = free_count]
  /\ Goto(t, "alloc")
  /\ UNCHANGED <<free_list, free_count, in_use, queue, buf, overlapped>>

AllocExhausted(t) ==
  /\ pc[t] = "alloc"
  /\ count[t] = 0
  /\ Goto(t, "idle")
  /\ UNCHANGED <<free_list, free_count, in_use, queue, count, buf, overlapped>>

\* Mutant: a load, a test and a store instead of the compare-and-swap.
AllocStore(t) ==
  /\ pc[t] = "alloc"
  /\ count[t] > 0
  /\ free_count' = count[t] - 1
  /\ overlapped' = (overlapped \/ \E u \in Threads : Pushes(u, count[t] - 1))
  /\ Goto(t, "pop")
  /\ UNCHANGED <<free_list, in_use, queue, count, buf>>

\* Mutant: free_count_ is not lowered.
AllocUncounted(t) ==
  /\ pc[t] = "alloc"
  /\ count[t] > 0
  /\ free_count = count[t]
  /\ Goto(t, "pop")
  /\ UNCHANGED <<free_list, free_count, in_use, queue, count, buf, overlapped>>

AllocCas(t) ==
  /\ pc[t] = "alloc"
  /\ count[t] > 0
  /\ free_count = count[t]
  /\ free_count' = count[t] - 1
  /\ overlapped' = (overlapped \/ \E u \in Threads : Pushes(u, count[t] - 1))
  /\ Goto(t, "pop")
  /\ UNCHANGED <<free_list, in_use, queue, count, buf>>

\* A failed compare-and-swap loads the current value and tries again.
CasRetry(t) ==
  /\ \/ pc[t] = "alloc" /\ count[t] > 0
     \/ pc[t] = "dealloc" /\ count[t] < PoolSize
  /\ free_count # count[t]
  /\ count' = [count EXCEPT ![t] = free_count]
  /\ UNCHANGED <<free_list, free_count, in_use, queue, pc, buf, overlapped>>

PopFreeList(t) ==
  /\ pc[t] = "pop"
  /\ buf' = [buf EXCEPT ![t] = free_list[count[t] - 1]]
  /\ Goto(t, "mark")
  /\ UNCHANGED <<free_list, free_count, in_use, queue, count, overlapped>>

MarkInUse(t) ==
  /\ pc[t] = "mark"
  /\ in_use' = [in_use EXCEPT ![buf[t]] = TRUE]
  /\ Goto(t, "owner")
  /\ UNCHANGED <<free_list, free_count, queue, count, buf, overlapped>>

-----------------------------------------------------------------------------
\* What the threads do with a buffer: the subscriber enqueues it, the worker
\* dequeues one, either may give the buffer at hand back to the pool.

HandOver(t) ==
  /\ t = "subscriber"
  /\ pc[t] = "owner"
  /\ Len(queue) < QueueCapacity
  /\ queue' = Append(queue, buf[t])
  /\ Goto(t, "idle")
  /\ UNCHANGED <<free_list, free_count, in_use, count, buf, overlapped>>

TakeOver(t) ==
  /\ t = "worker"
  /\ pc[t] = "idle"
  /\ queue # <<>>
  /\ buf' = [buf EXCEPT ![t] = Head(queue)]
  /\ queue' = Tail(queue)
  /\ Goto(t, "owner")
  /\ UNCHANGED <<free_list, free_count, in_use, count, overlapped>>

-----------------------------------------------------------------------------
\* void deallocate(MessageBuffer* buf)

MarkUnused(t) ==
  /\ pc[t] = "owner"
  /\ in_use' = [in_use EXCEPT ![buf[t]] = FALSE]
  /\ Goto(t, "unmarked")
  /\ UNCHANGED <<free_list, free_count, queue, count, buf, overlapped>>

DeallocLoad(t) ==
  /\ pc[t] = "unmarked"
  /\ count' = [count EXCEPT ![t] = free_count]
  /\ Goto(t, "dealloc")
  /\ UNCHANGED <<free_list, free_count, in_use, queue, buf, overlapped>>

DeallocCas(t) ==
  /\ pc[t] = "dealloc"
  /\ count[t] < PoolSize
  /\ free_count = count[t]
  /\ free_count' = count[t] + 1
  /\ overlapped' = (overlapped \/ \E u \in Threads : Pops(u, count[t]))
  /\ Goto(t, "push")
  /\ UNCHANGED <<free_list, in_use, queue, count, buf>>

\* Mutant: the buffer is stored one slot too low.
PushTooLow(t) ==
  /\ pc[t] = "push"
  /\ free_list' = [free_list EXCEPT ![count[t] - 1] = buf[t]]
  /\ Goto(t, "idle")
  /\ UNCHANGED <<free_count, in_use, queue, count, buf, overlapped>>

PushFreeList(t) ==
  /\ pc[t] = "push"
  /\ free_list' = [free_list EXCEPT ![count[t]] = buf[t]]
  /\ Goto(t, "idle")
  /\ UNCHANGED <<free_count, in_use, queue, count, buf, overlapped>>

-----------------------------------------------------------------------------
\* deallocate() has one more exit, for count[t] >= PoolSize ("This should never
\* happen"): no action, because NoOverflow shows that it is never taken.

Allocate(t)   == AllocLoad(t) \/ AllocExhausted(t) \/ AllocCas(t) \/ PopFreeList(t) \/ MarkInUse(t)
Deallocate(t) == MarkUnused(t) \/ DeallocLoad(t) \/ DeallocCas(t) \/ PushFreeList(t)

Next == \E t \in Threads :
  Allocate(t) \/ Deallocate(t) \/ CasRetry(t) \/ HandOver(t) \/ TakeOver(t)

Spec == Init /\ [][Next]_vars

-----------------------------------------------------------------------------
Labels == {"idle", "alloc", "pop", "mark", "owner", "unmarked", "dealloc", "push"}

TypeOK ==
  /\ free_list \in [Slots -> Buffers]
  /\ free_count \in 0 .. PoolSize
  /\ in_use \in [Buffers -> BOOLEAN]
  /\ queue \in Seq(Buffers)
  /\ pc \in [Threads -> Labels]
  /\ pc["worker"] \notin {"alloc", "pop", "mark"}
  /\ count \in [Threads -> 0 .. PoolSize]
  /\ buf \in [Threads -> Buffers]
  /\ overlapped \in BOOLEAN

\* Thread t counts for one buffer that free_count_ does not: from the moment its
\* compare-and-swap has taken one until the one that returns it.
HasTaken(t) == pc[t] \in {"pop", "mark", "owner", "unmarked", "dealloc"}

\* Thread t has a buffer at hand that allocate() or the queue gave it.
Owns(t) == pc[t] \in {"mark", "owner", "unmarked", "dealloc"}

One(P) == IF P THEN 1 ELSE 0

(* free_count_ and the buffers in circulation always add up to PoolSize,   *)
(* whatever the interleaving of the compare-and-swaps of allocate() and    *)
(* deallocate() and of their retries.                                      *)
CountsAddUp ==
  free_count + Len(queue) + One(HasTaken("subscriber")) + One(HasTaken("worker")) = PoolSize

(* deallocate() never finds the free list full: its "This should never     *)
(* happen" branch is unreachable, also with a value of free_count_ that    *)
(* was loaded before the other thread changed it.                          *)
NoOverflow == \A t \in Threads : pc[t] = "dealloc" => count[t] < PoolSize

\* What the compare-and-swaps establish about the slot a thread is about to use.
SlotInRange == \A t \in Threads :
  /\ pc[t] = "pop" => count[t] > 0
  /\ pc[t] = "push" => count[t] < PoolSize

\* The invariant of the proofs.
PoolInv == TypeOK /\ CountsAddUp /\ NoOverflow /\ SlotInRange

(* No buffer is in two hands: what allocate() returns to the subscriber is *)
(* neither in the queue nor with the worker ("Thread-safe (lock-free)",    *)
(* BufferPool.h:39-41).                                                    *)
ExclusiveOwnership ==
  /\ \A i, j \in 1 .. Len(queue) : queue[i] = queue[j] => i = j
  /\ \A t \in Threads : Owns(t) => \A i \in 1 .. Len(queue) : queue[i] # buf[t]
  /\ Owns("subscriber") /\ Owns("worker") => buf["subscriber"] # buf["worker"]

\* The buffer that will be in slot i of the free list when the pushes under way
\* have been done, and the buffer a thread has taken or is about to pop.
Listed(i) ==
  IF \E t \in Threads : Pushes(t, i)
  THEN buf[CHOOSE t \in Threads : Pushes(t, i)]
  ELSE free_list[i]

AtHand(t) ==
  CASE pc[t] = "pop" -> <<free_list[count[t] - 1]>>
    [] Owns(t)       -> <<buf[t]>>
    [] OTHER         -> <<>>

Everywhere ==
  [i \in 1 .. free_count |-> Listed(i - 1)] \o queue \o AtHand("subscriber") \o AtHand("worker")

(* Every buffer is in exactly one place, free list, queue or hand, and is  *)
(* marked in_use exactly while it is out, as long as no allocation and no  *)
(* deallocation have been between their compare-and-swap and their access  *)
(* to the same slot of free_list_ at the same time.                        *)
PartitionUntilOverlap ==
  ~ overlapped =>
    /\ Len(Everywhere) = PoolSize
    /\ {Everywhere[i] : i \in 1 .. PoolSize} = Buffers
    /\ \A b \in Buffers :
         in_use[b] <=> \/ \E i \in 1 .. Len(queue) : queue[i] = b
                      \/ \E t \in Threads : pc[t] = "owner" /\ buf[t] = b

\* What the threads can make out of the pool: the buffers listed are free, those
\* popped or about to be popped are held, and a loaded zero will be a nullptr.
FreeBuffers == {Listed(i) : i \in 0 .. free_count - 1}
Held        == [t \in Threads |-> {AtHand(t)[i] : i \in DOMAIN AtHand(t)}]
Refused     == pc["subscriber"] = "alloc" /\ count["subscriber"] = 0

Pool == INSTANCE FreePool WITH free <- FreeBuffers, held <- Held, refused <- Refused

(* As long as no allocation and deallocation have met on a slot, the pool  *)
(* is one atomic set of free buffers: each compare-and-swap is the whole   *)
(* allocate() or deallocate(), the access to free_list[] that follows      *)
(* changes nothing for the other thread, a buffer is never given back      *)
(* twice, and nullptr is returned only if the pool was empty in the call.  *)
AtomicUntilOverlap == Pool!Init /\ [][overlapped' \/ Pool!Next]_(Pool!poolVars)

(* The message queue cannot fill up when it has room for every buffer of   *)
(* the pool: the queue-full branch of handleMessageFastPath() is then      *)
(* unreachable (1024 buffers, 4095 places in main.cpp).                    *)
QueueHasRoom ==
  PoolSize <= QueueCapacity /\ pc["subscriber"] = "owner" => Len(queue) < QueueCapacity
=============================================================================
