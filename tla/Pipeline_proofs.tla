-------------------------- MODULE Pipeline_proofs --------------------------
(***************************************************************************)
(* Proofs about the receive path for any pool, queues, window, number of   *)
(* messages, and any way in which the publisher skips numbers and starts   *)
(* over: buffers and counters add up, messages keep their order, and no    *)
(* loss is silent.                                                         *)
(***************************************************************************)
EXTENDS Pipeline, TLAPS, FiniteSetTheorems

\* TypeOK, variable by variable.
TypeInv ==
  /\ log \in Seq(Numbers) /\ next_seq \in Nat
  /\ free \subseteq Buffers
  /\ holds \in [Buffers -> 0 .. MaxMessages]
  /\ queue \in Seq(Buffers) /\ Len(queue) <= QueueCapacity
  /\ stats \in Seq(1 .. MaxMessages) /\ Len(stats) <= StatsCapacity
  /\ checkpoint \in [seq : Numbers, position : 0 .. MaxMessages, count : 0 .. MaxMessages]
  /\ spc \in {"poll", "track", "enqueue", "checkpoint"}
  /\ sbuf \in Buffers \cup {NoBuffer}
  /\ expected \in Nat
  /\ window \in [0 .. WindowSize - 1 -> Numbers \cup {-1}]
  /\ window_pos \in 0 .. WindowSize
  /\ alloc_failures \in Nat /\ duplicates \in Nat /\ queue_full \in Nat /\ received \in Nat
  /\ gaps_detected \in Nat /\ gaps_recovered \in Nat
  /\ processed_count \in Nat /\ duplicate_count \in Nat
  /\ wpc \in {"poll", "check", "process", "monitor", "release"}
  /\ wbuf \in Buffers \cup {NoBuffer}
  /\ seen \subseteq Numbers /\ Cardinality(seen) <= MaxSeen
  /\ processed \in Seq(1 .. MaxMessages)
  /\ explained \subseteq Numbers
  /\ dropped \subseteq 1 .. MaxMessages
  /\ restarted \in BOOLEAN /\ trimmed \in BOOLEAN

\* A number is bounded by the numbers that were skipped, a position by the log.
StreamInv ==
  /\ Len(log) <= MaxMessages
  /\ next_seq <= Len(log) * (MaxSkip + 1)
  /\ \A b \in Buffers : holds[b] <= Len(log)
  /\ \A p \in dropped : p <= Len(log)
  /\ spc = "poll" <=> sbuf = NoBuffer
  /\ wpc = "poll" <=> wbuf = NoBuffer

\* The buffers that are to come back to the pool.
Owed == SubscriberOwes \cup Queued \cup WorkerOwes

(* That no buffer is given back twice is not inductive without the order:  *)
(* a buffer is not in the queue twice because the positions held increase  *)
(* from the messages processed to the worker, along the queue and up to    *)
(* the subscriber, and it is overwritten only after it was free.           *)
OrderInv ==
  /\ spc # "poll" => holds[sbuf] = Len(log) /\ Len(log) > 0
  /\ \A b \in Queued \cup WorkerOwes :
       /\ holds[b] > 0
       /\ spc \in {"track", "enqueue"} => holds[b] < Len(log)
  /\ \A i, j \in 1 .. Len(queue) : i < j => holds[queue[i]] < holds[queue[j]]
  /\ wpc # "poll" => \A b \in Queued : holds[wbuf] < holds[b]
  /\ \A i \in 1 .. Len(processed) :
       /\ processed[i] <= Len(log)
       /\ spc \in {"track", "enqueue"} => processed[i] < Len(log)
       /\ \A b \in Queued : processed[i] < holds[b]
       /\ wpc \in {"check", "process"} => processed[i] < holds[wbuf]
       /\ wpc \in {"monitor", "release"} => processed[i] <= holds[wbuf]
  /\ \A i, j \in 1 .. Len(processed) : i < j => processed[i] < processed[j]
  /\ wpc \in {"monitor", "release"} => \E i \in 1 .. Len(processed) : processed[i] = holds[wbuf]

LineInv == free \cap Owed = {} /\ free \cup Owed = Buffers /\ OrderInv

CountInv == BufferConservation /\ MessagesAccounted

CheckpointInv == checkpoint.position <= Len(log) /\ CheckpointOfOneMessage

(* The worker knows the numbers it has processed and the one it is about   *)
(* to process, and, until its set is cleared, all of them.                 *)
SeenInv ==
  /\ \A n \in seen : \/ \E i \in 1 .. Len(processed) : log[processed[i]] = n
                     \/ wpc = "process" /\ SeqIn(wbuf) = n
  /\ ~ trimmed => /\ \A i \in 1 .. Len(processed) : log[processed[i]] \in seen
                  /\ wpc = "process" =>
                       /\ SeqIn(wbuf) \in seen
                       /\ \A i \in 1 .. Len(processed) : log[processed[i]] # SeqIn(wbuf)
  /\ NumbersProcessedOnce

\* The positions of the messages that moved the expected number.
Tracked ==
  dropped \cup {processed[i] : i \in 1 .. Len(processed)}
          \cup {holds[b] : b \in Queued \cup WorkerOwes}
          \cup (IF spc = "enqueue" THEN {Len(log)} ELSE {})

\* What became of a number.
Explained(n) ==
  \/ n \in explained
  \/ \E p \in dropped : log[p] = n
  \/ \E i \in 1 .. Len(processed) : log[processed[i]] = n
  \/ \E b \in Owed : SeqIn(b) = n

(* The first processed message may follow others that are still to come or *)
(* were dropped, so that every tracked message is a start.  Without a      *)
(* restart the numbers increase, and neither check finds a duplicate.      *)
LossInv ==
  /\ expected = 0 => Tracked = {}
  /\ ~ restarted =>
       /\ \A p, q \in 1 .. Len(log) : p < q => log[p] < log[q]
       /\ \A p \in 1 .. Len(log) : log[p] < next_seq
       /\ expected <= next_seq
       /\ spc = "track" => expected <= log[Len(log)]
  /\ GapRecovery /\ ~ restarted =>
       \A p \in Tracked : \A n \in log[p] .. expected - 1 : Explained(n)

PipelineInv ==
  TypeInv /\ StreamInv /\ LineInv /\ CountInv /\ CheckpointInv /\ SeenInv /\ LossInv

-----------------------------------------------------------------------------
\* Sequences, sets of numbers, and the constants.

LEMMA Bounds ==
  /\ IsFiniteSet(Buffers) /\ NoBuffer \notin Buffers
  /\ QueueCapacity \in Nat /\ StatsCapacity \in Nat /\ MaxGapTolerance \in Nat
  /\ WindowSize \in Nat /\ MaxSeen \in Nat /\ MaxSkip \in Nat /\ MaxMessages \in Nat
  /\ GapRecovery \in BOOLEAN /\ DuplicateCheck \in BOOLEAN
  BY PipelineAssumption DEF PipelineAssumption

LEMMA NumbersBelow ==
  ASSUME NEW k \in Nat, k < MaxMessages, NEW n \in Nat, n <= k * (MaxSkip + 1) + MaxSkip
  PROVE  /\ n \in Numbers
         /\ n + 1 <= (k + 1) * (MaxSkip + 1)
<1> DEFINE K == MaxSkip + 1
<1>1. K \in Nat /\ K > 0 /\ k + 1 \in Nat /\ k + 1 <= MaxMessages + 1
  BY Bounds
<1>2. (k + 1) * K = k * K + K /\ k * K \in Nat
  BY <1>1
<1>3. (k + 1) * K <= (MaxMessages + 1) * K
  <2>1. PICK d \in Nat : MaxMessages + 1 = k + 1 + d
    <3>1. MaxMessages - k \in Nat /\ MaxMessages + 1 = k + 1 + (MaxMessages - k)
      BY Bounds
    <3> QED
      BY <3>1
  <2>2. (k + 1 + d) * K = (k + 1) * K + d * K /\ d * K \in Nat /\ (k + 1) * K \in Nat
    BY <1>1
  <2> QED
    BY <2>1, <2>2
<1>4. (MaxMessages + 1) * K \in Nat
  BY <1>1, Bounds
<1> HIDE DEF K
<1>5. MaxSkip = K - 1
  BY <1>1, Bounds DEF K
<1>6. n <= k * K + (K - 1)
  BY <1>5 DEF K
<1>7. n + 1 <= (k + 1) * K /\ n <= (MaxMessages + 1) * K
  BY <1>1, <1>2, <1>3, <1>4, <1>6
<1> QED
  BY <1>4, <1>7 DEF K, Numbers

LEMMA NumbersAreNaturals == Numbers \subseteq Nat /\ 0 \in Numbers /\ IsFiniteSet(Numbers)
<1>1. (MaxMessages + 1) * (MaxSkip + 1) \in Nat
  BY Bounds
<1> QED
  BY <1>1, FS_Interval DEF Numbers

LEMMA ElementType ==
  ASSUME NEW S, NEW q \in Seq(S), NEW i \in 1 .. Len(q)
  PROVE  q[i] \in S
  OBVIOUS

LEMMA AppendParts ==
  ASSUME NEW S, NEW q \in Seq(S), NEW x \in S
  PROVE  /\ Append(q, x) \in Seq(S) /\ Len(Append(q, x)) = Len(q) + 1
         /\ \A i \in 1 .. Len(q) : Append(q, x)[i] = q[i]
         /\ Append(q, x)[Len(q) + 1] = x
  OBVIOUS

LEMMA TailParts ==
  ASSUME NEW S, NEW q \in Seq(S), q # <<>>
  PROVE  /\ Head(q) = q[1] /\ Head(q) \in S /\ Len(q) \in Nat \ {0}
         /\ Tail(q) \in Seq(S) /\ Len(Tail(q)) = Len(q) - 1
         /\ \A i \in 1 .. Len(Tail(q)) : Tail(q)[i] = q[i + 1]
  OBVIOUS

LEMMA QueuedWithin ==
  ASSUME TypeInv
  PROVE  Queued \subseteq Buffers /\ Len(queue) \in Nat
  BY DEF TypeInv, Queued

LEMMA QueuedAppend ==
  ASSUME TypeInv, NEW b \in Buffers, queue' = Append(queue, b)
  PROVE  Queued' = Queued \cup {b} /\ Len(queue') = Len(queue) + 1
<1>1. queue \in Seq(Buffers) /\ Len(queue) \in Nat
  BY DEF TypeInv
<1>2. /\ Len(queue') = Len(queue) + 1 /\ queue'[Len(queue) + 1] = b
      /\ \A i \in 1 .. Len(queue) : queue'[i] = queue[i]
  BY <1>1, AppendParts
<1> QED
  BY <1>1, <1>2 DEF Queued

LEMMA QueuedTail ==
  ASSUME TypeInv, queue # <<>>, queue' = Tail(queue)
  PROVE  /\ Head(queue) \in Buffers /\ Queued = {Head(queue)} \cup Queued'
         /\ Len(queue) \in Nat \ {0} /\ Len(queue') = Len(queue) - 1
<1>1. queue \in Seq(Buffers)
  BY DEF TypeInv
<1>2. /\ Head(queue) = queue[1] /\ Head(queue) \in Buffers /\ Len(queue) \in Nat \ {0}
      /\ Len(queue') = Len(queue) - 1
      /\ \A i \in 1 .. Len(queue') : queue'[i] = queue[i + 1]
  BY <1>1, TailParts
<1>3. ASSUME NEW i \in 1 .. Len(queue) PROVE queue[i] \in {Head(queue)} \cup Queued'
  <2>1. CASE i = 1
    BY <2>1, <1>2
  <2>2. CASE i # 1
    <3>1. i - 1 \in 1 .. Len(queue') /\ queue'[i - 1] = queue[i]
      BY <2>2, <1>2
    <3> QED
      BY <3>1 DEF Queued
  <2> QED
    BY <2>1, <2>2
<1>4. ASSUME NEW i \in 1 .. Len(queue') PROVE queue'[i] \in Queued
  <2>1. i + 1 \in 1 .. Len(queue) /\ queue'[i] = queue[i + 1]
    BY <1>2
  <2> QED
    BY <2>1 DEF Queued
<1>5. Head(queue) \in Queued
  <2>1. 1 \in 1 .. Len(queue)
    BY <1>2
  <2> QED
    BY <2>1, <1>2 DEF Queued
<1>6. Queued \subseteq {Head(queue)} \cup Queued' /\ Queued' \subseteq Queued
  BY <1>3, <1>4 DEF Queued
<1> QED
  BY <1>2, <1>5, <1>6

LEMMA SeqInType ==
  ASSUME TypeInv, StreamInv, NEW b \in Buffers
  PROVE  /\ holds[b] \in 0 .. Len(log) /\ Len(log) \in Nat
         /\ SeqIn(b) \in Numbers
         /\ holds[b] # 0 => SeqIn(b) = log[holds[b]]
<1>1. holds[b] \in 0 .. Len(log) /\ Len(log) \in Nat /\ log \in Seq(Numbers)
  BY Bounds DEF TypeInv, StreamInv
<1>2. holds[b] # 0 => log[holds[b]] \in Numbers
  BY <1>1
<1> QED
  BY <1>1, <1>2, NumbersAreNaturals DEF SeqIn


LEMMA CardinalityOfOne ==
  ASSUME NEW x, NEW held \in BOOLEAN
  PROVE  Cardinality(IF held THEN {x} ELSE {}) = IF held THEN 1 ELSE 0
<1>1. Cardinality({}) = 0 /\ Cardinality({x}) = 1
  BY FS_EmptySet, FS_Singleton
<1>2. CASE held
  BY <1>1, <1>2
<1>3. CASE ~ held
  BY <1>1, <1>3
<1> QED
  BY <1>2, <1>3

\* In either state of a step.
LEMMA OwedCardinalities ==
  /\ Cardinality(SubscriberOwes) = IF spc \in {"track", "enqueue"} THEN 1 ELSE 0
  /\ Cardinality(WorkerOwes) = IF wpc # "poll" THEN 1 ELSE 0
  /\ Cardinality(SubscriberOwes') = IF spc' \in {"track", "enqueue"} THEN 1 ELSE 0
  /\ Cardinality(WorkerOwes') = IF wpc' # "poll" THEN 1 ELSE 0
  BY CardinalityOfOne DEF SubscriberOwes, WorkerOwes

-----------------------------------------------------------------------------
\* Types, and the stream as far as it has been delivered.

LEMMA BaseInit == Init => TypeInv /\ StreamInv
<1> SUFFICES ASSUME Init PROVE TypeInv /\ StreamInv
  OBVIOUS
<1> USE Bounds, NumbersAreNaturals DEF Init
<1>1. Cardinality(seen) <= MaxSeen
  BY FS_EmptySet
<1>2. window \in [0 .. WindowSize - 1 -> Numbers \cup {-1}]
  OBVIOUS
<1>3. TypeInv
  <2>1. holds \in [Buffers -> 0 .. MaxMessages]
    OBVIOUS
  <2>2. checkpoint \in [seq : Numbers, position : 0 .. MaxMessages, count : 0 .. MaxMessages]
    OBVIOUS
  <2>3. /\ log \in Seq(Numbers) /\ queue \in Seq(Buffers) /\ Len(queue) <= QueueCapacity
        /\ stats \in Seq(1 .. MaxMessages) /\ Len(stats) <= StatsCapacity
        /\ processed \in Seq(1 .. MaxMessages)
    OBVIOUS
  <2>4. window_pos \in 0 .. WindowSize /\ next_seq \in Nat
    OBVIOUS
  <2> QED
    BY <1>1, <1>2, <2>1, <2>2, <2>3, <2>4 DEF TypeInv
<1>4. StreamInv
  <2>1. Len(log) = 0 /\ 0 * (MaxSkip + 1) = 0
    OBVIOUS
  <2> QED
    BY <2>1 DEF StreamInv
<1> QED
  BY <1>3, <1>4

\* What the two forms of receiving do to the stream.
LEMMA DeliverSteps ==
  ASSUME TypeInv, StreamInv, NEW s \in NextNumbers, Deliver(s)
  PROVE  /\ s \in Numbers /\ next_seq' = s + 1 /\ s + 1 \in Nat
         /\ log' \in Seq(Numbers) /\ Len(log) \in Nat /\ Len(log') = Len(log) + 1
         /\ Len(log') <= MaxMessages
         /\ \A p \in 1 .. Len(log) : log'[p] = log[p]
         /\ log'[Len(log')] = s
         /\ next_seq' <= Len(log') * (MaxSkip + 1)
         /\ restarted' \in BOOLEAN
         /\ ~ restarted' => ~ restarted /\ s >= next_seq
<1>1. /\ log \in Seq(Numbers) /\ Len(log) \in Nat /\ next_seq \in Nat
      /\ Len(log) < MaxMessages /\ log' = Append(log, s) /\ next_seq' = s + 1
      /\ next_seq <= Len(log) * (MaxSkip + 1)
      /\ restarted \in BOOLEAN /\ restarted' = (restarted \/ s < next_seq)
  BY DEF TypeInv, StreamInv, Deliver
<1>2. Len(log) * (MaxSkip + 1) \in Nat
  BY <1>1, Bounds
<1>3. s \in Nat /\ s <= Len(log) * (MaxSkip + 1) + MaxSkip
  BY <1>1, <1>2, Bounds DEF NextNumbers
<1>4. s \in Numbers /\ s + 1 <= (Len(log) + 1) * (MaxSkip + 1)
  BY <1>1, <1>3, NumbersBelow
<1>5. /\ log' \in Seq(Numbers) /\ Len(log') = Len(log) + 1
      /\ \A p \in 1 .. Len(log) : log'[p] = log[p]
      /\ log'[Len(log) + 1] = s
  BY <1>1, <1>4, AppendParts
<1>6. Len(log') <= MaxMessages
  BY <1>1, <1>5, Bounds
<1>7. restarted' \in BOOLEAN /\ (~ restarted' => ~ restarted /\ ~ (s < next_seq))
  BY <1>1
<1>8. ~ (s < next_seq) => s >= next_seq
  BY <1>1, <1>3
<1> QED
  BY <1>1, <1>3, <1>4, <1>5, <1>6, <1>7, <1>8

LEMMA ReceiveKeepsBase ==
  ASSUME TypeInv, StreamInv, NEW s \in NextNumbers, Receive(s) \/ ReceiveWithoutBuffer(s)
  PROVE  (TypeInv /\ StreamInv)'
<1>1. Deliver(s)
  BY DEF Receive, ReceiveWithoutBuffer
<1> USE <1>1, DeliverSteps
<1>2. /\ Len(log') = Len(log) + 1 /\ Len(log) \in Nat /\ Len(log') <= MaxMessages
      /\ log' \in Seq(Numbers) /\ next_seq' \in Nat /\ restarted' \in BOOLEAN
      /\ next_seq' <= Len(log') * (MaxSkip + 1)
  OBVIOUS
<1>3. \A p : p <= Len(log) /\ p \in Nat => p <= Len(log')
  BY <1>2
<1>4. CASE Receive(s)
  <2>1. PICK b \in free : /\ free' = free \ {b} /\ sbuf' = b
                          /\ holds' = [holds EXCEPT ![b] = Len(log) + 1]
    BY <1>4 DEF Receive
  <2>2. b \in Buffers /\ b # NoBuffer
    BY Bounds DEF TypeInv
  <2>3. holds' \in [Buffers -> 0 .. MaxMessages]
    BY <2>1, <2>2, <1>2, Bounds DEF TypeInv
  <2>4. \A c \in Buffers : holds'[c] <= Len(log')
    <3>1. \A c \in Buffers : holds[c] \in Nat /\ holds[c] <= Len(log)
      BY Bounds DEF TypeInv, StreamInv
    <3>2. \A c \in Buffers : holds'[c] = IF c = b THEN Len(log) + 1 ELSE holds[c]
      BY <2>1 DEF TypeInv
    <3> QED
      BY <3>1, <3>2, <1>2
  <2>5. TypeInv'
    BY <1>2, <1>4, <2>1, <2>2, <2>3
       DEF TypeInv, Receive, counted, tracking, worker
  <2>6. StreamInv'
    <3>1. \A p \in dropped : p \in Nat /\ p <= Len(log)
      BY Bounds DEF TypeInv, StreamInv
    <3>2. UNCHANGED <<dropped, wpc, wbuf>> /\ spc' = "track"
      BY <1>4 DEF Receive, worker
    <3> QED
      BY <1>2, <1>3, <2>1, <2>2, <2>4, <3>1, <3>2 DEF StreamInv
  <2> QED
    BY <2>5, <2>6
<1>5. CASE ReceiveWithoutBuffer(s)
  <2>1. TypeInv'
    BY <1>2, <1>5 DEF TypeInv, ReceiveWithoutBuffer, tracking, worker
  <2>2. \A c \in Buffers : holds[c] \in Nat /\ holds[c] <= Len(log)
    BY Bounds DEF TypeInv, StreamInv
  <2>3. \A p \in dropped : p \in Nat /\ p <= Len(log)
    BY Bounds DEF TypeInv, StreamInv
  <2>4. UNCHANGED <<holds, spc, sbuf, dropped, wpc, wbuf>>
    BY <1>5 DEF ReceiveWithoutBuffer, worker
  <2>5. StreamInv'
    BY <1>2, <1>3, <2>2, <2>3, <2>4 DEF StreamInv
  <2> QED
    BY <2>1, <2>5
<1> QED
  BY <1>4, <1>5

\* The gap check finds numbers below the one that was received.
LEMMA CheckForGapsType ==
  ASSUME TypeInv, StreamInv, sbuf \in Buffers, CheckForGaps
  PROVE  /\ explained' \subseteq Numbers /\ gaps_detected' \in Nat /\ gaps_recovered' \in Nat
         /\ message_number \in Numbers
<1>1. message_number \in Numbers /\ Numbers \subseteq Nat /\ expected \in Nat
  BY SeqInType, NumbersAreNaturals DEF message_number, TypeInv
<1>2. Missing \subseteq expected .. message_number - 1
  BY DEF Missing
<1>3. IsFiniteSet(Missing) /\ Cardinality(Missing) \in Nat
  <2>1. IsFiniteSet(expected .. message_number - 1)
    <3>1. expected \in Int /\ message_number - 1 \in Int
      BY <1>1
    <3> QED
      BY <3>1, FS_Interval
  <2>2. IsFiniteSet(Missing)
    BY <1>2, <2>1, FS_Subset
  <2> QED
    BY <2>2, FS_CardinalityType
<1>4. Missing \subseteq Numbers
  <2>1. (MaxMessages + 1) * (MaxSkip + 1) \in Nat
    BY Bounds
  <2> QED
    BY <1>1, <1>2, <2>1 DEF Numbers
<1>5. gaps_detected' \in Nat
  BY DEF CheckForGaps, TypeInv
<1>6. gaps_recovered' \in Nat
  BY <1>3 DEF CheckForGaps, TypeInv
<1> QED
  BY <1>1, <1>4, <1>5, <1>6 DEF CheckForGaps, TypeInv

LEMMA HandleKeepsBase ==
  ASSUME TypeInv, StreamInv, LineInv, CountInv, Handle
  PROVE  (TypeInv /\ StreamInv)'
<1> USE DEF stream, counted, tracking, sub, worker
<1>1. sbuf \in Buffers /\ spc # "poll"
  BY DEF TypeInv, StreamInv, Handle, DropDuplicate, Track, EnqueueFails, Enqueue, UpdateCheckpoint
<1>2. /\ UNCHANGED <<log, next_seq, holds, wpc, wbuf>>
      /\ spc' = "poll" <=> sbuf' = NoBuffer
  BY <1>1, Bounds
     DEF Handle, DropDuplicate, Track, EnqueueFails, Enqueue, UpdateCheckpoint
<1>3. holds[sbuf] <= Len(log)
  BY <1>1 DEF StreamInv
<1>4. dropped' \subseteq dropped \cup {holds[sbuf]}
  BY DEF Handle, DropDuplicate, Track, EnqueueFails, Enqueue, UpdateCheckpoint
<1>5. StreamInv'
  BY <1>2, <1>3, <1>4 DEF StreamInv
<1>6. CASE DropDuplicate
  <2>1. explained' \subseteq Numbers /\ gaps_detected' \in Nat /\ gaps_recovered' \in Nat
    BY <1>1, <1>6, CheckForGapsType DEF DropDuplicate
  <2> QED
    BY <1>1, <1>5, <1>6, <2>1 DEF DropDuplicate, TypeInv
<1>7. CASE Track
  <2>1. /\ explained' \subseteq Numbers /\ gaps_detected' \in Nat /\ gaps_recovered' \in Nat
        /\ message_number \in Numbers
    BY <1>1, <1>7, CheckForGapsType DEF Track
  <2>2. expected' \in Nat
    BY <1>7, <2>1, NumbersAreNaturals DEF Track
  <2>3. window' \in [0 .. WindowSize - 1 -> Numbers \cup {-1}]
    BY <1>7, <2>1 DEF Track, TypeInv
  <2>4. window_pos' \in 0 .. WindowSize
    <3>1. WindowSize \in Nat /\ window_pos \in Nat /\ window_pos \in 0 .. WindowSize
      BY Bounds DEF TypeInv
    <3>2. Remembers => (window_pos + 1) % WindowSize \in 0 .. WindowSize
      BY <3>1, SMTT(30) DEF Remembers
    <3> QED
      BY <1>7, <3>1, <3>2 DEF Track
  <2> QED
    BY <1>1, <1>5, <1>7, <2>1, <2>2, <2>3, <2>4 DEF Track, TypeInv
<1>8. CASE EnqueueFails
  <2>1. holds[sbuf] \in 1 .. MaxMessages
    <3>1. holds[sbuf] \in 0 .. MaxMessages /\ holds[sbuf] = Len(log) /\ Len(log) > 0
      BY <1>1 DEF TypeInv, LineInv, OrderInv
    <3> QED
      BY <3>1, Bounds
  <2>2. dropped' \subseteq 1 .. MaxMessages
    BY <1>8, <2>1 DEF EnqueueFails, TypeInv
  <2> QED
    BY <1>1, <1>5, <1>8, <2>2 DEF EnqueueFails, TypeInv
<1>9. CASE Enqueue
  <2>1. queue' \in Seq(Buffers) /\ Len(queue') <= QueueCapacity
    <3>1. queue \in Seq(Buffers) /\ Len(queue) \in Nat /\ Len(queue) < QueueCapacity
      BY <1>9 DEF Enqueue, TypeInv
    <3>2. queue' \in Seq(Buffers) /\ Len(queue') = Len(queue) + 1
      BY <1>1, <1>9, <3>1, AppendParts DEF Enqueue
    <3> QED
      BY <3>1, <3>2, Bounds
  <2> QED
    BY <1>1, <1>5, <1>9, <2>1 DEF Enqueue, TypeInv
<1>10. CASE UpdateCheckpoint
  <2>1. SeqIn(sbuf) \in Numbers /\ Len(log) \in 0 .. MaxMessages
    BY <1>1, SeqInType, Bounds DEF StreamInv
  <2>2. received \in 0 .. MaxMessages
    <3>1. received <= Len(log)
      BY <2>1, OwedCardinalities DEF CountInv, MessagesAccounted, TypeInv
    <3> QED
      BY <2>1, <3>1, Bounds DEF TypeInv
  <2>3. checkpoint' \in [seq : Numbers, position : 0 .. MaxMessages, count : 0 .. MaxMessages]
    BY <1>10, <2>1, <2>2 DEF UpdateCheckpoint
  <2> QED
    BY <1>1, <1>5, <1>10, <2>3 DEF UpdateCheckpoint, TypeInv
<1> QED
  BY <1>6, <1>7, <1>8, <1>9, <1>10 DEF Handle

LEMMA WorkKeepsBase ==
  ASSUME TypeInv, StreamInv, LineInv, Work
  PROVE  (TypeInv /\ StreamInv)'
<1> USE DEF stream, counted, tracking, sub, worker
<1>1. /\ UNCHANGED <<log, next_seq, holds, spc, sbuf, dropped>>
      /\ wpc' = "poll" <=> wbuf' = NoBuffer
  <2>1. CASE Dequeue
    <3>1. Head(queue) \in Buffers
      BY <2>1, QueuedTail DEF Dequeue
    <3> QED
      BY <2>1, <3>1, Bounds DEF Dequeue
  <2>2. CASE WorkerDropDuplicate
    BY <2>2 DEF WorkerDropDuplicate
  <2>3. CASE WorkerAccept \/ ProcessMessage \/ SendToMonitoring
    BY <2>3 DEF WorkerAccept, ProcessMessage, SendToMonitoring, StreamInv
  <2>4. CASE Release
    BY <2>4 DEF Release
  <2> QED
    BY <2>1, <2>2, <2>3, <2>4 DEF Work
<1>2. StreamInv'
  BY <1>1 DEF StreamInv
<1>3. wpc # "poll" => wbuf \in Buffers /\ holds[wbuf] \in 1 .. MaxMessages
  <2> SUFFICES ASSUME wpc # "poll" PROVE wbuf \in Buffers /\ holds[wbuf] \in 1 .. MaxMessages
    OBVIOUS
  <2>1. wbuf \in Buffers
    BY DEF TypeInv, StreamInv
  <2>2. holds[wbuf] > 0
    BY DEF LineInv, OrderInv, WorkerOwes
  <2>3. holds[wbuf] \in 0 .. MaxMessages
    BY <2>1 DEF TypeInv
  <2> QED
    BY <2>1, <2>2, <2>3, Bounds
<1>4. CASE Dequeue
  <2>1. Head(queue) \in Buffers /\ queue' \in Seq(Buffers) /\ Len(queue') <= QueueCapacity
    <3>1. queue \in Seq(Buffers) /\ Len(queue) <= QueueCapacity /\ queue # <<>>
          /\ queue' = Tail(queue)
      BY <1>4 DEF Dequeue, TypeInv
    <3>2. Head(queue) \in Buffers /\ queue' \in Seq(Buffers) /\ Len(queue') = Len(queue) - 1
          /\ Len(queue) \in Nat
      BY <3>1, TailParts
    <3> QED
      BY <3>1, <3>2, Bounds
  <2> QED
    BY <1>2, <1>4, <2>1 DEF Dequeue, TypeInv
<1>5. CASE WorkerDropDuplicate
  BY <1>2, <1>3, <1>5 DEF WorkerDropDuplicate, TypeInv
<1>6. CASE WorkerAccept
  <2>1. SeqIn(wbuf) \in Numbers
    BY <1>3, <1>6, SeqInType DEF WorkerAccept
  <2>2. PICK grown : grown = seen \cup {SeqIn(wbuf)}
    OBVIOUS
  <2>3. seen' = IF Cardinality(grown) > MaxSeen THEN {} ELSE grown
    BY <1>6, <2>2 DEF WorkerAccept
  <2>4. trimmed' \in BOOLEAN
    BY <1>6 DEF WorkerAccept, TypeInv
  <2>5. grown \subseteq Numbers
    BY <2>1, <2>2 DEF TypeInv
  <2>6. Cardinality(grown) \in Nat
    BY <2>5, NumbersAreNaturals, FS_Subset, FS_CardinalityType
  <2>7. seen' \subseteq Numbers /\ Cardinality(seen') <= MaxSeen
    BY <2>3, <2>5, <2>6, Bounds, FS_EmptySet
  <2> QED
    BY <1>2, <1>6, <2>4, <2>7 DEF WorkerAccept, TypeInv
<1>7. CASE ProcessMessage
  <2>1. processed' \in Seq(1 .. MaxMessages)
    BY <1>3, <1>7, AppendParts DEF ProcessMessage, TypeInv
  <2> QED
    BY <1>2, <1>7, <2>1 DEF ProcessMessage, TypeInv
<1>8. CASE SendToMonitoring
  <2>1. stats' \in Seq(1 .. MaxMessages) /\ Len(stats') <= StatsCapacity
    <3>1. stats \in Seq(1 .. MaxMessages) /\ Len(stats) \in Nat /\ Len(stats) <= StatsCapacity
      BY DEF TypeInv
    <3>2. /\ Append(stats, holds[wbuf]) \in Seq(1 .. MaxMessages)
          /\ Len(Append(stats, holds[wbuf])) = Len(stats) + 1
      BY <1>3, <1>8, <3>1, AppendParts DEF SendToMonitoring
    <3>3. stats' = IF Len(stats) < StatsCapacity THEN Append(stats, holds[wbuf]) ELSE stats
      BY <1>8 DEF SendToMonitoring
    <3>4. CASE Len(stats) < StatsCapacity
      BY <3>1, <3>2, <3>3, <3>4, Bounds
    <3>5. CASE ~ (Len(stats) < StatsCapacity)
      BY <3>1, <3>3, <3>5
    <3> QED
      BY <3>4, <3>5
  <2> QED
    BY <1>2, <1>8, <2>1 DEF SendToMonitoring, TypeInv
<1>9. CASE Release
  BY <1>2, <1>3, <1>9 DEF Release, TypeInv
<1> QED
  BY <1>4, <1>5, <1>6, <1>7, <1>8, <1>9 DEF Work

LEMMA MonitorKeepsBase ==
  ASSUME TypeInv, StreamInv, Monitor
  PROVE  (TypeInv /\ StreamInv)'
<1> USE DEF stream, counted, tracking, sub, worker
<1>1. stats' \in Seq(1 .. MaxMessages) /\ Len(stats') <= StatsCapacity
  <2>1. stats \in Seq(1 .. MaxMessages) /\ stats # <<>> /\ stats' = Tail(stats)
        /\ Len(stats) <= StatsCapacity
    BY DEF Monitor, TypeInv
  <2>2. stats' \in Seq(1 .. MaxMessages) /\ Len(stats') = Len(stats) - 1 /\ Len(stats) \in Nat
    BY <2>1, TailParts
  <2> QED
    BY <2>1, <2>2, Bounds
<1> QED
  BY <1>1 DEF Monitor, TypeInv, StreamInv

LEMMA BaseNext ==
  ASSUME TypeInv, StreamInv, LineInv, CountInv, [Next]_vars
  PROVE  (TypeInv /\ StreamInv)'
<1>1. CASE UNCHANGED vars
  BY <1>1 DEF vars, stream, counted, tracking, sub, worker, TypeInv, StreamInv
<1> QED
  BY <1>1, ReceiveKeepsBase, HandleKeepsBase, WorkKeepsBase, MonitorKeepsBase DEF Next, Poll

-----------------------------------------------------------------------------
\* Buffers and positions on their way.

LEMMA LineInit == Init => LineInv
<1> SUFFICES ASSUME Init PROVE LineInv
  OBVIOUS
<1>1. Queued = {}
  BY DEF Init, Queued
<1>2. SubscriberOwes = {} /\ WorkerOwes = {} /\ free = Buffers
  BY DEF Init, SubscriberOwes, WorkerOwes
<1>3. OrderInv
  BY <1>1, <1>2 DEF Init, OrderInv
<1> QED
  BY <1>1, <1>2, <1>3 DEF LineInv, Owed

\* The values that are compared are natural numbers.
LEMMA LineParts ==
  ASSUME TypeInv, StreamInv
  PROVE  /\ Len(log) \in Nat /\ Len(queue) \in Nat /\ Len(processed) \in Nat
         /\ Queued \cup WorkerOwes \cup SubscriberOwes \subseteq Buffers
         /\ \A b \in Buffers : holds[b] \in Nat /\ holds[b] <= Len(log)
         /\ \A i \in 1 .. Len(queue) : queue[i] \in Queued
         /\ \A i \in 1 .. Len(processed) : processed[i] \in Nat /\ processed[i] > 0
         /\ spc # "poll" => sbuf \in Buffers
         /\ wpc # "poll" => wbuf \in Buffers
<1>1. Len(log) \in Nat /\ Len(queue) \in Nat /\ Len(processed) \in Nat
  BY DEF TypeInv
<1>2. (spc # "poll" => sbuf \in Buffers) /\ (wpc # "poll" => wbuf \in Buffers)
  BY DEF TypeInv, StreamInv
<1>3. \A b \in Buffers : holds[b] \in Nat /\ holds[b] <= Len(log)
  BY Bounds DEF TypeInv, StreamInv
<1>4. \A i \in 1 .. Len(processed) : processed[i] \in Nat /\ processed[i] > 0
  <2> TAKE i \in 1 .. Len(processed)
  <2>1. processed \in Seq(1 .. MaxMessages)
    BY DEF TypeInv
  <2>2. processed[i] \in 1 .. MaxMessages
    BY <2>1, ElementType
  <2> QED
    BY <2>2, Bounds
<1>5. SubscriberOwes \cup WorkerOwes \subseteq Buffers
  BY <1>2 DEF SubscriberOwes, WorkerOwes
<1>6. \A i \in 1 .. Len(queue) : queue[i] \in Queued
  BY DEF Queued
<1> QED
  BY <1>1, <1>2, <1>3, <1>4, <1>5, <1>6, QueuedWithin

\* The order keeps the buffers on their way apart.
LEMMA OwedApart ==
  ASSUME TypeInv, StreamInv, LineInv
  PROVE  /\ SubscriberOwes \cap Queued = {} /\ SubscriberOwes \cap WorkerOwes = {}
         /\ Queued \cap WorkerOwes = {}
         /\ queue # <<>> => Head(queue) \notin {queue[i] : i \in 2 .. Len(queue)}
<1> USE LineParts
<1>1. \A b \in SubscriberOwes : b \notin Queued \cup WorkerOwes
  BY DEF LineInv, OrderInv, SubscriberOwes
<1>2. \A b \in WorkerOwes : b \notin Queued
  BY DEF LineInv, OrderInv, WorkerOwes
<1>3. queue # <<>> => Head(queue) \notin {queue[i] : i \in 2 .. Len(queue)}
  <2> SUFFICES ASSUME queue # <<>>, NEW i \in 2 .. Len(queue), queue[i] = Head(queue)
               PROVE  FALSE
    OBVIOUS
  <2>1. Head(queue) = queue[1] /\ 1 \in 1 .. Len(queue) /\ i \in 1 .. Len(queue) /\ 1 < i
    BY TailParts DEF TypeInv
  <2>2. holds[queue[1]] < holds[queue[i]]
    BY <2>1 DEF LineInv, OrderInv
  <2>3. holds[queue[1]] \in Nat
    BY <2>1, QueuedWithin
  <2> QED
    BY <2>1, <2>2, <2>3
<1> QED
  BY <1>1, <1>2, <1>3

\* A buffer goes from the pool to the subscriber, on through the queue to the worker,
\* and back to the pool from either thread.
Kept == UNCHANGED <<free, SubscriberOwes, Queued, Len(queue), WorkerOwes>>

Taken(b) ==
  /\ b \in free /\ free' = free \ {b} /\ SubscriberOwes = {} /\ SubscriberOwes' = {b}
  /\ UNCHANGED <<Queued, Len(queue), WorkerOwes>>

GivenBack(b) ==
  /\ SubscriberOwes = {b} /\ SubscriberOwes' = {} /\ free' = free \cup {b}
  /\ UNCHANGED <<Queued, Len(queue), WorkerOwes>>

HandedOver(b) ==
  /\ SubscriberOwes = {b} /\ SubscriberOwes' = {}
  /\ Queued' = Queued \cup {b} /\ Len(queue') = Len(queue) + 1
  /\ UNCHANGED <<free, WorkerOwes>>

TakenOver(b) ==
  /\ WorkerOwes = {} /\ WorkerOwes' = {b}
  /\ Queued = Queued' \cup {b} /\ b \notin Queued' /\ Len(queue') = Len(queue) - 1
  /\ UNCHANGED <<free, SubscriberOwes>>

Released(b) ==
  /\ WorkerOwes = {b} /\ WorkerOwes' = {} /\ free' = free \cup {b}
  /\ UNCHANGED <<SubscriberOwes, Queued, Len(queue)>>

Moves ==
  \/ Kept
  \/ \E b \in Buffers : Taken(b) \/ GivenBack(b) \/ HandedOver(b) \/ TakenOver(b) \/ Released(b)

LEMMA NextMoves ==
  ASSUME TypeInv, StreamInv, LineInv, [Next]_vars
  PROVE  Moves
<1> USE DEF stream, counted, tracking, sub, worker
<1>1. UNCHANGED <<free, spc, sbuf, queue, wpc, wbuf>> => Kept
  BY DEF Kept, SubscriberOwes, WorkerOwes, Queued
<1>2. ASSUME NEW s, Receive(s) PROVE Moves
  <2>1. PICK b \in free : free' = free \ {b} /\ sbuf' = b
    BY <1>2 DEF Receive
  <2>2. spc = "poll" /\ spc' = "track" /\ UNCHANGED <<queue, wpc, wbuf>>
    BY <1>2 DEF Receive
  <2>3. Taken(b)
    BY <2>1, <2>2 DEF Taken, SubscriberOwes, WorkerOwes, Queued
  <2>4. b \in Buffers
    BY DEF TypeInv
  <2> QED
    BY <2>3, <2>4 DEF Moves
<1>3. ASSUME NEW s, ReceiveWithoutBuffer(s) PROVE Moves
  BY <1>1, <1>3 DEF ReceiveWithoutBuffer, Moves
<1>4. CASE DropDuplicate \/ EnqueueFails
  <2>1. /\ spc \in {"track", "enqueue"} /\ spc' = "poll" /\ free' = free \cup {sbuf}
        /\ UNCHANGED <<queue, wpc, wbuf>>
    BY <1>4 DEF DropDuplicate, EnqueueFails
  <2>2. GivenBack(sbuf)
    BY <2>1 DEF GivenBack, SubscriberOwes, WorkerOwes, Queued
  <2>3. sbuf \in Buffers
    BY <2>1, LineParts
  <2> QED
    BY <2>2, <2>3 DEF Moves
<1>5. CASE Track \/ UpdateCheckpoint
  <2>1. CASE Track
    <3>1. spc = "track" /\ spc' = "enqueue" /\ UNCHANGED <<free, queue, sbuf, wpc, wbuf>>
      BY <2>1 DEF Track
    <3> QED
      BY <3>1 DEF Kept, SubscriberOwes, WorkerOwes, Queued, Moves
  <2>2. CASE UpdateCheckpoint
    <3>1. spc = "checkpoint" /\ spc' = "poll" /\ UNCHANGED <<free, queue, wpc, wbuf>>
      BY <2>2 DEF UpdateCheckpoint
    <3> QED
      BY <3>1 DEF Kept, SubscriberOwes, WorkerOwes, Queued, Moves
  <2> QED
    BY <1>5, <2>1, <2>2
<1>6. CASE Enqueue
  <2>1. /\ spc = "enqueue" /\ spc' = "checkpoint" /\ queue' = Append(queue, sbuf)
        /\ UNCHANGED <<free, wpc, wbuf>>
    BY <1>6 DEF Enqueue
  <2>2. sbuf \in Buffers
    BY <2>1, LineParts
  <2>3. HandedOver(sbuf)
    BY <2>1, <2>2, QueuedAppend DEF HandedOver, SubscriberOwes, WorkerOwes
  <2> QED
    BY <2>2, <2>3 DEF Moves
<1>7. CASE Dequeue
  <2>1. /\ wpc = "poll" /\ wpc' = "check" /\ queue # <<>>
        /\ wbuf' = Head(queue) /\ queue' = Tail(queue) /\ UNCHANGED <<free, spc, sbuf>>
    BY <1>7 DEF Dequeue
  <2>2. /\ Head(queue) \in Buffers /\ Queued = {Head(queue)} \cup Queued'
        /\ Len(queue) \in Nat \ {0} /\ Len(queue') = Len(queue) - 1
    BY <2>1, QueuedTail
  <2>3. Head(queue) \notin Queued'
    <3> SUFFICES ASSUME NEW i \in 1 .. Len(queue'), queue'[i] = Head(queue) PROVE FALSE
      BY DEF Queued
    <3>1. queue'[i] = queue[i + 1]
      BY <2>1, TailParts DEF TypeInv
    <3>2. i + 1 \in 2 .. Len(queue)
      BY <2>2
    <3> QED
      BY <2>1, <3>1, <3>2, OwedApart
  <2>4. TakenOver(Head(queue))
    BY <2>1, <2>2, <2>3 DEF TakenOver, SubscriberOwes, WorkerOwes
  <2> QED
    BY <2>2, <2>4 DEF Moves
<1>8. CASE WorkerDropDuplicate \/ Release
  <2>1. /\ wpc # "poll" /\ wpc' = "poll" /\ free' = free \cup {wbuf}
        /\ UNCHANGED <<queue, spc, sbuf>>
    BY <1>8 DEF WorkerDropDuplicate, Release
  <2>2. Released(wbuf)
    BY <2>1 DEF Released, SubscriberOwes, WorkerOwes, Queued
  <2>3. wbuf \in Buffers
    BY <2>1, LineParts
  <2> QED
    BY <2>2, <2>3 DEF Moves
<1>9. CASE WorkerAccept \/ ProcessMessage \/ SendToMonitoring
  <2>1. wpc # "poll" /\ wpc' # "poll" /\ UNCHANGED <<free, spc, sbuf, queue, wbuf>>
    BY <1>9 DEF WorkerAccept, ProcessMessage, SendToMonitoring
  <2>2. Kept
    BY <2>1 DEF Kept, SubscriberOwes, WorkerOwes, Queued
  <2> QED
    BY <2>2 DEF Moves
<1>10. CASE Monitor \/ UNCHANGED vars
  BY <1>1, <1>10 DEF Monitor, vars, Moves
<1> QED
  BY <1>2, <1>3, <1>4, <1>5, <1>6, <1>7, <1>8, <1>9, <1>10 DEF Next, Poll, Handle, Work

LEMMA FreeNext ==
  ASSUME TypeInv, StreamInv, LineInv, Moves
  PROVE  free' \cap Owed' = {} /\ free' \cup Owed' = Buffers
<1>1. free \cap Owed = {} /\ free \cup Owed = Buffers
  BY DEF LineInv
<1> QED
  BY <1>1, OwedApart
     DEF Moves, Kept, Taken, GivenBack, HandedOver, TakenOver, Released, Owed

LEMMA ReceiveKeepsOrder ==
  ASSUME TypeInv, StreamInv, LineInv, NEW s \in NextNumbers, Receive(s) \/ ReceiveWithoutBuffer(s)
  PROVE  OrderInv'
<1>1. Deliver(s) /\ spc = "poll"
  BY DEF Receive, ReceiveWithoutBuffer
<1>2. Len(log') = Len(log) + 1 /\ Len(log) \in Nat
  BY <1>1, DeliverSteps
<1>3. UNCHANGED <<queue, wpc, wbuf, processed, Queued, WorkerOwes>>
  BY DEF Receive, ReceiveWithoutBuffer, worker, Queued, WorkerOwes
<1>4. /\ \A b \in Queued \cup WorkerOwes : holds'[b] = holds[b]
      /\ spc' # "poll" => holds'[sbuf'] = Len(log')
  <2>1. CASE Receive(s)
    <3>1. PICK b \in free : sbuf' = b /\ holds' = [holds EXCEPT ![b] = Len(log) + 1]
      BY <2>1 DEF Receive
    <3>2. b \in Buffers /\ b \notin Queued \cup WorkerOwes
      BY DEF LineInv, Owed
    <3>3. Queued \cup WorkerOwes \subseteq Buffers /\ holds \in [Buffers -> 0 .. MaxMessages]
      BY LineParts DEF TypeInv
    <3> QED
      BY <1>2, <3>1, <3>2, <3>3
  <2>2. CASE ReceiveWithoutBuffer(s)
    BY <1>1, <2>2 DEF ReceiveWithoutBuffer
  <2> QED
    BY <2>1, <2>2
<1>5. \A b \in Queued \cup WorkerOwes : holds[b] \in Nat /\ holds[b] > 0 /\ holds[b] <= Len(log)
  BY LineParts DEF LineInv, OrderInv
<1>6. wpc # "poll" => wbuf \in WorkerOwes
  BY DEF WorkerOwes
<1>7. \A i \in 1 .. Len(queue) : holds'[queue[i]] = holds[queue[i]]
  BY <1>4, LineParts
<1>8. \A i \in 1 .. Len(processed) : processed[i] \in Nat /\ processed[i] <= Len(log)
  BY LineParts DEF LineInv, OrderInv
<1>9. OrderInv
  BY DEF LineInv
<1>10. /\ spc' # "poll" => holds'[sbuf'] = Len(log') /\ Len(log') > 0
       /\ \A b \in (Queued \cup WorkerOwes)' : holds'[b] > 0 /\ holds'[b] < Len(log')
  BY <1>2, <1>3, <1>4, <1>5
<1>11. \A i, j \in 1 .. Len(queue') : i < j => holds'[queue'[i]] < holds'[queue'[j]]
  BY <1>3, <1>7, <1>9 DEF OrderInv
<1>12. wpc' # "poll" => \A b \in Queued' : holds'[wbuf'] < holds'[b]
  BY <1>3, <1>4, <1>6, <1>9 DEF OrderInv
<1>13. \A i \in 1 .. Len(processed') :
         /\ processed'[i] < Len(log') /\ processed'[i] <= Len(log')
         /\ \A b \in Queued' : processed'[i] < holds'[b]
         /\ wpc' \in {"check", "process"} => processed'[i] < holds'[wbuf']
         /\ wpc' \in {"monitor", "release"} => processed'[i] <= holds'[wbuf']
  BY <1>2, <1>3, <1>4, <1>6, <1>8, <1>9 DEF OrderInv
<1>14. /\ \A i, j \in 1 .. Len(processed') : i < j => processed'[i] < processed'[j]
       /\ wpc' \in {"monitor", "release"} =>
            \E i \in 1 .. Len(processed') : processed'[i] = holds'[wbuf']
  BY <1>3, <1>4, <1>6, <1>9 DEF OrderInv
<1> QED
  BY <1>10, <1>11, <1>12, <1>13, <1>14 DEF OrderInv

\* Positions behind the subscriber only matter while it has not passed its buffer on.
LEMMA OrderFrame ==
  ASSUME OrderInv, UNCHANGED <<log, holds, queue, wpc, wbuf, processed>>,
         spc' # "poll" => spc # "poll" /\ sbuf' = sbuf,
         spc' \in {"track", "enqueue"} => spc \in {"track", "enqueue"}
  PROVE  OrderInv'
<1>1. Queued' = Queued /\ WorkerOwes' = WorkerOwes
  BY DEF Queued, WorkerOwes
<1> QED
  BY <1>1 DEF OrderInv

LEMMA EnqueueKeepsOrder ==
  ASSUME TypeInv, StreamInv, LineInv, Enqueue
  PROVE  OrderInv'
<1>1. /\ spc = "enqueue" /\ spc' = "checkpoint" /\ queue' = Append(queue, sbuf)
      /\ UNCHANGED <<log, holds, sbuf, wpc, wbuf, processed>>
  BY DEF Enqueue, stream, worker
<1>2. sbuf \in Buffers /\ holds[sbuf] = Len(log) /\ Len(log) \in Nat /\ Len(log) > 0
  BY <1>1, LineParts DEF LineInv, OrderInv
<1>3. Queued' = Queued \cup {sbuf} /\ WorkerOwes' = WorkerOwes
  BY <1>1, <1>2, QueuedAppend DEF WorkerOwes
<1>4. /\ Len(queue') = Len(queue) + 1 /\ Len(queue) \in Nat /\ queue'[Len(queue) + 1] = sbuf
      /\ \A i \in 1 .. Len(queue) : queue'[i] = queue[i]
  BY <1>1, <1>2, AppendParts, LineParts DEF TypeInv
<1>5. \A i \in 1 .. Len(queue) : holds[queue[i]] < holds[sbuf]
  BY <1>1, <1>2, LineParts DEF LineInv, OrderInv
<1>6. OrderInv
  BY DEF LineInv
<1>7. \A i, j \in 1 .. Len(queue') : i < j => holds'[queue'[i]] < holds'[queue'[j]]
  <2> SUFFICES ASSUME NEW i \in 1 .. Len(queue'), NEW j \in 1 .. Len(queue'), i < j
               PROVE  holds[queue'[i]] < holds[queue'[j]]
    BY <1>1
  <2>1. i \in 1 .. Len(queue) /\ queue'[i] = queue[i]
    BY <1>4
  <2>2. CASE j = Len(queue) + 1
    BY <1>4, <1>5, <2>1, <2>2
  <2>3. CASE j # Len(queue) + 1
    <3>1. j \in 1 .. Len(queue) /\ queue'[j] = queue[j]
      BY <1>4, <2>3
    <3> QED
      BY <1>6, <2>1, <3>1 DEF OrderInv
  <2> QED
    BY <2>2, <2>3
<1>8. wpc # "poll" => holds[wbuf] < holds[sbuf]
  BY <1>1, <1>2, <1>6 DEF OrderInv, WorkerOwes
<1>9. \A i \in 1 .. Len(processed) : processed[i] < holds[sbuf]
  BY <1>1, <1>2, <1>6 DEF OrderInv
<1> QED
  BY <1>1, <1>2, <1>3, <1>6, <1>7, <1>8, <1>9 DEF OrderInv

LEMMA DequeueKeepsOrder ==
  ASSUME TypeInv, StreamInv, LineInv, Dequeue
  PROVE  OrderInv'
<1>1. /\ wpc = "poll" /\ wpc' = "check" /\ queue # <<>>
      /\ wbuf' = Head(queue) /\ queue' = Tail(queue)
      /\ UNCHANGED <<log, holds, spc, sbuf, processed>>
  BY DEF Dequeue, stream, sub
<1>2. /\ Queued = {Head(queue)} \cup Queued'
      /\ Len(queue) \in Nat \ {0} /\ Len(queue') = Len(queue) - 1
  BY <1>1, QueuedTail
<1>3. WorkerOwes' = {Head(queue)}
  BY <1>1 DEF WorkerOwes
<1>4. Head(queue) = queue[1] /\ \A i \in 1 .. Len(queue') : queue'[i] = queue[i + 1]
  BY <1>1, TailParts DEF TypeInv
<1>5. OrderInv
  BY DEF LineInv
<1>6. \A i \in 1 .. Len(queue') : i + 1 \in 1 .. Len(queue) /\ 1 < i + 1
  BY <1>2
<1>7. \A i, j \in 1 .. Len(queue') : i < j => holds'[queue'[i]] < holds'[queue'[j]]
  <2> SUFFICES ASSUME NEW i \in 1 .. Len(queue'), NEW j \in 1 .. Len(queue'), i < j
               PROVE  holds[queue[i + 1]] < holds[queue[j + 1]]
    BY <1>1, <1>4
  <2>1. i + 1 < j + 1
    BY <1>2
  <2> QED
    BY <1>5, <1>6, <2>1 DEF OrderInv
<1>8. \A b \in Queued' : holds[Head(queue)] < holds[b]
  <2> SUFFICES ASSUME NEW i \in 1 .. Len(queue') PROVE holds[queue[1]] < holds[queue[i + 1]]
    BY <1>4 DEF Queued
  <2>1. 1 \in 1 .. Len(queue)
    BY <1>2
  <2> QED
    BY <1>5, <1>6, <2>1 DEF OrderInv
<1>9. \A i \in 1 .. Len(processed) : processed[i] < holds[Head(queue)]
  BY <1>2, <1>5 DEF OrderInv
<1> QED
  BY <1>1, <1>2, <1>3, <1>5, <1>7, <1>8, <1>9 DEF OrderInv

LEMMA ProcessKeepsOrder ==
  ASSUME TypeInv, StreamInv, LineInv, ProcessMessage
  PROVE  OrderInv'
<1>1. /\ wpc = "process" /\ wpc' = "monitor" /\ processed' = Append(processed, holds[wbuf])
      /\ UNCHANGED <<log, holds, spc, sbuf, queue, wbuf>>
  BY DEF ProcessMessage, stream, sub
<1>2. Queued' = Queued /\ WorkerOwes' = WorkerOwes /\ WorkerOwes = {wbuf} /\ wbuf \in Buffers
  BY <1>1, LineParts DEF Queued, WorkerOwes
<1>3. holds[wbuf] \in 1 .. MaxMessages /\ holds[wbuf] <= Len(log)
  <2>1. holds[wbuf] > 0 /\ holds[wbuf] <= Len(log)
    BY <1>2, LineParts DEF LineInv, OrderInv
  <2>2. holds[wbuf] \in 0 .. MaxMessages
    BY <1>2 DEF TypeInv
  <2> QED
    BY <2>1, <2>2, Bounds
<1>4. /\ Len(processed') = Len(processed) + 1 /\ Len(processed) \in Nat
      /\ processed'[Len(processed) + 1] = holds[wbuf]
      /\ \A i \in 1 .. Len(processed) : processed'[i] = processed[i]
  <2>1. processed \in Seq(1 .. MaxMessages)
    BY DEF TypeInv
  <2> QED
    BY <1>1, <1>3, <2>1, AppendParts, LineParts
<1>5. OrderInv
  BY DEF LineInv
<1>6. \A i \in 1 .. Len(processed) : processed[i] < holds[wbuf] /\ processed[i] \in Nat
  BY <1>1, <1>5, LineParts DEF OrderInv
<1>7. /\ \A b \in Queued : holds[wbuf] < holds[b]
      /\ spc \in {"track", "enqueue"} => holds[wbuf] < Len(log)
  BY <1>1, <1>2, <1>5 DEF OrderInv
<1>8. ASSUME NEW i \in 1 .. Len(processed')
      PROVE  \/ i \in 1 .. Len(processed) /\ processed'[i] = processed[i]
             \/ i = Len(processed) + 1 /\ processed'[i] = holds[wbuf]
  BY <1>4
<1>9. \A i \in 1 .. Len(processed') :
        /\ processed'[i] <= Len(log)
        /\ spc \in {"track", "enqueue"} => processed'[i] < Len(log)
        /\ \A b \in Queued : processed'[i] < holds[b]
        /\ processed'[i] <= holds[wbuf]
  <2> TAKE i \in 1 .. Len(processed')
  <2>1. CASE i \in 1 .. Len(processed) /\ processed'[i] = processed[i]
    <3>1. processed[i] <= holds[wbuf]
      BY <1>3, <1>6, <2>1
    <3> QED
      BY <1>5, <2>1, <3>1 DEF OrderInv
  <2>2. CASE i = Len(processed) + 1 /\ processed'[i] = holds[wbuf]
    BY <1>3, <1>7, <2>2
  <2> QED
    BY <1>8, <2>1, <2>2
<1>10. \A i, j \in 1 .. Len(processed') : i < j => processed'[i] < processed'[j]
  <2> SUFFICES ASSUME NEW i \in 1 .. Len(processed'), NEW j \in 1 .. Len(processed'), i < j
               PROVE  processed'[i] < processed'[j]
    OBVIOUS
  <2>1. i \in 1 .. Len(processed) /\ processed'[i] = processed[i]
    BY <1>4
  <2>2. CASE j \in 1 .. Len(processed)
    BY <1>4, <1>5, <2>1, <2>2 DEF OrderInv
  <2>3. CASE j = Len(processed) + 1
    BY <1>4, <1>6, <2>1, <2>3
  <2> QED
    BY <1>4, <2>2, <2>3
<1>11. \E i \in 1 .. Len(processed') : processed'[i] = holds[wbuf]
  <2>1. Len(processed) + 1 \in 1 .. Len(processed')
    BY <1>4
  <2> QED
    BY <1>4, <2>1
<1> QED
  BY <1>1, <1>2, <1>5, <1>7, <1>9, <1>10, <1>11 DEF OrderInv

\* The remaining steps of the worker keep its buffer or put it back.
LEMMA WorkKeepsOrder ==
  ASSUME OrderInv, UNCHANGED <<log, holds, spc, sbuf, queue, processed>>,
         \/ wpc \in {"check", "release"} /\ wpc' = "poll"
         \/ wbuf' = wbuf /\ wpc = "check" /\ wpc' = "process"
         \/ wbuf' = wbuf /\ wpc = "monitor" /\ wpc' = "release"
  PROVE  OrderInv'
<1>1. Queued' = Queued /\ WorkerOwes' \subseteq WorkerOwes
  BY DEF Queued, WorkerOwes
<1>2. wpc' # "poll" => wbuf' = wbuf /\ wpc # "poll"
  OBVIOUS
<1>3. /\ wpc' \in {"check", "process"} => wpc \in {"check", "process"}
      /\ wpc' \in {"monitor", "release"} => wpc \in {"monitor", "release"}
  OBVIOUS
<1> QED
  BY <1>1, <1>2, <1>3 DEF OrderInv

LEMMA OrderNext ==
  ASSUME TypeInv, StreamInv, LineInv, [Next]_vars
  PROVE  OrderInv'
<1>1. OrderInv
  BY DEF LineInv
<1>2. CASE DropDuplicate \/ EnqueueFails \/ UpdateCheckpoint
  <2>1. /\ UNCHANGED <<log, holds, queue, wpc, wbuf, processed>>
        /\ spc' = "poll"
    BY <1>2 DEF DropDuplicate, EnqueueFails, UpdateCheckpoint, stream, worker
  <2> QED
    BY <1>1, <2>1, OrderFrame
<1>3. CASE Track
  <2>1. UNCHANGED <<log, holds, queue, wpc, wbuf, processed>>
    BY <1>3 DEF Track, stream, worker
  <2>2. sbuf' = sbuf /\ spc \in {"track", "enqueue"}
    BY <1>3 DEF Track
  <2> QED
    BY <1>1, <2>1, <2>2, OrderFrame
<1>5. CASE Monitor \/ UNCHANGED vars
  <2>1. /\ UNCHANGED <<log, holds, queue, wpc, wbuf, processed>>
        /\ sbuf' = sbuf /\ spc' = spc
    BY <1>5 DEF Monitor, vars, stream, sub, worker
  <2> QED
    BY <1>1, <2>1, OrderFrame
<1>4. CASE WorkerDropDuplicate \/ WorkerAccept \/ SendToMonitoring \/ Release
  <2>1. /\ UNCHANGED <<log, holds, spc, sbuf, queue, processed>>
        /\ \/ wpc \in {"check", "release"} /\ wpc' = "poll"
           \/ wbuf' = wbuf /\ wpc = "check" /\ wpc' = "process"
           \/ wbuf' = wbuf /\ wpc = "monitor" /\ wpc' = "release"
    BY <1>4 DEF WorkerDropDuplicate, WorkerAccept, SendToMonitoring, Release, stream, sub
  <2> QED
    BY <1>1, <2>1, WorkKeepsOrder
<1> QED
  BY <1>2, <1>3, <1>4, <1>5, ReceiveKeepsOrder, EnqueueKeepsOrder, DequeueKeepsOrder, ProcessKeepsOrder
     DEF Next, Poll, Handle, Work

LEMMA LineNext ==
  ASSUME TypeInv, StreamInv, LineInv, [Next]_vars
  PROVE  LineInv'
<1>1. free' \cap Owed' = {} /\ free' \cup Owed' = Buffers
  BY NextMoves, FreeNext
<1> QED
  BY <1>1, OrderNext DEF LineInv

-----------------------------------------------------------------------------
\* Counters.

LEMMA CountInit == Init => CountInv
<1> SUFFICES ASSUME Init PROVE CountInv
  OBVIOUS
<1>1. Queued = {} /\ SubscriberOwes = {} /\ WorkerOwes = {} /\ free = Buffers /\ Len(queue) = 0
  BY DEF Init, Queued, SubscriberOwes, WorkerOwes
<1>2. Cardinality({}) = 0 /\ Cardinality(Buffers) \in Nat
  BY FS_EmptySet, FS_CardinalityType, Bounds
<1>3. BufferConservation
  BY <1>1, <1>2 DEF BufferConservation
<1>4. MessagesAccounted
  <2>1. Len(log) = 0 /\ 0 = 0 + 0 + 0 + 0 + 0
    BY DEF Init
  <2> QED
    BY <1>1, <1>2, <2>1 DEF Init, MessagesAccounted
<1> QED
  BY <1>3, <1>4 DEF CountInv

LEMMA ConservationNext ==
  ASSUME TypeInv, StreamInv, LineInv, BufferConservation, Moves, LineInv'
  PROVE  BufferConservation'
<1>1. (free \cup SubscriberOwes \cup Queued \cup WorkerOwes)' = Buffers
  BY DEF LineInv, Owed
<1>2. IsFiniteSet(free) /\ Cardinality(free) \in Nat
  <2>1. free \subseteq Buffers
    BY DEF TypeInv
  <2>2. IsFiniteSet(free)
    BY <2>1, Bounds, FS_Subset
  <2> QED
    BY <2>2, FS_CardinalityType
<1>3. \A b : /\ b \in free => Cardinality(free \ {b}) = Cardinality(free) - 1
             /\ b \notin free => Cardinality(free \cup {b}) = Cardinality(free) + 1
  BY <1>2, FS_AddElement, FS_RemoveElement
<1>4. \A b : Cardinality({b}) = 1 /\ Cardinality({}) = 0
  BY FS_EmptySet, FS_Singleton
<1>5. free \cap Owed = {} /\ Len(queue) \in Nat
  BY LineParts DEF LineInv
<1>6. Cardinality(SubscriberOwes) \in Nat /\ Cardinality(WorkerOwes) \in Nat
  BY OwedCardinalities
<1>7. CASE Kept
  <2>1. Cardinality(free') + Cardinality(SubscriberOwes') + Len(queue') + Cardinality(WorkerOwes')
          = Cardinality(free) + Cardinality(SubscriberOwes) + Len(queue) + Cardinality(WorkerOwes)
    BY <1>7 DEF Kept
  <2> QED
    BY <1>1, <2>1 DEF BufferConservation
<1>8. ASSUME NEW b \in Buffers, Taken(b) PROVE BufferConservation'
  <2>1. /\ Cardinality(free') = Cardinality(free) - 1 /\ Len(queue') = Len(queue)
        /\ Cardinality(SubscriberOwes) = 0 /\ Cardinality(SubscriberOwes') = 1
        /\ Cardinality(WorkerOwes') = Cardinality(WorkerOwes)
    BY <1>3, <1>4, <1>8 DEF Taken
  <2> QED
    BY <1>1, <1>2, <1>5, <1>6, <2>1 DEF BufferConservation
<1>9. ASSUME NEW b \in Buffers, GivenBack(b) PROVE BufferConservation'
  <2>1. b \notin free
    BY <1>5, <1>9 DEF GivenBack, Owed
  <2>2. /\ Cardinality(free') = Cardinality(free) + 1 /\ Len(queue') = Len(queue)
        /\ Cardinality(SubscriberOwes) = 1 /\ Cardinality(SubscriberOwes') = 0
        /\ Cardinality(WorkerOwes') = Cardinality(WorkerOwes)
    BY <1>3, <1>4, <1>9, <2>1 DEF GivenBack
  <2> QED
    BY <1>1, <1>2, <1>5, <1>6, <2>2 DEF BufferConservation
<1>10. ASSUME NEW b \in Buffers, HandedOver(b) PROVE BufferConservation'
  <2>1. /\ free' = free /\ Len(queue') = Len(queue) + 1
        /\ Cardinality(SubscriberOwes) = 1 /\ Cardinality(SubscriberOwes') = 0
        /\ Cardinality(WorkerOwes') = Cardinality(WorkerOwes)
    BY <1>4, <1>10 DEF HandedOver
  <2> QED
    BY <1>1, <1>2, <1>5, <1>6, <2>1 DEF BufferConservation
<1>11. ASSUME NEW b \in Buffers, TakenOver(b) PROVE BufferConservation'
  <2>1. /\ free' = free /\ Len(queue') = Len(queue) - 1
        /\ Cardinality(WorkerOwes) = 0 /\ Cardinality(WorkerOwes') = 1
        /\ Cardinality(SubscriberOwes') = Cardinality(SubscriberOwes)
    BY <1>4, <1>11 DEF TakenOver
  <2> QED
    BY <1>1, <1>2, <1>5, <1>6, <2>1 DEF BufferConservation
<1>12. ASSUME NEW b \in Buffers, Released(b) PROVE BufferConservation'
  <2>1. b \notin free
    BY <1>5, <1>12 DEF Released, Owed
  <2>2. /\ Cardinality(free') = Cardinality(free) + 1 /\ Len(queue') = Len(queue)
        /\ Cardinality(WorkerOwes) = 1 /\ Cardinality(WorkerOwes') = 0
        /\ Cardinality(SubscriberOwes') = Cardinality(SubscriberOwes)
    BY <1>3, <1>4, <1>12, <2>1 DEF Released
  <2> QED
    BY <1>1, <1>2, <1>5, <1>6, <2>2 DEF BufferConservation
<1> QED
  BY <1>7, <1>8, <1>9, <1>10, <1>11, <1>12 DEF Moves

\* Each step that disposes of a message or passes it on counts it.
LEMMA AccountsNext ==
  ASSUME TypeInv, StreamInv, MessagesAccounted, [Next]_vars
  PROVE  MessagesAccounted'
<1> USE OwedCardinalities DEF MessagesAccounted, stream, counted, tracking, sub, worker
<1>1. /\ Len(log) \in Nat /\ Len(queue) \in Nat
      /\ alloc_failures \in Nat /\ duplicates \in Nat /\ queue_full \in Nat /\ received \in Nat
      /\ processed_count \in Nat /\ duplicate_count \in Nat
  BY DEF TypeInv
<1>2. ASSUME NEW s \in NextNumbers, Receive(s) PROVE MessagesAccounted'
  <2>1. Len(log') = Len(log) + 1
    BY <1>2, DeliverSteps DEF Receive
  <2> QED
    BY <1>1, <1>2, <2>1 DEF Receive
<1>3. ASSUME NEW s \in NextNumbers, ReceiveWithoutBuffer(s) PROVE MessagesAccounted'
  <2>1. Len(log') = Len(log) + 1
    BY <1>3, DeliverSteps DEF ReceiveWithoutBuffer
  <2> QED
    BY <1>1, <1>3, <2>1 DEF ReceiveWithoutBuffer
<1>4. CASE DropDuplicate
  BY <1>1, <1>4 DEF DropDuplicate
<1>5. CASE Track
  BY <1>1, <1>5 DEF Track
<1>6. CASE EnqueueFails
  BY <1>1, <1>6 DEF EnqueueFails
<1>7. CASE Enqueue
  <2>1. Len(queue') = Len(queue) + 1
    <3>1. spc # "poll" /\ queue' = Append(queue, sbuf)
      BY <1>7 DEF Enqueue
    <3> QED
      BY <3>1, QueuedAppend, LineParts
  <2> QED
    BY <1>1, <1>7, <2>1 DEF Enqueue
<1>8. CASE UpdateCheckpoint
  BY <1>1, <1>8 DEF UpdateCheckpoint
<1>9. CASE Dequeue
  <2>1. Len(queue') = Len(queue) - 1
    BY <1>9, QueuedTail DEF Dequeue
  <2> QED
    BY <1>1, <1>9, <2>1 DEF Dequeue
<1>10. CASE WorkerDropDuplicate
  BY <1>1, <1>10 DEF WorkerDropDuplicate
<1>11. CASE WorkerAccept \/ ProcessMessage \/ SendToMonitoring
  <2>1. /\ UNCHANGED <<log, queue, spc, alloc_failures, duplicates, queue_full, received,
                       processed_count, duplicate_count>>
        /\ wpc # "poll" /\ wpc' # "poll"
    BY <1>11 DEF WorkerAccept, ProcessMessage, SendToMonitoring
  <2> QED
    BY <1>1, <2>1
<1>12. CASE Release
  BY <1>1, <1>12 DEF Release
<1>13. CASE Monitor \/ UNCHANGED vars
  BY <1>1, <1>13 DEF Monitor, vars
<1> QED
  BY <1>2, <1>3, <1>4, <1>5, <1>6, <1>7, <1>8, <1>9, <1>10, <1>11, <1>12, <1>13
     DEF Next, Poll, Handle, Work

-----------------------------------------------------------------------------
\* The checkpoint.

LEMMA CheckpointNext ==
  ASSUME TypeInv, StreamInv, LineInv, CheckpointInv, [Next]_vars
  PROVE  CheckpointInv'
<1>1. checkpoint.position \in Nat /\ checkpoint.position <= Len(log) /\ Len(log) \in Nat
  BY Bounds DEF CheckpointInv, TypeInv
<1>2. CASE Poll
  <2>1. PICK s \in NextNumbers : Receive(s) \/ ReceiveWithoutBuffer(s)
    BY <1>2 DEF Poll
  <2>2. Deliver(s) /\ checkpoint' = checkpoint
    BY <2>1 DEF Receive, ReceiveWithoutBuffer
  <2>3. Len(log') = Len(log) + 1 /\ \A p \in 1 .. Len(log) : log'[p] = log[p]
    BY <2>2, DeliverSteps
  <2> QED
    BY <1>1, <2>2, <2>3 DEF CheckpointInv, CheckpointOfOneMessage
<1>3. CASE UpdateCheckpoint
  <2>1. /\ checkpoint' = [seq |-> SeqIn(sbuf), position |-> Len(log), count |-> received]
        /\ log' = log /\ spc # "poll"
    BY <1>3 DEF UpdateCheckpoint, stream
  <2>2. SeqIn(sbuf) = log[Len(log)]
    BY <2>1 DEF LineInv, OrderInv, SeqIn
  <2> QED
    BY <1>1, <2>1, <2>2 DEF CheckpointInv, CheckpointOfOneMessage
<1>4. UNCHANGED <<checkpoint, log>> => CheckpointInv'
  BY DEF CheckpointInv, CheckpointOfOneMessage
<1>5. CASE DropDuplicate \/ Track \/ EnqueueFails \/ Enqueue
  BY <1>4, <1>5 DEF DropDuplicate, Track, EnqueueFails, Enqueue, stream
<1>6. CASE Work
  BY <1>4, <1>6
     DEF Work, Dequeue, WorkerDropDuplicate, WorkerAccept, ProcessMessage, SendToMonitoring, Release,
         stream
<1>7. CASE Monitor \/ UNCHANGED vars
  BY <1>4, <1>7 DEF Monitor, vars, stream
<1> QED
  BY <1>2, <1>3, <1>5, <1>6, <1>7 DEF Next, Handle

-----------------------------------------------------------------------------
\* The numbers the worker has seen.

\* What was delivered stays where it was while the next message is received.
LEMMA ReceiveKeepsNumbers ==
  ASSUME TypeInv, StreamInv, LineInv, NEW s \in NextNumbers, Receive(s) \/ ReceiveWithoutBuffer(s)
  PROVE  /\ Deliver(s) /\ spc = "poll" /\ UNCHANGED <<worker, queue, expected, explained, dropped>>
         /\ spc' \in {"poll", "track"}
         /\ Tracked \subseteq 1 .. Len(log) /\ Tracked' = Tracked
         /\ \A p \in 1 .. Len(log) : log'[p] = log[p]
         /\ \A i \in 1 .. Len(processed) : log'[processed[i]] = log[processed[i]]
         /\ \A b \in Owed : SeqIn(b)' = SeqIn(b) /\ b \in Owed'
<1>1. /\ Deliver(s) /\ spc = "poll" /\ spc' \in {"poll", "track"}
      /\ UNCHANGED <<worker, queue, expected, explained, dropped>>
  BY DEF Receive, ReceiveWithoutBuffer, tracking
<1>2. Len(log') = Len(log) + 1 /\ \A p \in 1 .. Len(log) : log'[p] = log[p]
  BY <1>1, DeliverSteps
<1>3. UNCHANGED <<wpc, wbuf, processed, Queued, WorkerOwes>>
  BY <1>1 DEF worker, Queued, WorkerOwes
<1>4. SubscriberOwes = {} /\ Owed = Queued \cup WorkerOwes /\ Owed \subseteq Owed'
  BY <1>1, <1>3 DEF SubscriberOwes, Owed
<1>5. \A b \in Owed : holds[b] \in 1 .. Len(log)
  BY <1>4, LineParts DEF LineInv, OrderInv
<1>6. \A b \in Owed : holds'[b] = holds[b]
  <2>1. CASE Receive(s)
    <3>1. PICK b \in free : holds' = [holds EXCEPT ![b] = Len(log) + 1]
      BY <2>1 DEF Receive
    <3>2. b \notin Owed /\ Owed \subseteq Buffers /\ holds \in [Buffers -> 0 .. MaxMessages]
      BY <1>4, LineParts DEF LineInv, TypeInv
    <3> QED
      BY <3>1, <3>2
  <2>2. CASE ReceiveWithoutBuffer(s)
    BY <2>2 DEF ReceiveWithoutBuffer
  <2> QED
    BY <2>1, <2>2
<1>7. \A b \in Owed : SeqIn(b)' = SeqIn(b)
  BY <1>2, <1>5, <1>6 DEF SeqIn
<1>8. \A i \in 1 .. Len(processed) : processed[i] \in 1 .. Len(log)
  BY LineParts DEF LineInv, OrderInv
<1>9. \A p \in dropped : p \in 1 .. Len(log)
  <2>1. dropped \subseteq 1 .. MaxMessages
    BY DEF TypeInv
  <2>2. MaxMessages \in Nat /\ Len(log) \in Nat
    BY Bounds, LineParts
  <2>3. \A p \in dropped : p \in Int /\ p >= 1 /\ p <= Len(log)
    BY <2>1, <2>2 DEF StreamInv
  <2> QED
    BY <2>2, <2>3
<1>10. Tracked = dropped \cup {processed[i] : i \in 1 .. Len(processed)}
                         \cup {holds[b] : b \in Queued \cup WorkerOwes}
  BY <1>1 DEF Tracked
<1>11. Tracked' = dropped \cup {processed[i] : i \in 1 .. Len(processed)}
                          \cup {holds'[b] : b \in Queued \cup WorkerOwes}
  BY <1>1, <1>3 DEF Tracked
<1>12. {holds'[b] : b \in Queued \cup WorkerOwes} = {holds[b] : b \in Queued \cup WorkerOwes}
  BY <1>4, <1>6
<1>13. Tracked \subseteq 1 .. Len(log)
  BY <1>4, <1>5, <1>8, <1>9, <1>10
<1> QED
  BY <1>1, <1>2, <1>4, <1>7, <1>8, <1>10, <1>11, <1>12, <1>13

LEMMA SeenInit == Init => SeenInv
  BY DEF Init, SeenInv, NumbersProcessedOnce

LEMMA SeenFrame ==
  ASSUME SeenInv, UNCHANGED <<seen, trimmed, processed>>,
         \A i \in 1 .. Len(processed) : log'[processed[i]] = log[processed[i]],
         wpc = "process" => wpc' = "process" /\ wbuf' = wbuf,
         wpc' = "process" => wpc = "process" /\ SeqIn(wbuf)' = SeqIn(wbuf)
  PROVE  SeenInv'
<1>1. \A n \in seen' : \/ \E i \in 1 .. Len(processed') : log'[processed'[i]] = n
                       \/ wpc' = "process" /\ SeqIn(wbuf)' = n
  BY DEF SeenInv
<1>2. ~ trimmed' => \A i \in 1 .. Len(processed') : log'[processed'[i]] \in seen'
  BY DEF SeenInv
<1>3. ~ trimmed' /\ wpc' = "process" =>
        /\ SeqIn(wbuf)' \in seen'
        /\ \A i \in 1 .. Len(processed') : log'[processed'[i]] # SeqIn(wbuf)'
  BY DEF SeenInv
<1>4. NumbersProcessedOnce'
  BY DEF SeenInv, NumbersProcessedOnce
<1> QED
  BY <1>1, <1>2, <1>3, <1>4 DEF SeenInv

LEMMA AcceptKeepsSeen ==
  ASSUME TypeInv, SeenInv, WorkerAccept
  PROVE  SeenInv'
<1> DEFINE x == SeqIn(wbuf)
<1>1. /\ wpc = "check" /\ wpc' = "process" /\ x \notin seen
      /\ UNCHANGED <<log, holds, wbuf, processed>>
  BY DEF WorkerAccept, stream
<1>2. x' = x
  BY <1>1 DEF SeqIn
<1> HIDE DEF x
<1>3. \/ seen' = {} /\ trimmed' = TRUE
      \/ seen' = seen \cup {x} /\ trimmed' = trimmed
  <2>1. CASE Cardinality(seen \cup {x}) > MaxSeen
    BY <2>1 DEF WorkerAccept, x
  <2>2. CASE ~ (Cardinality(seen \cup {x}) > MaxSeen)
    <3>1. seen' = seen \cup {x}
      BY <2>2 DEF WorkerAccept, x
    <3>2. trimmed' = (trimmed \/ Cardinality(seen \cup {x}) > MaxSeen)
      BY DEF WorkerAccept, x
    <3>3. trimmed' = trimmed
      BY <2>2, <3>2 DEF TypeInv
    <3> QED
      BY <3>1, <3>3
  <2> QED
    BY <2>1, <2>2
<1>4. NumbersProcessedOnce'
  BY <1>1, <1>3 DEF SeenInv, NumbersProcessedOnce
<1>5. \A n \in seen' : \/ \E i \in 1 .. Len(processed') : log'[processed'[i]] = n
                       \/ wpc' = "process" /\ x' = n
  BY <1>1, <1>2, <1>3 DEF SeenInv
<1>6. ~ trimmed' => /\ \A i \in 1 .. Len(processed') : log'[processed'[i]] \in seen'
                    /\ x' \in seen'
                    /\ \A i \in 1 .. Len(processed') : log'[processed'[i]] # x'
  BY <1>1, <1>2, <1>3 DEF SeenInv
<1> QED
  BY <1>4, <1>5, <1>6 DEF SeenInv, x

LEMMA ProcessKeepsSeen ==
  ASSUME TypeInv, StreamInv, LineInv, SeenInv, ProcessMessage
  PROVE  SeenInv'
<1>1. /\ wpc = "process" /\ wpc' = "monitor" /\ processed' = Append(processed, holds[wbuf])
      /\ UNCHANGED <<log, seen, trimmed>>
  BY DEF ProcessMessage, stream
<1>2. wbuf \in WorkerOwes /\ wbuf \in Buffers
  BY <1>1, LineParts DEF WorkerOwes
<1>3. holds[wbuf] > 0 /\ holds[wbuf] \in 0 .. MaxMessages
  BY <1>2 DEF LineInv, OrderInv, TypeInv
<1>4. SeqIn(wbuf) = log[holds[wbuf]] /\ holds[wbuf] \in 1 .. MaxMessages
  BY <1>3, Bounds DEF SeqIn
<1>5. /\ Len(processed') = Len(processed) + 1 /\ Len(processed) \in Nat
      /\ processed'[Len(processed) + 1] = holds[wbuf]
      /\ \A i \in 1 .. Len(processed) : processed'[i] = processed[i]
  <2>1. processed \in Seq(1 .. MaxMessages)
    BY DEF TypeInv
  <2> QED
    BY <1>1, <1>4, <2>1, AppendParts, LineParts
<1>6. \A i \in 1 .. Len(processed') :
        \/ i \in 1 .. Len(processed) /\ log'[processed'[i]] = log[processed[i]]
        \/ i = Len(processed) + 1 /\ log'[processed'[i]] = SeqIn(wbuf)
  BY <1>1, <1>4, <1>5
<1>7. \A i \in 1 .. Len(processed) : i \in 1 .. Len(processed')
                                     /\ log'[processed'[i]] = log[processed[i]]
  BY <1>1, <1>5
<1>8. Len(processed) + 1 \in 1 .. Len(processed')
      /\ log'[processed'[Len(processed) + 1]] = SeqIn(wbuf)
  BY <1>1, <1>4, <1>5
<1>9. \A n \in seen' : \E i \in 1 .. Len(processed') : log'[processed'[i]] = n
  BY <1>1, <1>7, <1>8 DEF SeenInv
<1>10. ~ trimmed' => \A i \in 1 .. Len(processed') : log'[processed'[i]] \in seen'
  BY <1>1, <1>6 DEF SeenInv
<1>11. NumbersProcessedOnce'
  <2> SUFFICES ASSUME ~ trimmed, NEW i \in 1 .. Len(processed'), NEW j \in 1 .. Len(processed'),
                      log'[processed'[i]] = log'[processed'[j]]
               PROVE  i = j
    BY <1>1 DEF NumbersProcessedOnce
  <2>1. \A k \in 1 .. Len(processed) : log[processed[k]] # SeqIn(wbuf)
    BY <1>1 DEF SeenInv
  <2>2. CASE i \in 1 .. Len(processed) /\ j \in 1 .. Len(processed)
    BY <1>7, <2>2 DEF SeenInv, NumbersProcessedOnce
  <2> QED
    BY <1>6, <2>1, <2>2
<1> QED
  BY <1>1, <1>9, <1>10, <1>11 DEF SeenInv

LEMMA SeenNext ==
  ASSUME TypeInv, StreamInv, LineInv, SeenInv, [Next]_vars
  PROVE  SeenInv'
<1>1. CASE Poll
  <2>1. PICK s \in NextNumbers : Receive(s) \/ ReceiveWithoutBuffer(s)
    BY <1>1 DEF Poll
  <2>2. /\ UNCHANGED <<seen, trimmed, processed, wpc, wbuf>>
        /\ \A i \in 1 .. Len(processed) : log'[processed[i]] = log[processed[i]]
        /\ \A b \in Owed : SeqIn(b)' = SeqIn(b)
    BY <2>1, ReceiveKeepsNumbers DEF worker
  <2>3. wpc = "process" => wbuf \in Owed
    BY DEF Owed, WorkerOwes
  <2>4. wpc = "process" => SeqIn(wbuf)' = SeqIn(wbuf)
    BY <2>2, <2>3 DEF SeqIn
  <2> QED
    BY <2>2, <2>4, SeenFrame
<1>2. CASE Handle \/ Monitor \/ UNCHANGED vars
  <2>1. UNCHANGED <<log, holds, worker>>
    BY <1>2 DEF Handle, DropDuplicate, Track, EnqueueFails, Enqueue, UpdateCheckpoint, Monitor,
                vars, stream
  <2>2. UNCHANGED <<seen, trimmed, processed, wpc, wbuf>> /\ SeqIn(wbuf)' = SeqIn(wbuf)
    BY <2>1 DEF worker, SeqIn
  <2> QED
    BY <2>1, <2>2, SeenFrame
<1>3. CASE Dequeue \/ WorkerDropDuplicate \/ SendToMonitoring \/ Release
  <2>1. UNCHANGED <<log, seen, trimmed, processed>> /\ wpc # "process" /\ wpc' # "process"
    BY <1>3 DEF Dequeue, WorkerDropDuplicate, SendToMonitoring, Release, stream
  <2> QED
    BY <2>1, SeenFrame
<1> QED
  BY <1>1, <1>2, <1>3, AcceptKeepsSeen, ProcessKeepsSeen DEF Next, Work

-----------------------------------------------------------------------------
\* What became of the numbers below the expected one.

LEMMA LossInit == Init => LossInv
<1> SUFFICES ASSUME Init PROVE LossInv
  OBVIOUS
<1>1. Queued = {} /\ WorkerOwes = {} /\ dropped = {} /\ Len(processed) = 0 /\ spc = "poll"
  BY DEF Init, Queued, WorkerOwes
<1>2. Tracked = {}
  BY <1>1 DEF Tracked
<1>3. Len(log) = 0 /\ expected = 0 /\ next_seq = 0 /\ spc # "track"
  BY DEF Init
<1> QED
  BY <1>2, <1>3 DEF LossInv

LEMMA TrackedParts ==
  ASSUME TypeInv, StreamInv, LineInv
  PROVE  /\ Tracked \subseteq 1 .. Len(log)
         /\ \A b \in Owed : holds[b] \in 1 .. Len(log) /\ SeqIn(b) = log[holds[b]]
<1>1. \A b \in Owed : holds[b] \in 1 .. Len(log)
  BY LineParts DEF LineInv, OrderInv, Owed, SubscriberOwes
<1>2. \A i \in 1 .. Len(processed) : processed[i] \in 1 .. Len(log)
  BY LineParts DEF LineInv, OrderInv
<1>3. \A p \in dropped : p \in 1 .. Len(log)
  <2>1. dropped \subseteq 1 .. MaxMessages
    BY DEF TypeInv
  <2>2. MaxMessages \in Nat /\ Len(log) \in Nat
    BY Bounds, LineParts
  <2>3. \A p \in dropped : p \in Int /\ p >= 1 /\ p <= Len(log)
    BY <2>1, <2>2 DEF StreamInv
  <2> QED
    BY <2>2, <2>3
<1>4. spc = "enqueue" => Len(log) \in 1 .. Len(log)
  BY LineParts DEF LineInv, OrderInv
<1>5. Tracked \subseteq 1 .. Len(log)
  BY <1>1, <1>2, <1>3, <1>4 DEF Tracked, Owed
<1>6. \A b \in Owed : SeqIn(b) = log[holds[b]]
  BY <1>1 DEF SeqIn
<1> QED
  BY <1>1, <1>5, <1>6

\* A step that receives and tracks nothing only has to keep the explanations.
LEMMA LossFrame ==
  ASSUME LossInv, UNCHANGED <<log, next_seq, restarted, expected>>, Tracked' \subseteq Tracked,
         spc' # "track" \/ spc' = spc,
         ~ restarted => \A n : n \in Int /\ n < expected /\ Explained(n) => Explained(n)',
         \A p \in Tracked : log[p] \in Int, expected \in Int
  PROVE  LossInv'
<1>1. expected' = 0 => Tracked' = {}
  BY DEF LossInv
<1>2. ~ restarted' =>
        /\ \A p, q \in 1 .. Len(log') : p < q => log'[p] < log'[q]
        /\ \A p \in 1 .. Len(log') : log'[p] < next_seq'
        /\ expected' <= next_seq'
        /\ spc' = "track" => expected' <= log'[Len(log')]
  BY DEF LossInv
<1>3. GapRecovery /\ ~ restarted' =>
        \A p \in Tracked' : \A n \in log'[p] .. expected' - 1 : Explained(n)'
  <2> SUFFICES ASSUME GapRecovery, ~ restarted, NEW p \in Tracked, NEW n \in log[p] .. expected - 1
               PROVE  Explained(n)'
    OBVIOUS
  <2>1. n \in Int /\ n < expected
    OBVIOUS
  <2>2. Explained(n)
    BY DEF LossInv
  <2> QED
    BY <2>1, <2>2
<1> QED
  BY <1>1, <1>2, <1>3 DEF LossInv

LEMMA NumberParts ==
  ASSUME TypeInv, StreamInv, LineInv
  PROVE  /\ \A p \in 1 .. Len(log) : log[p] \in Nat
         /\ \A p \in Tracked : log[p] \in Nat
         /\ expected \in Nat /\ next_seq \in Nat /\ Len(log) \in Nat
<1>1. \A p \in 1 .. Len(log) : log[p] \in Nat
  BY ElementType, NumbersAreNaturals DEF TypeInv
<1> QED
  BY <1>1, TrackedParts DEF TypeInv

LEMMA ReceiveKeepsLoss ==
  ASSUME TypeInv, StreamInv, LineInv, LossInv, NEW s \in NextNumbers,
         Receive(s) \/ ReceiveWithoutBuffer(s)
  PROVE  LossInv'
<1> USE ReceiveKeepsNumbers, NumberParts
<1>1. /\ Len(log') = Len(log) + 1 /\ log'[Len(log')] = s /\ s \in Nat
      /\ next_seq' = s + 1 /\ (~ restarted' => ~ restarted /\ s >= next_seq)
  BY DeliverSteps, NumbersAreNaturals
<1>2. expected' = 0 => Tracked' = {}
  BY DEF LossInv
<1>3. ASSUME ~ restarted'
      PROVE  /\ \A p, q \in 1 .. Len(log') : p < q => log'[p] < log'[q]
             /\ \A p \in 1 .. Len(log') : log'[p] < next_seq'
             /\ expected' <= next_seq'
             /\ spc' = "track" => expected' <= log'[Len(log')]
  <2>1. /\ \A p, q \in 1 .. Len(log) : p < q => log[p] < log[q]
        /\ \A p \in 1 .. Len(log) : log[p] < next_seq
        /\ expected <= next_seq /\ s >= next_seq
    BY <1>1, <1>3 DEF LossInv
  <2>2. \A p \in 1 .. Len(log) : log'[p] = log[p] /\ log[p] < s
    BY <1>1, <2>1
  <2>3. \A p \in 1 .. Len(log') : p \in 1 .. Len(log) \/ p = Len(log) + 1
    BY <1>1
  <2>4. \A p, q \in 1 .. Len(log') : p < q => log'[p] < log'[q]
    <3> SUFFICES ASSUME NEW p \in 1 .. Len(log'), NEW q \in 1 .. Len(log'), p < q
                 PROVE  log'[p] < log'[q]
      OBVIOUS
    <3>1. p \in 1 .. Len(log)
      BY <1>1
    <3>2. CASE q \in 1 .. Len(log)
      BY <2>1, <2>2, <3>1, <3>2
    <3>3. CASE q = Len(log) + 1
      BY <1>1, <2>2, <3>1, <3>3
    <3> QED
      BY <2>3, <3>2, <3>3
  <2>5. \A p \in 1 .. Len(log') : log'[p] < next_seq'
    BY <1>1, <2>2, <2>3
  <2>6. expected' <= next_seq' /\ expected' <= log'[Len(log')]
    BY <1>1, <2>1
  <2> QED
    BY <2>4, <2>5, <2>6
<1>4. GapRecovery /\ ~ restarted' =>
        \A p \in Tracked' : \A n \in log'[p] .. expected' - 1 : Explained(n)'
  <2> SUFFICES ASSUME GapRecovery, ~ restarted', NEW p \in Tracked, NEW n \in log'[p] .. expected - 1
               PROVE  Explained(n)'
    OBVIOUS
  <2>1. log'[p] = log[p]
    OBVIOUS
  <2>2. Explained(n)
    BY <1>1, <2>1 DEF LossInv
  <2>3. CASE n \in explained
    BY <2>3 DEF Explained
  <2>4. CASE \E q \in dropped : log[q] = n
    <3>1. dropped \subseteq 1 .. Len(log) /\ dropped' = dropped
      BY DEF Tracked
    <3> QED
      BY <2>4, <3>1 DEF Explained
  <2>5. CASE \E i \in 1 .. Len(processed) : log[processed[i]] = n
    <3>1. processed' = processed
      BY DEF worker
    <3> QED
      BY <2>5, <3>1 DEF Explained
  <2>6. CASE \E b \in Owed : SeqIn(b) = n
    BY <2>6 DEF Explained
  <2> QED
    BY <2>2, <2>3, <2>4, <2>5, <2>6 DEF Explained
<1> QED
  BY <1>2, <1>3, <1>4 DEF LossInv

LEMMA ExplainedStays ==
  ASSUME NEW n, Explained(n), log' = log, explained \subseteq explained', dropped \subseteq dropped',
         \A i \in 1 .. Len(processed) : \E j \in 1 .. Len(processed') : processed'[j] = processed[i],
         \A b \in Owed : SeqIn(b) = n => Explained(n)'
  PROVE  Explained(n)'
<1>1. CASE n \in explained
  BY <1>1 DEF Explained
<1>2. CASE \E p \in dropped : log[p] = n
  BY <1>2 DEF Explained
<1>3. CASE \E i \in 1 .. Len(processed) : log[processed[i]] = n
  BY <1>3 DEF Explained
<1>4. CASE \E b \in Owed : SeqIn(b) = n
  BY <1>4
<1> QED
  BY <1>1, <1>2, <1>3, <1>4 DEF Explained

LEMMA DropKeepsLoss ==
  ASSUME TypeInv, StreamInv, LineInv, LossInv, DropDuplicate
  PROVE  LossInv'
<1>1. /\ spc = "track" /\ spc' = "poll" /\ explained \subseteq explained'
      /\ UNCHANGED <<log, next_seq, restarted, expected, holds, queue, wpc, wbuf, processed, dropped>>
  BY DEF DropDuplicate, CheckForGaps, stream, worker
<1>2. UNCHANGED <<Queued, WorkerOwes>> /\ \A b : SeqIn(b)' = SeqIn(b)
  BY <1>1 DEF Queued, WorkerOwes, SeqIn
<1>3. Tracked' = Tracked
  BY <1>1, <1>2 DEF Tracked
<1>4. Owed = {sbuf} \cup Queued \cup WorkerOwes /\ Queued \cup WorkerOwes \subseteq Owed'
  BY <1>1, <1>2 DEF Owed, SubscriberOwes
<1>5. SeqIn(sbuf) = log[Len(log)]
  BY <1>1, LineParts DEF LineInv, OrderInv, SeqIn
<1>6. ASSUME ~ restarted, NEW n, n \in Int, n < expected, Explained(n) PROVE Explained(n)'
  <2>1. expected <= log[Len(log)] /\ log[Len(log)] \in Nat /\ expected \in Nat
    <3>1. Len(log) \in 1 .. Len(log)
      BY <1>1, LineParts DEF LineInv, OrderInv
    <3> QED
      BY <1>1, <1>6, <3>1, NumberParts DEF LossInv
  <2>2. SeqIn(sbuf) # n
    BY <1>5, <1>6, <2>1
  <2>3. \A b \in Owed : SeqIn(b) = n => Explained(n)'
    BY <1>2, <1>4, <2>2 DEF Explained
  <2> QED
    BY <1>1, <1>6, <2>3, ExplainedStays
<1> QED
  BY <1>1, <1>3, <1>6, NumberParts, LossFrame

LEMMA TrackKeepsLoss ==
  ASSUME TypeInv, StreamInv, LineInv, LossInv, Track
  PROVE  LossInv'
<1> DEFINE m == log[Len(log)]
<1>1. /\ spc = "track" /\ spc' = "enqueue" /\ explained' = explained \cup Missing
      /\ expected' = message_number + 1
      /\ UNCHANGED <<log, next_seq, restarted, sbuf, holds, queue, wpc, wbuf, processed, dropped>>
  BY DEF Track, CheckForGaps, stream, worker
<1>2. UNCHANGED <<Queued, WorkerOwes, Owed>> /\ \A b : SeqIn(b)' = SeqIn(b)
  BY <1>1 DEF Queued, WorkerOwes, SubscriberOwes, Owed, SeqIn
<1>3. message_number = m /\ sbuf \in Owed
  BY <1>1, LineParts DEF LineInv, OrderInv, SeqIn, message_number, Owed, SubscriberOwes
<1>4. Len(log) \in 1 .. Len(log) /\ m \in Nat /\ expected \in Nat /\ next_seq \in Nat
  <2>1. Len(log) \in 1 .. Len(log)
    BY <1>1, LineParts DEF LineInv, OrderInv
  <2> QED
    BY <2>1, NumberParts
<1>5. Tracked' = Tracked \cup {Len(log)}
  <2>1. Tracked = dropped \cup {processed[i] : i \in 1 .. Len(processed)}
                          \cup {holds[b] : b \in Queued \cup WorkerOwes}
    BY <1>1 DEF Tracked
  <2> QED
    BY <1>1, <1>2, <2>1 DEF Tracked
<1>6. expected' = m + 1
  BY <1>1, <1>3
<1>7. \E b \in Owed' : SeqIn(b)' = m
  <2>1. SeqIn(sbuf) = m
    BY <1>3 DEF message_number
  <2> QED
    BY <1>2, <1>3, <2>1
<1> HIDE DEF m
<1>8. expected' # 0
  BY <1>4, <1>6
<1>9. ~ restarted' =>
        /\ \A p, q \in 1 .. Len(log') : p < q => log'[p] < log'[q]
        /\ \A p \in 1 .. Len(log') : log'[p] < next_seq'
        /\ expected' <= next_seq'
        /\ spc' = "track" => expected' <= log'[Len(log')]
  <2> SUFFICES ASSUME ~ restarted
               PROVE  /\ \A p, q \in 1 .. Len(log) : p < q => log[p] < log[q]
                      /\ \A p \in 1 .. Len(log) : log[p] < next_seq
                      /\ expected' <= next_seq
    BY <1>1
  <2>1. m < next_seq
    BY <1>4 DEF LossInv, m
  <2>2. expected' <= next_seq
    BY <1>4, <1>6, <2>1
  <2> QED
    BY <2>2 DEF LossInv
<1>10. GapRecovery /\ ~ restarted' =>
         \A p \in Tracked' : \A n \in log'[p] .. expected' - 1 : Explained(n)'
  <2> SUFFICES ASSUME GapRecovery, ~ restarted, NEW p \in Tracked', NEW n \in log[p] .. expected' - 1
               PROVE  Explained(n)'
    BY <1>1
  <2>1. expected <= m
    BY <1>1 DEF LossInv, m
  <2>2. CASE p = Len(log)
    <3>1. n = m
      BY <1>4, <1>6, <2>2 DEF m
    <3> QED
      BY <1>7, <3>1 DEF Explained
  <2>3. CASE p \in Tracked
    <3>1. expected # 0 /\ log[p] \in Nat
      BY <2>3, NumberParts DEF LossInv
    <3>2. n \in Int /\ log[p] <= n /\ n <= m
      BY <1>4, <1>6, <3>1
    <3>3. CASE n < expected
      <4>1. n \in log[p] .. expected - 1
        BY <1>4, <3>1, <3>2, <3>3
      <4>2. Explained(n)
        BY <2>3, <4>1 DEF LossInv
      <4>3. \A b \in Owed : SeqIn(b) = n => Explained(n)'
        BY <1>2 DEF Explained
      <4> QED
        BY <1>1, <4>2, <4>3, ExplainedStays
    <3>4. CASE expected <= n /\ n < m
      <4>1. n \in expected .. message_number - 1
        BY <1>3, <1>4, <3>2, <3>4
      <4>2. n \in Missing
        BY <3>1, <4>1 DEF Missing
      <4> QED
        BY <1>1, <4>2 DEF Explained
    <3>5. CASE n = m
      BY <1>7, <3>5 DEF Explained
    <3> QED
      BY <1>4, <3>2, <3>3, <3>4, <3>5
  <2> QED
    BY <1>5, <2>2, <2>3
<1> QED
  BY <1>8, <1>9, <1>10 DEF LossInv

LEMMA FailKeepsLoss ==
  ASSUME TypeInv, StreamInv, LineInv, LossInv, EnqueueFails
  PROVE  LossInv'
<1>1. /\ spc = "enqueue" /\ spc' = "poll" /\ dropped' = dropped \cup {holds[sbuf]}
      /\ UNCHANGED <<log, next_seq, restarted, expected, explained, holds, queue, wpc, wbuf, processed>>
  BY DEF EnqueueFails, stream, worker, tracking
<1>2. UNCHANGED <<Queued, WorkerOwes>> /\ \A b : SeqIn(b)' = SeqIn(b)
  BY <1>1 DEF Queued, WorkerOwes, SeqIn
<1>3. holds[sbuf] = Len(log) /\ Len(log) > 0
  BY <1>1, LineParts DEF LineInv, OrderInv
<1>4. Tracked' = Tracked
  BY <1>1, <1>2, <1>3 DEF Tracked
<1>5. Owed = {sbuf} \cup Queued \cup WorkerOwes /\ Queued \cup WorkerOwes \subseteq Owed'
  BY <1>1, <1>2 DEF Owed, SubscriberOwes
<1>6. ASSUME NEW n, Explained(n) PROVE Explained(n)'
  <2>1. SeqIn(sbuf) = log[holds[sbuf]]
    BY <1>3, LineParts DEF SeqIn
  <2>2. \A b \in Owed : SeqIn(b) = n => Explained(n)'
    BY <1>1, <1>2, <1>5, <2>1 DEF Explained
  <2> QED
    BY <1>1, <1>6, <2>2, ExplainedStays
<1> QED
  BY <1>1, <1>4, <1>6, NumberParts, LossFrame

LEMMA EnqueueKeepsLoss ==
  ASSUME TypeInv, StreamInv, LineInv, LossInv, Enqueue
  PROVE  LossInv'
<1>1. /\ spc = "enqueue" /\ spc' = "checkpoint" /\ queue' = Append(queue, sbuf)
      /\ UNCHANGED <<log, next_seq, restarted, expected, explained, holds, wpc, wbuf, processed, dropped>>
  BY DEF Enqueue, stream, worker, tracking
<1>2. Queued' = Queued \cup {sbuf} /\ WorkerOwes' = WorkerOwes /\ \A b : SeqIn(b)' = SeqIn(b)
  <2>1. sbuf \in Buffers
    BY <1>1, LineParts
  <2> QED
    BY <1>1, <2>1, QueuedAppend DEF WorkerOwes, SeqIn
<1>3. holds[sbuf] = Len(log)
  BY <1>1 DEF LineInv, OrderInv
<1>4. Tracked' = Tracked
  <2>1. {holds[b] : b \in Queued \cup {sbuf} \cup WorkerOwes}
          = {holds[b] : b \in Queued \cup WorkerOwes} \cup {Len(log)}
    BY <1>3
  <2> QED
    BY <1>1, <1>2, <2>1 DEF Tracked
<1>5. Owed' = Owed
  BY <1>1, <1>2 DEF Owed, SubscriberOwes
<1>6. ASSUME NEW n, Explained(n) PROVE Explained(n)'
  BY <1>1, <1>2, <1>5, <1>6, ExplainedStays DEF Explained
<1> QED
  BY <1>1, <1>4, <1>6, NumberParts, LossFrame

LEMMA CheckpointKeepsLoss ==
  ASSUME TypeInv, StreamInv, LineInv, LossInv, UpdateCheckpoint
  PROVE  LossInv'
<1>1. /\ spc = "checkpoint" /\ spc' = "poll"
      /\ UNCHANGED <<log, next_seq, restarted, expected, explained, holds, queue, wpc, wbuf, processed,
                     dropped>>
  BY DEF UpdateCheckpoint, stream, worker, tracking
<1>2. UNCHANGED <<Queued, WorkerOwes>> /\ \A b : SeqIn(b)' = SeqIn(b)
  BY <1>1 DEF Queued, WorkerOwes, SeqIn
<1>3. Tracked' = Tracked /\ Owed' = Owed
  BY <1>1, <1>2 DEF Tracked, Owed, SubscriberOwes
<1>4. ASSUME NEW n, Explained(n) PROVE Explained(n)'
  BY <1>1, <1>2, <1>3, <1>4, ExplainedStays DEF Explained
<1> QED
  BY <1>1, <1>3, <1>4, NumberParts, LossFrame

LEMMA DequeueKeepsLoss ==
  ASSUME TypeInv, StreamInv, LineInv, LossInv, Dequeue
  PROVE  LossInv'
<1>1. /\ wpc = "poll" /\ wpc' = "check" /\ wbuf' = Head(queue) /\ queue # <<>> /\ queue' = Tail(queue)
      /\ UNCHANGED <<log, next_seq, restarted, expected, explained, holds, spc, sbuf, processed, dropped>>
  BY DEF Dequeue, stream, sub, tracking
<1>2. Queued = {Head(queue)} \cup Queued' /\ WorkerOwes = {} /\ WorkerOwes' = {Head(queue)}
      /\ SubscriberOwes' = SubscriberOwes /\ \A b : SeqIn(b)' = SeqIn(b)
  BY <1>1, QueuedTail DEF WorkerOwes, SubscriberOwes, SeqIn
<1>3. Queued' \cup WorkerOwes' = Queued \cup WorkerOwes
  BY <1>2
<1>4. Tracked' = Tracked /\ Owed' = Owed
  BY <1>1, <1>2, <1>3 DEF Tracked, Owed
<1>5. ASSUME NEW n, Explained(n) PROVE Explained(n)'
  BY <1>1, <1>2, <1>4, <1>5, ExplainedStays DEF Explained
<1> QED
  BY <1>1, <1>4, <1>5, NumberParts, LossFrame

\* Without a restart the number of the worker's message is greater than those processed.
LEMMA WorkerFindsNoDuplicate ==
  ASSUME TypeInv, StreamInv, LineInv, SeenInv, LossInv, ~ restarted, wpc = "check"
  PROVE  SeqIn(wbuf) \notin seen
<1>1. wbuf \in Owed /\ holds[wbuf] \in 1 .. Len(log) /\ SeqIn(wbuf) = log[holds[wbuf]]
  BY TrackedParts DEF Owed, WorkerOwes
<1> SUFFICES ASSUME SeqIn(wbuf) \in seen PROVE FALSE
  OBVIOUS
<1>2. PICK i \in 1 .. Len(processed) : log[processed[i]] = SeqIn(wbuf)
  BY DEF SeenInv
<1>3. processed[i] \in 1 .. Len(log) /\ processed[i] < holds[wbuf]
  BY LineParts DEF LineInv, OrderInv
<1>4. log[processed[i]] < log[holds[wbuf]] /\ log[holds[wbuf]] \in Nat
  BY <1>1, <1>3, NumberParts DEF LossInv
<1> QED
  BY <1>1, <1>2, <1>4

LEMMA WorkerDropKeepsLoss ==
  ASSUME TypeInv, StreamInv, LineInv, SeenInv, LossInv, WorkerDropDuplicate
  PROVE  LossInv'
<1>1. /\ wpc = "check" /\ wpc' = "poll" /\ SeqIn(wbuf) \in seen
      /\ UNCHANGED <<log, next_seq, restarted, expected, holds, queue, spc, processed, dropped>>
  BY DEF WorkerDropDuplicate, stream, sub, tracking
<1>2. restarted
  BY <1>1, WorkerFindsNoDuplicate
<1>3. Queued' = Queued /\ WorkerOwes' = {}
  BY <1>1 DEF Queued, WorkerOwes
<1>4. Tracked' \subseteq Tracked
  BY <1>1, <1>3 DEF Tracked
<1> QED
  BY <1>1, <1>2, <1>4, NumberParts, LossFrame

LEMMA ProcessKeepsLoss ==
  ASSUME TypeInv, StreamInv, LineInv, LossInv, ProcessMessage
  PROVE  LossInv'
<1>1. /\ wpc = "process" /\ wpc' = "monitor" /\ processed' = Append(processed, holds[wbuf])
      /\ UNCHANGED <<log, next_seq, restarted, expected, explained, holds, queue, wbuf, spc, sbuf, dropped>>
  BY DEF ProcessMessage, stream, sub, tracking
<1>2. UNCHANGED <<Queued, WorkerOwes, SubscriberOwes>> /\ wbuf \in WorkerOwes
      /\ \A b : SeqIn(b)' = SeqIn(b)
  BY <1>1 DEF Queued, WorkerOwes, SubscriberOwes, SeqIn
<1>3. holds[wbuf] \in 1 .. MaxMessages
  <2>1. wbuf \in Owed /\ wbuf \in Buffers
    BY <1>1, <1>2, LineParts DEF Owed
  <2>2. holds[wbuf] \in 0 .. MaxMessages
    BY <2>1 DEF TypeInv
  <2>3. holds[wbuf] > 0
    BY <2>1, TrackedParts
  <2> QED
    BY <2>2, <2>3, Bounds
<1>4. /\ Len(processed') = Len(processed) + 1 /\ Len(processed) \in Nat
      /\ processed'[Len(processed) + 1] = holds[wbuf]
      /\ \A i \in 1 .. Len(processed) : processed'[i] = processed[i]
  <2>1. processed \in Seq(1 .. MaxMessages)
    BY DEF TypeInv
  <2> QED
    BY <1>1, <1>3, <2>1, AppendParts, LineParts
<1>5. {processed'[i] : i \in 1 .. Len(processed')}
        = {processed[i] : i \in 1 .. Len(processed)} \cup {holds[wbuf]}
  BY <1>4
<1>6. Tracked' = Tracked
  BY <1>1, <1>2, <1>5 DEF Tracked
<1>7. Owed' = Owed
  BY <1>2 DEF Owed
<1>8. ASSUME NEW n, Explained(n) PROVE Explained(n)'
  <2>1. \A i \in 1 .. Len(processed) : \E j \in 1 .. Len(processed') : processed'[j] = processed[i]
    BY <1>4
  <2> QED
    BY <1>1, <1>2, <1>7, <1>8, <2>1, ExplainedStays DEF Explained
<1> QED
  BY <1>1, <1>6, <1>8, NumberParts, LossFrame

LEMMA ReleaseKeepsLoss ==
  ASSUME TypeInv, StreamInv, LineInv, LossInv, Release
  PROVE  LossInv'
<1>1. /\ wpc = "release" /\ wpc' = "poll"
      /\ UNCHANGED <<log, next_seq, restarted, expected, explained, holds, queue, processed, spc, sbuf,
                     dropped>>
  BY DEF Release, stream, sub, tracking
<1>2. UNCHANGED <<Queued, SubscriberOwes>> /\ WorkerOwes = {wbuf} /\ WorkerOwes' = {}
      /\ \A b : SeqIn(b)' = SeqIn(b)
  BY <1>1 DEF Queued, SubscriberOwes, WorkerOwes, SeqIn
<1>3. PICK i \in 1 .. Len(processed) : processed[i] = holds[wbuf]
  BY <1>1 DEF LineInv, OrderInv
<1>4. Tracked' \subseteq Tracked
  BY <1>1, <1>2 DEF Tracked
<1>5. Owed = {wbuf} \cup Owed' /\ SeqIn(wbuf) = log[processed[i]]
  <2>1. wbuf \in Owed
    BY <1>2 DEF Owed
  <2>2. SeqIn(wbuf) = log[holds[wbuf]]
    BY <2>1, TrackedParts
  <2> QED
    BY <1>2, <1>3, <2>2 DEF Owed
<1>6. ASSUME NEW n, Explained(n) PROVE Explained(n)'
  <2>1. \A b \in Owed : SeqIn(b) = n => Explained(n)'
    BY <1>1, <1>2, <1>5 DEF Explained
  <2> QED
    BY <1>1, <1>6, <2>1, ExplainedStays
<1> QED
  BY <1>1, <1>4, <1>6, NumberParts, LossFrame

LEMMA LossNext ==
  ASSUME TypeInv, StreamInv, LineInv, SeenInv, LossInv, [Next]_vars
  PROVE  LossInv'
<1>1. CASE Poll
  BY <1>1, ReceiveKeepsLoss DEF Poll
<1>2. CASE Handle
  BY <1>2, DropKeepsLoss, TrackKeepsLoss, FailKeepsLoss, EnqueueKeepsLoss, CheckpointKeepsLoss
     DEF Handle
<1>3. CASE WorkerAccept \/ SendToMonitoring \/ Monitor \/ UNCHANGED vars
  <2>1. /\ UNCHANGED <<log, next_seq, restarted, expected, explained, holds, queue, wbuf, processed,
                       spc, sbuf, dropped>>
        /\ wpc' # "poll" <=> wpc # "poll"
    BY <1>3 DEF WorkerAccept, SendToMonitoring, Monitor, vars, stream, sub, worker, tracking
  <2>2. UNCHANGED <<Queued, WorkerOwes, SubscriberOwes>> /\ \A b : SeqIn(b)' = SeqIn(b)
    BY <2>1 DEF Queued, WorkerOwes, SubscriberOwes, SeqIn
  <2>3. Tracked' = Tracked /\ Owed' = Owed
    BY <2>1, <2>2 DEF Tracked, Owed
  <2>4. \A n : Explained(n) => Explained(n)'
    BY <2>1, <2>2, <2>3 DEF Explained
  <2> QED
    BY <2>1, <2>3, <2>4, NumberParts, LossFrame
<1> QED
  BY <1>1, <1>2, <1>3, DequeueKeepsLoss, WorkerDropKeepsLoss, ProcessKeepsLoss, ReleaseKeepsLoss
     DEF Next, Work

-----------------------------------------------------------------------------
\* The invariant, and what it says of the receive path.

LEMMA PipelineInit == Init => PipelineInv
  BY BaseInit, LineInit, CountInit, SeenInit, LossInit, Bounds
     DEF PipelineInv, CheckpointInv, CheckpointOfOneMessage, Init

LEMMA PipelineNext == PipelineInv /\ [Next]_vars => PipelineInv'
<1> SUFFICES ASSUME TypeInv, StreamInv, LineInv, CountInv, CheckpointInv, SeenInv, LossInv, [Next]_vars
             PROVE  PipelineInv'
  BY DEF PipelineInv
<1>1. TypeInv' /\ StreamInv'
  BY BaseNext
<1>2. LineInv'
  BY LineNext
<1>3. CountInv'
  BY <1>2, NextMoves, ConservationNext, AccountsNext DEF CountInv
<1>4. CheckpointInv' /\ SeenInv' /\ LossInv'
  BY CheckpointNext, SeenNext, LossNext
<1> QED
  BY <1>1, <1>2, <1>3, <1>4 DEF PipelineInv

LEMMA PipelineInvariant == Spec => []PipelineInv
  BY PipelineInit, PipelineNext, PTL DEF Spec

(* Every variable of the fast path, the worker loop and the monitor stays  *)
(* in its type: no number grows past what the publisher can have sent, and *)
(* the queues and the worker's set keep to their limits.                   *)
THEOREM PipelineTypes == Spec => []TypeOK
<1>1. PipelineInv => TypeOK
  BY DEF PipelineInv, TypeInv, TypeOK
<1> QED
  BY <1>1, PipelineInvariant, PTL

(* Each return path of handleMessageFastPath and of the worker loop gives  *)
(* its buffer back once: pool, subscriber, queue and worker share out the  *)
(* buffers at every moment, however the threads interleave.                *)
THEOREM BuffersConserved == Spec => []BufferConservation
<1>1. PipelineInv => BufferConservation
  BY DEF PipelineInv, CountInv
<1> QED
  BY <1>1, PipelineInvariant, PTL

(* The counters of printStatistics() add up to the messages delivered, and *)
(* those of the worker to the messages enqueued.                           *)
THEOREM AllAccounted == Spec => []MessagesAccounted
<1>1. PipelineInv => MessagesAccounted
  BY DEF PipelineInv, CountInv
<1> QED
  BY <1>1, PipelineInvariant, PTL

(* updateSequence() saves the number and the position of one message,      *)
(* although the worker may have returned the buffer the number is read     *)
(* from: only the thread that updates the checkpoint reuses buffers.       *)
THEOREM CheckpointConsistent == Spec => []CheckpointOfOneMessage
<1>1. PipelineInv => CheckpointOfOneMessage
  BY DEF PipelineInv, CheckpointInv
<1> QED
  BY <1>1, PipelineInvariant, PTL

(* checkDuplicate() lets no number through twice before it clears its set, *)
(* for any window of the subscriber and any restarts of the publisher.     *)
THEOREM ProcessedOnce == Spec => []NumbersProcessedOnce
<1>1. PipelineInv => NumbersProcessedOnce
  BY DEF PipelineInv, SeenInv
<1> QED
  BY <1>1, PipelineInvariant, PTL

(* What checkForGaps(), the full queue and the threads leave behind        *)
(* explains every number below the expected one: the publisher's skips and *)
(* the messages lost to an exhausted pool are all found as gaps.           *)
THEOREM LossExplained == Spec => []LossIsExplained
<1>1. PipelineInv => LossIsExplained
  <2> SUFFICES ASSUME PipelineInv, GapRecovery, ~ restarted, processed # <<>>,
                      NEW n \in log[processed[1]] .. expected - 1
               PROVE  Explained(n)
    BY DEF LossIsExplained, Explained, Owed
  <2>1. processed \in Seq(1 .. MaxMessages)
    BY DEF PipelineInv, TypeInv
  <2>2. 1 \in 1 .. Len(processed)
    BY <2>1, TailParts
  <2>3. processed[1] \in Tracked
    BY <2>2 DEF Tracked
  <2> QED
    BY <2>3 DEF PipelineInv, LossInv
<1> QED
  BY <1>1, PipelineInvariant, PTL

-----------------------------------------------------------------------------
\* The order of processing.

Increasing(s) ==
  \A i, j \in 1 .. Len(s) : i < j => 0 < s[i] /\ s[i] < s[j]

LEMMA ConcatParts ==
  ASSUME NEW S, NEW s \in Seq(S), NEW t \in Seq(S)
  PROVE  /\ s \o t \in Seq(S) /\ Len(s \o t) = Len(s) + Len(t)
         /\ Len(s) \in Nat /\ Len(t) \in Nat
         /\ \A i \in 1 .. Len(s) : (s \o t)[i] = s[i]
         /\ \A i \in Len(s) + 1 .. Len(s) + Len(t) : (s \o t)[i] = t[i - Len(s)]
  OBVIOUS

LEMMA SeqOfSubset ==
  ASSUME NEW S, NEW T, S \subseteq T, NEW s \in Seq(S)
  PROVE  s \in Seq(T)
  OBVIOUS

LEMMA IncreasingConcat ==
  ASSUME NEW s \in Seq(Nat), NEW t \in Seq(Nat), Increasing(s), Increasing(t),
         \A i \in 1 .. Len(s) : \A j \in 1 .. Len(t) : 0 < s[i] /\ s[i] < t[j]
  PROVE  Increasing(s \o t)
<1> USE ConcatParts
<1> DEFINE u == s \o t
<1>1. /\ Len(u) = Len(s) + Len(t) /\ Len(s) \in Nat /\ Len(t) \in Nat
      /\ \A i \in 1 .. Len(s) : u[i] = s[i]
      /\ \A i \in Len(s) + 1 .. Len(s) + Len(t) : u[i] = t[i - Len(s)]
  OBVIOUS
<1> HIDE DEF u
<1>2. SUFFICES ASSUME NEW i \in 1 .. Len(u), NEW j \in 1 .. Len(u), i < j
               PROVE  0 < u[i] /\ u[i] < u[j]
  BY DEF Increasing, u
<1>3. CASE j <= Len(s)
  <2>1. i \in 1 .. Len(s) /\ j \in 1 .. Len(s)
    BY <1>1, <1>2, <1>3
  <2> QED
    BY <1>1, <1>2, <2>1 DEF Increasing
<1>4. CASE i <= Len(s) /\ j > Len(s)
  <2>1. i \in 1 .. Len(s) /\ j \in Len(s) + 1 .. Len(s) + Len(t) /\ j - Len(s) \in 1 .. Len(t)
    BY <1>1, <1>2, <1>4
  <2> QED
    BY <1>1, <2>1
<1>5. CASE i > Len(s)
  <2>1. /\ i \in Len(s) + 1 .. Len(s) + Len(t) /\ i - Len(s) \in 1 .. Len(t)
        /\ j \in Len(s) + 1 .. Len(s) + Len(t) /\ j - Len(s) \in 1 .. Len(t)
        /\ i - Len(s) < j - Len(s)
    BY <1>1, <1>2, <1>5
  <2> QED
    BY <1>1, <2>1 DEF Increasing
<1> QED
  BY <1>1, <1>2, <1>3, <1>4, <1>5

LEMMA OrderOfLine == TypeInv /\ StreamInv /\ LineInv => ProcessedInOrder
<1> SUFFICES ASSUME TypeInv, StreamInv, LineInv PROVE ProcessedInOrder
  OBVIOUS
<1> USE LineParts
<1> DEFINE hand == IF wpc \in {"check", "process"} THEN <<holds[wbuf]>> ELSE <<>>
           waiting == [i \in 1 .. Len(queue) |-> holds[queue[i]]]
           past == processed \o hand
<1>1. processed \in Seq(Nat) /\ Len(processed) \in Nat
  <2>1. processed \in Seq(1 .. MaxMessages) /\ 1 .. MaxMessages \subseteq Nat
    BY Bounds DEF TypeInv
  <2> QED
    BY <2>1, SeqOfSubset
<1>2. \A b \in Queued \cup WorkerOwes : holds[b] \in Nat /\ holds[b] > 0
  BY DEF LineInv, OrderInv
<1>3. /\ hand \in Seq(Nat) /\ Len(hand) \in 0 .. 1
      /\ \A i \in 1 .. Len(hand) : i = 1 /\ wpc \in {"check", "process"} /\ hand[i] = holds[wbuf]
  <2>1. CASE wpc \in {"check", "process"}
    <3>1. holds[wbuf] \in Nat
      BY <2>1, <1>2 DEF WorkerOwes
    <3>2. hand = <<holds[wbuf]>>
      BY <2>1
    <3> HIDE DEF hand
    <3> QED
      BY <2>1, <3>1, <3>2
  <2>2. CASE wpc \notin {"check", "process"}
    BY <2>2
  <2> QED
    BY <2>1, <2>2
<1> HIDE DEF hand
<1>4. /\ waiting \in Seq(Nat) /\ Len(waiting) = Len(queue)
      /\ \A i \in 1 .. Len(queue) : waiting[i] = holds[queue[i]] /\ queue[i] \in Queued
  <2>1. \A i \in 1 .. Len(queue) : holds[queue[i]] \in Nat
    BY <1>2
  <2> QED
    BY <2>1
<1> HIDE DEF waiting
<1>5. Increasing(processed)
  BY DEF LineInv, OrderInv, Increasing
<1>6. Increasing(hand)
  BY <1>3 DEF Increasing
<1>7. Increasing(waiting)
  BY <1>2, <1>4 DEF LineInv, OrderInv, Increasing
<1>8. \A i \in 1 .. Len(processed) : \A j \in 1 .. Len(hand) : 0 < processed[i] /\ processed[i] < hand[j]
  BY <1>3 DEF LineInv, OrderInv
<1>9. Increasing(past) /\ past \in Seq(Nat)
  BY <1>1, <1>3, <1>5, <1>6, <1>8, IncreasingConcat, ConcatParts
<1>10. ASSUME NEW i \in 1 .. Len(past), NEW j \in 1 .. Len(waiting)
       PROVE  0 < past[i] /\ past[i] < waiting[j]
  <2>1. queue[j] \in Queued /\ waiting[j] = holds[queue[j]]
    BY <1>4
  <2>2. /\ Len(past) = Len(processed) + Len(hand)
        /\ \A k \in 1 .. Len(processed) : past[k] = processed[k]
        /\ \A k \in Len(processed) + 1 .. Len(processed) + Len(hand) : past[k] = hand[k - Len(processed)]
    BY <1>1, <1>3, ConcatParts
  <2>3. CASE i \in 1 .. Len(processed)
    BY <2>1, <2>2, <2>3 DEF LineInv, OrderInv
  <2>4. CASE i \notin 1 .. Len(processed)
    <3>1. i - Len(processed) \in 1 .. Len(hand) /\ past[i] = hand[i - Len(processed)]
      BY <1>1, <1>3, <2>2, <2>4
    <3>2. wpc \in {"check", "process"} /\ past[i] = holds[wbuf] /\ wbuf \in WorkerOwes
      BY <1>3, <3>1 DEF WorkerOwes
    <3> QED
      BY <1>2, <2>1, <3>2 DEF LineInv, OrderInv
  <2> QED
    BY <2>3, <2>4
<1> HIDE DEF past
<1>11. Increasing(past \o waiting)
  BY <1>4, <1>7, <1>9, <1>10, IncreasingConcat
<1> QED
  BY <1>11 DEF ProcessedInOrder, Increasing, past, hand, waiting

(* The handler sees the messages in the order Aeron delivered them, and no *)
(* buffer is overwritten while its message waits: the fast path fills only *)
(* what it took from the pool, and the queue keeps its order.              *)
THEOREM ProcessingOrder == Spec => []ProcessedInOrder
<1>1. PipelineInv => ProcessedInOrder
  BY OrderOfLine DEF PipelineInv
<1> QED
  BY <1>1, PipelineInvariant, PTL

-----------------------------------------------------------------------------
\* The use of the pool.

LEMMA ReceiveUsesPool ==
  ASSUME TypeInv, NEW s, Receive(s)
  PROVE  \E b \in Buffers : Pool!Allocate(b)
<1>1. PICK b \in free : free' = free \ {b} /\ sbuf' = b
  BY DEF Receive
<1>2. spc = "poll" /\ spc' = "track" /\ UNCHANGED <<queue, wpc, wbuf>>
  BY DEF Receive, worker
<1>3. SubscriberOwes = {} /\ SubscriberOwes' = {b} /\ WorkerOwes' = WorkerOwes
  BY <1>1, <1>2 DEF SubscriberOwes, WorkerOwes
<1>4. Pool!Allocate(b)
  BY <1>1, <1>2, <1>3 DEF Pool!Allocate
<1> QED
  BY <1>4 DEF TypeInv

LEMMA GiveBackUsesPool ==
  ASSUME TypeInv, StreamInv, LineInv, DropDuplicate \/ EnqueueFails
  PROVE  \E b \in Buffers : Pool!Deallocate("subscriber", b)
<1>1. /\ spc \in {"track", "enqueue"} /\ spc' = "poll" /\ free' = free \cup {sbuf}
      /\ UNCHANGED <<queue, wpc, wbuf>>
  BY DEF DropDuplicate, EnqueueFails, worker
<1>2. SubscriberOwes = {sbuf} /\ SubscriberOwes' = {} /\ WorkerOwes' = WorkerOwes
  BY <1>1 DEF SubscriberOwes, WorkerOwes
<1>3. sbuf \notin free /\ sbuf \in Buffers
  BY <1>2 DEF LineInv, Owed
<1>4. PICK b \in Buffers : b = sbuf
  BY <1>3
<1>5. Pool!Deallocate("subscriber", b)
  BY <1>1, <1>2, <1>3, <1>4 DEF Pool!Deallocate
<1> QED
  BY <1>5

LEMMA EnqueueUsesPool ==
  ASSUME TypeInv, StreamInv, LineInv, Enqueue
  PROVE  \E b \in Buffers : Pool!HandOver(b)
<1>1. /\ spc = "enqueue" /\ spc' = "checkpoint" /\ Len(queue) < QueueCapacity
      /\ queue' = Append(queue, sbuf) /\ UNCHANGED <<free, wpc, wbuf>>
  BY DEF Enqueue, worker
<1>2. SubscriberOwes = {sbuf} /\ SubscriberOwes' = {} /\ WorkerOwes' = WorkerOwes
  BY <1>1 DEF SubscriberOwes, WorkerOwes
<1>3. sbuf \in Buffers
  BY <1>2 DEF LineInv, Owed
<1>4. PICK b \in Buffers : b = sbuf
  BY <1>3
<1>5. Pool!HandOver(b)
  BY <1>1, <1>2, <1>4 DEF Pool!HandOver
<1> QED
  BY <1>5

LEMMA DequeueUsesPool ==
  ASSUME Dequeue
  PROVE  Pool!TakeOver
<1>1. /\ wpc = "poll" /\ wpc' = "check" /\ queue # <<>>
      /\ wbuf' = Head(queue) /\ queue' = Tail(queue) /\ UNCHANGED <<free, spc, sbuf>>
  BY DEF Dequeue, sub
<1>2. WorkerOwes = {} /\ WorkerOwes' = {Head(queue)} /\ SubscriberOwes' = SubscriberOwes
  BY <1>1 DEF SubscriberOwes, WorkerOwes
<1> QED
  BY <1>1, <1>2 DEF Pool!TakeOver

LEMMA ReleaseUsesPool ==
  ASSUME TypeInv, StreamInv, LineInv, WorkerDropDuplicate \/ Release
  PROVE  \E b \in Buffers : Pool!Deallocate("worker", b)
<1>1. /\ wpc # "poll" /\ wpc' = "poll" /\ free' = free \cup {wbuf}
      /\ UNCHANGED <<queue, spc, sbuf>>
  BY DEF WorkerDropDuplicate, Release, sub
<1>2. WorkerOwes = {wbuf} /\ WorkerOwes' = {} /\ SubscriberOwes' = SubscriberOwes
  BY <1>1 DEF SubscriberOwes, WorkerOwes
<1>3. wbuf \notin free /\ wbuf \in Buffers
  BY <1>2 DEF LineInv, Owed
<1>4. PICK b \in Buffers : b = wbuf
  BY <1>3
<1>5. Pool!Deallocate("worker", b)
  BY <1>1, <1>2, <1>3, <1>4 DEF Pool!Deallocate
<1> QED
  BY <1>5

\* Every other step moves no buffer.
LEMMA OthersUseNoPool ==
  ASSUME \/ \E s \in NextNumbers : ReceiveWithoutBuffer(s)
         \/ Track \/ UpdateCheckpoint \/ WorkerAccept \/ ProcessMessage \/ SendToMonitoring
         \/ Monitor \/ UNCHANGED vars
  PROVE  UNCHANGED Pool!poolVars
<1> USE DEF stream, counted, tracking, sub, worker
<1>1. /\ UNCHANGED <<free, queue>>
      /\ spc \in {"track", "enqueue"} <=> spc' \in {"track", "enqueue"}
      /\ spc \in {"track", "enqueue"} => sbuf' = sbuf
      /\ wpc = "poll" <=> wpc' = "poll"
      /\ wbuf' = wbuf
  BY DEF ReceiveWithoutBuffer, Track, UpdateCheckpoint, WorkerAccept, ProcessMessage,
         SendToMonitoring, Monitor, vars
<1>2. SubscriberOwes' = SubscriberOwes /\ WorkerOwes' = WorkerOwes
  BY <1>1 DEF SubscriberOwes, WorkerOwes
<1> QED
  BY <1>1, <1>2 DEF Pool!poolVars

LEMMA PoolInit == Init => Pool!Init
<1> SUFFICES ASSUME Init PROVE Pool!Init
  OBVIOUS
<1>1. SubscriberOwes = {} /\ WorkerOwes = {}
  BY DEF Init, SubscriberOwes, WorkerOwes
<1> QED
  BY <1>1 DEF Init, Pool!Init

(* On every path through handleMessageFastPath and the worker loop the two *)
(* threads do with a buffer what FreePool allows, in particular give back  *)
(* only what they hold and nothing that is free.  BufferPool is modelled   *)
(* with such threads, and up to an overlap it implements the same FreePool.*)
THEOREM PoolUsedAsPromised == Spec => UsesPoolAsPromised
<1>1. PipelineInv /\ [Next]_vars => [Pool!Next]_(Pool!poolVars)
  <2> SUFFICES ASSUME TypeInv, StreamInv, LineInv, [Next]_vars
               PROVE  [Pool!Next]_(Pool!poolVars)
    BY DEF PipelineInv
  <2>1. CASE \E s \in NextNumbers : Receive(s)
    BY <2>1, ReceiveUsesPool DEF Pool!Next
  <2>2. CASE DropDuplicate \/ EnqueueFails
    BY <2>2, GiveBackUsesPool DEF Pool!Next
  <2>3. CASE Enqueue
    BY <2>3, EnqueueUsesPool DEF Pool!Next
  <2>4. CASE Dequeue
    BY <2>4, DequeueUsesPool DEF Pool!Next
  <2>5. CASE WorkerDropDuplicate \/ Release
    BY <2>5, ReleaseUsesPool DEF Pool!Next
  <2> QED
    BY <2>1, <2>2, <2>3, <2>4, <2>5, OthersUseNoPool DEF Next, Poll, Handle, Work
<1> QED
  BY <1>1, PoolInit, PipelineInvariant, PTL DEF Spec, Pool!Spec, UsesPoolAsPromised
=============================================================================
