------------------------------ MODULE Pipeline ------------------------------
(***************************************************************************)
(* The receive path of the subscriber process: the subscriber thread that  *)
(* takes fragments from Aeron (AeronSubscriber::handleMessageFastPath), the*)
(* worker thread that processes them (MessageWorker::workerThreadMain) and *)
(* the monitoring thread, with the buffers, the queues and the in-memory   *)
(* checkpoint between them.                                                *)
(*                                                                         *)
(* The pool is taken as it is meant to be (a buffer is handed out once),   *)
(* the queues as the FIFOs that MessageQueue implements.  Aeron delivers   *)
(* the stream in order.  The publisher numbers its messages; it skips a    *)
(* number when an offer fails and starts again from 0 when it restarts.    *)
(***************************************************************************)
EXTENDS Integers, Sequences, FiniteSets

CONSTANTS
  Buffers,          \* the buffers of the pool
  NoBuffer,         \* a thread has none at hand
  QueueCapacity,    \* places in the message queue
  StatsCapacity,    \* places in the statistics queue
  GapRecovery,      \* config_.gap_recovery_enabled
  DuplicateCheck,   \* config_.duplicate_check_enabled
  MaxGapTolerance,  \* config_.max_gap_tolerance
  WindowSize,       \* config_.duplicate_window_size
  MaxSeen,          \* the worker's limit on seen_sequences_ (1000000)
  MaxSkip,          \* bound: numbers the publisher skips at a time
  MaxMessages       \* bound: messages delivered

ASSUME PipelineAssumption ==
  /\ IsFiniteSet(Buffers) /\ NoBuffer \notin Buffers
  /\ {QueueCapacity, StatsCapacity, MaxGapTolerance, WindowSize, MaxSeen,
      MaxSkip, MaxMessages} \subseteq Nat
  /\ {GapRecovery, DuplicateCheck} \subseteq BOOLEAN

VARIABLES
  \* Aeron and the publisher
  log,              \* sequence number of the message at each position delivered
  next_seq,         \* the publisher's counter
  \* shared by the threads
  free,             \* the pool
  holds,            \* the position of the message in each buffer, 0 after reset()
  queue, stats,     \* buffers for the worker, positions for the monitor
  checkpoint,       \* CheckpointData, without the timestamp
  \* subscriber thread
  spc, sbuf, expected, window, window_pos,
  alloc_failures, duplicates, queue_full, received, gaps_detected, gaps_recovered,
  \* worker thread
  wpc, wbuf, seen, processed_count, duplicate_count,
  \* history
  processed,        \* positions of the messages given to the handler, in order
  explained,        \* numbers found missing: in a gap that was counted or logged
  dropped,          \* positions dropped on a full queue
  restarted,        \* the publisher has restarted
  trimmed           \* the worker has cleared seen_sequences_

stream   == <<log, next_seq, restarted>>
counted  == <<alloc_failures, duplicates, queue_full, received, gaps_detected, gaps_recovered>>
tracking == <<expected, window, window_pos, explained>>
sub      == <<spc, sbuf, counted, tracking, dropped>>
worker   == <<wpc, wbuf, seen, processed_count, duplicate_count, processed, trimmed>>
vars     == <<stream, free, holds, queue, stats, checkpoint, sub, worker>>

\* header.sequence_number as found in the memory of a buffer.
SeqIn(b) == IF holds[b] = 0 THEN 0 ELSE log[holds[b]]

Init ==
  /\ log = <<>> /\ next_seq = 0 /\ restarted = FALSE
  /\ free = Buffers
  /\ holds = [b \in Buffers |-> 0]
  /\ queue = <<>> /\ stats = <<>>
  /\ checkpoint = [seq |-> 0, position |-> 0, count |-> 0]
  /\ spc = "poll" /\ sbuf = NoBuffer
  /\ expected = 0
  /\ window = [i \in 0 .. WindowSize - 1 |-> -1]
  /\ window_pos = 0
  /\ alloc_failures = 0 /\ duplicates = 0 /\ queue_full = 0
  /\ received = 0 /\ gaps_detected = 0 /\ gaps_recovered = 0
  /\ wpc = "poll" /\ wbuf = NoBuffer
  /\ seen = {}
  /\ processed_count = 0 /\ duplicate_count = 0
  /\ processed = <<>>
  /\ explained = {} /\ dropped = {}
  /\ trimmed = FALSE

-----------------------------------------------------------------------------
\* The subscriber thread: one fragment at a time.

\* Aeron delivers the next fragment.
Deliver(s) ==
  /\ Len(log) < MaxMessages
  /\ log' = Append(log, s)
  /\ next_seq' = s + 1
  /\ restarted' = (restarted \/ s < next_seq)

\* Pool exhausted: the message is counted and dropped before it is tracked.
ReceiveWithoutBuffer(s) ==
  /\ spc = "poll"
  /\ free = {}
  /\ Deliver(s)
  /\ alloc_failures' = alloc_failures + 1
  /\ UNCHANGED <<free, holds, queue, stats, checkpoint, spc, sbuf, duplicates, queue_full,
                 received, gaps_detected, gaps_recovered, tracking, dropped, worker>>

\* allocate(), reset() and copyFromAeron().
Receive(s) ==
  /\ spc = "poll"
  /\ Deliver(s)
  /\ \E b \in free :
       /\ free' = free \ {b}
       /\ sbuf' = b
       /\ holds' = [holds EXCEPT ![b] = Len(log) + 1]
  /\ spc' = "track"
  /\ UNCHANGED <<queue, stats, checkpoint, counted, tracking, dropped, worker>>

message_number == SeqIn(sbuf)

\* Mutant: a single missing number is overlooked.
MissingPastFirst ==
  IF GapRecovery /\ expected # 0 THEN expected + 1 .. message_number - 1 ELSE {}

\* checkForGaps(): the numbers skipped since the expected one; 0 means none is
\* expected yet.
Missing ==
  IF GapRecovery /\ expected # 0 THEN expected .. message_number - 1 ELSE {}

IsGap == Missing # {} /\ Cardinality(Missing) <= MaxGapTolerance

\* findLatestRecording(): the archive may or may not know a recording.
FindLatestRecording == BOOLEAN

\* triggerImmediateGapRecovery() asks the archive for a recording and, when there
\* is one, adds the size of the gap to a counter.  Nothing is replayed.
CheckForGaps ==
  /\ explained' = explained \cup Missing
  /\ gaps_detected' = gaps_detected + (IF IsGap THEN 1 ELSE 0)
  /\ \E recording_found \in FindLatestRecording :
       gaps_recovered' =
         gaps_recovered + (IF IsGap /\ recording_found THEN Cardinality(Missing) ELSE 0)

IsDuplicate == DuplicateCheck /\ \E i \in DOMAIN window : window[i] = message_number

Remembers == DuplicateCheck /\ WindowSize > 0

\* Mutant: the buffer of a duplicate is not returned.
LeakDuplicate ==
  /\ spc = "track"
  /\ IsDuplicate
  /\ CheckForGaps
  /\ duplicates' = duplicates + 1
  /\ sbuf' = NoBuffer
  /\ spc' = "poll"
  /\ UNCHANGED <<stream, free, holds, queue, stats, checkpoint, alloc_failures, queue_full,
                 received, expected, window, window_pos, dropped, worker>>

DropDuplicate ==
  /\ spc = "track"
  /\ IsDuplicate
  /\ CheckForGaps
  /\ duplicates' = duplicates + 1
  /\ free' = free \cup {sbuf}
  /\ sbuf' = NoBuffer
  /\ spc' = "poll"
  /\ UNCHANGED <<stream, holds, queue, stats, checkpoint, alloc_failures, queue_full,
                 received, expected, window, window_pos, dropped, worker>>

\* Tracking moves on, also backwards, before the message is known to be queued.
Track ==
  /\ spc = "track"
  /\ ~ IsDuplicate
  /\ CheckForGaps
  /\ expected' = message_number + 1
  /\ window' = IF Remembers THEN [window EXCEPT ![window_pos] = message_number] ELSE window
  /\ window_pos' = IF Remembers THEN (window_pos + 1) % WindowSize ELSE window_pos
  /\ spc' = "enqueue"
  /\ UNCHANGED <<stream, free, holds, queue, stats, checkpoint, sbuf, alloc_failures,
                 duplicates, queue_full, received, dropped, worker>>

\* Mutant: a message dropped on a full queue is not counted.
EnqueueFailsUncounted ==
  /\ spc = "enqueue"
  /\ Len(queue) >= QueueCapacity
  /\ free' = free \cup {sbuf}
  /\ dropped' = dropped \cup {holds[sbuf]}
  /\ sbuf' = NoBuffer
  /\ spc' = "poll"
  /\ UNCHANGED <<stream, holds, queue, stats, checkpoint, counted, tracking, worker>>

EnqueueFails ==
  /\ spc = "enqueue"
  /\ Len(queue) >= QueueCapacity
  /\ free' = free \cup {sbuf}
  /\ queue_full' = queue_full + 1
  /\ dropped' = dropped \cup {holds[sbuf]}
  /\ sbuf' = NoBuffer
  /\ spc' = "poll"
  /\ UNCHANGED <<stream, holds, queue, stats, checkpoint, alloc_failures, duplicates,
                 received, gaps_detected, gaps_recovered, tracking, worker>>

\* Mutant: the buffer is returned as soon as it is enqueued.
EnqueueAndReturn ==
  /\ spc = "enqueue"
  /\ Len(queue) < QueueCapacity
  /\ queue' = Append(queue, sbuf)
  /\ free' = free \cup {sbuf}
  /\ received' = received + 1
  /\ spc' = "checkpoint"
  /\ UNCHANGED <<stream, holds, stats, checkpoint, sbuf, alloc_failures, duplicates,
                 queue_full, gaps_detected, gaps_recovered, tracking, dropped, worker>>

Enqueue ==
  /\ spc = "enqueue"
  /\ Len(queue) < QueueCapacity
  /\ queue' = Append(queue, sbuf)
  /\ received' = received + 1
  /\ spc' = "checkpoint"
  /\ UNCHANGED <<stream, free, holds, stats, checkpoint, sbuf, alloc_failures, duplicates,
                 queue_full, gaps_detected, gaps_recovered, tracking, dropped, worker>>

\* The sequence number is read from the buffer, which the worker may by now have
\* processed and returned; the position is the one Aeron passed in.
UpdateCheckpoint ==
  /\ spc = "checkpoint"
  /\ checkpoint' = [seq |-> SeqIn(sbuf), position |-> Len(log), count |-> received]
  /\ sbuf' = NoBuffer
  /\ spc' = "poll"
  /\ UNCHANGED <<stream, free, holds, queue, stats, counted, tracking, dropped, worker>>

-----------------------------------------------------------------------------
\* The worker thread.  validateMessage() accepts every message.

Dequeue ==
  /\ wpc = "poll"
  /\ queue # <<>>
  /\ wbuf' = Head(queue)
  /\ queue' = Tail(queue)
  /\ wpc' = "check"
  /\ UNCHANGED <<stream, free, holds, stats, checkpoint, sub, seen, processed_count,
                 duplicate_count, processed, trimmed>>

\* Mutant: the worker does not return the buffer of a duplicate.
WorkerLeaksDuplicate ==
  /\ wpc = "check"
  /\ SeqIn(wbuf) \in seen
  /\ duplicate_count' = duplicate_count + 1
  /\ wbuf' = NoBuffer
  /\ wpc' = "poll"
  /\ UNCHANGED <<stream, free, holds, queue, stats, checkpoint, sub, seen, processed_count,
                 processed, trimmed>>

WorkerDropDuplicate ==
  /\ wpc = "check"
  /\ SeqIn(wbuf) \in seen
  /\ duplicate_count' = duplicate_count + 1
  /\ free' = free \cup {wbuf}
  /\ wbuf' = NoBuffer
  /\ wpc' = "poll"
  /\ UNCHANGED <<stream, holds, queue, stats, checkpoint, sub, seen, processed_count,
                 processed, trimmed>>

\* Mutant: the number is not remembered.
AcceptAndForget ==
  /\ wpc = "check"
  /\ SeqIn(wbuf) \notin seen
  /\ wpc' = "process"
  /\ UNCHANGED <<stream, free, holds, queue, stats, checkpoint, sub, wbuf, seen,
                 processed_count, duplicate_count, processed, trimmed>>

\* Mutant: seen_sequences_ grows without limit.
AcceptWithoutLimit ==
  /\ wpc = "check"
  /\ SeqIn(wbuf) \notin seen
  /\ seen' = seen \cup {SeqIn(wbuf)}
  /\ wpc' = "process"
  /\ UNCHANGED <<stream, free, holds, queue, stats, checkpoint, sub, wbuf, processed_count,
                 duplicate_count, processed, trimmed>>

\* checkDuplicate() remembers the number, and forgets all of them at the limit.
WorkerAccept ==
  /\ wpc = "check"
  /\ SeqIn(wbuf) \notin seen
  /\ LET grown == seen \cup {SeqIn(wbuf)}
         full  == Cardinality(grown) > MaxSeen
     IN  /\ seen' = IF full THEN {} ELSE grown
         /\ trimmed' = (trimmed \/ full)
  /\ wpc' = "process"
  /\ UNCHANGED <<stream, free, holds, queue, stats, checkpoint, sub, wbuf, processed_count,
                 duplicate_count, processed>>

ProcessMessage ==
  /\ wpc = "process"
  /\ processed' = Append(processed, holds[wbuf])
  /\ wpc' = "monitor"
  /\ UNCHANGED <<stream, free, holds, queue, stats, checkpoint, sub, wbuf, seen,
                 processed_count, duplicate_count, trimmed>>

\* sendToMonitoring() drops the statistics when their queue is full.
SendToMonitoring ==
  /\ wpc = "monitor"
  /\ stats' = IF Len(stats) < StatsCapacity THEN Append(stats, holds[wbuf]) ELSE stats
  /\ wpc' = "release"
  /\ UNCHANGED <<stream, free, holds, queue, checkpoint, sub, wbuf, seen, processed_count,
                 duplicate_count, processed, trimmed>>

\* Mutant: the buffer is reset before it is returned.
ResetAndRelease ==
  /\ wpc = "release"
  /\ holds' = [holds EXCEPT ![wbuf] = 0]
  /\ free' = free \cup {wbuf}
  /\ wbuf' = NoBuffer
  /\ processed_count' = processed_count + 1
  /\ wpc' = "poll"
  /\ UNCHANGED <<stream, queue, stats, checkpoint, sub, seen, duplicate_count, processed,
                 trimmed>>

Release ==
  /\ wpc = "release"
  /\ free' = free \cup {wbuf}
  /\ wbuf' = NoBuffer
  /\ processed_count' = processed_count + 1
  /\ wpc' = "poll"
  /\ UNCHANGED <<stream, holds, queue, stats, checkpoint, sub, seen, duplicate_count,
                 processed, trimmed>>

-----------------------------------------------------------------------------
\* The monitoring thread.
Monitor ==
  /\ stats # <<>>
  /\ stats' = Tail(stats)
  /\ UNCHANGED <<stream, free, holds, queue, checkpoint, sub, worker>>

-----------------------------------------------------------------------------
\* The numbers the next message may carry.
NextNumbers == (next_seq .. next_seq + MaxSkip) \cup (0 .. MaxSkip)

Poll == \E s \in NextNumbers : Receive(s) \/ ReceiveWithoutBuffer(s)

Handle ==
  \/ DropDuplicate \/ Track
  \/ EnqueueFails \/ Enqueue \/ UpdateCheckpoint

Work ==
  \/ Dequeue \/ WorkerDropDuplicate \/ WorkerAccept
  \/ ProcessMessage \/ SendToMonitoring \/ Release

Next == Poll \/ Handle \/ Work \/ Monitor

Spec == Init /\ [][Next]_vars

\* A message may or may not arrive, but the subscriber finishes the one it has
\* and the worker polls its queue for ever.  Nothing is assumed of the monitor.
FairSpec == Spec /\ WF_vars(Handle) /\ WF_vars(Work)

-----------------------------------------------------------------------------
Numbers == 0 .. (MaxMessages + 1) * (MaxSkip + 1)

TypeOK ==
  /\ log \in Seq(Numbers) /\ next_seq \in Nat
  /\ free \subseteq Buffers
  /\ holds \in [Buffers -> 0 .. MaxMessages]
  /\ queue \in Seq(Buffers) /\ Len(queue) <= QueueCapacity
  /\ stats \in Seq(1 .. MaxMessages) /\ Len(stats) <= StatsCapacity
  /\ checkpoint \in [seq : Numbers, position : 0 .. MaxMessages, count : 0 .. MaxMessages]
  /\ spc \in {"poll", "track", "enqueue", "checkpoint"}
  /\ sbuf \in Buffers \cup {NoBuffer}
  /\ expected \in Nat
  /\ window \in [0 .. WindowSize - 1 -> Numbers \cup {-1}]
  /\ window_pos \in 0 .. WindowSize
  /\ {alloc_failures, duplicates, queue_full, received, gaps_detected, gaps_recovered,
      processed_count, duplicate_count} \subseteq Nat
  /\ wpc \in {"poll", "check", "process", "monitor", "release"}
  /\ wbuf \in Buffers \cup {NoBuffer}
  /\ seen \subseteq Numbers /\ Cardinality(seen) <= MaxSeen
  /\ processed \in Seq(1 .. MaxMessages)
  /\ explained \subseteq Numbers
  /\ dropped \subseteq 1 .. MaxMessages
  /\ {restarted, trimmed} \subseteq BOOLEAN

Queued == {queue[i] : i \in 1 .. Len(queue)}

\* The buffers the threads still have to hand on or give back.
SubscriberOwes == IF spc \in {"track", "enqueue"} THEN {sbuf} ELSE {}
WorkerOwes == IF wpc # "poll" THEN {wbuf} ELSE {}

(* Every buffer is in exactly one of the pool, the subscriber's hands, the *)
(* queue and the worker's hands: each return path of the fast path and of  *)
(* the worker loop gives its buffer back once, and none twice.             *)
BufferConservation ==
  /\ free \cup SubscriberOwes \cup Queued \cup WorkerOwes = Buffers
  /\ Cardinality(free) + Cardinality(SubscriberOwes) + Len(queue)
       + Cardinality(WorkerOwes) = Cardinality(Buffers)

(* The counters of the final statistics account for every message Aeron    *)
(* delivered, and the worker's for every message the subscriber enqueued.  *)
MessagesAccounted ==
  /\ Len(log) = alloc_failures + duplicates + queue_full + received
                  + Cardinality(SubscriberOwes)
  /\ received = processed_count + duplicate_count + Len(queue) + Cardinality(WorkerOwes)

(* The handler sees the messages in the order of the stream, none twice,   *)
(* although buffers are recycled while messages wait: the buffer of a      *)
(* waiting message is never overwritten.                                   *)
ProcessedInOrder ==
  LET waiting == [i \in 1 .. Len(queue) |-> holds[queue[i]]]
      line    == processed \o (IF wpc \in {"check", "process"} THEN <<holds[wbuf]>> ELSE <<>>)
                           \o waiting
  IN  \A i, j \in 1 .. Len(line) : i < j => 0 < line[i] /\ line[i] < line[j]

(* The sequence number and the position of a checkpoint belong to the same *)
(* message, although the number is read from the buffer after the worker   *)
(* may have returned it (AeronSubscriber.cpp:433).                         *)
CheckpointOfOneMessage ==
  checkpoint.position > 0 => checkpoint.seq = log[checkpoint.position]

(* Until the worker forgets what it has seen, no number is processed twice,*)
(* also when the publisher has restarted and the subscriber's window no    *)
(* longer covers the number.                                               *)
NumbersProcessedOnce ==
  ~ trimmed =>
    \A i, j \in 1 .. Len(processed) : log[processed[i]] = log[processed[j]] => i = j

(* No silent loss: as long as the publisher does not restart, every number *)
(* below the expected one, from the first message tracked on, was enqueued,*)
(* or found missing, or dropped on a full queue and counted.  In particular*)
(* a message lost to an exhausted pool shows up as a gap later.            *)
LossIsExplained ==
  GapRecovery /\ ~ restarted /\ processed # <<>> =>
    \A n \in log[processed[1]] .. expected - 1 :
      \/ n \in explained
      \/ \E p \in dropped : log[p] = n
      \/ \E i \in 1 .. Len(processed) : log[processed[i]] = n
      \/ \E b \in SubscriberOwes \cup Queued \cup WorkerOwes : SeqIn(b) = n

Pool == INSTANCE FreePool WITH
  held    <- [t \in {"subscriber", "worker"} |->
                IF t = "subscriber" THEN SubscriberOwes ELSE WorkerOwes],
  refused <- FALSE

(* Both threads use the pool and the queue in the way BufferPool takes for *)
(* granted: the subscriber allocates with empty hands and then hands over  *)
(* or gives back, the worker takes over with empty hands and gives back    *)
(* once, on every path of the fast path and of the worker loop.            *)
UsesPoolAsPromised == Pool!Spec

(* Every buffer that leaves the pool comes back, whatever the monitor does.*)
BuffersComeBack == \A b \in Buffers : (b \notin free) ~> (b \in free)
=============================================================================
