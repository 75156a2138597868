# Specifications of aeron-archive-replay

The repository contains a publisher and a subscriber that talk over Aeron, with
an Aeron Archive recording the stream. The publisher numbers its messages and
can have them recorded; the subscriber receives them on one thread, processes
them on another, and keeps a checkpoint from which it resumes after a restart.

This directory holds TLA+ models of both processes, the TLC configurations that
check them on small instances, and proofs, checked by TLAPS, of what holds for
every size. Paths below are relative to `src/`.

## 1. The system

### Components

| Component | State it keeps | Operations | Talks to |
|---|---|---|---|
| Message queue, statistics queue (`subscriber/include/MessageQueue.h`, `SPSCQueue.h`) | ring of slots, `head_`, `tail_`, three counters | `enqueue` (one thread), `dequeue` (another) | shared memory of subscriber and worker; of worker and monitor |
| Buffer pool (`BufferPool.h`) | `free_list_`, `free_count_`, a flag per buffer | `allocate` (subscriber), `deallocate` (both) | shared memory of subscriber and worker |
| Receive path (`AeronSubscriber.cpp`) | expected number, window of recent numbers, counters | `handleMessageFastPath` per fragment | Aeron (callback of `poll`), pool, queue, checkpoint, archive |
| Message worker (`MessageWorker.cpp`) | set of numbers seen, counters | `start`, `stop`, worker loop | queue, pool, statistics queue, message handler |
| Monitoring thread (lambda in `subscriber/src/main.cpp`) | latency statistics | drains the statistics queue | statistics queue |
| Checkpoint manager (`CheckpointManager.cpp`) | four atomics, two files | `update`, `flush`, flush thread, `load`, destructor | receive path, file system |
| Subscriber process (`main.cpp`, rest of `AeronSubscriber.cpp`) | flags, handles `subscription_` and `replay_merge_`, four threads | start in live or replay mode, `run`, `shutdown` | all of the above, signals |
| Publisher process (`publisher/src/AeronPublisher.cpp`) | next number, counter | publish thread; `start`, `stop`, `quit` | Aeron, recording controller |
| Recording controller (`RecordingController.cpp`) | `recording_id_`, `subscription_id_` | `startRecording`, `stopRecording` | archive (remote calls) |
| Message format (`MessageBuffer.h`) | 64 byte header, payload | `reset`, `copyFromAeron`, CRC32, `validate` (not called) | |
| Restart of the subscriber (`subscriber/src/main.cpp:357-398`, `AeronSubscriber.cpp:145-348`) | position and recording to resume from | `startReplayMergeAuto`, `startLive`, merge, fall back | checkpoint file, archive, Aeron |
| Configuration loader (`common/src/ConfigLoader.cpp`), command lines (both `main.cpp`) | settings, overrides | options, file, environment, validation, overrides | the configurations of both processes |
| Logger | | print | |

Aeron, its archive and `ReplayMerge` are libraries and services outside the
repository; what the code relies on is stated where a model needs it.

### What is hard about it, and what makes it correct

* **Queues.** Two threads share a ring without locks. Correct: no data race on
  a slot, nothing lost, duplicated, reordered or read too early, and an enqueue
  is refused only when the ring is full.
* **Pool.** A compare-and-swap on a counter followed by a plain access to the
  free list. Correct: the counts add up, and a buffer has one owner.
* **Receive path and worker.** Every message ends in one of several ways, each
  of which must return its buffer once and count once; numbers have gaps (failed
  offers, exhausted pool) and repeat (restart of the publisher). Correct: order,
  no duplicate, no silent loss, a checkpoint that belongs to one message.
* **Checkpoint.** A thread that updates fields without locks, a thread that
  writes files, failing file operations, crashes, and a shutdown. Correct: the
  file is whole, does not go back, and is current after a clean shutdown.
* **Process.** Four threads stopped one after the other, while handles are reset
  under one of them. Correct: the shutdown ends, in the order of the data.
* **Recording.** Remote calls that throw after they were carried out, recordings
  that begin late and outlive the publisher. Correct: what `start` and `stop`
  report about the recording is true.
* **Restart.** A position is saved without its session, the latest recording is
  taken, queues are abandoned, publishers start over. Correct: what a restart
  loses or repeats has a cause that can be named, and nothing else is.
* **Settings.** Four sources, a validation between them, sentinels for "not
  given". Correct: each setting comes from the right source, and what is invalid
  is refused or comes from the command line.

`PROJECT.json` lists each hazard at its line of code with the properties that
cover it.

## 2. The modules

| Module | Models | Uses |
|---|---|---|
| `BoundedFifo` | what a queue promises (abstract) | |
| `MessageQueue` | both queues, access by access | `BoundedFifo` by refinement |
| `FreePool` | what the pool and the queue behind it promise (abstract) | |
| `BufferPool` | the pool between its two threads, access by access | the queue as a FIFO; `FreePool` by refinement, up to an overlap |
| `Pipeline` | receive path, worker and monitor, composed | the queues as FIFOs, the pool as it is meant to be; `FreePool` by refinement |
| `CheckpointManager` | update, flush, files, crashes, restarts | |
| `Publisher` | publisher process, recording controller, external archive | |
| `Lifecycle` | the threads and handles of the subscriber process | the pipeline reduced to a queue of positions |
| `Recovery` | publisher sessions, recordings, checkpoint file and subscriber processes, composed | one process reduced to its queue, window, set of numbers and checkpoint |
| `Config` | settings of both programs: options, file, environment, validation, overrides | |
| `MCMessageQueue`, `MCPipeline`, `MCConfig` | finite sets for TLC | |
| `MessageQueue_proofs`, `BufferPool_proofs`, `Pipeline_proofs`, `CheckpointManager_proofs`, `Publisher_proofs`, `Lifecycle_proofs`, `Recovery_proofs`, `Config_proofs` | theorems and proofs | each the module it names |

The levels fit together: `MessageQueue` is proved to implement `BoundedFifo`,
which is what `BufferPool`, `Pipeline` and `Lifecycle` assume of a queue.
`Pipeline` takes the pool as a set of free buffers and is proved to use it as
`FreePool` allows; `BufferPool` is proved to implement `FreePool` for threads that use
it so, up to the moment when a pop and a push meet on a slot, which is exactly when it
fails (section 3). `Recovery` composes what the others show of one
process or one session: messages that wait for the worker and end in the handler
(`Pipeline`), a file that holds some earlier checkpoint and after a clean stop the
last one (`CheckpointManager`), a queue abandoned at the end (`Lifecycle`), recordings
that begin and end with the commands and the session (`Publisher`).

### How state and actions correspond to the code

Names of variables and actions are those of the code where TLA+ allows. A `pc`
variable per thread (`ppc`, `cpc`, `spc`, `wpc`, `fpc`, `mpc`, ...) stands for the
place in the function.

**MessageQueue.** One action per load or store that the other thread can see:
`EnqueueBegin`, `EnqueueFull`/`EnqueueRoom`, `StoreSlot`, `PublishTail`,
`CountEnqueued`, and the same for `dequeue`. `Instrumented` chooses between
`MessageQueue` (clears slots, counts) and `SPSCQueue` (does neither). The
acquire/release pairs of the code order the slot access before the index store,
so interleavings of these steps are its behaviours.

**BufferPool.** `AllocLoad`, `AllocCas`, `PopFreeList`, `MarkInUse` are
`allocate()`; `MarkUnused`, `DeallocLoad`, `DeallocCas`, `PushFreeList` are
`deallocate()`; `CasRetry` is a failed compare-and-swap in either. `HandOver` and
`TakeOver` are the enqueue and dequeue around them. `overlapped` is a history
variable: a pop and a push have been on their way to the same slot.

**Pipeline.** `Receive` is `allocate`, `reset` and `copyFromAeron`; `Track` or
`DropDuplicate` is the gap check, the duplicate check and the tracking update;
`Enqueue`/`EnqueueFails` the enqueue; `UpdateCheckpoint` the last step, which reads
the buffer again. The worker's steps are those numbered 2 to 8 in its loop.
`holds[b]` is the position of the message in the memory of buffer `b`, also
after `b` was returned, so that a late read shows what the code would read.

**CheckpointManager.** `StoreField` is one store of `update()`, `LoadField` one load
of `flush()`, in program order. `OpenTemp` truncates, `WriteTemp` completes, `Rename`
replaces. `Stop`, `Join` and the phase `final` are the destructor. The stream is
idealised: the n-th message has number n - 1 and ends at position n.

**Publisher.** The command thread makes one archive call per step; `cpc` names the
call that comes next. The archive is a sequence of recordings and at most one
recording subscription; `BeginRecording` and `SessionGone` happen when the archive
gets round to them. A session id kept as a subscription id is a negative number,
so that it equals no subscription id.

**Lifecycle.** One action per step of the main thread that another thread can
notice. `UseAfterResetDies` and `UseAfterResetGoesOn` are the two outcomes of polling a
handle that `shutdown()` has just reset (`AeronSubscriber.cpp:676`), which is
undefined behaviour in the code.

**Recovery.** A message is its session and its position in it; its sequence number
is the position less one. `StartReplay` and `StartLive` are `main.cpp:357-398` with
`startReplayMergeAuto()` and `startLive()`; `ReplayBegins`, `MergeFails` and `Merge` are
the outcomes of `ReplayMerge` that `run()` tells apart; `Deliver` is the fast path,
`Process` the worker loop, `Flush` the flush thread. `Stop` and `Crash` differ in whether
the checkpoint reaches the file. `processed`, `repeated`, `missed`, `abandoned` and
`repeatable` are history variables, and so is the session in `saved`: the file has
none.

**Config.** One step per option and per line; the other steps are the phases of
`main()` and `loadFromFile()`. Input is chosen when it is read and kept in `argv`, `lines`
and `environment`, from which `EffectiveSettings` computes anew, from positions in the
input, what each setting has to be. A text is valid or not, a number or not; nothing
else of it matters, except that it may be empty (`NoText`), which is how the code marks
what was not given. A text such as `8x`, of which `stoi` reads the 8, counts as the
number 8.

Definitions introduced as "Mutant" are wrong variants of the definition that
follows them. Substituting one for the other makes the property that
`PROJECT.json` pairs with it fail: it shows that the property depends on that
piece of the code. No specification uses them.

## 3. What TLC checks

| Configuration | Outcome | Bounds | States |
|---|---|---|---|
| `MessageQueue.cfg` | holds | ring of 4, 2 items, counters mod 8 | 157 000 |
| `BufferPool.cfg` | holds | 3 buffers, queue of 3 | 175 000 |
| `BufferPoolOwnership.cfg` | **violated** | 2 buffers | |
| `Pipeline.cfg` | holds | 2 buffers, queue 1, statistics 1, window 2, set of 3 numbers, 4 messages | 208 000 |
| `CheckpointManager.cfg` | holds | 2 messages, 1 failure, 1 crash | 510 000 |
| `CheckpointTorn.cfg` | **violated** | 2 messages | |
| `Publisher.cfg` | holds | 2 processes, 3 subscriptions, 4 recordings of which 3 are listed, 2 messages, 1 throwing call | 345 000 |
| `PublisherStop.cfg` | **violated** | no failures | |
| `Lifecycle.cfg` | holds | queue of 2, 4 messages | 1 800 |
| `LifecycleLoss.cfg` | **violated** | queue of 2, 2 messages | |
| `Recovery.cfg` | holds | 2 sessions of 2 messages, 2 recordings, 2 subscriber processes, 1 buffer, window 1, requested positions 0 and 1 | 1 080 000 |
| `Config.cfg` | holds | both programs, 3 options, 3 lines, 3 environments | 3 290 000 |

Why the bounds are enough for the cases that matter: the ring of 4 wraps and is
full and empty in every phase of both threads, and the counters wrap; three
buffers let the pool run out, fill up and cross; two buffers and a queue of one
place make the pool run out and the queue refuse, four messages restart the
publisher, exceed the window and trim the worker's set; two messages, one failure
and one crash place every file operation before, inside and after an update and a
restart; two sessions and two processes are what it takes for a position to be
applied to the recording of another session and for numbers to come again, with a
recording that covers the session only in part, and one buffer makes messages wait,
drop and be abandoned; three options let one replace another and a file
be named beside it, three lines are two headers around an entry, or an entry that is
replaced; fewer listed recordings than recordings make the new one invisible.

### What holds

* `RingInv`, `NoSlotRace`, `CountersAccountForSlots`: the ring is free of races, a slot
  not in use is cleared (`UnusedSlotsAreNull`, a conjunct of `RingInv`), and the
  statistics are exact up to the operations under way.
  `ImplementsFifo`: it is a bounded FIFO; it may refuse an item while one place is
  being given back, and never earlier. `DeliveredEventually`: a polling consumer
  gets everything.
* `PoolInv`: the counts survive all interleavings of the two compare-and-swap loops,
  and the overflow branch is unreachable (its conjunct `NoOverflow`).
  `PartitionUntilOverlap`: the pool is correct up to the moment when a pop and a push
  overlap on a slot, so that overlap is its only fault. `AtomicUntilOverlap`: up to that moment it implements `FreePool`: each
  compare-and-swap is the whole operation, and a `nullptr` means that the pool was empty
  in the call. `QueueHasRoom`: 1024 buffers never fill 4095 places; the queue-full branch
  of the fast path cannot be reached in `main.cpp`.
* `BufferConservation`, `BuffersComeBack`, `MessagesAccounted`: every path returns its
  buffer and counts its message once. `ProcessedInOrder`, `NumbersProcessedOnce`: in
  order, once, until the worker clears its set, and also when the publisher
  restarts (the price is that the new messages with old numbers are dropped as
  duplicates). `UsesPoolAsPromised`: no thread gives back what it does not hold or what
  is free. `CheckpointOfOneMessage`: the late read at `AeronSubscriber.cpp:433` is
  harmless, because only the same thread could reuse the buffer.
  `LossIsExplained`: without a restart, every lost number is in a gap that was
  counted or logged, or was dropped on a full queue and counted.
* `FileOnlyAdvances`, `PositionTrailsByAtMostOne`, `ShutdownSavesLast`,
  `FlushedEventually`: the file is whole and monotone; although a snapshot can be
  torn, its position is at most one message behind its number; a clean shutdown
  saves the last update.
* `FoundIsOurs`, `StoppedMeansStopped`, `PromisedIsRecorded`: the recording that a
  successful start found is the one it asked for, "Recording stopped successfully"
  is true, and what is published in between is recorded. They say nothing of
  recordings that were adopted, nor of a start that reported failure.
* `HandlesOutliveRunning`: handles are only reset after the subscriber thread was told
  to stop. `ProducersStopFirst`, `AllJoinedAtExit`, `ShutdownCompletes`: threads end in the
  order of the data, all are joined, also when initialization fails, and a signal
  at any time ends the process.
* `RestartLossIsExplained`: whatever lies behind the reading position was processed,
  waits for the worker, or was lost because no buffer was free, its number was known
  from another session, the process began behind it (live, at a requested position
  or at a position saved in another session), or it was still queued when a process
  ended whose file was already past it. `RepeatIsExplained`: the handler sees a
  message again only if the file was not past it, or a later process began at a
  position that is not of its session; after a clean stop and in one session, never.
  `ReceivableReachHandler`: while the process is up, what the archive or the live
  stream has for it arrives, also across the merge and the end of the recording.
* `EffectiveSettings`: command line, then environment, then file, then default, and the
  environment only counts when a file is named. `InvalidOnlyFromCommandLine`: a
  component never starts with a setting that `validate()` would refuse unless the
  command line brought it. `FailsExactlyForCause`: loading fails for a missing file, a
  number that cannot be read or an invalid setting, needed or not, and an override
  does not help.

### Where the code and what is said of it differ

| Property | What the run shows |
|---|---|
| `ExclusiveOwnership` | `deallocate()` raises `free_count_`, then stores the pointer (`BufferPool.h:150-156`); an `allocate()` in between pops the old pointer of that slot. `BufferPool.h:39-41` claims thread safety. Two threads are enough. |
| `SnapshotConsistent` | the "consistent snapshot" (`CheckpointManager.cpp:107`) may combine two messages. |
| `StopWouldWork` | an adopted recording's session id is kept as its subscription id (`RecordingController.cpp:57`), so `stop` is refused (`README.md:599`). |
| `SavedIsProcessed` | the checkpoint is taken at the enqueue and the queue is not drained at shutdown; the guide (`CHECKPOINT_TEST_GUIDE.md:34`) calls the saved number the last one processed. |

Without a run of their own:

* `CONFIG_GUIDE.md:190-195` lets the environment win over the command line; in the
  code the command line wins, and without a file the environment is not read at
  all (`EffectiveSettings` states what the code does).
* `gaps_recovered_` counts gaps for which a recording exists (`AeronSubscriber.cpp:638`)
  and is printed as "Gaps recovered", but nothing is replayed. The comment above
  says so; the help text (`subscriber/src/main.cpp:56`) does not.
* `CHECKPOINT_TEST_GUIDE.md:650` proposes `--position 0` to replay everything; a saved
  position replaces it (`subscriber/src/main.cpp:369-371`), so that the file has to be
  removed as well.

### Fairness

* `MessageQueue`: weak fairness of the dequeuing thread, which polls for as long as
  the program runs (`MessageWorker.cpp:91-111`), and of an enqueue that has begun.
* `Pipeline`: weak fairness of the subscriber for a message it has received, and of
  the worker. None for the arrival of messages or for the monitor: a slow monitor
  may lose statistics, never buffers.
* `CheckpointManager`: weak fairness of the flush thread and of the join. Updates,
  stops, failures and crashes are never obliged to happen.
* `Lifecycle`: weak fairness of each thread. Signals and messages are not obliged.
* `Recovery`: weak fairness of delivering a fragment that is there (the subscriber
  thread polls, `AeronSubscriber.cpp:482-553`) and of the worker. None for publishing,
  recording, merging, flushing or starting; the property ends with the process and
  with the merge that fails.

`BufferPool`, `Publisher` and `Config` have safety properties only.

Deadlock is checked for the queue, the pool and the checkpoint. It is not in
`Pipeline` (the stream is bounded, after its end all threads wait), `Publisher` (its
processes are bounded and the last one may have ended), `Lifecycle` (the process
exits), `Recovery` (bounded like `Publisher`) and `Config` (it ends where the component
starts).

### Assumptions

* Memory accesses are interleaved in program order, as x86-64 performs the loads
  and stores of the code. The relaxed accesses of `CheckpointManager` have no such
  guarantee on weaker machines.
* Aeron delivers one stream in order, with the position of each fragment's end.
* The archive has at most one recording subscription per channel and stream and
  refuses another with "recording exists"; `stopTimestamp == 0` marks an active
  recording, as the controller takes it.
* `findLastMatchingRecording` with session -1 finds the latest recording of any
  session, as its comment says; a replay is refused, or fails by the timeout, when
  the position is not within the recording, and merges only with the session it
  recorded. `Recovery` lets the refusal come at any later time. The image of a session
  is read to its end before the next one begins.
* A crash is a crash of the process: files survive as written. The code does not
  call `fsync`, so a crash of the operating system is outside the model.

## 4. What is proved

For every value of the constants; no bound of TLC plays a part.

**`MessageQueue_proofs`** (size any power of two, any items, with or without
counters). `RingInv` is inductive: each thread's copy of its own index is current
(`OwnIndex`), the full and the empty test still hold when they are acted on
(`TestStillHolds`), because the other index only ever moves away, and the published
slots contain items (`PublishedAreItems`). Without `TestStillHolds` the store to a
slot could not be shown to miss the published ones. From it:
`TypeCorrect`, `SlotRaceFree` (`NoSlotRace`), `RingInvariant`, and `RingImplementsFifo`
(`ImplementsFifo`): the items of the FIFO are the slots from the first one not taken
to `tail`; `PublishTail` appends one, `ReadSlot` removes one, `EnqueueFull` and
`DequeueEmpty` are the refusals, every other step is a stutter. The lemmas on
circular distances (`WindowGrows`, `WindowShrinks`, `PositionShift`, ...) carry it.
`UnusedSlotsCleared` states its conjunct `UnusedSlotsAreNull`.
`CountersAddUp` (`CountersAccountForSlots`) is not, since the counters wrap: the
invariant is that `Balance`, the difference between the counters and the ring as it
will be when both threads have counted, is a multiple of the width of the counters.

**`BufferPool_proofs`** (any sizes). `PoolInv` adds to the types that `free_count_`,
the queue and the hands of both threads sum up to `PoolSize`; a thread's stale copy
of `free_count_` is harmless because a compare-and-swap only succeeds on the current
value. From it `NeverOverflows` and `QueueAlwaysHasRoom`. `PartInv` says where
the buffers are, for as long as no pop and push have met: pushes under way belong to
slots below `free_count_`, pops to slots above, no two of them to one slot
(`SlotsApart`); no two places of list, queue and hands hold one buffer
(`PlacesDistinct`); the flags mark what is out (`OutInUse`). The compare-and-swap is
the step that moves a buffer between list and hand; the access to the list that
follows it moves nothing, which holds as long as `SlotsApart` does. With the sum from
`PoolInv` there are `PoolSize` distinct places, hence all buffers:
`BuffersPartitioned` (`PartitionUntilOverlap`). `PoolIsAtomic` (`AtomicUntilOverlap`) is the
refinement of `FreePool` up to an overlap: its free buffers are those listed, what a thread
holds is its hand, its refusal is a loaded zero. The two compare-and-swaps are its
`Allocate` and `Deallocate`; that the allocated buffer leaves the set and the returned one
was not in it is `PlacesDistinct`.

**`Pipeline_proofs`** (any pool, queues, window, set of numbers, any way in which the
publisher skips numbers and starts over). The conservation of buffers is not inductive by
itself: that the worker does not give back what is still queued depends on the queue
not holding a buffer twice. `OrderInv` supplies it: the positions held increase from
what was processed, through the worker and along the queue, to the subscriber, and a
buffer is overwritten only after it was free. From `PipelineInv`: `PipelineTypes`,
`BuffersConserved`, `AllAccounted`, `CheckpointConsistent`; with `SeenInv`, what the
worker knows, `ProcessedOnce`; and `ProcessingOrder`. For `LossExplained`, `LossInv`
makes the claim not only from the first message processed but from every message that
moved the expected number (`Tracked`), since the first one may be preceded by others
that are still queued or were dropped; without a restart the numbers increase, so
that neither duplicate check drops a message.
`PoolUsedAsPromised` (`UsesPoolAsPromised`) is the other half of the argument about the pool:
what `BufferPool` takes for granted of its two threads holds on every path of theirs.

**`CheckpointManager_proofs`** (any number of messages, failures and crashes).
`CheckpointInv` orders what the disk, the snapshot and the memory know:
file <= snapshot <= memory <= stream in positions, and no sequence number is more
than one message ahead of the position that was stored or loaded after it. Both
`update()` and `flush()` go through the fields in the same order, which is why the
argument works. From it `CheckpointInvariant`, `PositionTrails`, `FileAdvances` and
`ShutdownSaves`.

**`Publisher_proofs`** (any number of processes, recordings, messages and failing calls,
any length of the listing). That the recording found is the one asked for needs two
facts about the archive (`ControllerInv`): without a recording subscription it has no
active recording, and while the controller looks for its recording every active one
was begun under the subscription it has just made. From it `PublisherTypes`,
`OwnRecordingFound`, `StoppedIsStopped` and `PromisesKept`. The loop of the controller
takes the last match of a listing; `HasGreatest`, from the well-founded order of
the naturals, says that there is one.

**`Lifecycle_proofs`** (any capacity of the queue, any number of messages). The
properties speak of a few places of the main thread only and are not inductive:
whether a thread has ended when the next one is told to stop depends on the whole way
there. `ControlInv` therefore says for every place which threads run
(`SubscriberPlaces`, `WorkerPlaces`, `MonitorPlaces`), which handles exist
(`HandlePlaces`) and where a failed initialization leads (`FailedPlaces`). From it
`ControlInvariant`, `ProducersFirst`, `JoinedAtExit` and `HandlesOutlive`, and from the
assumption about the bounds `TypeCorrect`.

**`Recovery_proofs`** (any number of sessions, messages, recordings and processes, any
pool, window and set of requested positions). `StreamInv` and `ReaderInv` say that a
recording never gets ahead of its session, that an active one is level with it, and
that nothing is read that was not sent. That the messages behind the *reading*
position are accounted for is not inductive, since a restart goes back to the file and
a flush puts the checkpoint there; `LossInv` claims it for file, checkpoint and reading
position. That repetitions are explained is a claim about what is still to come:
`RepeatInv` says of every message ahead of the reader, waiting in the queue, or, while
no process runs, ahead of the file, that the worker knows its number or its repetition
is explained already; for the live reader it needs that nothing of a later session has
been seen. From them `TypeCorrect`, `LossExplained` and `RepetitionExplained`.

**`Config_proofs`** (any command line, file and environment). `EffectiveSettings` compares
what a component was given with what the inputs say, so that every phase in between
needs its share of the claim. `OptionsInv`: an option holds the last value
given for it. `SectionInv` and `EntryInv`: `current_section` is that of the last header, and
the map holds the last entry of each setting below its section. `LoadingInv` and
`StartingInv`: what the settings are worth before and after the file is applied, the
environment is read, the validation has passed and the command line has overridden
them. The invariant names the last option and the last entry as it goes, so that no
induction over the input is needed. From `ConfigInv`: `ConfigTypes`, `PrecedenceKept`
(`EffectiveSettings`), `ValidatedOrFromCommandLine` (`InvalidOnlyFromCommandLine`) and
`FailsForCause` (`FailsExactlyForCause`).

Assumptions of the constants are those named in the modules (`SizeAssumption`,
`PoolSizeAssumption`, `BoundsAssumption`, ...). Those of `Config` are about the inputs:
`TextAssumption` (numerals denote integers, the empty text is no channel and
`aeron:default` is one), `InputAssumption` (an entry has a key and a value, an environment
a text for each variable the code reads).

Every invariant, action property and refinement that a passing run checks is stated by a
theorem.
Only model-checked are the liveness properties `DeliveredEventually`, `BuffersComeBack`,
`FlushedEventually`, `ShutdownCompletes` and `ReceivableReachHandler`: temporal reasoning
with fairness and `ENABLED` is beyond the prover.
What a recursive definition computes for all inputs, and operators declared
`RECURSIVE`, are out of the prover's reach as well; the models use neither.

## 5. What is not modelled

* Layout and checksum of messages: `validate()` is not called and
  `MessageWorker::validateMessage()` accepts every message.
* `MessageQueue::clear()` and `CheckpointManager::forceFlush()`: nothing calls them.
* The time that calls take, in particular the archive query on the polling thread
  (`AeronSubscriber.cpp:621`), and Aeron's flow control.
* `AeronSettings::print()`, `ConfigLoader::generateTemplate()` (nothing calls it), what
  `getopt_long` makes of abbreviated options, the characters of a line of the file, and
  the width of the numbers read. Settings that are loaded but never handed to a
  component (`replay_stream_id`, the timeouts) end with the validation, which is what
  the code does with them.
* The life of `ReplayMerge` inside Aeron: only the outcomes the code reacts to.
* Logging; `ReplayToLiveHandler` under `deprecated/`, which is not compiled; the
  test publisher, a loop that sends a fixed number of messages. `build/` holds
  generated files.

## 6. Plan

Written in this order, the most important behaviour first: `BoundedFifo` and
`MessageQueue`; `BufferPool`; `Pipeline`; `CheckpointManager`; `Publisher`; `Lifecycle`;
`Recovery`; `Config`; then the proofs. What is left is to tie the levels closer together:

1. The queues of `Pipeline` and `Lifecycle` as refinements of `BoundedFifo`.
2. Further action properties of `Publisher` and `Recovery` with their proofs.
