----------------------------- MODULE Lifecycle -----------------------------
(***************************************************************************)
(* The life of the subscriber process (subscriber main.cpp): the main      *)
(* thread starts the monitoring and the worker thread, connects, starts    *)
(* ReplayMerge or the live subscription and the subscriber thread, waits   *)
(* for a signal and shuts everything down.  The subscriber thread polls    *)
(* the handles replay_merge_ and subscription_ that shutdown() resets.     *)
(*                                                                         *)
(* A message is its position in the stream; what happens between the       *)
(* threads to one message is the subject of Pipeline.                      *)
(***************************************************************************)
EXTENDS Integers, Sequences

CONSTANTS
  QueueCapacity,  \* places in the message queue
  MaxMessages     \* bound: messages delivered

ASSUME LifecycleAssumption == {QueueCapacity, MaxMessages} \subseteq Nat

VARIABLES
  mpc,                  \* what the main thread does next
  failed,               \* initialize() has failed
  g_running,            \* no signal yet
  running, worker_running, monitoring_running,
  replay_merge, subscription,      \* the handles are set
  spc, wpc, tpc,        \* subscriber, worker and monitoring thread
  position,             \* of the last message delivered
  queue,                \* positions waiting for the worker
  item,                 \* the one the worker has dequeued
  processed,            \* the last one processed
  checkpoint, saved     \* the last one enqueued; the same in the file

flags   == <<g_running, running, worker_running, monitoring_running>>
handles == <<replay_merge, subscription>>
threads == <<spc, wpc, tpc>>
data    == <<position, queue, item, processed, checkpoint, saved>>
vars    == <<mpc, failed, flags, handles, threads, data>>

Init ==
  /\ mpc = "create" /\ failed = FALSE
  /\ g_running = TRUE
  /\ running = FALSE /\ worker_running = FALSE /\ monitoring_running = FALSE
  /\ replay_merge = FALSE /\ subscription = FALSE
  /\ spc = "none" /\ wpc = "none" /\ tpc = "none"
  /\ position = 0 /\ queue = <<>> /\ item = 0 /\ processed = 0
  /\ checkpoint = 0 /\ saved = 0

-----------------------------------------------------------------------------
\* The main thread.

Main(from, to) == mpc = from /\ mpc' = to

ProcessDies ==
  /\ mpc' = "aborted"
  /\ spc' = "none" /\ wpc' = "none" /\ tpc' = "none"
  /\ UNCHANGED <<failed, flags, handles, data>>

Signal ==
  /\ g_running
  /\ mpc \notin {"exited", "aborted"}
  /\ g_running' = FALSE
  /\ UNCHANGED <<mpc, failed, running, worker_running, monitoring_running, handles, threads, data>>

StartMonitor ==
  /\ Main("create", "start_worker")
  /\ monitoring_running' = TRUE /\ tpc' = "loop"
  /\ UNCHANGED <<failed, g_running, running, worker_running, handles, spc, wpc, data>>

StartWorker ==
  /\ Main("start_worker", "initialize")
  /\ worker_running' = TRUE /\ wpc' = "loop"
  /\ UNCHANGED <<failed, g_running, running, monitoring_running, handles, spc, tpc, data>>

Initialize ==
  /\ Main("initialize", "connect")
  /\ running' = TRUE
  /\ UNCHANGED <<failed, g_running, worker_running, monitoring_running, handles, threads, data>>

InitializeFails ==
  /\ Main("initialize", "stop_monitor")
  /\ failed' = TRUE
  /\ UNCHANGED <<flags, handles, threads, data>>

StartReplayMerge ==
  /\ Main("connect", "run")
  /\ subscription' = TRUE /\ replay_merge' = TRUE
  /\ UNCHANGED <<failed, flags, threads, data>>

\* In live mode, or when ReplayMerge could not be started.
StartLive ==
  /\ Main("connect", "run")
  /\ subscription' = TRUE
  /\ UNCHANGED <<failed, flags, replay_merge, threads, data>>

\* An exception of addSubscription() is not caught: the process is terminated.
StartLiveThrows ==
  /\ mpc = "connect"
  /\ ProcessDies

Run ==
  /\ Main("run", "wait")
  /\ spc' = "loop"
  /\ UNCHANGED <<failed, flags, handles, wpc, tpc, data>>

EndOfWait ==
  /\ Main("wait", "stop_subscriber")
  /\ ~ g_running
  /\ UNCHANGED <<failed, flags, handles, threads, data>>

\* Mutant: running_ is not cleared.
StopSubscriberForgotten ==
  /\ Main("stop_subscriber", "reset_merge")
  /\ UNCHANGED <<failed, flags, handles, threads, data>>

\* shutdown() clears the flag and resets the handles, then the thread is joined.
StopSubscriber ==
  /\ Main("stop_subscriber", "reset_merge")
  /\ running' = FALSE
  /\ UNCHANGED <<failed, g_running, worker_running, monitoring_running, handles, threads, data>>

ResetMerge ==
  /\ Main("reset_merge", "reset_subscription")
  /\ replay_merge' = FALSE
  /\ UNCHANGED <<failed, flags, subscription, threads, data>>

ResetSubscription ==
  /\ Main("reset_subscription", "join_subscriber")
  /\ subscription' = FALSE
  /\ UNCHANGED <<failed, flags, replay_merge, threads, data>>

\* Mutant: the subscriber thread is not joined.
DetachSubscriber ==
  /\ Main("join_subscriber", "stop_worker")
  /\ UNCHANGED <<failed, flags, handles, threads, data>>

JoinSubscriber ==
  /\ Main("join_subscriber", "stop_worker")
  /\ spc = "ended"
  /\ UNCHANGED <<failed, flags, handles, threads, data>>

StopWorker ==
  /\ Main("stop_worker", "join_worker")
  /\ worker_running' = FALSE
  /\ UNCHANGED <<failed, g_running, running, monitoring_running, handles, threads, data>>

\* After a failed initialize() the monitor is stopped first, otherwise the worker.
JoinWorker ==
  /\ Main("join_worker", IF failed THEN "destroy" ELSE "stop_monitor")
  /\ wpc = "ended"
  /\ UNCHANGED <<failed, flags, handles, threads, data>>

StopMonitor ==
  /\ Main("stop_monitor", "join_monitor")
  /\ monitoring_running' = FALSE
  /\ UNCHANGED <<failed, g_running, running, worker_running, handles, threads, data>>

\* Mutant: the monitoring thread is not joined.
DetachMonitor ==
  /\ Main("join_monitor", IF failed THEN "stop_worker" ELSE "destroy")
  /\ UNCHANGED <<failed, flags, handles, threads, data>>

JoinMonitor ==
  /\ Main("join_monitor", IF failed THEN "stop_worker" ELSE "destroy")
  /\ tpc = "ended"
  /\ UNCHANGED <<failed, flags, handles, threads, data>>

\* The subscriber's checkpoint is flushed a last time, the queue is dropped.
Destroy ==
  /\ Main("destroy", "exited")
  /\ saved' = checkpoint
  /\ UNCHANGED <<failed, flags, handles, threads, position, queue, item, processed, checkpoint>>

-----------------------------------------------------------------------------
\* The subscriber thread, run().

RunLoop ==
  /\ spc = "loop"
  /\ spc' = CASE ~ running     -> "ended"
              [] replay_merge  -> "merge"
              [] subscription  -> "live"
              [] OTHER         -> "loop"
  /\ UNCHANGED <<mpc, failed, flags, handles, wpc, tpc, data>>

\* The handle the thread is about to use, or is using, is still there.
HandleValid ==
  /\ spc \in {"merge", "status"} => replay_merge
  /\ spc = "live" => subscription

\* Mutant: the message is queued without regard to the capacity.
PollUnbounded ==
  /\ spc \in {"merge", "live"} /\ HandleValid
  /\ position < MaxMessages
  /\ position' = position + 1
  /\ queue' = Append(queue, position') /\ checkpoint' = position'
  /\ UNCHANGED <<mpc, failed, flags, handles, threads, item, processed, saved>>

\* One fragment.  It is tracked by the checkpoint when the queue has room.
PollFragment ==
  /\ spc \in {"merge", "live"} /\ HandleValid
  /\ position < MaxMessages
  /\ position' = position + 1
  /\ IF Len(queue) < QueueCapacity
     THEN queue' = Append(queue, position') /\ checkpoint' = position'
     ELSE UNCHANGED <<queue, checkpoint>>
  /\ UNCHANGED <<mpc, failed, flags, handles, threads, item, processed, saved>>

PollReturns ==
  /\ spc \in {"merge", "live"} /\ HandleValid
  /\ spc' = IF spc = "merge" THEN "status" ELSE "loop"
  /\ UNCHANGED <<mpc, failed, flags, handles, wpc, tpc, data>>

Merging ==
  /\ spc = "status" /\ HandleValid
  /\ spc' = "loop"
  /\ UNCHANGED <<mpc, failed, flags, handles, wpc, tpc, data>>

\* Merged: the thread goes on with the live subscription.  Failed: it ends.
MergeOver ==
  /\ spc = "status" /\ HandleValid
  /\ replay_merge' = FALSE
  /\ spc' \in {"loop", "ended"}
  /\ UNCHANGED <<mpc, failed, flags, subscription, wpc, tpc, data>>

\* shutdown() has reset the handle in use: undefined behaviour.  The process dies,
\* or the object is still alive elsewhere and the loop goes on.
UseAfterResetDies == ~ HandleValid /\ ProcessDies

UseAfterResetGoesOn ==
  /\ ~ HandleValid
  /\ spc' = "loop"
  /\ UNCHANGED <<mpc, failed, flags, handles, wpc, tpc, data>>

-----------------------------------------------------------------------------
\* The worker and the monitoring thread.

WorkerTakes ==
  /\ wpc = "loop"
  /\ worker_running
  /\ queue # <<>>
  /\ item' = Head(queue) /\ queue' = Tail(queue)
  /\ wpc' = "work"
  /\ UNCHANGED <<mpc, failed, flags, handles, spc, tpc, position, processed, checkpoint, saved>>

WorkerProcesses ==
  /\ wpc = "work"
  /\ processed' = item
  /\ wpc' = "loop"
  /\ UNCHANGED <<mpc, failed, flags, handles, spc, tpc, position, queue, item, checkpoint, saved>>

\* The flag is tested before each dequeue: what is still queued stays there.
WorkerEnds ==
  /\ wpc = "loop"
  /\ ~ worker_running
  /\ wpc' = "ended"
  /\ UNCHANGED <<mpc, failed, flags, handles, spc, tpc, data>>

MonitorEnds ==
  /\ tpc = "loop"
  /\ ~ monitoring_running
  /\ tpc' = "ended"
  /\ UNCHANGED <<mpc, failed, flags, handles, spc, wpc, data>>

-----------------------------------------------------------------------------
MainThread ==
  \/ StartMonitor \/ StartWorker \/ Initialize \/ InitializeFails
  \/ StartReplayMerge \/ StartLive \/ StartLiveThrows \/ Run \/ EndOfWait
  \/ StopSubscriber \/ ResetMerge \/ ResetSubscription \/ JoinSubscriber
  \/ StopWorker \/ JoinWorker \/ StopMonitor \/ JoinMonitor \/ Destroy

SubscriberThread ==
  \/ RunLoop \/ PollFragment \/ PollReturns \/ Merging \/ MergeOver
  \/ UseAfterResetDies \/ UseAfterResetGoesOn

WorkerThread == WorkerTakes \/ WorkerProcesses \/ WorkerEnds

Next == Signal \/ MainThread \/ SubscriberThread \/ WorkerThread \/ MonitorEnds

Spec == Init /\ [][Next]_vars

\* Every thread is scheduled; nobody has to send a signal or a message.
FairSpec ==
  /\ Spec
  /\ WF_vars(MainThread) /\ WF_vars(SubscriberThread)
  /\ WF_vars(WorkerThread) /\ WF_vars(MonitorEnds)

-----------------------------------------------------------------------------
(* The values are of the expected kind. *)
TypeOK ==
  /\ mpc \in {"create", "start_worker", "initialize", "connect", "run", "wait", "stop_subscriber",
              "reset_merge", "reset_subscription", "join_subscriber", "stop_worker",
              "join_worker", "stop_monitor", "join_monitor", "destroy", "exited", "aborted"}
  /\ failed \in BOOLEAN
  /\ g_running \in BOOLEAN /\ running \in BOOLEAN
  /\ worker_running \in BOOLEAN /\ monitoring_running \in BOOLEAN
  /\ replay_merge \in BOOLEAN /\ subscription \in BOOLEAN
  /\ spc \in {"none", "loop", "merge", "status", "live", "ended"}
  /\ wpc \in {"none", "loop", "work", "ended"}
  /\ tpc \in {"none", "loop", "ended"}
  /\ position \in 0 .. MaxMessages
  /\ queue \in Seq(1 .. MaxMessages) /\ Len(queue) <= QueueCapacity
  /\ {item, processed, checkpoint, saved} \subseteq 0 .. MaxMessages

(* Each thread outlives those that feed it: once the worker is told to     *)
(* stop nothing is enqueued any more, and once the monitor is told to stop *)
(* nothing is processed any more, so that what the final statistics print  *)
(* cannot change under them.                                               *)
ProducersStopFirst ==
  /\ ~ worker_running /\ wpc # "none" => spc \in {"none", "ended"}
  /\ ~ monitoring_running /\ tpc # "none" /\ ~ failed => wpc = "ended"

(* main() never returns with a thread that it has not joined, on the path  *)
(* of a failed initialize() either: the destructor of a joinable thread    *)
(* would end the process before the checkpoint is flushed.                 *)
AllJoinedAtExit ==
  mpc \in {"destroy", "exited"} =>
    spc \in {"none", "ended"} /\ wpc = "ended" /\ tpc = "ended"

(* The handle that the subscriber thread uses is taken away from it only   *)
(* by shutdown(), after running_ was cleared: while the process receives,  *)
(* the thread alone releases replay_merge_, and it polls no handle that    *)
(* was never set.                                                          *)
HandlesOutliveRunning ==
  ~ HandleValid => ~ running /\ mpc \in {"reset_subscription", "join_subscriber"}

(* A signal at any time, also during the start, ends the process, unless   *)
(* it has been brought down before.                                        *)
ShutdownCompletes == ~ g_running ~> mpc \in {"exited", "aborted"}

(* The checkpoint holds the last sequence that was processed ("마지막 처리한     *)
(* sequence", CHECKPOINT_TEST_GUIDE.md:34), from which a restart resumes   *)
(* without loss.                                                           *)
SavedIsProcessed == saved <= processed
=============================================================================
