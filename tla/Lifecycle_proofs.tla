-------------------------- MODULE Lifecycle_proofs --------------------------
(***************************************************************************)
(* Proofs about the subscriber process for every capacity of the queue and *)
(* every number of messages: types, the order in which threads end, and    *)
(* when the handles may be reset under the subscriber thread.              *)
(*                                                                         *)
(* ControlInv says, for each place of the main thread, which threads are   *)
(* running, which flags are set and which handles exist.                   *)
(***************************************************************************)
EXTENDS Lifecycle, TLAPS

\* The places of the main thread after a shutdown has stopped the subscriber.
Ending == {"stop_worker", "join_worker", "stop_monitor", "join_monitor", "destroy", "exited"}

FailedPlaces == failed => mpc \in Ending

SubscriberPlaces ==
  /\ mpc \in {"create", "start_worker", "initialize", "connect", "run", "aborted"} => spc = "none"
  /\ failed => spc = "none"
  /\ mpc \in Ending => spc \in {"none", "ended"}
  /\ mpc \in {"reset_merge", "reset_subscription", "join_subscriber"} => ~ running

WorkerPlaces ==
  /\ wpc = "none" <=> mpc \in {"create", "start_worker", "aborted"}
  /\ mpc \in {"destroy", "exited"} => wpc = "ended"
  /\ ~ failed /\ mpc \in {"stop_monitor", "join_monitor"} => wpc = "ended"
  /\ ~ worker_running /\ wpc # "none" => mpc \in Ending

MonitorPlaces ==
  /\ tpc = "none" <=> mpc \in {"create", "aborted"}
  /\ mpc \in {"destroy", "exited"} => tpc = "ended"
  /\ failed /\ mpc \in {"stop_worker", "join_worker"} => tpc = "ended"
  /\ ~ monitoring_running /\ tpc # "none" /\ ~ failed =>
       mpc \in {"join_monitor", "destroy", "exited"}

\* The handles the subscriber thread is using.
HandlePlaces ==
  /\ spc \in {"merge", "status"} =>
       replay_merge \/ mpc \in {"reset_subscription", "join_subscriber"}
  /\ spc = "live" => subscription \/ mpc = "join_subscriber"

ControlInv == FailedPlaces /\ SubscriberPlaces /\ WorkerPlaces /\ MonitorPlaces /\ HandlePlaces

-----------------------------------------------------------------------------
LEMMA BoundsAreNat == QueueCapacity \in Nat /\ MaxMessages \in Nat
  BY LifecycleAssumption DEF LifecycleAssumption

LEMMA MainKeepsTypes ==
  ASSUME TypeOK, MainThread
  PROVE  TypeOK'
<1> USE BoundsAreNat DEF TypeOK, Main, flags, handles, threads, data
<1>1. CASE StartMonitor
  BY <1>1 DEF StartMonitor
<1>2. CASE StartWorker
  BY <1>2 DEF StartWorker
<1>3. CASE Initialize
  BY <1>3 DEF Initialize
<1>4. CASE InitializeFails
  BY <1>4 DEF InitializeFails
<1>5. CASE StartReplayMerge
  BY <1>5 DEF StartReplayMerge
<1>6. CASE StartLive
  BY <1>6 DEF StartLive
<1>7. CASE StartLiveThrows
  BY <1>7 DEF StartLiveThrows, ProcessDies
<1>8. CASE Run
  BY <1>8 DEF Run
<1>9. CASE EndOfWait
  BY <1>9 DEF EndOfWait
<1>10. CASE StopSubscriber
  BY <1>10 DEF StopSubscriber
<1>11. CASE ResetMerge
  BY <1>11 DEF ResetMerge
<1>12. CASE ResetSubscription
  BY <1>12 DEF ResetSubscription
<1>13. CASE JoinSubscriber
  BY <1>13 DEF JoinSubscriber
<1>14. CASE StopWorker
  BY <1>14 DEF StopWorker
<1>15. CASE JoinWorker
  BY <1>15 DEF JoinWorker
<1>16. CASE StopMonitor
  BY <1>16 DEF StopMonitor
<1>17. CASE JoinMonitor
  BY <1>17 DEF JoinMonitor
<1>18. CASE Destroy
  BY <1>18 DEF Destroy
<1> QED
  BY <1>1, <1>2, <1>3, <1>4, <1>5, <1>6, <1>7, <1>8, <1>9, <1>10, <1>11, <1>12, <1>13, <1>14, <1>15, <1>16, <1>17, <1>18 DEF MainThread

LEMMA SubscriberKeepsTypes ==
  ASSUME TypeOK, SubscriberThread
  PROVE  TypeOK'
<1> USE BoundsAreNat DEF TypeOK, Main, flags, handles, threads, data
<1>1. CASE RunLoop
  BY <1>1 DEF RunLoop
<1>2. CASE PollFragment
  <2>1. position' \in 0 .. MaxMessages /\ position' \in 1 .. MaxMessages
    BY <1>2 DEF PollFragment
  <2>2. queue' \in Seq(1 .. MaxMessages) /\ Len(queue') <= QueueCapacity
    <3>1. CASE Len(queue) < QueueCapacity
      <4>1. queue' = Append(queue, position')
        BY <1>2, <3>1 DEF PollFragment
      <4> QED
        BY <4>1, <3>1, <2>1
    <3>2. CASE ~ Len(queue) < QueueCapacity
      BY <1>2, <3>2 DEF PollFragment
    <3> QED
      BY <3>1, <3>2
  <2>3. {item, processed, checkpoint, saved}' \subseteq 0 .. MaxMessages
    BY <1>2, <2>1 DEF PollFragment
  <2> QED
    BY <1>2, <2>1, <2>2, <2>3 DEF PollFragment
<1>3. CASE PollReturns
  BY <1>3 DEF PollReturns
<1>4. CASE Merging
  BY <1>4 DEF Merging
<1>5. CASE MergeOver
  <2>1. spc' \in {"none", "loop", "merge", "status", "live", "ended"}
        /\ replay_merge' \in BOOLEAN
        /\ UNCHANGED <<mpc, failed, g_running, running, worker_running, monitoring_running,
                       subscription, wpc, tpc, data>>
    BY <1>5 DEF MergeOver
  <2> QED
    BY <2>1
<1>6. CASE UseAfterResetDies
  BY <1>6 DEF UseAfterResetDies, ProcessDies
<1>7. CASE UseAfterResetGoesOn
  BY <1>7 DEF UseAfterResetGoesOn
<1> QED
  BY <1>1, <1>2, <1>3, <1>4, <1>5, <1>6, <1>7 DEF SubscriberThread

LEMMA WorkerKeepsTypes ==
  ASSUME TypeOK, WorkerThread
  PROVE  TypeOK'
<1> USE BoundsAreNat DEF TypeOK, Main, flags, handles, threads, data
<1>1. CASE WorkerTakes
  BY <1>1 DEF WorkerTakes
<1>2. CASE WorkerProcesses
  BY <1>2 DEF WorkerProcesses
<1>3. CASE WorkerEnds
  BY <1>3 DEF WorkerEnds
<1> QED
  BY <1>1, <1>2, <1>3 DEF WorkerThread

(* The values keep their kind: whatever is queued is a position delivered, *)
(* so that what the worker takes, and what the checkpoint keeps, is one.   *)
THEOREM TypeCorrect == Spec => []TypeOK
<1>1. Init => TypeOK
  <2> SUFFICES ASSUME Init PROVE TypeOK
    OBVIOUS
  <2>1. queue \in Seq(1 .. MaxMessages) /\ Len(queue) <= QueueCapacity
    BY BoundsAreNat DEF Init
  <2>2. 0 \in 0 .. MaxMessages
    BY BoundsAreNat
  <2> QED
    BY <2>1, <2>2 DEF Init, TypeOK
<1>2. TypeOK /\ [Next]_vars => TypeOK'
  <2> SUFFICES ASSUME TypeOK, [Next]_vars PROVE TypeOK'
    OBVIOUS
  <2>1. CASE Signal
    <3>1. g_running' \in BOOLEAN /\ UNCHANGED <<mpc, failed, running, worker_running, monitoring_running>>
          /\ UNCHANGED <<handles, threads, data>>
      BY <2>1 DEF Signal
    <3> QED
      BY <3>1 DEF TypeOK, handles, threads, data
  <2>2. CASE MonitorEnds
    BY <2>2 DEF MonitorEnds, TypeOK, flags, handles, data
  <2>3. CASE UNCHANGED vars
    BY <2>3 DEF vars, TypeOK, flags, handles, threads, data
  <2> QED
    BY <2>1, <2>2, <2>3, MainKeepsTypes, SubscriberKeepsTypes, WorkerKeepsTypes DEF Next
<1> QED
  BY <1>1, <1>2, PTL DEF Spec

-----------------------------------------------------------------------------
\* ControlInv is inductive, thread by thread.

LEMMA ControlInvInit == Init => ControlInv
  BY DEF Init, ControlInv, FailedPlaces, SubscriberPlaces, WorkerPlaces, MonitorPlaces,
         HandlePlaces, Ending

\* The main thread goes on only where its own last step and the joins allow it.
LEMMA MainKeepsControl ==
  ASSUME ControlInv, MainThread
  PROVE  ControlInv'
<1> USE DEF ControlInv, FailedPlaces, SubscriberPlaces, WorkerPlaces, MonitorPlaces, HandlePlaces,
            Ending, Main, HandleValid, flags, handles, threads, data
<1>1. CASE StartMonitor
  BY <1>1 DEF StartMonitor
<1>2. CASE StartWorker
  BY <1>2 DEF StartWorker
<1>3. CASE Initialize
  BY <1>3 DEF Initialize
<1>4. CASE InitializeFails
  BY <1>4 DEF InitializeFails
<1>5. CASE StartReplayMerge
  BY <1>5 DEF StartReplayMerge
<1>6. CASE StartLive
  BY <1>6 DEF StartLive
<1>7. CASE StartLiveThrows
  BY <1>7 DEF StartLiveThrows, ProcessDies
<1>8. CASE Run
  BY <1>8 DEF Run
<1>9. CASE EndOfWait
  BY <1>9 DEF EndOfWait
<1>10. CASE StopSubscriber
  BY <1>10 DEF StopSubscriber
<1>11. CASE ResetMerge
  BY <1>11 DEF ResetMerge
<1>12. CASE ResetSubscription
  BY <1>12 DEF ResetSubscription
<1>13. CASE JoinSubscriber
  BY <1>13 DEF JoinSubscriber
<1>14. CASE StopWorker
  BY <1>14 DEF StopWorker
<1>15. CASE JoinWorker
  BY <1>15 DEF JoinWorker
<1>16. CASE StopMonitor
  BY <1>16 DEF StopMonitor
<1>17. CASE JoinMonitor
  BY <1>17 DEF JoinMonitor
<1>18. CASE Destroy
  BY <1>18 DEF Destroy
<1> QED
  BY <1>1, <1>2, <1>3, <1>4, <1>5, <1>6, <1>7, <1>8, <1>9, <1>10, <1>11, <1>12, <1>13, <1>14, <1>15, <1>16, <1>17, <1>18 DEF MainThread

\* The subscriber thread takes a handle that is set, and leaves the flags alone.
LEMMA SubscriberKeepsControl ==
  ASSUME ControlInv, SubscriberThread
  PROVE  ControlInv'
<1> USE DEF ControlInv, FailedPlaces, SubscriberPlaces, WorkerPlaces, MonitorPlaces, HandlePlaces,
            Ending, Main, HandleValid, flags, handles, threads, data
<1>1. CASE RunLoop
  BY <1>1 DEF RunLoop
<1>2. CASE PollFragment
  BY <1>2 DEF PollFragment
<1>3. CASE PollReturns
  BY <1>3 DEF PollReturns
<1>4. CASE Merging
  BY <1>4 DEF Merging
<1>5. CASE MergeOver
  BY <1>5 DEF MergeOver
<1>6. CASE UseAfterResetDies
  BY <1>6 DEF UseAfterResetDies, ProcessDies
<1>7. CASE UseAfterResetGoesOn
  BY <1>7 DEF UseAfterResetGoesOn
<1> QED
  BY <1>1, <1>2, <1>3, <1>4, <1>5, <1>6, <1>7 DEF SubscriberThread

\* The worker ends only after it was told to.
LEMMA WorkerKeepsControl ==
  ASSUME ControlInv, WorkerThread
  PROVE  ControlInv'
<1> USE DEF ControlInv, FailedPlaces, SubscriberPlaces, WorkerPlaces, MonitorPlaces, HandlePlaces,
            Ending, Main, HandleValid, flags, handles, threads, data
<1>1. CASE WorkerTakes
  BY <1>1 DEF WorkerTakes
<1>2. CASE WorkerProcesses
  BY <1>2 DEF WorkerProcesses
<1>3. CASE WorkerEnds
  BY <1>3 DEF WorkerEnds
<1> QED
  BY <1>1, <1>2, <1>3 DEF WorkerThread

THEOREM ControlInvariant == Spec => []ControlInv
<1>1. ControlInv /\ [Next]_vars => ControlInv'
  <2> SUFFICES ASSUME ControlInv, [Next]_vars PROVE ControlInv'
    OBVIOUS
  <2> USE DEF ControlInv, FailedPlaces, SubscriberPlaces, WorkerPlaces, MonitorPlaces, HandlePlaces
  <2>1. CASE Signal
    BY <2>1 DEF Signal, handles, threads
  <2>2. CASE MonitorEnds
    BY <2>2 DEF MonitorEnds, flags, handles, Ending
  <2>3. CASE UNCHANGED vars
    BY <2>3 DEF vars, flags, handles, threads
  <2> QED
    BY <2>1, <2>2, <2>3, MainKeepsControl, SubscriberKeepsControl, WorkerKeepsControl DEF Next
<1> QED
  BY <1>1, ControlInvInit, PTL DEF Spec

(* Each thread outlives those that feed it, on the path of a shutdown and  *)
(* of a failed initialize() (subscriber main.cpp:343-349, 431-441).        *)
THEOREM ProducersFirst == Spec => []ProducersStopFirst
<1>1. ControlInv => ProducersStopFirst
  BY DEF ControlInv, SubscriberPlaces, WorkerPlaces, MonitorPlaces, ProducersStopFirst, Ending
<1> QED
  BY <1>1, ControlInvariant, PTL

(* main() does not return while a thread it has started is not joined.     *)
THEOREM JoinedAtExit == Spec => []AllJoinedAtExit
<1>1. ControlInv => AllJoinedAtExit
  BY DEF ControlInv, SubscriberPlaces, WorkerPlaces, MonitorPlaces, AllJoinedAtExit, Ending
<1> QED
  BY <1>1, ControlInvariant, PTL

(* A handle is only missing under the subscriber thread between the resets *)
(* of shutdown() and the join, when running_ is already cleared            *)
(* (AeronSubscriber.cpp:653-682).                                          *)
THEOREM HandlesOutlive == Spec => []HandlesOutliveRunning
<1>1. ControlInv => HandlesOutliveRunning
  BY DEF ControlInv, SubscriberPlaces, HandlePlaces, HandlesOutliveRunning, HandleValid
<1> QED
  BY <1>1, ControlInvariant, PTL
=============================================================================
