----------------------------- MODULE Publisher -----------------------------
(***************************************************************************)
(* The publisher process (AeronPublisher.cpp) and its recording controller *)
(* (RecordingController.cpp): the publish thread numbers and offers        *)
(* messages, the command thread carries out start, stop and quit.          *)
(*                                                                         *)
(* The archive is external.  It keeps at most one recording subscription   *)
(* for the channel and stream; for each session of the publication that it *)
(* sees under that subscription it makes a recording, some time after the  *)
(* publication or the subscription appeared, and ends it some time after   *)
(* the session is gone.  A subscription outlives the publisher that asked  *)
(* for it.  A call may throw, and may then have been carried out or not.   *)
(* The controller takes stopTimestamp = 0 for an active recording, and so  *)
(* does the model.                                                         *)
(***************************************************************************)
EXTENDS Integers, Sequences

CONSTANTS
  PageSize,         \* recordings the controller lists (10)
  MaxStarts,        \* bound: publisher processes, one after the other
  MaxSubscriptions, \* bound: recording subscriptions made
  MaxRecordings,    \* bound: recordings made
  MaxMessages,      \* bound: messages numbered by a process
  MaxFailures       \* bound: archive calls that throw

ASSUME PublisherAssumption ==
  {PageSize, MaxStarts, MaxSubscriptions, MaxRecordings, MaxMessages,
   MaxFailures} \subseteq Nat

None == 0

VARIABLES
  \* the archive; a recording's id is its index
  recordings,       \* sequence of [session, active, messages]
  recorder,         \* the id of the recording subscription, or None
  subscriptions,    \* recording subscriptions made so far
  \* the publisher process
  phase,            \* "down", "starting" (initialize), "up", "quitting"
  session,          \* the session of its publication
  sequence_number, message_count,
  \* command thread and controller; the session -n stands for a session id
  cpc,              \* the archive call under way, "command" when none is
  recording_id, subscription_id,
  stops,            \* calls of stopRecording() by shutdown and destructor
  \* history
  failures,
  origin,           \* how the controller came to recording_id
  stop_lost,        \* a call of stopRecording was carried out but threw
  promised          \* messages published with "Recording: ON"

archive    == <<recordings, recorder, subscriptions>>
publishing == <<sequence_number, message_count, promised>>
controller == <<recording_id, subscription_id, origin>>
vars       == <<archive, phase, session, publishing, cpc, controller, stops, failures, stop_lost>>

Init ==
  /\ recordings = <<>> /\ recorder = None /\ subscriptions = 0
  /\ phase = "down" /\ session = 0
  /\ sequence_number = 0 /\ message_count = 0 /\ promised = {}
  /\ cpc = "command"
  /\ recording_id = None /\ subscription_id = None /\ origin = "none"
  /\ stops = 0 /\ failures = 0 /\ stop_lost = FALSE

-----------------------------------------------------------------------------
\* The archive.

BeginRecording ==
  /\ recorder # None
  /\ phase # "down"
  /\ Len(recordings) < MaxRecordings
  /\ \A i \in DOMAIN recordings : ~ (recordings[i].active /\ recordings[i].session = session)
  /\ recordings' = Append(recordings, [session |-> session, active |-> TRUE, messages |-> {}])
  /\ UNCHANGED <<recorder, subscriptions, phase, session, publishing, cpc, controller, stops,
                 failures, stop_lost>>

SessionGone ==
  /\ \E i \in DOMAIN recordings :
       /\ recordings[i].active
       /\ phase = "down" \/ recordings[i].session # session
       /\ recordings' = [recordings EXCEPT ![i].active = FALSE]
  /\ UNCHANGED <<recorder, subscriptions, phase, session, publishing, cpc, controller, stops,
                 failures, stop_lost>>

\* startRecording() and stopRecording() of the archive client.
Subscribe ==
  /\ subscriptions < MaxSubscriptions
  /\ subscriptions' = subscriptions + 1
  /\ recorder' = subscriptions + 1
  /\ UNCHANGED recordings

Unsubscribe ==
  /\ recorder' = None
  /\ recordings' = [i \in DOMAIN recordings |-> [recordings[i] EXCEPT !.active = FALSE]]
  /\ UNCHANGED subscriptions

\* The last of the recordings in a listing of the first n.
LastOf(ids) ==
  IF ids = {} THEN None ELSE CHOOSE i \in ids : \A j \in ids : j <= i
LastActive(n) == LastOf({i \in DOMAIN recordings : i <= n /\ recordings[i].active})
LastAny(n)    == LastOf({i \in DOMAIN recordings : i <= n})

-----------------------------------------------------------------------------
\* The process.

\* initialize(), which may start a recording.
Start(auto_record) ==
  /\ phase = "down"
  /\ session < MaxStarts
  /\ session' = session + 1
  /\ sequence_number' = 0 /\ message_count' = 0
  /\ phase' = IF auto_record THEN "starting" ELSE "up"
  /\ cpc' = IF auto_record THEN "list" ELSE "command"
  /\ recording_id' = None /\ subscription_id' = None /\ origin' = "none"
  /\ stops' = 0 /\ stop_lost' = FALSE
  /\ UNCHANGED <<archive, promised, failures>>

Crash ==
  /\ phase # "down"
  /\ phase' = "down"
  /\ cpc' = "command"
  /\ recording_id' = None /\ subscription_id' = None /\ origin' = "none"
  /\ UNCHANGED <<archive, session, publishing, stops, failures, stop_lost>>

\* publish(): what is offered with success is counted, and recorded by the archive.
Offer(offered) ==
  /\ message_count' = message_count + (IF offered THEN 1 ELSE 0)
  /\ recordings' =
       [i \in DOMAIN recordings |->
          IF offered /\ recordings[i].active /\ recordings[i].session = session
          THEN [recordings[i] EXCEPT !.messages = @ \cup {sequence_number}]
          ELSE recordings[i]]

\* The publish thread.  The number is used up whether or not the offer succeeds.
Publish(offered) ==
  /\ phase = "up"
  /\ sequence_number < MaxMessages
  /\ sequence_number' = sequence_number + 1
  /\ Offer(offered)
  /\ promised' =
       IF offered /\ recording_id # None /\ cpc = "command" /\ origin = "found" /\ ~ stop_lost
       THEN promised \cup {<<session, sequence_number>>}
       ELSE promised
  /\ UNCHANGED <<recorder, subscriptions, phase, session, cpc, controller, stops, failures,
                 stop_lost>>

-----------------------------------------------------------------------------
\* startRecording() of the controller, one archive call at a time.

\* Back to the prompt, or on with initialize() or shutdown().
Return ==
  /\ cpc' = "command"
  /\ phase' = IF phase = "starting" THEN "up" ELSE phase

CommandStart ==
  /\ phase = "up" /\ cpc = "command"
  /\ recording_id = None
  /\ cpc' = "list"
  /\ UNCHANGED <<archive, phase, session, publishing, controller, stops, failures, stop_lost>>

\* An active recording among those listed is taken over; its session id is kept
\* as the subscription to stop.
Adopt(n) ==
  IF LastActive(n) = None
  THEN UNCHANGED controller
  ELSE /\ recording_id' = LastActive(n)
       /\ subscription_id' = - recordings[LastActive(n)].session
       /\ origin' = "adopted"

ListExisting ==
  /\ cpc = "list"
  /\ Adopt(PageSize)
  /\ IF LastActive(PageSize) = None THEN cpc' = "start" /\ UNCHANGED phase ELSE Return
  /\ UNCHANGED <<archive, session, publishing, stops, failures, stop_lost>>

\* Mutant: the answer of the archive is not kept.
StartUnanswered ==
  /\ cpc = "start"
  /\ recorder = None
  /\ Subscribe
  /\ cpc' = "find"
  /\ UNCHANGED <<phase, session, publishing, controller, stops, failures, stop_lost>>

StartArchive ==
  /\ cpc = "start"
  /\ recorder = None
  /\ Subscribe
  /\ subscription_id' = subscriptions + 1
  /\ cpc' = "find"
  /\ UNCHANGED <<phase, session, publishing, recording_id, origin, stops, failures, stop_lost>>

\* The archive refuses: "recording exists".
StartRefused ==
  /\ cpc = "start"
  /\ recorder # None
  /\ cpc' = "findAny"
  /\ UNCHANGED <<archive, phase, session, publishing, controller, stops, failures, stop_lost>>

\* The id of some listed recording is taken; the subscription stays as it is.
Take(id, how) ==
  /\ recording_id' = IF id = None THEN recording_id ELSE id
  /\ origin' = IF id = None THEN origin ELSE how
  /\ UNCHANGED subscription_id

FindAny ==
  /\ cpc = "findAny"
  /\ Take(LastAny(PageSize), "any")
  /\ Return
  /\ UNCHANGED <<archive, session, publishing, stops, failures, stop_lost>>

\* Mutant: the last recording listed is taken, active or not.
FindLast ==
  /\ cpc \in {"find", "retry"}
  /\ Take(LastAny(PageSize), "found")
  /\ IF cpc = "find" /\ LastAny(PageSize) = None
     THEN cpc' = "retry" /\ UNCHANGED phase
     ELSE Return
  /\ UNCHANGED <<archive, session, publishing, stops, failures, stop_lost>>

\* After 200 ms, and once more after another 500 ms.
FindNew ==
  /\ cpc \in {"find", "retry"}
  /\ Take(LastActive(PageSize), "found")
  /\ IF cpc = "find" /\ LastActive(PageSize) = None
     THEN cpc' = "retry" /\ UNCHANGED phase
     ELSE Return
  /\ UNCHANGED <<archive, session, publishing, stops, failures, stop_lost>>

-----------------------------------------------------------------------------
\* stopRecording() of the controller.

CommandStop ==
  /\ phase = "up" /\ cpc = "command"
  /\ recording_id # None
  /\ cpc' = "stop"
  /\ UNCHANGED <<archive, phase, session, publishing, controller, stops, failures, stop_lost>>

StopArchive ==
  /\ cpc = "stop"
  /\ subscription_id = recorder
  /\ recorder # None
  /\ Unsubscribe
  /\ cpc' = "stopped"
  /\ UNCHANGED <<phase, session, publishing, controller, stops, failures, stop_lost>>

\* Mutant: a refusal is taken for an answer.
RefusalIgnored ==
  /\ cpc = "stop"
  /\ subscription_id # recorder \/ recorder = None
  /\ cpc' = "stopped"
  /\ UNCHANGED <<archive, phase, session, publishing, controller, stops, failures, stop_lost>>

\* The archive knows no such subscription: the call throws, nothing is reset.
StopRefused ==
  /\ cpc = "stop"
  /\ subscription_id # recorder \/ recorder = None
  /\ Return
  /\ UNCHANGED <<archive, session, publishing, controller, stops, failures, stop_lost>>

StopAnswered ==
  /\ cpc = "stopped"
  /\ recording_id' = None /\ subscription_id' = None /\ origin' = "none"
  /\ Return
  /\ UNCHANGED <<archive, session, publishing, stops, failures, stop_lost>>

-----------------------------------------------------------------------------
\* Calls that throw.

Throws ==
  /\ failures < MaxFailures
  /\ failures' = failures + 1
  /\ Return
  /\ UNCHANGED <<session, publishing, stops>>

\* A listing ends early: what its consumer has taken so far remains.
ListingThrows ==
  /\ cpc \in {"list", "find", "retry", "findAny"}
  /\ Throws
  /\ \E n \in 0 .. PageSize :
       CASE cpc = "list"    -> Adopt(n)
         [] cpc = "findAny" -> Take(LastAny(n), "any")
         [] OTHER           -> Take(LastActive(n), "found")
  /\ UNCHANGED <<archive, stop_lost>>

StartThrows ==
  /\ cpc = "start"
  /\ Throws
  /\ IF recorder = None THEN Subscribe \/ UNCHANGED archive ELSE UNCHANGED archive
  /\ UNCHANGED <<controller, stop_lost>>

StopThrows ==
  /\ cpc = "stop"
  /\ Throws
  /\ \/ UNCHANGED <<archive, stop_lost>>
     \/ subscription_id = recorder /\ Unsubscribe /\ stop_lost' = TRUE
  /\ UNCHANGED controller

-----------------------------------------------------------------------------
\* "quit": the publish thread is joined; shutdown() stops the recording, and the
\* destructor of the controller tries again if that has failed.

Quit ==
  /\ phase = "up" /\ cpc = "command"
  /\ phase' = "quitting"
  /\ UNCHANGED <<archive, session, publishing, cpc, controller, stops, failures, stop_lost>>

\* Mutant: shutdown tries again for as long as stopping fails.
ShutdownInsists ==
  /\ phase = "quitting" /\ cpc = "command"
  /\ recording_id # None
  /\ stops' = stops + 1
  /\ cpc' = "stop"
  /\ UNCHANGED <<archive, phase, session, publishing, controller, failures, stop_lost>>

ShutdownStops ==
  /\ phase = "quitting" /\ cpc = "command"
  /\ recording_id # None /\ stops < 2
  /\ stops' = stops + 1
  /\ cpc' = "stop"
  /\ UNCHANGED <<archive, phase, session, publishing, controller, failures, stop_lost>>

Exit ==
  /\ phase = "quitting" /\ cpc = "command"
  /\ recording_id = None \/ stops = 2
  /\ phase' = "down"
  /\ recording_id' = None /\ subscription_id' = None /\ origin' = "none"
  /\ UNCHANGED <<archive, session, publishing, cpc, stops, failures, stop_lost>>

-----------------------------------------------------------------------------
Archive == BeginRecording \/ SessionGone

StartRecording ==
  CommandStart \/ ListExisting \/ StartArchive \/ StartRefused \/ FindAny \/ FindNew

StopRecording == CommandStop \/ StopArchive \/ StopRefused \/ StopAnswered

Next ==
  \/ Archive
  \/ \E b \in BOOLEAN : Start(b) \/ Publish(b)
  \/ StartRecording \/ StopRecording
  \/ ListingThrows \/ StartThrows \/ StopThrows
  \/ Quit \/ ShutdownStops \/ Exit \/ Crash

Spec == Init /\ [][Next]_vars

-----------------------------------------------------------------------------
ActiveRecordings == {i \in DOMAIN recordings : recordings[i].active}

(* The values are of the expected kind. *)
TypeOK ==
  /\ recordings \in Seq([session : 1 .. MaxStarts, active : BOOLEAN, messages : SUBSET Nat])
  /\ recorder \in 0 .. subscriptions /\ subscriptions \in Nat
  /\ phase \in {"down", "starting", "up", "quitting"}
  /\ session \in 0 .. MaxStarts
  /\ sequence_number \in 0 .. MaxMessages /\ message_count \in 0 .. sequence_number
  /\ cpc \in {"command", "list", "start", "find", "retry", "findAny", "stop", "stopped"}
  /\ recording_id \in 0 .. Len(recordings)
  /\ subscription_id \in Int
  /\ stops \in 0 .. 2 /\ failures \in 0 .. MaxFailures
  /\ origin \in {"none", "adopted", "found", "any"}
  /\ stop_lost \in BOOLEAN
  /\ promised \subseteq (1 .. MaxStarts) \X Nat

(* The recording that startRecording() finds after its own request is the  *)
(* one of that request: it is active, of the publication of this process,  *)
(* and subscription_id_ stops it.  Recordings of earlier processes, which  *)
(* the archive may still list as active, are never mistaken for it.        *)
FoundIsOurs ==
  origin = "found" /\ cpc # "stopped" /\ ~ stop_lost =>
    /\ subscription_id = recorder
    /\ recordings[recording_id].active
    /\ recordings[recording_id].session = session

(* "Recording stopped successfully" is true: when the archive has answered,*)
(* no recording of the stream is active and none will begin, whichever     *)
(* process had started it.                                                 *)
StoppedMeansStopped ==
  cpc = "stopped" => recorder = None /\ ActiveRecordings = {}

(* What is published while the publisher says "Recording: ON", for a       *)
(* recording that it has found, is in a recording of its session.          *)
PromisedIsRecorded ==
  \A m \in promised :
    \E i \in DOMAIN recordings :
      recordings[i].session = m[1] /\ m[2] \in recordings[i].messages

(* "stop" ends the recording (README.md:599): when no call has failed, a   *)
(* controller at the prompt that is recording holds the subscription that  *)
(* the archive will stop.                                                  *)
StopWouldWork ==
  phase = "up" /\ cpc = "command" /\ recording_id # None /\ failures = 0
    => subscription_id = recorder
=============================================================================
