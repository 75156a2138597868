------------------------------ MODULE Recovery ------------------------------
(***************************************************************************)
(* What a chain of subscriber processes makes of a chain of publisher      *)
(* sessions: recordings, the checkpoint, ReplayMerge or live mode, the     *)
(* queue between receive path and worker, stops and crashes.               *)
(*                                                                         *)
(* A message is <<session, position>>: each session counts its messages    *)
(* and its positions from the start, so the sequence number of a message   *)
(* is its position less one, and the same number comes again in the next   *)
(* session.  The file keeps a position without a session; the session in   *)
(* checkpoint and saved is kept for the properties only.                   *)
(*                                                                         *)
(* One process is refined elsewhere: its messages in Pipeline, its file in *)
(* CheckpointManager, its threads in Lifecycle, the recordings in          *)
(* Publisher.                                                              *)
(***************************************************************************)
EXTENDS Integers, Sequences, SequencesExt

CONSTANTS
  PoolSize,       \* buffers: messages that may wait for the worker
  WindowSize,     \* numbers that the duplicate window remembers
  Positions,      \* values of --position, its default 0 among them
  MaxSessions,    \* bound: publisher processes
  MaxMessages,    \* bound: messages of a session
  MaxRecordings,  \* bound: recordings
  MaxProcesses    \* bound: subscriber processes

ASSUME RecoveryAssumption ==
  /\ {PoolSize, WindowSize, MaxSessions, MaxMessages} \subseteq Nat \ {0}
  /\ {MaxRecordings, MaxProcesses} \subseteq Nat
  /\ Positions \subseteq Nat /\ 0 \in Positions

Sessions == 1 .. MaxSessions
Messages == Sessions \X (1 .. MaxMessages)

VARIABLES
  session, publishing,   \* the last session; it is up
  published,             \* last position of each session
  recordings,            \* of the archive: [session, from, to, active]
  saved,                 \* the checkpoint file
  processes,             \* subscriber processes started
  source,                \* "down", or what the subscriber thread polls
  rec,                   \* the recording being replayed
  image,                 \* what was delivered last: [session, position]
  checkpoint,            \* last message enqueued
  window, seen,          \* numbers known to the receive path, to the worker
  queue,                 \* messages waiting for the worker
  processed,             \* all messages the handler has got
  repeated,              \* those it has got again
  missed,                \* passed over: no buffer, number known, behind the start
  abandoned,             \* queued when a process ended, and behind the file
  repeatable             \* may be delivered again

stream  == <<session, publishing, published, recordings>>
memory  == <<checkpoint, window, seen, queue>>
reader  == <<source, rec, image>>
history == <<processed, repeated, missed, abandoned, repeatable>>
vars    == <<stream, saved, processes, reader, memory, history>>

Nowhere == [session |-> 1, position |-> 0]

Init ==
  /\ session = 1 /\ publishing = TRUE
  /\ published = [s \in Sessions |-> 0]
  /\ recordings = <<>>
  /\ saved = Nowhere /\ processes = 0
  /\ source = "down" /\ rec = 0 /\ image = Nowhere
  /\ checkpoint = Nowhere /\ window = <<>> /\ seen = {} /\ queue = <<>>
  /\ processed = {} /\ repeated = {} /\ missed = {} /\ abandoned = {} /\ repeatable = {}

-----------------------------------------------------------------------------
\* Publisher and archive.

Recorded(r) == recordings[r].active

\* A recording grows with its session.
Publish ==
  /\ publishing
  /\ published[session] < MaxMessages
  /\ published' = [published EXCEPT ![session] = @ + 1]
  /\ recordings' = [r \in DOMAIN recordings |->
       IF Recorded(r) THEN [recordings[r] EXCEPT !.to = @ + 1] ELSE recordings[r]]
  /\ UNCHANGED <<session, publishing, saved, processes, reader, memory, history>>

\* By --auto-record or by the command, that is at any time of the session.
BeginRecording ==
  /\ publishing
  /\ Len(recordings) < MaxRecordings
  /\ \A r \in DOMAIN recordings : ~ Recorded(r)
  /\ recordings' = Append(recordings,
       [session |-> session, from |-> published[session], to |-> published[session],
        active |-> TRUE])
  /\ UNCHANGED <<session, publishing, published, saved, processes, reader, memory, history>>

Ended == [r \in DOMAIN recordings |-> [recordings[r] EXCEPT !.active = FALSE]]

EndRecording ==
  /\ \E r \in DOMAIN recordings : Recorded(r)
  /\ recordings' = Ended
  /\ UNCHANGED <<session, publishing, published, saved, processes, reader, memory, history>>

\* The publisher stops or crashes: its recording ends with it.
PublisherEnds ==
  /\ publishing
  /\ publishing' = FALSE
  /\ recordings' = Ended
  /\ UNCHANGED <<session, published, saved, processes, reader, memory, history>>

\* A new process, a new session; its numbers and positions begin anew.
PublisherStarts ==
  /\ ~ publishing /\ session < MaxSessions
  /\ session' = session + 1 /\ publishing' = TRUE
  /\ UNCHANGED <<published, recordings, saved, processes, reader, memory, history>>

-----------------------------------------------------------------------------
\* A subscriber process starts.  The new CheckpointManager has loaded the file.

UpTo(s, p) == {m \in Messages : m[1] = s /\ m[2] <= p}

NewProcess ==
  /\ source = "down" /\ processes < MaxProcesses
  /\ processes' = processes + 1
  /\ checkpoint' = saved
  /\ UNCHANGED <<window, seen, queue>>

\* In live mode, without a recording, or after an exception in the search or in
\* the start of ReplayMerge.  The saved position is not used.
StartLive ==
  /\ NewProcess
  /\ source' = "live" /\ rec' = 0
  /\ image' = [session |-> session, position |-> published[session]]
  /\ missed' = missed \cup (UpTo(session, published[session]) \ processed)
  /\ UNCHANGED <<stream, saved, processed, repeated, abandoned, repeatable>>

\* Mutant: the position is taken for that of the next message.
ResumePastNext(requested) == IF saved.position > 0 THEN saved.position + 1 ELSE requested

\* Mutant: --position comes first.
ResumeAsRequested(requested) == requested

\* A saved position replaces the one of the command line.
ResumePosition(requested) == IF saved.position > 0 THEN saved.position ELSE requested

\* The position does not come from the session that is replayed: it was asked for on the
\* command line, or the latest recording is one of another session.
Foreign(r) == saved.position = 0 \/ saved.session # recordings[r].session

\* startReplayMergeAuto(): the latest recording, at the saved position.
StartReplay(requested) ==
  /\ recordings # <<>>
  /\ NewProcess
  /\ source' = "request" /\ rec' = Len(recordings)
  /\ image' = [session |-> recordings[rec'].session, position |-> ResumePosition(requested)]
  /\ LET all == UpTo(image'.session, MaxMessages)
         skipped == UpTo(image'.session, image'.position)
     IN  /\ missed' = IF Foreign(rec') THEN missed \cup (skipped \ processed) ELSE missed
         /\ repeatable' = IF Foreign(rec') THEN repeatable \cup (all \ skipped) ELSE repeatable
  /\ UNCHANGED <<stream, saved, processed, repeated, abandoned>>

-----------------------------------------------------------------------------
\* The subscriber thread.

\* The archive replays from a position within the recording.
ReplayBegins ==
  /\ source = "request"
  /\ recordings[rec].from <= image.position /\ image.position <= recordings[rec].to
  /\ source' = "replay"
  /\ UNCHANGED <<stream, saved, processes, rec, image, memory, history>>

\* The request is refused, or the merge makes no progress or fails: the thread ends.
MergeFails ==
  /\ source \in {"request", "replay"}
  /\ source' = "ended"
  /\ UNCHANGED <<stream, saved, processes, rec, image, memory, history>>

\* The replay has caught up with the live stream of its own session.
Merge ==
  /\ source = "replay"
  /\ image = [session |-> session, position |-> published[session]] /\ publishing
  /\ source' = "live"
  /\ UNCHANGED <<stream, saved, processes, rec, image, memory, history>>

\* The live subscription goes on with the image of a new session.
NewImage ==
  /\ source = "live"
  /\ image.session < session
  /\ image.position = published[image.session]
  /\ image' = [session |-> image.session + 1, position |-> 0]
  /\ UNCHANGED <<stream, saved, processes, source, rec, memory, history>>

\* Mutant: a replay is only polled while the recording goes on.
AvailableWhileRecorded ==
  CASE source = "replay" /\ Recorded(rec) -> recordings[rec].to
    [] source = "live"                    -> published[image.session]
    [] OTHER                              -> 0

Available ==
  CASE source = "replay" -> recordings[rec].to
    [] source = "live"   -> published[image.session]
    [] OTHER             -> 0

\* Mutant: the window is never trimmed.
RememberAll(p) == Append(window, p)

Remember(p) ==
  LET w == Append(window, p) IN IF Len(w) > WindowSize THEN Tail(w) ELSE w

\* handleMessageFastPath(): one fragment.
Deliver ==
  /\ image.position < Available
  /\ image' = [image EXCEPT !.position = @ + 1]
  /\ LET p == image'.position
         m == <<image.session, p>>
     IN  IF Len(queue) = PoolSize \/ p \in ToSet(window)
         THEN /\ missed' = missed \cup ({m} \ processed)
              /\ UNCHANGED <<memory, abandoned>>
         ELSE /\ window' = Remember(p)
              /\ queue' = Append(queue, m)
              /\ checkpoint' = image'
              /\ missed' = missed \ {m} /\ abandoned' = abandoned \ {m}
              /\ UNCHANGED seen
  /\ UNCHANGED <<stream, saved, processes, source, rec, processed, repeated, repeatable>>

-----------------------------------------------------------------------------
\* The worker and the flush thread.

Process ==
  /\ source # "down" /\ queue # <<>>
  /\ queue' = Tail(queue)
  /\ LET m == Head(queue)
     IN  IF m[2] \in seen
         THEN /\ missed' = missed \cup ({m} \ processed)
              /\ UNCHANGED <<seen, processed, repeated>>
         ELSE /\ seen' = seen \cup {m[2]}
              /\ processed' = processed \cup {m}
              /\ repeated' = repeated \cup ({m} \cap processed)
              /\ UNCHANGED missed
  /\ UNCHANGED <<stream, saved, processes, reader, checkpoint, window, abandoned, repeatable>>

Flush ==
  /\ source # "down"
  /\ saved' = checkpoint
  /\ UNCHANGED <<stream, processes, reader, memory, history>>

-----------------------------------------------------------------------------
\* The process ends; what it had queued is lost.

Covered(m) == m[1] = saved'.session /\ m[2] <= saved'.position

ProcessEnds ==
  /\ source # "down"
  /\ source' = "down" /\ rec' = 0 /\ image' = Nowhere
  /\ checkpoint' = Nowhere /\ window' = <<>> /\ seen' = {} /\ queue' = <<>>
  /\ abandoned' = abandoned \cup {m \in ToSet(queue) : Covered(m)}
  /\ repeatable' = repeatable \cup {m \in processed : ~ Covered(m)}
  /\ UNCHANGED <<stream, processes, processed, repeated, missed>>

\* A signal: the worker ends with messages still queued, then the checkpoint is flushed.
Stop  == saved' = checkpoint /\ ProcessEnds

Crash == saved' = saved /\ ProcessEnds

-----------------------------------------------------------------------------
Outside == Publish \/ BeginRecording \/ EndRecording \/ PublisherEnds \/ PublisherStarts

Start == StartLive \/ \E requested \in Positions : StartReplay(requested)

SubscriberThread == ReplayBegins \/ MergeFails \/ Merge \/ NewImage \/ Deliver

Next == Outside \/ Start \/ SubscriberThread \/ Process \/ Flush \/ Stop \/ Crash

Spec == Init /\ [][Next]_vars

\* A process that is up polls: what the archive or the live stream has for it is
\* delivered, what is queued is processed.  Nothing else has to happen.
FairSpec == Spec /\ WF_vars(Deliver) /\ WF_vars(Process)

-----------------------------------------------------------------------------
(* The values are of the expected kind.                                    *)
TypeOK ==
  /\ session \in Sessions /\ publishing \in BOOLEAN
  /\ published \in [Sessions -> 0 .. MaxMessages]
  /\ recordings \in Seq([session : Sessions, from : 0 .. MaxMessages, to : 0 .. MaxMessages,
                         active : BOOLEAN])
  /\ {saved, checkpoint} \subseteq [session : Sessions, position : 0 .. MaxMessages]
  /\ source \in {"down", "request", "replay", "live", "ended"}
  /\ rec \in 0 .. Len(recordings)
  /\ image \in [session : Sessions, position : Nat]
  /\ window \in Seq(1 .. MaxMessages) /\ Len(window) <= WindowSize
  /\ seen \subseteq 1 .. MaxMessages
  /\ queue \in Seq(Messages) /\ Len(queue) <= PoolSize
  /\ {processed, repeated, missed, abandoned, repeatable} \subseteq SUBSET Messages

(* Every message behind the reading position is processed, waits for the   *)
(* worker, or is lost for a reason a person can name: no buffer was free,  *)
(* its number was already known, the process began behind it (live, or at  *)
(* a position that was asked for or that belongs to another session), or   *)
(* it was queued when a process ended and the file was already past it.    *)
(* A crash and a replay from the file of the same session lose nothing     *)
(* else.                                                                   *)
RestartLossIsExplained ==
  source # "down" =>
    UpTo(image.session, image.position)
      \subseteq processed \cup ToSet(queue) \cup missed \cup abandoned

(* The handler gets a message again only if the file did not cover it when *)
(* the process that had processed it ended, or if a later process began at *)
(* a position that does not belong to the session.  In particular nothing  *)
(* is repeated after a clean shutdown.                                     *)
RepeatIsExplained == repeated \subseteq repeatable

\* The message has not been delivered yet.
Ahead(m) == image.session = m[1] /\ image.position < m[2]

(* What the archive or the live stream has for a process that is up        *)
(* reaches the handler, or is passed over for one of the reasons above,    *)
(* also when the replay turns into live mode, the recording ends or the    *)
(* publisher is gone, unless the process ends or the merge fails.          *)
ReceivableReachHandler ==
  \A m \in Messages :
    (/\ Ahead(m)
     /\ \/ source = "replay" /\ m[2] <= recordings[rec].to
        \/ source = "live" /\ m[2] <= published[m[1]])
      ~> \/ ~ Ahead(m) /\ m \in processed \cup missed
         \/ source \in {"down", "ended"}
=============================================================================
