-------------------------- MODULE Recovery_proofs --------------------------
(***************************************************************************)
(* Proofs about restarts, for any number of sessions, messages, recordings *)
(* and processes, any pool and window: what is behind the reading position *)
(* is accounted for, and what the handler sees twice had a reason.         *)
(***************************************************************************)
EXTENDS Recovery, TLAPS

\* What the models of the archive and of the numbering keep true.
StreamInv ==
  /\ \A s \in Sessions : s > session => published[s] = 0
  /\ \A r \in DOMAIN recordings :
       /\ recordings[r].session <= session
       /\ recordings[r].to <= published[recordings[r].session]
       /\ Recorded(r) => /\ publishing /\ recordings[r].session = session
                         /\ recordings[r].to = published[session]

\* The message was published.
Sent(m) == m[2] <= published[m[1]]

ReaderInv ==
  /\ source = "down" => queue = <<>> /\ seen = {}
  /\ source \in {"request", "replay"} =>
       rec \in DOMAIN recordings /\ image.session = recordings[rec].session
  /\ source = "live" => image.session <= session
  /\ \A m \in processed \cup ToSet(queue) : Sent(m)

\* What became of the messages up to a position of a session.
Accounted(p) ==
  UpTo(p.session, p.position) \subseteq processed \cup ToSet(queue) \cup missed \cup abandoned

(* The reading position alone is not inductive: a restart goes back to the *)
(* file, a flush takes the checkpoint.                                     *)
LossInv ==
  /\ Accounted(saved)
  /\ source # "down" => Accounted(checkpoint) /\ Accounted(image)

\* Should the message come again, the worker or the history knows it.
Expected(m) == m \in processed => m \in repeatable \/ m[2] \in seen

(* What is still to come: the rest of the session, the sessions after it,  *)
(* and after a restart what follows the position of the file.              *)
RepeatInv ==
  /\ repeated \subseteq repeatable
  /\ \A m \in ToSet(queue) : Expected(m)
  /\ source \in {"request", "replay", "live"} =>
       \A m \in Messages : Ahead(m) => Expected(m)
  /\ source = "live" => \A m \in processed \cup ToSet(queue) : m[1] <= image.session
  /\ source = "down" =>
       \A m \in processed : m[1] = saved.session /\ m[2] > saved.position => m \in repeatable

\* TypeOK, variable by variable.
Recordings == [session : Sessions, from : 0 .. MaxMessages, to : 0 .. MaxMessages, active : BOOLEAN]

Checkpoints == [session : Sessions, position : 0 .. MaxMessages]

TypeInv ==
  /\ session \in Sessions /\ publishing \in BOOLEAN
  /\ published \in [Sessions -> 0 .. MaxMessages]
  /\ recordings \in Seq(Recordings)
  /\ saved \in Checkpoints /\ checkpoint \in Checkpoints
  /\ source \in {"down", "request", "replay", "live", "ended"}
  /\ rec \in 0 .. Len(recordings)
  /\ image \in [session : Sessions, position : Nat]
  /\ window \in Seq(1 .. MaxMessages) /\ Len(window) <= WindowSize
  /\ seen \subseteq 1 .. MaxMessages
  /\ queue \in Seq(Messages) /\ Len(queue) <= PoolSize
  /\ processed \subseteq Messages /\ repeated \subseteq Messages /\ missed \subseteq Messages
  /\ abandoned \subseteq Messages /\ repeatable \subseteq Messages

BaseInv == TypeInv /\ StreamInv /\ ReaderInv

-----------------------------------------------------------------------------
\* Sequences as sets, and the messages up to a position.

LEMMA ToSetOfEmpty == ToSet(<<>>) = {}
  BY DEF ToSet

LEMMA ToSetOfAppend ==
  ASSUME NEW S, NEW q \in Seq(S), NEW m \in S
  PROVE  ToSet(Append(q, m)) = ToSet(q) \cup {m}
<1>1. Append(q, m) \in Seq(S) /\ Len(Append(q, m)) = Len(q) + 1
  OBVIOUS
<1>2. \A i \in 1 .. Len(q) : Append(q, m)[i] = q[i]
  OBVIOUS
<1>3. Append(q, m)[Len(q) + 1] = m
  OBVIOUS
<1> QED
  BY <1>1, <1>2, <1>3 DEF ToSet

LEMMA ToSetOfTail ==
  ASSUME NEW S, NEW q \in Seq(S), q # <<>>
  PROVE  /\ Head(q) \in S /\ Tail(q) \in Seq(S) /\ Len(Tail(q)) = Len(q) - 1
         /\ ToSet(q) = {Head(q)} \cup ToSet(Tail(q))
<1>1. Head(q) \in S /\ Tail(q) \in Seq(S) /\ Len(Tail(q)) = Len(q) - 1 /\ Len(q) >= 1
  OBVIOUS
<1>2. \A i \in 1 .. Len(Tail(q)) : Tail(q)[i] = q[i + 1]
  OBVIOUS
<1>3. Head(q) = q[1]
  OBVIOUS
<1>4. \A i \in 2 .. Len(q) : i - 1 \in 1 .. Len(Tail(q)) /\ Tail(q)[i - 1] = q[i]
  BY <1>1, <1>2
<1>5. ToSet(q) \subseteq {Head(q)} \cup ToSet(Tail(q))
  <2> SUFFICES ASSUME NEW i \in 1 .. Len(q), i # 1
               PROVE  q[i] \in ToSet(Tail(q))
    BY <1>1, <1>3 DEF ToSet
  <2>1. i - 1 \in 1 .. Len(Tail(q)) /\ Tail(q)[i - 1] = q[i]
    BY <1>4
  <2>2. i - 1 \in DOMAIN Tail(q)
    BY <2>1, <1>1
  <2> QED
    BY <2>1, <2>2 DEF ToSet
<1>6. {Head(q)} \cup ToSet(Tail(q)) \subseteq ToSet(q)
  <2> SUFFICES ASSUME NEW i \in 1 .. Len(Tail(q))
               PROVE  Tail(q)[i] \in ToSet(q)
    BY <1>1, <1>3 DEF ToSet
  <2>1. i + 1 \in 1 .. Len(q) /\ Tail(q)[i] = q[i + 1]
    BY <1>1, <1>2
  <2> QED
    BY <2>1 DEF ToSet
<1> QED
  BY <1>1, <1>5, <1>6

LEMMA ToSetWithin ==
  ASSUME NEW S, NEW q \in Seq(S)
  PROVE  ToSet(q) \subseteq S
  BY DEF ToSet

LEMMA UpToNext ==
  ASSUME NEW s \in Sessions, NEW p \in Nat
  PROVE  UpTo(s, p + 1) \subseteq UpTo(s, p) \cup {<<s, p + 1>>}
  BY RecoveryAssumption DEF UpTo, Messages, Sessions, RecoveryAssumption

LEMMA Bounds ==
  /\ MaxMessages \in Nat \ {0} /\ MaxSessions \in Nat \ {0} /\ PoolSize \in Nat /\ WindowSize \in Nat
  /\ Positions \subseteq Nat /\ Sessions \subseteq Nat \ {0}
  BY RecoveryAssumption DEF RecoveryAssumption, Sessions

LEMMA MessageParts ==
  ASSUME NEW m \in Messages
  PROVE  m = <<m[1], m[2]>> /\ m[1] \in Sessions /\ m[2] \in 1 .. MaxMessages
  BY DEF Messages

LEMMA NowhereType == Nowhere \in Checkpoints /\ Nowhere.session = 1 /\ Nowhere.position = 0
  BY Bounds DEF Nowhere, Checkpoints, Sessions

LEMMA BaseInvInit == Init => BaseInv
<1> SUFFICES ASSUME Init PROVE BaseInv
  OBVIOUS
<1>1. TypeInv
  <2>1. 1 \in Sessions /\ Nowhere \in [session : Sessions, position : Nat]
    BY Bounds DEF Sessions, Nowhere
  <2>2. published \in [Sessions -> 0 .. MaxMessages]
    BY Bounds DEF Init
  <2> QED
    BY <2>1, <2>2, NowhereType, Bounds DEF Init, TypeInv
<1>2. StreamInv
  <2>1. DOMAIN recordings = {}
    BY DEF Init
  <2> QED
    BY <2>1 DEF Init, StreamInv
<1>3. ReaderInv
  BY ToSetOfEmpty DEF Init, ReaderInv
<1> QED
  BY <1>1, <1>2, <1>3 DEF BaseInv

-----------------------------------------------------------------------------
\* Publisher and archive.

LEMMA PublishKeepsBase ==
  ASSUME BaseInv, Publish
  PROVE  BaseInv'
<1> USE DEF BaseInv
<1>1. /\ session \in Sessions /\ published \in [Sessions -> 0 .. MaxMessages]
      /\ recordings \in Seq(Recordings) /\ published[session] < MaxMessages
  BY DEF TypeInv, Publish
<1>2. /\ published' = [published EXCEPT ![session] = published[session] + 1]
      /\ published' \in [Sessions -> 0 .. MaxMessages]
  BY <1>1, Bounds DEF Publish
<1>3. \A r \in DOMAIN recordings :
        /\ recordings[r] \in Recordings
        /\ Recorded(r) => recordings[r].session = session /\ recordings[r].to = published[session]
  BY <1>1 DEF StreamInv
<1>4. /\ DOMAIN recordings' = DOMAIN recordings
      /\ \A r \in DOMAIN recordings :
           recordings'[r] = IF Recorded(r) THEN [recordings[r] EXCEPT !.to = @ + 1] ELSE recordings[r]
  BY DEF Publish
<1>5. \A r \in DOMAIN recordings :
        /\ recordings'[r] \in Recordings
        /\ recordings'[r].session = recordings[r].session
        /\ recordings'[r].active = recordings[r].active
        /\ recordings'[r].to = IF Recorded(r) THEN recordings[r].to + 1 ELSE recordings[r].to
  <2> SUFFICES ASSUME NEW r \in DOMAIN recordings
               PROVE  /\ recordings'[r] \in Recordings
                      /\ recordings'[r].session = recordings[r].session
                      /\ recordings'[r].active = recordings[r].active
                      /\ recordings'[r].to =
                           IF Recorded(r) THEN recordings[r].to + 1 ELSE recordings[r].to
    OBVIOUS
  <2>1. CASE Recorded(r)
    <3>1. recordings[r].to + 1 \in 0 .. MaxMessages
      BY <2>1, <1>1, <1>3, Bounds
    <3>2. recordings'[r] = [recordings[r] EXCEPT !.to = @ + 1]
      BY <2>1, <1>4
    <3> QED
      BY <2>1, <3>1, <3>2, <1>3 DEF Recordings
  <2>2. CASE ~ Recorded(r)
    BY <2>2, <1>3, <1>4
  <2> QED
    BY <2>1, <2>2
<1>6. recordings' \in Seq(Recordings) /\ Len(recordings') = Len(recordings)
  <2>1. recordings' = [r \in 1 .. Len(recordings) |-> recordings'[r]]
    BY <1>1 DEF Publish
  <2> QED
    BY <2>1, <1>1, <1>4, <1>5
<1>7. TypeInv'
  BY <1>2, <1>6 DEF BaseInv, TypeInv, Publish, reader, memory, history
<1>8. \A s \in Sessions :
        /\ published[s] \in Nat /\ published'[s] \in Nat
        /\ published[s] <= published'[s]
        /\ s # session => published'[s] = published[s]
  <2>1. \A s \in Sessions : published[s] \in Nat
    BY <1>1, Bounds
  <2>2. \A s \in Sessions :
          published'[s] = IF s = session THEN published[s] + 1 ELSE published[s]
    BY <1>1, <1>2
  <2> QED
    BY <2>1, <2>2
<1>9. StreamInv'
  <2>1. \A s \in Sessions : s > session' => published'[s] = 0
    BY <1>1, <1>2, <1>8, Bounds DEF StreamInv, Publish
  <2>2. \A r \in DOMAIN recordings :
          /\ recordings'[r].session <= session'
          /\ recordings'[r].to <= published'[recordings'[r].session]
          /\ Recorded(r)' => /\ publishing' /\ recordings'[r].session = session'
                             /\ recordings'[r].to = published'[session']
    <3> SUFFICES ASSUME NEW r \in DOMAIN recordings
                 PROVE  /\ recordings'[r].session <= session'
                        /\ recordings'[r].to <= published'[recordings'[r].session]
                        /\ Recorded(r)' => /\ publishing' /\ recordings'[r].session = session'
                                           /\ recordings'[r].to = published'[session']
      OBVIOUS
    <3>1. session' = session /\ publishing' /\ (Recorded(r)' <=> Recorded(r))
      BY <1>5 DEF Publish, Recorded
    <3>2. /\ recordings[r].session \in Sessions /\ recordings[r].to \in Nat
          /\ recordings[r].session <= session /\ recordings[r].to <= published[recordings[r].session]
      BY <1>3, Bounds DEF StreamInv, Recordings
    <3>3. published'[session] = published[session] + 1
      BY <1>1, <1>2
    <3>4. CASE Recorded(r)
      BY <3>1, <3>2, <3>3, <3>4, <1>3, <1>5
    <3>5. CASE ~ Recorded(r)
      <4>1. published[recordings[r].session] <= published'[recordings[r].session]
        BY <3>2, <1>8
      <4>2. /\ published[recordings[r].session] \in Nat
            /\ published'[recordings[r].session] \in Nat
        BY <3>2, <1>8
      <4>3. recordings'[r].session = recordings[r].session /\ recordings'[r].to = recordings[r].to
        BY <3>5, <1>5
      <4>4. recordings'[r].to <= published'[recordings'[r].session]
        BY <3>2, <4>1, <4>2, <4>3
      <4>5. recordings'[r].session <= session' /\ ~ Recorded(r)'
        BY <3>1, <3>2, <3>5, <4>3
      <4> QED
        BY <4>4, <4>5
    <3> QED
      BY <3>4, <3>5
  <2> QED
    BY <2>1, <2>2, <1>4 DEF StreamInv
<1>10. ReaderInv'
  <2>1. \A m \in Messages : Sent(m) => Sent(m)'
    BY <1>8, <1>1, <1>2, MessageParts DEF Sent
  <2>2. ToSet(queue) \subseteq Messages /\ processed \subseteq Messages
    BY ToSetWithin DEF TypeInv
  <2> QED
    BY <2>1, <2>2, <1>4, <1>5 DEF ReaderInv, Publish, reader, memory, history
<1> QED
  BY <1>7, <1>9, <1>10

LEMMA BeginRecordingKeepsBase ==
  ASSUME BaseInv, BeginRecording
  PROVE  BaseInv'
<1> USE DEF BaseInv
<1>1. session \in Sessions /\ published[session] \in 0 .. MaxMessages /\ recordings \in Seq(Recordings)
  BY DEF TypeInv
<1>2. PICK e \in Recordings :
        /\ recordings' = Append(recordings, e)
        /\ e.session = session /\ e.to = published[session] /\ e.active
  <2>1. [session |-> session, from |-> published[session], to |-> published[session], active |-> TRUE]
          \in Recordings
    BY <1>1 DEF Recordings
  <2> QED
    BY <2>1 DEF BeginRecording
<1>3. publishing /\ UNCHANGED <<session, publishing, published>>
  BY DEF BeginRecording
<1>4. /\ recordings' \in Seq(Recordings) /\ Len(recordings') = Len(recordings) + 1
      /\ DOMAIN recordings' = 1 .. Len(recordings) + 1 /\ DOMAIN recordings = 1 .. Len(recordings)
  BY <1>1, <1>2, <1>3
<1>5. /\ \A r \in DOMAIN recordings : recordings'[r] = recordings[r]
      /\ recordings'[Len(recordings) + 1] = e
  BY <1>1, <1>2, <1>3
<1>6. TypeInv'
  BY <1>3, <1>4 DEF TypeInv, BeginRecording, reader, memory, history
<1>7. StreamInv'
  <2>2. session \in Nat /\ published[session] \in Nat
    BY <1>1, Bounds
  <2>3. \A r \in DOMAIN recordings' :
          /\ recordings'[r].session <= session'
          /\ recordings'[r].to <= published'[recordings'[r].session]
          /\ Recorded(r)' => /\ publishing' /\ recordings'[r].session = session'
                             /\ recordings'[r].to = published'[session']
    <3> SUFFICES ASSUME NEW r \in DOMAIN recordings'
                 PROVE  /\ recordings'[r].session <= session'
                        /\ recordings'[r].to <= published'[recordings'[r].session]
                        /\ Recorded(r)' => /\ publishing' /\ recordings'[r].session = session'
                                           /\ recordings'[r].to = published'[session']
      OBVIOUS
    <3>1. CASE r \in DOMAIN recordings
      BY <3>1, <1>3, <1>5 DEF StreamInv, Recorded
    <3>2. CASE r = Len(recordings) + 1
      BY <3>2, <1>2, <1>3, <1>5, <2>2
    <3> QED
      BY <3>1, <3>2, <1>1, <1>4
  <2> QED
    BY <2>3, <1>3 DEF StreamInv
<1>8. ReaderInv'
  BY <1>3, <1>4, <1>5 DEF ReaderInv, BeginRecording, reader, memory, history, Sent
<1> QED
  BY <1>6, <1>7, <1>8

LEMMA RecordingParts ==
  ASSUME TypeInv, NEW r \in DOMAIN recordings
  PROVE  /\ recordings[r] \in Recordings
         /\ recordings[r].session \in Sessions /\ recordings[r].to \in 0 .. MaxMessages
<1>1. recordings[r] \in Recordings
  BY DEF TypeInv
<1> QED
  BY <1>1 DEF Recordings

LEMMA PublishedParts ==
  ASSUME TypeInv, NEW s \in Sessions
  PROVE  published[s] \in 0 .. MaxMessages /\ published[s] \in Nat
<1>1. published[s] \in 0 .. MaxMessages
  BY DEF TypeInv
<1> QED
  BY <1>1, Bounds

LEMMA EndedRecordings ==
  ASSUME TypeInv
  PROVE  /\ Ended \in Seq(Recordings) /\ Len(Ended) = Len(recordings)
         /\ DOMAIN Ended = DOMAIN recordings
         /\ \A r \in DOMAIN recordings :
              /\ Ended[r].session = recordings[r].session /\ Ended[r].to = recordings[r].to
              /\ ~ Ended[r].active
<1>1. recordings \in Seq(Recordings)
  BY DEF TypeInv
<1>2. \A r \in DOMAIN recordings :
        /\ Ended[r] \in Recordings
        /\ Ended[r].session = recordings[r].session /\ Ended[r].to = recordings[r].to
        /\ ~ Ended[r].active
  <2> SUFFICES ASSUME NEW r \in DOMAIN recordings
               PROVE  /\ Ended[r] \in Recordings
                      /\ Ended[r].session = recordings[r].session /\ Ended[r].to = recordings[r].to
                      /\ ~ Ended[r].active
    OBVIOUS
  <2>1. recordings[r] \in Recordings
    BY <1>1
  <2>2. Ended[r] = [recordings[r] EXCEPT !.active = FALSE]
    BY DEF Ended
  <2> QED
    BY <2>1, <2>2 DEF Recordings
<1>3. Ended = [r \in 1 .. Len(recordings) |-> Ended[r]] /\ DOMAIN recordings = 1 .. Len(recordings)
  BY <1>1 DEF Ended
<1>4. Ended \in Seq(Recordings) /\ Len(Ended) = Len(recordings)
  BY <1>1, <1>2, <1>3
<1>5. DOMAIN Ended = DOMAIN recordings
  BY DEF Ended
<1> QED
  BY <1>2, <1>4, <1>5

LEMMA EndingKeepsBase ==
  ASSUME BaseInv, EndRecording \/ PublisherEnds
  PROVE  BaseInv'
<1> USE DEF BaseInv
<1>1. /\ recordings' = Ended /\ publishing' \in BOOLEAN
      /\ UNCHANGED <<session, published, saved, processes, reader, memory, history>>
  BY DEF TypeInv, EndRecording, PublisherEnds
<1>2. TypeInv'
  BY <1>1, EndedRecordings DEF TypeInv, reader, memory, history
<1>3. StreamInv'
  BY <1>1, EndedRecordings DEF StreamInv, Recorded
<1>4. ReaderInv'
  BY <1>1, EndedRecordings DEF ReaderInv, reader, memory, history, Sent
<1> QED
  BY <1>2, <1>3, <1>4

LEMMA PublisherStartsKeepsBase ==
  ASSUME BaseInv, PublisherStarts
  PROVE  BaseInv'
<1> USE DEF BaseInv
<1>1. /\ ~ publishing /\ publishing' = TRUE /\ session' = session + 1 /\ session < MaxSessions
      /\ UNCHANGED <<published, recordings, saved, processes, reader, memory, history>>
  BY DEF PublisherStarts
<1>2. session \in Nat /\ session' \in Sessions
  BY <1>1, Bounds DEF TypeInv, Sessions
<1>3. TypeInv'
  BY <1>1, <1>2 DEF TypeInv, reader, memory, history
<1>4. StreamInv'
  <2>1. \A r \in DOMAIN recordings : recordings[r].session \in Nat
    BY RecordingParts, Bounds
  <2>2. \A r \in DOMAIN recordings : recordings[r].session <= session + 1
    BY <2>1, <1>2 DEF StreamInv
  <2>3. \A s \in Sessions : s > session + 1 => published[s] = 0
    BY <1>2, Bounds DEF StreamInv
  <2> QED
    BY <2>2, <2>3, <1>1 DEF StreamInv, Recorded
<1>5. ReaderInv'
  <2>1. image.session \in Nat
    BY Bounds DEF TypeInv
  <2> QED
    BY <2>1, <1>1, <1>2 DEF ReaderInv, reader, memory, history, Sent
<1> QED
  BY <1>3, <1>4, <1>5

-----------------------------------------------------------------------------
\* The start of a process.

LEMMA UpToMessages ==
  ASSUME NEW s, NEW p
  PROVE  UpTo(s, p) \subseteq Messages
  BY DEF UpTo

LEMMA StartLiveKeepsBase ==
  ASSUME BaseInv, StartLive
  PROVE  BaseInv'
<1> USE DEF BaseInv
<1>1. /\ source' = "live" /\ rec' = 0 /\ image' = [session |-> session, position |-> published[session]]
      /\ missed' \subseteq missed \cup Messages /\ checkpoint' = saved
      /\ UNCHANGED <<stream, saved, window, seen, queue, processed, repeated, abandoned, repeatable>>
  BY UpToMessages DEF StartLive, NewProcess
<1>2. session \in Sessions /\ published[session] \in Nat
  BY Bounds DEF TypeInv
<1>3. TypeInv'
  BY <1>1, <1>2 DEF TypeInv, stream
<1>4. StreamInv'
  BY <1>1 DEF StreamInv, stream, Recorded
<1>5. ReaderInv'
  BY <1>1, <1>2, Bounds DEF ReaderInv, stream, Sent
<1> QED
  BY <1>3, <1>4, <1>5

LEMMA StartReplayKeepsBase ==
  ASSUME BaseInv, NEW requested \in Positions, StartReplay(requested)
  PROVE  BaseInv'
<1> USE DEF BaseInv
<1>1. /\ source' = "request" /\ rec' = Len(recordings)
      /\ image' = [session |-> recordings[rec'].session, position |-> ResumePosition(requested)]
      /\ missed' \subseteq missed \cup Messages /\ repeatable' \subseteq repeatable \cup Messages
      /\ checkpoint' = saved /\ recordings # <<>>
      /\ UNCHANGED <<stream, saved, window, seen, queue, processed, repeated, abandoned>>
  BY UpToMessages DEF StartReplay, NewProcess
<1>2. rec' \in DOMAIN recordings /\ rec' \in 0 .. Len(recordings)
  BY <1>1 DEF TypeInv
<1>3. recordings[rec'].session \in Sessions
  BY <1>2, RecordingParts
<1>4. ResumePosition(requested) \in Nat
  BY Bounds DEF ResumePosition, TypeInv, Checkpoints
<1>5. TypeInv'
  BY <1>1, <1>2, <1>3, <1>4 DEF TypeInv, stream
<1>6. StreamInv'
  BY <1>1 DEF StreamInv, stream, Recorded
<1>7. ReaderInv'
  BY <1>1, <1>2 DEF ReaderInv, stream, Sent
<1> QED
  BY <1>5, <1>6, <1>7

-----------------------------------------------------------------------------
\* The threads of a process.

\* What Deliver does, in terms of sets: the message is dropped, or queued and known.
Next_m == <<image.session, image.position + 1>>

Dropped ==
  /\ missed' = missed \cup ({Next_m} \ processed)
  /\ UNCHANGED <<memory, abandoned>>

Queued ==
  /\ queue' \in Seq(Messages) /\ Len(queue') <= PoolSize
  /\ ToSet(queue') = ToSet(queue) \cup {Next_m}
  /\ window' \in Seq(1 .. MaxMessages) /\ Len(window') <= WindowSize
  /\ checkpoint' = image' /\ UNCHANGED seen
  /\ missed' = missed \ {Next_m} /\ abandoned' = abandoned \ {Next_m}

LEMMA RememberType ==
  ASSUME TypeInv, NEW p \in 1 .. MaxMessages
  PROVE  Remember(p) \in Seq(1 .. MaxMessages) /\ Len(Remember(p)) <= WindowSize
<1>1. window \in Seq(1 .. MaxMessages) /\ Len(window) <= WindowSize
  BY DEF TypeInv
<1>2. /\ Append(window, p) \in Seq(1 .. MaxMessages)
      /\ Len(Append(window, p)) = Len(window) + 1 /\ Append(window, p) # <<>>
  BY <1>1
<1>3. Tail(Append(window, p)) \in Seq(1 .. MaxMessages) /\ Len(Tail(Append(window, p))) = Len(window)
  BY <1>1, <1>2
<1>4. CASE Len(Append(window, p)) > WindowSize
  BY <1>1, <1>3, <1>4 DEF Remember
<1>5. CASE ~ Len(Append(window, p)) > WindowSize
  <2>1. Remember(p) = Append(window, p)
    BY <1>5 DEF Remember
  <2>2. Len(Append(window, p)) \in Nat
    BY <1>2
  <2> QED
    BY <1>2, <1>5, <2>1, <2>2, Bounds
<1> QED
  BY <1>4, <1>5

LEMMA DeliverSteps ==
  ASSUME BaseInv, Deliver
  PROVE  /\ Next_m \in Messages /\ Sent(Next_m) /\ source \in {"replay", "live"}
         /\ image' = [session |-> image.session, position |-> image.position + 1]
         /\ UNCHANGED <<stream, saved, processes, source, rec, processed, repeated, repeatable>>
         /\ Dropped \/ Queued
<1> USE DEF BaseInv
<1>1. image \in [session : Sessions, position : Nat]
  BY DEF TypeInv
<1>2. /\ image' = [session |-> image.session, position |-> image.position + 1]
      /\ UNCHANGED <<stream, saved, processes, source, rec, processed, repeated, repeatable>>
      /\ image.position < Available
  BY <1>1 DEF Deliver
<1>3. /\ source \in {"replay", "live"}
      /\ Available <= published[image.session] /\ Available \in Nat
  <2>1. published[image.session] \in Nat
    BY <1>1, PublishedParts
  <2>2. CASE source = "replay"
    <3>1. rec \in DOMAIN recordings /\ image.session = recordings[rec].session
      BY <2>2 DEF ReaderInv
    <3>2. recordings[rec].to <= published[image.session]
      BY <3>1 DEF StreamInv
    <3>3. recordings[rec].to \in Nat
      BY <3>1, RecordingParts, Bounds
    <3>4. Available = recordings[rec].to
      BY <2>2 DEF Available
    <3> QED
      BY <2>2, <3>2, <3>3, <3>4
  <2>3. CASE source = "live"
    BY <2>3, <2>1 DEF Available
  <2>4. CASE source \notin {"replay", "live"}
    <3>1. Available = 0
      BY <2>4 DEF Available
    <3> QED
      BY <3>1, <1>1, <1>2
  <2> QED
    BY <2>2, <2>3, <2>4
<1>4. published[image.session] \in 0 .. MaxMessages
  BY <1>1 DEF TypeInv
<1>5. image.position + 1 \in 1 .. MaxMessages /\ image.position + 1 <= published[image.session]
  BY <1>1, <1>2, <1>3, <1>4, Bounds
<1>6. Next_m \in Messages /\ Sent(Next_m)
  BY <1>1, <1>5 DEF Next_m, Messages, Sent
<1>7. image'.position = image.position + 1
  BY <1>2
<1>8. ASSUME Len(queue) = PoolSize \/ image'.position \in ToSet(window)
      PROVE  Dropped
  <2>1. <<image.session, image'.position>> = Next_m
    BY <1>7 DEF Next_m
  <2>2. missed' = missed \cup ({<<image.session, image'.position>>} \ processed)
        /\ UNCHANGED <<memory, abandoned>>
    BY <1>8 DEF Deliver
  <2> QED
    BY <2>1, <2>2 DEF Dropped
<1>9. ASSUME ~ (Len(queue) = PoolSize \/ image'.position \in ToSet(window))
      PROVE  Queued
  <2>1. /\ window' = Remember(image.position + 1) /\ queue' = Append(queue, Next_m)
        /\ checkpoint' = image' /\ UNCHANGED seen
        /\ missed' = missed \ {Next_m} /\ abandoned' = abandoned \ {Next_m}
    BY <1>7, <1>9 DEF Deliver, Next_m
  <2>2. queue \in Seq(Messages) /\ Len(queue) \in Nat /\ Len(queue) <= PoolSize
    BY DEF TypeInv
  <2>3. queue' \in Seq(Messages) /\ Len(queue') = Len(queue) + 1
    BY <1>6, <2>1, <2>2
  <2>4. ToSet(queue') = ToSet(queue) \cup {Next_m}
    BY <1>6, <2>1, <2>2, ToSetOfAppend
  <2>5. Len(queue) + 1 <= PoolSize
    BY <1>9, <2>2, Bounds
  <2>6. window' \in Seq(1 .. MaxMessages) /\ Len(window') <= WindowSize
    BY <1>5, <2>1, RememberType
  <2> QED
    BY <2>1, <2>3, <2>4, <2>5, <2>6 DEF Queued
<1> QED
  BY <1>2, <1>3, <1>6, <1>8, <1>9

LEMMA DeliverKeepsBase ==
  ASSUME BaseInv, Deliver
  PROVE  BaseInv'
<1> USE DeliverSteps DEF BaseInv
<1>1. image.session \in Sessions /\ image.position + 1 \in Nat
  BY DEF TypeInv
<1>2. image' \in [session : Sessions, position : Nat] /\ image'.session = image.session
  BY <1>1
<1>3. Next_m[2] = image.position + 1 /\ image'.position = image.position + 1
  BY DEF Next_m
<1>4. image' \in Checkpoints
  BY <1>2, <1>3, MessageParts DEF Checkpoints
<1>5. TypeInv'
  <2>1. CASE Dropped
    BY <2>1, <1>2 DEF Dropped, TypeInv, stream, memory
  <2>2. CASE Queued
    BY <2>2, <1>2, <1>4 DEF Queued, TypeInv, stream
  <2> QED
    BY <2>1, <2>2
<1>6. StreamInv'
  BY DEF StreamInv, stream, Recorded
<1>7. ReaderInv'
  BY <1>2 DEF ReaderInv, Dropped, Queued, stream, memory, Sent
<1> QED
  BY <1>5, <1>6, <1>7

LEMMA SubscriberKeepsBase ==
  ASSUME BaseInv, SubscriberThread
  PROVE  BaseInv'
<1> USE DEF BaseInv
<1>1. CASE ReplayBegins \/ MergeFails
  <2>1. /\ source' \in {"replay", "ended"} /\ source \in {"request", "replay"}
        /\ UNCHANGED <<stream, saved, processes, rec, image, memory, history>>
    BY <1>1 DEF ReplayBegins, MergeFails
  <2> QED
    BY <2>1 DEF TypeInv, StreamInv, ReaderInv, Recorded, Sent, stream, memory, history
<1>2. CASE Merge
  <2>1. /\ source' = "live" /\ image.session = session
        /\ UNCHANGED <<stream, saved, processes, rec, image, memory, history>>
    BY <1>2 DEF Merge
  <2>2. session <= session
    BY Bounds DEF TypeInv
  <2> QED
    BY <2>1, <2>2 DEF TypeInv, StreamInv, ReaderInv, Recorded, Sent, stream, memory, history
<1>3. CASE NewImage
  <2>1. /\ image' = [session |-> image.session + 1, position |-> 0] /\ image.session < session
        /\ source = "live" /\ UNCHANGED <<stream, saved, processes, source, rec, memory, history>>
    BY <1>3 DEF NewImage
  <2>2. image.session + 1 \in Sessions /\ image.session + 1 <= session
    BY <2>1, Bounds DEF TypeInv, Sessions
  <2> QED
    BY <2>1, <2>2 DEF TypeInv, StreamInv, ReaderInv, Recorded, Sent, stream, memory, history
<1> QED
  BY <1>1, <1>2, <1>3, DeliverKeepsBase DEF SubscriberThread

\* What Process does: the head of the queue is dropped by its number, or processed.
LEMMA ProcessSteps ==
  ASSUME BaseInv, Process
  PROVE  /\ Head(queue) \in Messages /\ queue' \in Seq(Messages) /\ Len(queue') <= PoolSize
         /\ ToSet(queue) = {Head(queue)} \cup ToSet(queue')
         /\ source # "down"
         /\ UNCHANGED <<stream, saved, processes, reader, checkpoint, window, abandoned, repeatable>>
         /\ \/ /\ Head(queue)[2] \in seen
               /\ missed' = missed \cup ({Head(queue)} \ processed)
               /\ UNCHANGED <<seen, processed, repeated>>
            \/ /\ Head(queue)[2] \notin seen
               /\ seen' = seen \cup {Head(queue)[2]}
               /\ processed' = processed \cup {Head(queue)}
               /\ repeated' = repeated \cup ({Head(queue)} \cap processed)
               /\ UNCHANGED missed
<1>1. queue \in Seq(Messages) /\ Len(queue) <= PoolSize /\ queue # <<>> /\ queue' = Tail(queue)
  BY DEF BaseInv, TypeInv, Process
<1>2. /\ Head(queue) \in Messages /\ queue' \in Seq(Messages) /\ Len(queue') = Len(queue) - 1
      /\ ToSet(queue) = {Head(queue)} \cup ToSet(queue')
  BY <1>1, ToSetOfTail
<1>3. Len(queue) \in Nat
  BY <1>1
<1>4. Len(queue') <= PoolSize
  BY <1>1, <1>2, <1>3, Bounds
<1>5. /\ source # "down"
      /\ UNCHANGED <<stream, saved, processes, reader, checkpoint, window, abandoned, repeatable>>
  BY DEF Process
<1>6. \/ /\ Head(queue)[2] \in seen
         /\ missed' = missed \cup ({Head(queue)} \ processed)
         /\ UNCHANGED <<seen, processed, repeated>>
      \/ /\ Head(queue)[2] \notin seen
         /\ seen' = seen \cup {Head(queue)[2]}
         /\ processed' = processed \cup {Head(queue)}
         /\ repeated' = repeated \cup ({Head(queue)} \cap processed)
         /\ UNCHANGED missed
  BY DEF Process
<1> QED
  BY <1>2, <1>4, <1>5, <1>6

LEMMA ProcessKeepsBase ==
  ASSUME BaseInv, Process
  PROVE  BaseInv'
<1> USE ProcessSteps DEF BaseInv
<1>1. Head(queue)[2] \in 1 .. MaxMessages
  BY MessageParts
<1>2. TypeInv'
  BY <1>1 DEF TypeInv, stream, reader
<1>3. StreamInv'
  BY DEF StreamInv, stream, Recorded
<1>4. ReaderInv'
  BY DEF ReaderInv, stream, reader, Sent
<1> QED
  BY <1>2, <1>3, <1>4

\* What Stop and Crash do: they differ in the file alone.
LEMMA EndSteps ==
  ASSUME Stop \/ Crash
  PROVE  /\ source # "down" /\ source' = "down" /\ rec' = 0 /\ image' = Nowhere
         /\ checkpoint' = Nowhere /\ window' = <<>> /\ seen' = {} /\ queue' = <<>>
         /\ saved' \in {saved, checkpoint}
         /\ abandoned' = abandoned \cup {m \in ToSet(queue) : Covered(m)}
         /\ repeatable' = repeatable \cup {m \in processed : ~ Covered(m)}
         /\ UNCHANGED <<stream, processes, processed, repeated, missed>>
  BY DEF Stop, Crash, ProcessEnds

LEMMA EndKeepsBase ==
  ASSUME BaseInv, Stop \/ Crash
  PROVE  BaseInv'
<1> USE EndSteps DEF BaseInv
<1>1. TypeInv'
  <2>1. 1 \in Sessions
    BY Bounds DEF Sessions
  <2>2. Nowhere \in [session : Sessions, position : Nat]
    BY <2>1 DEF Nowhere
  <2>3. ToSet(queue) \subseteq Messages
    BY ToSetWithin DEF TypeInv
  <2>4. window' \in Seq(1 .. MaxMessages) /\ Len(window') <= WindowSize
        /\ queue' \in Seq(Messages) /\ Len(queue') <= PoolSize
    <3>1. window' = <<>> /\ queue' = <<>>
      OBVIOUS
    <3>2. Len(<<>>) <= WindowSize /\ Len(<<>>) <= PoolSize
      BY Bounds
    <3>3. <<>> \in Seq(1 .. MaxMessages) /\ <<>> \in Seq(Messages)
      OBVIOUS
    <3> QED
      BY <3>1, <3>2, <3>3
  <2>5. rec' \in 0 .. Len(recordings')
    BY DEF TypeInv, stream
  <2> QED
    BY <2>2, <2>3, <2>4, <2>5, NowhereType DEF TypeInv, stream
<1>2. StreamInv'
  BY DEF StreamInv, stream, Recorded
<1>3. ReaderInv'
  BY ToSetOfEmpty DEF ReaderInv, stream, Sent
<1> QED
  BY <1>1, <1>2, <1>3

LEMMA BaseInvNext == BaseInv /\ [Next]_vars => BaseInv'
<1> SUFFICES ASSUME BaseInv, [Next]_vars PROVE BaseInv'
  OBVIOUS
<1>1. CASE Outside
  BY <1>1, PublishKeepsBase, BeginRecordingKeepsBase, EndingKeepsBase, PublisherStartsKeepsBase
     DEF Outside
<1>2. CASE Start
  BY <1>2, StartLiveKeepsBase, StartReplayKeepsBase DEF Start
<1>3. CASE SubscriberThread
  BY <1>3, SubscriberKeepsBase
<1>4. CASE Process
  BY <1>4, ProcessKeepsBase
<1>5. CASE Flush
  BY <1>5 DEF Flush, BaseInv, TypeInv, StreamInv, ReaderInv, Recorded, Sent, stream, reader, memory,
              history
<1>6. CASE Stop \/ Crash
  BY <1>6, EndKeepsBase
<1>7. CASE UNCHANGED vars
  BY <1>7 DEF vars, BaseInv, TypeInv, StreamInv, ReaderInv, Recorded, Sent, stream, reader, memory,
              history
<1> QED
  BY <1>1, <1>2, <1>3, <1>4, <1>5, <1>6, <1>7 DEF Next

-----------------------------------------------------------------------------
\* Nothing behind the reading position, the checkpoint or the file gets lost unseen.

Known == processed \cup ToSet(queue) \cup missed \cup abandoned

LEMMA AccountedInKnown ==
  ASSUME NEW p
  PROVE  Accounted(p) <=> UpTo(p.session, p.position) \subseteq Known
  BY DEF Accounted, Known

LEMMA LossInvInit == Init => LossInv
<1> SUFFICES ASSUME Init PROVE LossInv
  OBVIOUS
<1>1. UpTo(saved.session, saved.position) = {}
  BY NowhereType, Bounds DEF Init, UpTo, Messages
<1> QED
  BY <1>1 DEF Init, LossInv, Accounted

LEMMA StartKeepsLoss ==
  ASSUME BaseInv, LossInv, Start
  PROVE  LossInv'
<1>1. CASE StartLive
  <2>1. /\ image' = [session |-> session, position |-> published[session]]
        /\ missed' = missed \cup (UpTo(session, published[session]) \ processed)
        /\ checkpoint' = saved /\ UNCHANGED <<queue, saved, processed, abandoned>>
    BY <1>1 DEF StartLive, NewProcess
  <2>2. UpTo(image'.session, image'.position) \subseteq processed' \cup missed'
    BY <2>1
  <2> QED
    BY <2>1, <2>2 DEF LossInv, Accounted
<1>2. ASSUME NEW requested \in Positions, StartReplay(requested)
      PROVE  LossInv'
  <2>1. /\ image'.session = recordings[rec'].session /\ image'.position = ResumePosition(requested)
        /\ missed' = IF Foreign(rec')
                     THEN missed \cup (UpTo(image'.session, image'.position) \ processed)
                     ELSE missed
        /\ checkpoint' = saved /\ UNCHANGED <<queue, saved, processed, abandoned>>
    BY <1>2 DEF StartReplay, NewProcess
  <2>2. Accounted(image)'
    <3>1. CASE Foreign(rec')
      <4>1. UpTo(image'.session, image'.position) \subseteq processed' \cup missed'
        BY <2>1, <3>1
      <4> QED
        BY <4>1 DEF Accounted
    <3>2. CASE ~ Foreign(rec')
      <4>1. image'.session = saved.session /\ image'.position = saved.position
        BY <2>1, <3>2, Bounds DEF Foreign, ResumePosition, BaseInv, TypeInv, Checkpoints
      <4> QED
        BY <2>1, <3>2, <4>1 DEF LossInv, Accounted
    <3> QED
      BY <3>1, <3>2
  <2> QED
    BY <2>1, <2>2 DEF LossInv, Accounted
<1> QED
  BY <1>1, <1>2 DEF Start

LEMMA DeliverKeepsLoss ==
  ASSUME BaseInv, LossInv, Deliver
  PROVE  LossInv'
<1> USE DeliverSteps
<1>1. Known \cup {Next_m} \subseteq Known'
  <2>1. CASE Dropped
    BY <2>1 DEF Dropped, Known, memory
  <2>2. CASE Queued
    BY <2>2 DEF Queued, Known
  <2> QED
    BY <2>1, <2>2
<1>2. UpTo(image'.session, image'.position) \subseteq UpTo(image.session, image.position) \cup {Next_m}
  BY UpToNext DEF BaseInv, TypeInv, Next_m
<1>3. Accounted(image)' /\ Accounted(saved)'
  BY <1>1, <1>2 DEF LossInv, Accounted, Known
<1>4. Accounted(checkpoint)'
  <2>1. CASE Dropped
    BY <2>1, <1>1 DEF Dropped, LossInv, Accounted, Known, memory
  <2>2. CASE Queued
    BY <2>2, <1>3 DEF Queued, Accounted
  <2> QED
    BY <2>1, <2>2
<1> QED
  BY <1>3, <1>4 DEF LossInv

LEMMA EndKeepsLoss ==
  ASSUME BaseInv, LossInv, Stop \/ Crash
  PROVE  LossInv'
<1> USE EndSteps
<1>1. Accounted(saved')
  BY DEF LossInv
<1>2. UpTo(saved'.session, saved'.position) \subseteq processed' \cup missed' \cup abandoned'
  <2> SUFFICES ASSUME NEW m \in UpTo(saved'.session, saved'.position)
               PROVE  m \in processed' \cup missed' \cup abandoned'
    OBVIOUS
  <2>1. Covered(m)
    BY DEF UpTo, Covered
  <2>2. m \in processed \cup ToSet(queue) \cup missed \cup abandoned
    BY <1>1 DEF Accounted
  <2> QED
    BY <2>1, <2>2
<1> QED
  BY <1>2 DEF LossInv, Accounted

LEMMA LossInvNext == BaseInv /\ LossInv /\ [Next]_vars => LossInv'
<1> SUFFICES ASSUME BaseInv, LossInv, [Next]_vars PROVE LossInv'
  OBVIOUS
<1>1. CASE Outside
  <2>1. UNCHANGED <<saved, reader, memory, history>>
    BY <1>1 DEF Outside, Publish, BeginRecording, EndRecording, PublisherEnds, PublisherStarts
  <2> QED
    BY <2>1 DEF LossInv, Accounted, reader, memory, history
<1>2. CASE Start
  BY <1>2, StartKeepsLoss
<1>3. CASE ReplayBegins \/ MergeFails \/ Merge
  <2>1. source # "down" /\ UNCHANGED <<saved, image, memory, history>>
    BY <1>3 DEF ReplayBegins, MergeFails, Merge
  <2> QED
    BY <2>1 DEF LossInv, Accounted, memory, history
<1>4. CASE NewImage
  <2>1. source # "down" /\ image'.position = 0 /\ UNCHANGED <<saved, memory, history>>
    BY <1>4 DEF NewImage
  <2>2. UpTo(image'.session, image'.position) = {}
    BY <2>1, Bounds DEF UpTo, Messages
  <2> QED
    BY <2>1, <2>2 DEF LossInv, Accounted, memory, history
<1>5. CASE Deliver
  BY <1>5, DeliverKeepsLoss
<1>6. CASE Process
  <2>1. Known \subseteq Known' /\ UNCHANGED <<saved, image, source, checkpoint>>
    BY <1>6, ProcessSteps DEF Known, reader
  <2> QED
    BY <2>1 DEF LossInv, Accounted, Known
<1>7. CASE Flush
  BY <1>7 DEF Flush, LossInv, Accounted, reader, memory, history
<1>8. CASE Stop \/ Crash
  BY <1>8, EndKeepsLoss
<1>9. CASE UNCHANGED vars
  BY <1>9 DEF vars, LossInv, Accounted, reader, memory, history
<1> QED
  BY <1>1, <1>2, <1>3, <1>4, <1>5, <1>6, <1>7, <1>8, <1>9 DEF Next, SubscriberThread

-----------------------------------------------------------------------------
\* Nothing is processed twice without a reason.

LEMMA RepeatInvInit == Init => RepeatInv
  BY ToSetOfEmpty DEF Init, RepeatInv, Expected

LEMMA StartKeepsRepeat ==
  ASSUME BaseInv, RepeatInv, Start
  PROVE  RepeatInv'
<1>0. source = "down" /\ queue = <<>> /\ ToSet(queue) = {}
  BY ToSetOfEmpty DEF Start, StartLive, StartReplay, NewProcess, BaseInv, ReaderInv
<1>1. CASE StartLive
  <2>1. /\ source' = "live" /\ image' = [session |-> session, position |-> published[session]]
        /\ UNCHANGED <<queue, seen, processed, repeated, repeatable>>
    BY <1>1 DEF StartLive, NewProcess
  <2>2. \A m \in processed : Sent(m) /\ m \in Messages
    BY DEF BaseInv, ReaderInv, TypeInv
  <2>3. session \in Sessions /\ published[session] \in Nat
    BY PublishedParts DEF BaseInv, TypeInv
  <2>4. \A m \in Messages : Ahead(m)' => m \notin processed
    BY <2>1, <2>2, <2>3, MessageParts, Bounds DEF Ahead, Sent
  <2>5. \A m \in processed : m[1] <= session
    <3> SUFFICES ASSUME NEW m \in processed, m[1] > session PROVE FALSE
      BY <2>2, <2>3, MessageParts, Bounds
    <3>1. m[1] \in Sessions /\ m[2] \in 1 .. MaxMessages /\ m[2] <= published[m[1]]
      BY <2>2, MessageParts DEF Sent
    <3>2. published[m[1]] = 0
      BY <3>1 DEF BaseInv, StreamInv
    <3> QED
      BY <3>1, <3>2, Bounds
  <2> QED
    BY <1>0, <2>1, <2>4, <2>5 DEF RepeatInv, Expected
<1>2. ASSUME NEW requested \in Positions, StartReplay(requested)
      PROVE  RepeatInv'
  <2>1. /\ source' = "request"
        /\ image'.session = recordings[rec'].session /\ image'.position = ResumePosition(requested)
        /\ repeatable' = IF Foreign(rec')
             THEN repeatable \cup (UpTo(image'.session, MaxMessages)
                                     \ UpTo(image'.session, image'.position))
             ELSE repeatable
        /\ UNCHANGED <<queue, seen, saved, processed, repeated>>
    BY <1>2 DEF StartReplay, NewProcess
  <2>2. \A m \in Messages : Ahead(m)' => Expected(m)'
    <3> SUFFICES ASSUME NEW m \in Messages, Ahead(m)', m \in processed
                 PROVE  m \in repeatable'
      BY <2>1 DEF Expected
    <3>1. m[1] = image'.session /\ image'.position < m[2] /\ m[2] \in 1 .. MaxMessages
      BY MessageParts DEF Ahead
    <3>2. image'.position \in Nat
      BY <2>1, Bounds DEF ResumePosition, BaseInv, TypeInv, Checkpoints
    <3>3. CASE Foreign(rec')
      <4>1. m \in UpTo(image'.session, MaxMessages) \ UpTo(image'.session, image'.position)
        BY <3>1, <3>2, Bounds DEF UpTo
      <4> QED
        BY <2>1, <3>3, <4>1
    <3>4. CASE ~ Foreign(rec')
      <4>1. image'.session = saved.session /\ image'.position = saved.position
        BY <2>1, <3>4, Bounds DEF Foreign, ResumePosition, BaseInv, TypeInv, Checkpoints
      <4>2. m \in repeatable
        BY <1>0, <3>1, <3>2, <4>1 DEF RepeatInv
      <4> QED
        BY <2>1, <3>4, <4>2
    <3> QED
      BY <3>3, <3>4
  <2>3. repeated' \subseteq repeatable'
    BY <2>1 DEF RepeatInv
  <2> QED
    BY <1>0, <2>1, <2>2, <2>3 DEF RepeatInv
<1> QED
  BY <1>1, <1>2 DEF Start

LEMMA DeliverKeepsRepeat ==
  ASSUME BaseInv, RepeatInv, Deliver
  PROVE  RepeatInv'
<1> USE DeliverSteps
<1>1. seen' = seen
  BY DEF Dropped, Queued, memory
<1>2. \A m : Expected(m) => Expected(m)'
  BY <1>1 DEF Expected
<1>3. Ahead(Next_m)
  BY DEF Ahead, Next_m, BaseInv, TypeInv
<1>4. Expected(Next_m)
  BY <1>3 DEF RepeatInv
<1>5. ToSet(queue') \subseteq ToSet(queue) \cup {Next_m}
  BY DEF Dropped, Queued, memory
<1>6. \A m \in ToSet(queue') : Expected(m)'
  BY <1>2, <1>4, <1>5 DEF RepeatInv
<1>7. \A m \in Messages : Ahead(m)' => Ahead(m)
  <2>1. image'.session = image.session /\ image'.position = image.position + 1
    OBVIOUS
  <2>2. image.position \in Nat
    BY DEF BaseInv, TypeInv
  <2>3. \A m \in Messages : m[2] \in Nat
    BY MessageParts, Bounds
  <2> QED
    BY <2>1, <2>2, <2>3 DEF Ahead
<1>8. \A m \in Messages : Ahead(m)' => Expected(m)'
  BY <1>2, <1>7 DEF RepeatInv
<1>9. source = "live" => \A m \in processed' \cup ToSet(queue') : m[1] <= image'.session
  <2>1. Next_m[1] <= image.session /\ image'.session = image.session
    <3>1. image.session \in Nat
      BY Bounds DEF BaseInv, TypeInv
    <3>2. Next_m[1] = image.session
      BY DEF Next_m
    <3> QED
      BY <3>1, <3>2
  <2> QED
    BY <1>5, <2>1 DEF RepeatInv
<1> QED
  BY <1>6, <1>8, <1>9 DEF RepeatInv

LEMMA NewImageKeepsRepeat ==
  ASSUME BaseInv, RepeatInv, NewImage
  PROVE  RepeatInv'
<1>1. /\ source = "live" /\ source' = "live"
      /\ image'.session = image.session + 1 /\ image'.position = 0
      /\ UNCHANGED <<saved, memory, history>>
  BY DEF NewImage
<1>2. image.session \in Nat
  BY Bounds DEF BaseInv, TypeInv
<1>3. \A m \in processed \cup ToSet(queue) : m[1] <= image.session /\ m \in Messages
  BY <1>1, ToSetWithin DEF RepeatInv, BaseInv, TypeInv
<1>4. \A m \in processed \cup ToSet(queue) : m[1] \in Nat /\ m[1] <= image.session
  BY <1>3, MessageParts, Bounds
<1>5. \A m \in Messages : Ahead(m)' => m \notin processed
  BY <1>1, <1>2, <1>4 DEF Ahead
<1>6. \A m \in processed \cup ToSet(queue) : m[1] <= image.session + 1
  BY <1>2, <1>4
<1> QED
  BY <1>1, <1>5, <1>6 DEF RepeatInv, Expected, memory, history

LEMMA MergeKeepsRepeat ==
  ASSUME BaseInv, RepeatInv, Merge
  PROVE  RepeatInv'
<1>1. /\ source = "replay" /\ source' = "live" /\ image.session = session
      /\ UNCHANGED <<saved, image, memory, history>>
  BY DEF Merge
<1>2. \A m \in processed \cup ToSet(queue) : m \in Messages /\ Sent(m)
  BY ToSetWithin DEF BaseInv, TypeInv, ReaderInv
<1>3. \A m \in processed \cup ToSet(queue) : m[1] <= session
  <2> SUFFICES ASSUME NEW m \in processed \cup ToSet(queue), ~ m[1] <= session PROVE FALSE
    OBVIOUS
  <2>1. m[1] \in Sessions /\ m[2] \in 1 .. MaxMessages /\ m[2] <= published[m[1]]
    <3>1. m \in Messages /\ Sent(m)
      BY <1>2
    <3> QED
      BY <3>1, MessageParts DEF Sent
  <2>2. m[1] > session
    <3>1. session \in Sessions
      BY DEF BaseInv, TypeInv
    <3>2. \A a, b \in Sessions : ~ a <= b => a > b
      BY Bounds
    <3> QED
      BY <2>1, <3>1, <3>2
  <2>3. published[m[1]] = 0
    BY <2>1, <2>2 DEF BaseInv, StreamInv
  <2> QED
    BY <2>1, <2>3, Bounds
<1> QED
  BY <1>1, <1>3 DEF RepeatInv, Expected, Ahead, memory, history

LEMMA ProcessKeepsRepeat ==
  ASSUME BaseInv, RepeatInv, Process
  PROVE  RepeatInv'
<1> USE ProcessSteps
<1>1. \A m : Expected(m) => Expected(m)'
  BY DEF Expected
<1>2. Expected(Head(queue))
  BY DEF RepeatInv
<1>3. repeated' \subseteq repeatable'
  BY <1>2 DEF RepeatInv, Expected
<1>4. \A m \in ToSet(queue') : Expected(m)'
  BY <1>1 DEF RepeatInv
<1>5. source' \in {"request", "replay", "live"} =>
        \A m \in Messages : Ahead(m)' => Expected(m)'
  BY <1>1 DEF RepeatInv, Ahead, reader
<1>6. source' = "live" => \A m \in processed' \cup ToSet(queue') : m[1] <= image'.session
  BY DEF RepeatInv, reader
<1>7. source' # "down"
  BY DEF reader
<1> QED
  BY <1>3, <1>4, <1>5, <1>6, <1>7 DEF RepeatInv

LEMMA EndKeepsRepeat ==
  ASSUME BaseInv, RepeatInv, Stop \/ Crash
  PROVE  RepeatInv'
<1> USE EndSteps
<1>1. repeated' \subseteq repeatable'
  BY DEF RepeatInv
<1>2. ToSet(queue') = {}
  BY ToSetOfEmpty
<1>3. \A m \in processed' : m[1] = saved'.session /\ m[2] > saved'.position => m \in repeatable'
  <2> SUFFICES ASSUME NEW m \in processed, m[2] > saved'.position
               PROVE  ~ Covered(m)
    OBVIOUS
  <2>1. m[2] \in Nat /\ saved'.position \in Nat
    <3>1. m \in Messages /\ {saved, checkpoint} \subseteq Checkpoints
      BY DEF BaseInv, TypeInv
    <3>2. saved' \in Checkpoints
      BY <3>1
    <3> QED
      BY <3>1, <3>2, MessageParts, Bounds DEF Checkpoints
  <2> QED
    BY <2>1 DEF Covered
<1> QED
  BY <1>1, <1>2, <1>3 DEF RepeatInv

LEMMA RepeatInvNext == BaseInv /\ RepeatInv /\ [Next]_vars => RepeatInv'
<1> SUFFICES ASSUME BaseInv, RepeatInv, [Next]_vars PROVE RepeatInv'
  OBVIOUS
<1>1. CASE Outside
  <2>1. UNCHANGED <<saved, reader, memory, history>>
    BY <1>1 DEF Outside, Publish, BeginRecording, EndRecording, PublisherEnds, PublisherStarts
  <2> QED
    BY <2>1 DEF RepeatInv, Expected, Ahead, reader, memory, history
<1>2. CASE Start
  BY <1>2, StartKeepsRepeat
<1>3. CASE ReplayBegins \/ MergeFails
  <2>1. /\ source \in {"request", "replay"} /\ source' \in {"replay", "ended"}
        /\ UNCHANGED <<saved, image, memory, history>>
    BY <1>3 DEF ReplayBegins, MergeFails
  <2> QED
    BY <2>1 DEF RepeatInv, Expected, Ahead, memory, history
<1>4. CASE Merge
  BY <1>4, MergeKeepsRepeat
<1>5. CASE NewImage
  BY <1>5, NewImageKeepsRepeat
<1>6. CASE Deliver
  BY <1>6, DeliverKeepsRepeat
<1>7. CASE Process
  BY <1>7, ProcessKeepsRepeat
<1>8. CASE Flush
  <2>1. source # "down" /\ UNCHANGED <<reader, memory, history>>
    BY <1>8 DEF Flush
  <2> QED
    BY <2>1 DEF RepeatInv, Expected, Ahead, reader, memory, history
<1>9. CASE Stop \/ Crash
  BY <1>9, EndKeepsRepeat
<1>10. CASE UNCHANGED vars
  BY <1>10 DEF vars, RepeatInv, Expected, Ahead, reader, memory, history
<1> QED
  BY <1>1, <1>2, <1>3, <1>4, <1>5, <1>6, <1>7, <1>8, <1>9, <1>10 DEF Next, SubscriberThread

-----------------------------------------------------------------------------
LEMMA RecoveryInvariant == Spec => [](BaseInv /\ LossInv /\ RepeatInv)
<1>1. Init => BaseInv /\ LossInv /\ RepeatInv
  BY BaseInvInit, LossInvInit, RepeatInvInit
<1>2. BaseInv /\ LossInv /\ RepeatInv /\ [Next]_vars => (BaseInv /\ LossInv /\ RepeatInv)'
  BY BaseInvNext, LossInvNext, RepeatInvNext
<1> QED
  BY <1>1, <1>2, PTL DEF Spec

(* The values keep their kind: what is queued, saved and resumed from is a *)
(* position that was published, and the image never passes the stream.     *)
THEOREM TypeCorrect == Spec => []TypeOK
<1>1. BaseInv => TypeOK
  BY DEF BaseInv, TypeInv, TypeOK, Recordings, Checkpoints
<1> QED
  BY <1>1, RecoveryInvariant, PTL

(* A restart of the subscriber (main.cpp:357-398), from whatever file and  *)
(* with whatever recording, passes over no message without a named reason. *)
THEOREM LossExplained == Spec => []RestartLossIsExplained
<1>1. LossInv => RestartLossIsExplained
  BY DEF LossInv, Accounted, RestartLossIsExplained
<1> QED
  BY <1>1, RecoveryInvariant, PTL

(* The handler sees a message again only if the file was behind it or the  *)
(* position of a start was not of its session (main.cpp:367-372).          *)
THEOREM RepetitionExplained == Spec => []RepeatIsExplained
<1>1. RepeatInv => RepeatIsExplained
  BY DEF RepeatInv, RepeatIsExplained
<1> QED
  BY <1>1, RecoveryInvariant, PTL
=============================================================================
