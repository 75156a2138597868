-------------------------- MODULE Publisher_proofs --------------------------
(***************************************************************************)
(* Proofs about the publisher and its recording controller for any number  *)
(* of processes, recordings, messages and failing archive calls, and any   *)
(* length of the archive's listings.                                       *)
(***************************************************************************)
EXTENDS Publisher, TLAPS, WellFoundedInduction

\* Requests of the controller under way to a recording it does not have yet.
Starting == {"list", "start", "find", "retry", "findAny"}

(* That the recording found is the one asked for is not inductive without  *)
(* two facts about the archive: it has no active recording when it has no  *)
(* subscription, and while the controller looks for its recording every    *)
(* active one was begun under the subscription it has just made.           *)
ControllerInv ==
  /\ recorder = None => ActiveRecordings = {}
  /\ phase = "down" => cpc = "command" /\ recording_id = None
  /\ phase # "down" => session > 0
  /\ recording_id = None <=> origin = "none"
  /\ cpc \in Starting => recording_id = None
  /\ cpc \in {"find", "retry"} =>
       /\ subscription_id = recorder /\ recorder # None
       /\ \A i \in ActiveRecordings : recordings[i].session = session
  /\ cpc = "stopped" => recorder = None
  /\ FoundIsOurs

PublisherInv == TypeOK /\ ControllerInv /\ PromisedIsRecorded

-----------------------------------------------------------------------------
\* Listings, sequences and the constants.

\* The well-founded order of the naturals, turned around below a bound.
LEMMA HasGreatest ==
  ASSUME NEW n \in Nat, NEW ids \in SUBSET (1 .. n), ids # {}
  PROVE  \E i \in ids : \A j \in ids : j <= i
<1> DEFINE below == {n - i : i \in ids}
<1>1. below \subseteq Nat /\ below # {}
  <2>1. \A i \in ids : n - i \in Nat
    OBVIOUS
  <2> QED
    BY <2>1
<1> HIDE DEF below
<1>2. PICK x \in below : \A y \in below : ~ (<<y, x>> \in OpToRel(<, Nat))
  BY <1>1, NatLessThanWellFounded, WFMin, Zenon
<1>3. \A y \in below : ~ (y < x)
  BY <1>1, <1>2, Zenon DEF OpToRel
<1>4. PICK i \in ids : x = n - i
  BY DEF below
<1>5. ASSUME NEW j \in ids PROVE j <= i
  <2>1. ~ (n - j < n - i)
    BY <1>3, <1>4 DEF below
  <2> QED
    BY <2>1
<1> QED
  BY <1>5

LEMMA Bounds ==
  /\ PageSize \in Nat /\ MaxStarts \in Nat /\ MaxSubscriptions \in Nat
  /\ MaxRecordings \in Nat /\ MaxMessages \in Nat /\ MaxFailures \in Nat
  BY PublisherAssumption DEF PublisherAssumption

LEMMA LastOfIsMember ==
  ASSUME NEW n \in Nat, NEW ids \in SUBSET (1 .. n)
  PROVE  /\ LastOf(ids) = None \/ LastOf(ids) \in ids
         /\ LastOf(ids) = None <=> ids = {}
<1>1. CASE ids = {}
  BY <1>1 DEF LastOf
<1>2. CASE ids # {}
  <2>1. \E i \in ids : \A j \in ids : j <= i
    BY <1>2, HasGreatest
  <2>2. LastOf(ids) \in ids
    BY <1>2, <2>1 DEF LastOf
  <2>3. LastOf(ids) # None
    BY <2>2 DEF None
  <2> QED
    BY <1>2, <2>2, <2>3
<1> QED
  BY <1>1, <1>2

Recording == [session : 1 .. MaxStarts, active : BOOLEAN, messages : SUBSET Nat]

LEMMA RecordingParts ==
  ASSUME TypeOK
  PROVE  /\ recordings \in Seq(Recording) /\ Len(recordings) \in Nat
         /\ DOMAIN recordings = 1 .. Len(recordings)
         /\ \A i \in 1 .. Len(recordings) :
              /\ recordings[i] \in Recording
              /\ recordings[i].session \in 1 .. MaxStarts /\ recordings[i].active \in BOOLEAN
              /\ recordings[i].messages \subseteq Nat
<1>1. recordings \in Seq(Recording)
  BY DEF TypeOK, Recording
<1>2. \A i \in 1 .. Len(recordings) : recordings[i] \in Recording
  BY <1>1
<1> QED
  BY <1>1, <1>2 DEF Recording

LEMMA ListingParts ==
  ASSUME TypeOK, NEW n \in Nat
  PROVE  /\ LastActive(n) = None \/ LastActive(n) \in ActiveRecordings
         /\ LastAny(n) = None \/ LastAny(n) \in 1 .. Len(recordings)
         /\ LastActive(n) \in 0 .. Len(recordings) /\ LastAny(n) \in 0 .. Len(recordings)
<1>1. Len(recordings) \in Nat /\ DOMAIN recordings = 1 .. Len(recordings)
  BY RecordingParts
<1>2. LastActive(n) = None \/ LastActive(n) \in {i \in DOMAIN recordings : i <= n /\ recordings[i].active}
  BY <1>1, LastOfIsMember DEF LastActive
<1>3. LastAny(n) = None \/ LastAny(n) \in {i \in DOMAIN recordings : i <= n}
  BY <1>1, LastOfIsMember DEF LastAny
<1> QED
  BY <1>1, <1>2, <1>3 DEF ActiveRecordings, None

LEMMA AppendParts ==
  ASSUME NEW S, NEW q \in Seq(S), NEW x \in S
  PROVE  /\ Append(q, x) \in Seq(S) /\ Len(Append(q, x)) = Len(q) + 1
         /\ \A i \in 1 .. Len(q) : Append(q, x)[i] = q[i]
         /\ Append(q, x)[Len(q) + 1] = x
  OBVIOUS

LEMMA MappedParts ==
  ASSUME NEW S, NEW q \in Seq(S), NEW f \in [1 .. Len(q) -> S]
  PROVE  f \in Seq(S) /\ Len(f) = Len(q)
  OBVIOUS

-----------------------------------------------------------------------------
\* What becomes of the recordings: none is lost, none changes its session.

RecordingsKept ==
  /\ recordings' \in Seq(Recording)
  /\ Len(recordings') \in Nat /\ Len(recordings) <= Len(recordings')
  /\ \A i \in 1 .. Len(recordings) :
       /\ recordings'[i].session = recordings[i].session
       /\ recordings[i].messages \subseteq recordings'[i].messages

LEMMA BeginEffect ==
  ASSUME TypeOK, ControllerInv, BeginRecording
  PROVE  /\ RecordingsKept /\ Len(recordings') = Len(recordings) + 1
         /\ \A i \in 1 .. Len(recordings) : recordings'[i] = recordings[i]
         /\ recordings'[Len(recordings) + 1].session = session
<1> DEFINE new == [session |-> session, active |-> TRUE, messages |-> {}]
<1>1. new \in Recording
  <2>1. session \in 1 .. MaxStarts
    BY Bounds DEF BeginRecording, ControllerInv, TypeOK
  <2> QED
    BY <2>1 DEF Recording
<1>2. recordings' = Append(recordings, new) /\ new.session = session
  BY DEF BeginRecording
<1> HIDE DEF new
<1> QED
  BY <1>1, <1>2, AppendParts, RecordingParts DEF RecordingsKept

LEMMA GoneEffect ==
  ASSUME TypeOK, SessionGone
  PROVE  /\ RecordingsKept /\ Len(recordings') = Len(recordings)
         /\ \A i \in 1 .. Len(recordings) :
              /\ recordings'[i].active => recordings[i].active
              /\ phase # "down" /\ recordings[i].session = session /\ recordings[i].active
                   => recordings'[i].active
<1>1. PICK k \in 1 .. Len(recordings) :
        /\ phase = "down" \/ recordings[k].session # session
        /\ recordings' = [recordings EXCEPT ![k].active = FALSE]
  BY RecordingParts DEF SessionGone
<1>2. recordings[k] \in Recording /\ recordings \in [1 .. Len(recordings) -> Recording]
  BY RecordingParts
<1>3. /\ recordings' \in [1 .. Len(recordings) -> Recording]
      /\ \A i \in 1 .. Len(recordings) : i # k => recordings'[i] = recordings[i]
      /\ recordings'[k].session = recordings[k].session
      /\ recordings'[k].messages = recordings[k].messages
      /\ recordings'[k].active = FALSE
  <2>1. [recordings[k] EXCEPT !.active = FALSE] \in Recording
    BY <1>2 DEF Recording
  <2>2. recordings' = [recordings EXCEPT ![k] = [recordings[k] EXCEPT !.active = FALSE]]
    BY <1>1
  <2>3. recordings'[k] = [recordings[k] EXCEPT !.active = FALSE]
    BY <1>2, <2>2
  <2> QED
    BY <1>2, <2>1, <2>2, <2>3 DEF Recording
<1>4. recordings' \in Seq(Recording) /\ Len(recordings') = Len(recordings)
  BY <1>3, RecordingParts, MappedParts
<1> QED
  BY <1>1, <1>3, <1>4, RecordingParts DEF RecordingsKept

LEMMA UnsubscribeEffect ==
  ASSUME TypeOK, Unsubscribe
  PROVE  /\ RecordingsKept /\ Len(recordings') = Len(recordings)
         /\ ActiveRecordings' = {} /\ recorder' = None
<1>1. recordings' = [i \in 1 .. Len(recordings) |-> [recordings[i] EXCEPT !.active = FALSE]]
  BY RecordingParts DEF Unsubscribe
<1>2. \A i \in 1 .. Len(recordings) : [recordings[i] EXCEPT !.active = FALSE] \in Recording
  BY RecordingParts DEF Recording
<1>3. recordings' \in Seq(Recording) /\ Len(recordings') = Len(recordings)
  BY <1>1, <1>2, RecordingParts, MappedParts
<1>4. \A i \in 1 .. Len(recordings) : /\ recordings'[i].session = recordings[i].session
                                      /\ recordings'[i].messages = recordings[i].messages
                                      /\ recordings'[i].active = FALSE
  BY <1>1, RecordingParts DEF Recording
<1>5. DOMAIN recordings' = 1 .. Len(recordings)
  BY <1>1
<1> QED
  BY <1>3, <1>4, <1>5, RecordingParts DEF RecordingsKept, ActiveRecordings, Unsubscribe

LEMMA OfferEffect ==
  ASSUME TypeOK, NEW offered \in BOOLEAN, Offer(offered)
  PROVE  /\ RecordingsKept /\ Len(recordings') = Len(recordings)
         /\ \A i \in 1 .. Len(recordings) :
              /\ recordings'[i].active = recordings[i].active
              /\ offered /\ recordings[i].active /\ recordings[i].session = session
                   => sequence_number \in recordings'[i].messages
<1> DEFINE Records(i) == offered /\ recordings[i].active /\ recordings[i].session = session
           With(r) == [r EXCEPT !.messages = @ \cup {sequence_number}]
<1>1. recordings' = [i \in 1 .. Len(recordings) |->
                       IF Records(i) THEN With(recordings[i]) ELSE recordings[i]]
  BY RecordingParts DEF Offer
<1>2. sequence_number \in Nat
  BY Bounds DEF TypeOK
<1>3. ASSUME NEW r \in Recording
      PROVE  /\ With(r) \in Recording /\ With(r).session = r.session /\ With(r).active = r.active
             /\ r.messages \subseteq With(r).messages /\ sequence_number \in With(r).messages
  BY <1>2 DEF Recording
<1> HIDE DEF Records, With
<1>4. \A i \in 1 .. Len(recordings) :
        /\ recordings'[i] \in Recording /\ recordings'[i].session = recordings[i].session
        /\ recordings'[i].active = recordings[i].active
        /\ recordings[i].messages \subseteq recordings'[i].messages
        /\ Records(i) => sequence_number \in recordings'[i].messages
  BY <1>1, <1>3, RecordingParts
<1>5. recordings' \in [1 .. Len(recordings) -> Recording]
  BY <1>1, <1>4
<1>6. recordings' \in Seq(Recording) /\ Len(recordings') = Len(recordings)
  BY <1>5, RecordingParts, MappedParts
<1> QED
  BY <1>4, <1>6, RecordingParts DEF RecordingsKept, Records

LEMMA NextKeepsRecordings ==
  ASSUME TypeOK, ControllerInv, [Next]_vars
  PROVE  RecordingsKept
<1>1. UNCHANGED recordings => RecordingsKept
  BY RecordingParts DEF RecordingsKept
<1>2. CASE Archive
  BY <1>2, BeginEffect, GoneEffect DEF Archive
<1>3. CASE \E b \in BOOLEAN : Publish(b)
  BY <1>3, OfferEffect DEF Publish
<1>4. CASE StopArchive \/ StopThrows
  BY <1>1, <1>4, UnsubscribeEffect DEF StopArchive, StopThrows, archive
<1>5. CASE \/ \E b \in BOOLEAN : Start(b)
           \/ StartRecording
           \/ CommandStop \/ StopRefused \/ StopAnswered \/ ListingThrows \/ StartThrows
           \/ Quit \/ ShutdownStops \/ Exit \/ Crash \/ UNCHANGED vars
  <2>1. UNCHANGED recordings
    BY <1>5
       DEF archive, Start, StartRecording, CommandStart, ListExisting, StartArchive, StartRefused,
           FindAny, FindNew, CommandStop, StopRefused, StopAnswered, ListingThrows, StartThrows,
           Subscribe, Quit, ShutdownStops, Exit, Crash, vars
  <2> QED
    BY <1>1, <2>1
<1> QED
  BY <1>2, <1>3, <1>4, <1>5 DEF Next, StopRecording

-----------------------------------------------------------------------------
\* Types.

LEMMA AdoptType ==
  ASSUME TypeOK, NEW n \in Nat, Adopt(n)
  PROVE  /\ recording_id' \in 0 .. Len(recordings) /\ subscription_id' \in Int
         /\ origin' \in {"none", "adopted", "found", "any"}
<1>1. CASE LastActive(n) = None
  BY <1>1 DEF Adopt, controller, TypeOK
<1>2. CASE LastActive(n) # None
  <2>1. LastActive(n) \in 1 .. Len(recordings)
    BY <1>2, ListingParts, RecordingParts DEF ActiveRecordings
  <2>2. recordings[LastActive(n)].session \in 1 .. MaxStarts
    BY <2>1, RecordingParts
  <2>3. - recordings[LastActive(n)].session \in Int
    BY <2>2, Bounds
  <2> QED
    BY <1>2, <2>1, <2>3, RecordingParts DEF Adopt
<1> QED
  BY <1>1, <1>2

LEMMA TakeType ==
  ASSUME TypeOK, NEW id \in 0 .. Len(recordings), NEW how \in {"found", "any"}, Take(id, how)
  PROVE  /\ recording_id' \in 0 .. Len(recordings) /\ subscription_id' \in Int
         /\ origin' \in {"none", "adopted", "found", "any"}
  BY DEF Take, TypeOK

\* What the process does with its phase, session, counters and stops.
LEMMA ProcessType ==
  ASSUME TypeOK, [Next]_vars
  PROVE  /\ phase' \in {"down", "starting", "up", "quitting"} /\ session' \in 0 .. MaxStarts
         /\ sequence_number' \in 0 .. MaxMessages /\ message_count' \in 0 .. sequence_number'
         /\ cpc' \in {"command", "list", "start", "find", "retry", "findAny", "stop", "stopped"}
         /\ stops' \in 0 .. 2 /\ failures' \in 0 .. MaxFailures /\ stop_lost' \in BOOLEAN
<1>0. /\ phase \in {"down", "starting", "up", "quitting"} /\ session \in 0 .. MaxStarts
      /\ sequence_number \in 0 .. MaxMessages /\ message_count \in 0 .. sequence_number
      /\ cpc \in {"command", "list", "start", "find", "retry", "findAny", "stop", "stopped"}
      /\ stops \in 0 .. 2 /\ failures \in 0 .. MaxFailures /\ stop_lost \in BOOLEAN
  BY DEF TypeOK
<1> USE <1>0, Bounds DEF archive, publishing, controller
<1>1. CASE Archive \/ UNCHANGED vars
  BY <1>1 DEF Archive, BeginRecording, SessionGone, vars
<1>2. CASE \E b \in BOOLEAN : Start(b)
  <2>1. /\ session < MaxStarts /\ session' = session + 1 /\ sequence_number' = 0 /\ message_count' = 0
        /\ stops' = 0 /\ failures' = failures
        /\ phase' \in {"starting", "up"} /\ cpc' \in {"list", "command"}
    BY <1>2 DEF Start
  <2>2. stop_lost' \in BOOLEAN
    BY <1>2 DEF Start
  <2>3. session' \in 0 .. MaxStarts /\ message_count' \in 0 .. sequence_number'
        /\ sequence_number' \in 0 .. MaxMessages
    BY <2>1
  <2> QED
    BY <2>1, <2>2, <2>3
<1>3. CASE \E b \in BOOLEAN : Publish(b)
  BY <1>3 DEF Publish, Offer
<1>4. CASE StartRecording
  BY <1>4 DEF StartRecording, CommandStart, ListExisting, StartArchive, StartRefused, FindAny, FindNew,
              Return
<1>5. CASE StopRecording
  BY <1>5 DEF StopRecording, CommandStop, StopArchive, StopRefused, StopAnswered, Return
<1>6. CASE ListingThrows \/ StartThrows \/ StopThrows
  <2>1. Throws /\ stop_lost' \in BOOLEAN
    BY <1>6 DEF ListingThrows, StartThrows, StopThrows
  <2>2. /\ failures < MaxFailures /\ failures' = failures + 1 /\ cpc' = "command"
        /\ phase' = phase \/ phase' = "up"
        /\ UNCHANGED <<session, sequence_number, message_count, stops>>
    BY <2>1 DEF Throws, Return
  <2> QED
    BY <2>1, <2>2
<1>7. CASE Quit \/ ShutdownStops \/ Exit \/ Crash
  BY <1>7 DEF Quit, ShutdownStops, Exit, Crash
<1> QED
  BY <1>1, <1>2, <1>3, <1>4, <1>5, <1>6, <1>7 DEF Next

LEMMA ControllerType ==
  ASSUME TypeOK, ControllerInv, [Next]_vars
  PROVE  /\ recorder' \in 0 .. subscriptions' /\ subscriptions' \in Nat
         /\ recording_id' \in 0 .. Len(recordings') /\ subscription_id' \in Int
         /\ origin' \in {"none", "adopted", "found", "any"}
<1> DEFINE Typed == /\ recording_id' \in 0 .. Len(recordings) /\ subscription_id' \in Int
                    /\ origin' \in {"none", "adopted", "found", "any"}
<1>1. Len(recordings) \in Nat /\ Len(recordings') \in Nat /\ Len(recordings) <= Len(recordings')
  BY NextKeepsRecordings, RecordingParts DEF RecordingsKept
<1>2. subscriptions \in Nat /\ recorder \in 0 .. subscriptions
  BY DEF TypeOK
<1>3. recorder' \in 0 .. subscriptions' /\ subscriptions' \in Nat
  <2>1. \/ UNCHANGED <<recorder, subscriptions>>
        \/ Subscribe
        \/ recorder' = None /\ UNCHANGED subscriptions
    BY DEF Next, Archive, BeginRecording, SessionGone, Start, Publish, StartRecording, CommandStart,
           ListExisting, StartArchive, StartRefused, FindAny, FindNew, StopRecording, CommandStop,
           StopArchive, Unsubscribe, StopRefused, StopAnswered, ListingThrows, StartThrows, StopThrows,
           Quit, ShutdownStops, Exit, Crash, vars, archive
  <2> QED
    BY <1>2, <2>1 DEF Subscribe, None
<1>4. UNCHANGED controller => Typed
  BY DEF controller, TypeOK
<1>5. recording_id' = None /\ subscription_id' = None /\ origin' = "none" => Typed
  BY <1>1 DEF None
<1>6. ASSUME StartArchive PROVE Typed
  BY <1>2, <1>6 DEF StartArchive, TypeOK
<1>7. ASSUME ListExisting \/ FindAny \/ FindNew PROVE Typed
  BY <1>7, Bounds, AdoptType, TakeType, ListingParts DEF ListExisting, FindAny, FindNew
<1>8. ASSUME ListingThrows PROVE Typed
  <2>1. PICK n \in 0 .. PageSize :
          CASE cpc = "list"    -> Adopt(n)
            [] cpc = "findAny" -> Take(LastAny(n), "any")
            [] OTHER           -> Take(LastActive(n), "found")
    BY <1>8 DEF ListingThrows
  <2>2. Adopt(n) \/ Take(LastAny(n), "any") \/ Take(LastActive(n), "found")
    BY <2>1
  <2>3. n \in Nat
    BY Bounds
  <2> QED
    BY <2>2, <2>3, AdoptType, TakeType, ListingParts
<1>9. \/ UNCHANGED controller
      \/ recording_id' = None /\ subscription_id' = None /\ origin' = "none"
      \/ StartArchive \/ ListExisting \/ FindAny \/ FindNew \/ ListingThrows
  BY DEF Next, Archive, BeginRecording, SessionGone, Start, Publish, StartRecording, CommandStart,
         StartRefused, StopRecording, CommandStop, StopArchive, StopRefused, StopAnswered, StartThrows,
         StopThrows, Quit, ShutdownStops, Exit, Crash, vars
<1>10. Typed
  BY <1>4, <1>5, <1>6, <1>7, <1>8, <1>9
<1> QED
  BY <1>1, <1>3, <1>10

LEMMA PromisedType ==
  ASSUME TypeOK, ControllerInv, [Next]_vars
  PROVE  promised' \subseteq (1 .. MaxStarts) \X Nat
<1>1. promised \subseteq (1 .. MaxStarts) \X Nat
  BY DEF TypeOK
<1>2. CASE \E b \in BOOLEAN : Publish(b)
  <2>1. session \in 1 .. MaxStarts /\ sequence_number \in Nat
    BY <1>2, Bounds DEF Publish, ControllerInv, TypeOK
  <2>2. promised' = promised \/ promised' = promised \cup {<<session, sequence_number>>}
    BY <1>2 DEF Publish
  <2> QED
    BY <1>1, <2>1, <2>2
<1>3. CASE ~ \E b \in BOOLEAN : Publish(b)
  <2>1. promised' = promised
    BY <1>3 DEF Next, Archive, BeginRecording, SessionGone, Start, StartRecording, CommandStart,
           ListExisting, StartArchive, StartRefused, FindAny, FindNew, StopRecording, CommandStop,
           StopArchive, StopRefused, StopAnswered, ListingThrows, StartThrows, StopThrows, Throws,
           Quit, ShutdownStops, Exit, Crash, vars, publishing
  <2> QED
    BY <1>1, <2>1
<1> QED
  BY <1>2, <1>3

LEMMA TypeNext ==
  ASSUME TypeOK, ControllerInv, [Next]_vars
  PROVE  TypeOK'
<1>1. recordings' \in Seq([session : 1 .. MaxStarts, active : BOOLEAN, messages : SUBSET Nat])
  BY NextKeepsRecordings DEF RecordingsKept, Recording
<1> QED
  BY <1>1, ProcessType, ControllerType, PromisedType DEF TypeOK

-----------------------------------------------------------------------------
\* The controller and the archive.

\* Only the recordings change, and none of this session ends.
LEMMA ArchiveFrame ==
  ASSUME TypeOK, ControllerInv, RecordingsKept,
         UNCHANGED <<recorder, phase, session, cpc, controller, stop_lost>>,
         \A i \in ActiveRecordings' : \/ i \in ActiveRecordings
                                      \/ recorder # None /\ recordings'[i].session = session,
         \A i \in ActiveRecordings : phase # "down" /\ recordings[i].session = session
                                       => recordings'[i].active
  PROVE  ControllerInv'
<1>1. UNCHANGED <<recording_id, subscription_id, origin>>
  BY DEF controller
<1>2. \A i \in ActiveRecordings : i \in 1 .. Len(recordings)
                                  /\ recordings'[i].session = recordings[i].session
  BY RecordingParts DEF ActiveRecordings, RecordingsKept
<1>3. recorder' = None => ActiveRecordings' = {}
  BY DEF ControllerInv
<1>4. cpc' \in {"find", "retry"} => \A i \in ActiveRecordings' : recordings'[i].session = session'
  BY <1>2 DEF ControllerInv
<1>5. FoundIsOurs'
  <2> SUFFICES ASSUME origin = "found", cpc # "stopped", ~ stop_lost
               PROVE  /\ subscription_id = recorder
                      /\ recordings'[recording_id].active
                      /\ recordings'[recording_id].session = session
    BY <1>1 DEF FoundIsOurs
  <2>1. /\ subscription_id = recorder /\ recordings[recording_id].active
        /\ recordings[recording_id].session = session
    BY DEF ControllerInv, FoundIsOurs
  <2>2. recording_id # None /\ phase # "down"
    BY DEF ControllerInv
  <2>3. recording_id \in ActiveRecordings
    BY <2>1, <2>2, RecordingParts DEF ActiveRecordings, TypeOK, None
  <2> QED
    BY <1>2, <2>1, <2>2, <2>3
<1> QED
  BY <1>1, <1>3, <1>4, <1>5 DEF ControllerInv

LEMMA ArchiveKeepsController ==
  ASSUME TypeOK, ControllerInv, Archive \/ \E b \in BOOLEAN : Publish(b)
  PROVE  ControllerInv'
<1>1. UNCHANGED <<recorder, phase, session, cpc, controller, stop_lost>>
  BY DEF Archive, BeginRecording, SessionGone, Publish
<1>2. CASE BeginRecording
  <2>1. RecordingsKept /\ DOMAIN recordings' = 1 .. Len(recordings) + 1
    BY <1>2, BeginEffect, RecordingParts DEF RecordingsKept
  <2>2. \A i \in ActiveRecordings' : \/ i \in ActiveRecordings
                                     \/ recorder # None /\ recordings'[i].session = session
    BY <1>2, <2>1, BeginEffect, RecordingParts DEF ActiveRecordings, BeginRecording
  <2>3. \A i \in ActiveRecordings : recordings'[i].active
    BY <1>2, BeginEffect, RecordingParts DEF ActiveRecordings
  <2> QED
    BY <1>1, <2>1, <2>2, <2>3, ArchiveFrame
<1>3. CASE SessionGone
  <2>1. RecordingsKept /\ DOMAIN recordings' = 1 .. Len(recordings)
    BY <1>3, GoneEffect, RecordingParts DEF RecordingsKept
  <2>2. ActiveRecordings' \subseteq ActiveRecordings
    BY <1>3, <2>1, GoneEffect, RecordingParts DEF ActiveRecordings
  <2>3. \A i \in ActiveRecordings : phase # "down" /\ recordings[i].session = session
                                      => recordings'[i].active
    BY <1>3, GoneEffect, RecordingParts DEF ActiveRecordings
  <2> QED
    BY <1>1, <2>1, <2>2, <2>3, ArchiveFrame
<1>4. CASE \E b \in BOOLEAN : Publish(b)
  <2>1. PICK b \in BOOLEAN : Offer(b)
    BY <1>4 DEF Publish
  <2>2. RecordingsKept /\ DOMAIN recordings' = 1 .. Len(recordings)
    BY <2>1, OfferEffect, RecordingParts DEF RecordingsKept
  <2>3. ActiveRecordings' = ActiveRecordings /\ \A i \in ActiveRecordings : recordings'[i].active
    BY <2>1, <2>2, OfferEffect, RecordingParts DEF ActiveRecordings
  <2> QED
    BY <1>1, <2>2, <2>3, ArchiveFrame
<1> QED
  BY <1>2, <1>3, <1>4 DEF Archive

LEMMA ProcessKeepsController ==
  ASSUME TypeOK, ControllerInv,
         (\E b \in BOOLEAN : Start(b)) \/ Crash \/ Quit \/ Exit \/ ShutdownStops \/ UNCHANGED vars
  PROVE  ControllerInv'
<1>1. UNCHANGED <<recorder, recordings, ActiveRecordings>>
  BY DEF Start, Crash, Quit, Exit, ShutdownStops, vars, archive, ActiveRecordings
<1>2. CASE \E b \in BOOLEAN : Start(b)
  <2>1. /\ session' = session + 1 /\ session \in Nat /\ cpc' \in {"list", "command"} /\ phase' # "down"
        /\ recording_id' = None /\ origin' = "none"
    BY <1>2, Bounds DEF Start, TypeOK
  <2> QED
    BY <1>1, <2>1 DEF ControllerInv, FoundIsOurs, Starting
<1>3. CASE Crash \/ Exit
  <2>1. recording_id' = None /\ origin' = "none" /\ cpc' = "command" /\ phase' = "down"
    BY <1>3 DEF Crash, Exit
  <2> QED
    BY <1>1, <2>1 DEF ControllerInv, FoundIsOurs, Starting
<1>4. CASE Quit \/ ShutdownStops \/ UNCHANGED vars
  <2>1. /\ UNCHANGED <<session, recording_id, subscription_id, origin, stop_lost>>
        /\ phase' = "down" <=> phase = "down"
        /\ cpc' = cpc \/ (cpc' = "stop" /\ cpc = "command" /\ phase # "down")
    BY <1>4 DEF Quit, ShutdownStops, vars, controller
  <2> QED
    BY <1>1, <2>1 DEF ControllerInv, FoundIsOurs, Starting
<1> QED
  BY <1>2, <1>3, <1>4

\* The steps of startRecording() that take a recording over.
LEMMA TakeOver ==
  ASSUME TypeOK, ControllerInv, phase # "down", phase' # "down",
         UNCHANGED <<archive, session, stop_lost>>,
         cpc \in Starting, cpc' \in {"command", "start"} \/ (cpc' = "retry" /\ cpc = "find"),
         cpc' \in Starting => UNCHANGED controller,
         \/ \E n \in Nat : Adopt(n)
         \/ \E n \in Nat : Take(LastAny(n), "any")
         \/ cpc \in {"find", "retry"} /\ \E n \in Nat : Take(LastActive(n), "found")
  PROVE  ControllerInv'
<1>1. UNCHANGED <<recorder, recordings, ActiveRecordings>> /\ recording_id = None /\ origin = "none"
  BY DEF archive, ActiveRecordings, ControllerInv
<1>2. CASE UNCHANGED controller
  BY <1>1, <1>2 DEF ControllerInv, FoundIsOurs, Starting, controller
<1>3. CASE ~ UNCHANGED controller
  <2>1. cpc' = "command"
    BY <1>3 DEF Starting
  <2>2. CASE \E n \in Nat : Adopt(n)
    <3>1. recording_id' # None /\ origin' = "adopted"
      BY <1>3, <2>2 DEF Adopt
    <3> QED
      BY <1>1, <2>1, <3>1 DEF ControllerInv, FoundIsOurs, Starting
  <2>3. CASE \E n \in Nat : Take(LastAny(n), "any")
    <3>1. recording_id' # None /\ origin' = "any"
      BY <1>1, <1>3, <2>3 DEF Take, controller
    <3> QED
      BY <1>1, <2>1, <3>1 DEF ControllerInv, FoundIsOurs, Starting
  <2>4. CASE cpc \in {"find", "retry"} /\ \E n \in Nat : Take(LastActive(n), "found")
    <3>1. PICK n \in Nat : Take(LastActive(n), "found")
      BY <2>4
    <3>2. /\ recording_id' = LastActive(n) /\ LastActive(n) # None /\ origin' = "found"
          /\ subscription_id' = subscription_id
      BY <1>1, <1>3, <3>1 DEF Take, controller
    <3>3. recording_id' \in ActiveRecordings
      BY <3>2, ListingParts
    <3>4. /\ subscription_id' = recorder /\ recordings[recording_id'].session = session
          /\ recordings[recording_id'].active
      BY <2>4, <3>2, <3>3 DEF ControllerInv, ActiveRecordings
    <3> QED
      BY <1>1, <2>1, <3>2, <3>4 DEF ControllerInv, FoundIsOurs, Starting
  <2> QED
    BY <2>2, <2>3, <2>4
<1> QED
  BY <1>2, <1>3

LEMMA StartKeepsController ==
  ASSUME TypeOK, ControllerInv, StartRecording \/ StartThrows \/ ListingThrows
  PROVE  ControllerInv'
<1>1. cpc # "command" => phase # "down"
  BY DEF ControllerInv
<1>2. CASE CommandStart \/ StartRefused
  <2>1. /\ UNCHANGED <<recorder, recordings, ActiveRecordings, phase, session, recording_id,
                       subscription_id, origin, stop_lost>>
        /\ recording_id = None /\ phase # "down" /\ cpc' \in {"list", "findAny"}
    BY <1>1, <1>2 DEF CommandStart, StartRefused, archive, controller, ActiveRecordings, ControllerInv,
                      Starting
  <2> QED
    BY <2>1 DEF ControllerInv, FoundIsOurs, Starting
<1>3. CASE StartArchive
  <2>1. /\ recorder = None /\ recorder' = subscriptions + 1 /\ subscription_id' = subscriptions + 1
        /\ cpc = "start" /\ cpc' = "find"
        /\ UNCHANGED <<recordings, ActiveRecordings, phase, session, recording_id, origin>>
    BY <1>3 DEF StartArchive, Subscribe, ActiveRecordings
  <2>2. recorder' # None /\ ActiveRecordings = {} /\ recording_id = None /\ phase # "down"
    BY <1>1, <2>1 DEF ControllerInv, Starting, TypeOK, None
  <2> QED
    BY <2>1, <2>2 DEF ControllerInv, FoundIsOurs, Starting
<1>4. CASE StartThrows
  <2>1. /\ cpc = "start" /\ cpc' = "command"
        /\ UNCHANGED <<recordings, ActiveRecordings, session, recording_id, subscription_id, origin,
                       stop_lost>>
        /\ recorder' = recorder \/ recorder' = subscriptions + 1
    BY <1>4 DEF StartThrows, Subscribe, Throws, Return, archive, controller, ActiveRecordings
  <2>2. recording_id = None /\ origin = "none" /\ phase # "down" /\ phase' # "down"
    BY <1>1, <1>4, <2>1 DEF ControllerInv, Starting, StartThrows, Throws, Return
  <2>3. recorder' = None => recorder = None
    BY <2>1 DEF TypeOK, None
  <2>4. session > 0
    BY <2>2 DEF ControllerInv
  <2> QED
    BY <2>1, <2>2, <2>3, <2>4 DEF ControllerInv, FoundIsOurs, Starting
<1>5. CASE ListExisting
  <2>1. /\ UNCHANGED <<archive, session, stop_lost>> /\ cpc = "list" /\ Adopt(PageSize)
        /\ cpc' \in {"command", "start"}
        /\ cpc' = "start" => UNCHANGED controller
    BY <1>5 DEF ListExisting, Return, Adopt
  <2>2. phase # "down" /\ phase' # "down" /\ cpc \in Starting
    BY <1>1, <1>5, <2>1 DEF ListExisting, Return, Starting
  <2> QED
    BY <2>1, <2>2, TakeOver, Bounds DEF Starting
<1>6. CASE FindAny
  <2>1. /\ UNCHANGED <<archive, session, stop_lost>> /\ cpc = "findAny"
        /\ Take(LastAny(PageSize), "any") /\ cpc' = "command"
    BY <1>6 DEF FindAny, Return
  <2>2. phase # "down" /\ phase' # "down" /\ cpc \in Starting
    BY <1>1, <1>6, <2>1 DEF FindAny, Return, Starting
  <2> QED
    BY <2>1, <2>2, TakeOver, Bounds DEF Starting
<1>7. CASE FindNew
  <2>1. /\ UNCHANGED <<archive, session, stop_lost>> /\ cpc \in {"find", "retry"}
        /\ Take(LastActive(PageSize), "found")
        /\ \/ cpc' = "command"
           \/ cpc' = "retry" /\ cpc = "find" /\ LastActive(PageSize) = None
    BY <1>7 DEF FindNew, Return
  <2>2. phase # "down" /\ phase' # "down" /\ cpc \in Starting
    BY <1>1, <1>7, <2>1 DEF FindNew, Return, Starting
  <2>3. LastActive(PageSize) = None => UNCHANGED controller
    BY <2>1 DEF Take, controller
  <2> QED
    BY <2>1, <2>2, <2>3, TakeOver, Bounds DEF Starting
<1>8. CASE ListingThrows
  <2>1. PICK n \in 0 .. PageSize :
          CASE cpc = "list"    -> Adopt(n)
            [] cpc = "findAny" -> Take(LastAny(n), "any")
            [] OTHER           -> Take(LastActive(n), "found")
    BY <1>8 DEF ListingThrows
  <2>2. /\ cpc \in {"list", "find", "retry", "findAny"} /\ cpc' = "command"
        /\ UNCHANGED <<archive, session, stop_lost>>
    BY <1>8 DEF ListingThrows, Throws, Return
  <2>3. n \in Nat
    BY Bounds
  <2>4. \/ Adopt(n)
        \/ Take(LastAny(n), "any")
        \/ cpc \in {"find", "retry"} /\ Take(LastActive(n), "found")
    BY <2>1, <2>2
  <2>5. phase # "down" /\ phase' # "down" /\ cpc \in Starting
    BY <1>1, <1>8, <2>2 DEF ListingThrows, Throws, Return, Starting
  <2> QED
    BY <2>2, <2>3, <2>4, <2>5, TakeOver DEF Starting
<1> QED
  BY <1>2, <1>3, <1>4, <1>5, <1>6, <1>7, <1>8 DEF StartRecording

LEMMA StopKeepsController ==
  ASSUME TypeOK, ControllerInv, StopRecording \/ StopThrows
  PROVE  ControllerInv'
<1>1. cpc # "command" => phase # "down"
  BY DEF ControllerInv
<1>2. /\ UNCHANGED session
      /\ cpc' \notin Starting
      /\ phase # "down" /\ phase' # "down"
  BY <1>1 DEF StopRecording, CommandStop, StopArchive, StopRefused, StopAnswered, StopThrows, Throws,
              Return, Starting
<1>3. session > 0
  BY <1>2 DEF ControllerInv
<1>4. CASE CommandStop \/ StopRefused
  <2>1. /\ UNCHANGED <<recorder, recordings, ActiveRecordings, recording_id, subscription_id, origin,
                       stop_lost>>
        /\ cpc # "stopped" /\ cpc' # "stopped"
    BY <1>4 DEF CommandStop, StopRefused, Return, archive, controller, ActiveRecordings
  <2> QED
    BY <1>2, <1>3, <2>1 DEF ControllerInv, FoundIsOurs, Starting
<1>5. CASE StopArchive
  <2>1. /\ ActiveRecordings' = {} /\ recorder' = None /\ cpc' = "stopped"
        /\ UNCHANGED <<recording_id, subscription_id, origin>>
    BY <1>5, UnsubscribeEffect DEF StopArchive, controller
  <2> QED
    BY <1>2, <1>3, <2>1 DEF ControllerInv, FoundIsOurs, Starting
<1>6. CASE StopAnswered
  <2>1. /\ UNCHANGED <<recorder, recordings, ActiveRecordings>>
        /\ recording_id' = None /\ origin' = "none" /\ cpc' # "stopped"
    BY <1>6 DEF StopAnswered, Return, archive, ActiveRecordings
  <2> QED
    BY <1>2, <1>3, <2>1 DEF ControllerInv, FoundIsOurs, Starting
<1>7. CASE StopThrows
  <2>1. /\ UNCHANGED <<recording_id, subscription_id, origin>> /\ cpc' # "stopped" /\ cpc # "stopped"
    BY <1>7 DEF StopThrows, Throws, Return, controller
  <2>2. \/ UNCHANGED <<recorder, recordings, ActiveRecordings, stop_lost>>
        \/ recorder' = None /\ ActiveRecordings' = {} /\ stop_lost'
    BY <1>7, UnsubscribeEffect DEF StopThrows, archive, ActiveRecordings
  <2> QED
    BY <1>2, <1>3, <2>1, <2>2 DEF ControllerInv, FoundIsOurs, Starting
<1> QED
  BY <1>4, <1>5, <1>6, <1>7 DEF StopRecording

LEMMA ControllerNext ==
  ASSUME TypeOK, ControllerInv, [Next]_vars
  PROVE  ControllerInv'
  BY ArchiveKeepsController, ProcessKeepsController, StartKeepsController, StopKeepsController DEF Next

-----------------------------------------------------------------------------
\* What was promised.

LEMMA PromisedNext ==
  ASSUME PublisherInv, [Next]_vars
  PROVE  PromisedIsRecorded'
<1>1. TypeOK /\ ControllerInv /\ PromisedIsRecorded /\ RecordingsKept
  BY NextKeepsRecordings DEF PublisherInv
<1>2. DOMAIN recordings = 1 .. Len(recordings) /\ Len(recordings) \in Nat
      /\ DOMAIN recordings' = 1 .. Len(recordings') /\ Len(recordings') \in Nat
      /\ Len(recordings) <= Len(recordings')
  BY <1>1, RecordingParts DEF RecordingsKept
<1>3. ASSUME NEW m \in promised
      PROVE  \E i \in DOMAIN recordings' :
               recordings'[i].session = m[1] /\ m[2] \in recordings'[i].messages
  <2>1. PICK i \in 1 .. Len(recordings) : recordings[i].session = m[1] /\ m[2] \in recordings[i].messages
    BY <1>1, <1>2 DEF PromisedIsRecorded
  <2>2. i \in DOMAIN recordings'
    BY <1>2
  <2> QED
    BY <1>1, <2>1, <2>2 DEF RecordingsKept
<1>4. CASE promised' \subseteq promised
  BY <1>3, <1>4 DEF PromisedIsRecorded
<1>5. CASE ~ (promised' \subseteq promised)
  <2>1. \/ \E b \in BOOLEAN : Publish(b)
        \/ promised' = promised
    BY DEF Next, Archive, BeginRecording, SessionGone, Start, StartRecording, CommandStart,
           ListExisting, StartArchive, StartRefused, FindAny, FindNew, StopRecording, CommandStop,
           StopArchive, StopRefused, StopAnswered, ListingThrows, StartThrows, StopThrows, Throws,
           Quit, ShutdownStops, Exit, Crash, vars, publishing
  <2>2. PICK b \in BOOLEAN : Publish(b)
    BY <1>5, <2>1
  <2>3. /\ b /\ recording_id # None /\ cpc = "command" /\ origin = "found" /\ ~ stop_lost
        /\ promised' = promised \cup {<<session, sequence_number>>}
    BY <1>5, <2>2 DEF Publish
  <2>4. recordings[recording_id].active /\ recordings[recording_id].session = session
    BY <1>1, <2>3 DEF ControllerInv, FoundIsOurs
  <2>5. recording_id \in 1 .. Len(recordings)
    BY <1>1, <1>2, <2>3 DEF TypeOK, None
  <2>6. Offer(b)
    BY <2>2 DEF Publish
  <2>7. sequence_number \in recordings'[recording_id].messages
    BY <1>1, <2>3, <2>4, <2>5, <2>6, OfferEffect
  <2>8. recordings'[recording_id].session = session /\ recording_id \in DOMAIN recordings'
    BY <1>1, <1>2, <2>4, <2>5 DEF RecordingsKept
  <2> QED
    BY <1>3, <2>3, <2>7, <2>8 DEF PromisedIsRecorded
<1> QED
  BY <1>4, <1>5

-----------------------------------------------------------------------------
\* The invariant, and what it says of the publisher.

LEMMA PublisherInit == Init => PublisherInv
<1> SUFFICES ASSUME Init PROVE PublisherInv
  OBVIOUS
<1> USE Bounds DEF Init, None
<1>1. TypeOK
  <2>1. stop_lost \in BOOLEAN
    OBVIOUS
  <2>2. /\ recordings \in Seq([session : 1 .. MaxStarts, active : BOOLEAN, messages : SUBSET Nat])
        /\ promised \subseteq (1 .. MaxStarts) \X Nat /\ Len(recordings) = 0
    OBVIOUS
  <2>3. /\ session \in 0 .. MaxStarts /\ sequence_number \in 0 .. MaxMessages
        /\ message_count \in 0 .. sequence_number /\ failures \in 0 .. MaxFailures
        /\ stops \in 0 .. 2
    OBVIOUS
  <2> QED
    BY <2>1, <2>2, <2>3 DEF TypeOK
<1>2. ActiveRecordings = {}
  BY DEF ActiveRecordings
<1> QED
  BY <1>1, <1>2 DEF PublisherInv, ControllerInv, FoundIsOurs, PromisedIsRecorded, Starting

LEMMA PublisherNext == PublisherInv /\ [Next]_vars => PublisherInv'
  BY TypeNext, ControllerNext, PromisedNext DEF PublisherInv

LEMMA PublisherInvariant == Spec => []PublisherInv
  BY PublisherInit, PublisherNext, PTL DEF Spec

(* Every variable of the publisher, its controller and the archive stays   *)
(* in its type; recording_id_ names a recording the archive has.           *)
THEOREM PublisherTypes == Spec => []TypeOK
<1>1. PublisherInv => TypeOK
  BY DEF PublisherInv
<1> QED
  BY <1>1, PublisherInvariant, PTL

(* RecordingController::startRecording() never mistakes a recording that   *)
(* an earlier process left behind for its own when it looks for the one it *)
(* has asked for, and subscription_id_ is the one that stops it.           *)
THEOREM OwnRecordingFound == Spec => []FoundIsOurs
<1>1. PublisherInv => FoundIsOurs
  BY DEF PublisherInv, ControllerInv
<1> QED
  BY <1>1, PublisherInvariant, PTL

(* When RecordingController::stopRecording() reports success, nothing of   *)
(* the stream is being recorded any more.                                  *)
THEOREM StoppedIsStopped == Spec => []StoppedMeansStopped
<1>1. PublisherInv => StoppedMeansStopped
  BY DEF PublisherInv, ControllerInv, StoppedMeansStopped
<1> QED
  BY <1>1, PublisherInvariant, PTL

(* AeronPublisher counts a message with "Recording: ON" only when the      *)
(* archive has it, as long as the recording shown is one it found.         *)
THEOREM PromisesKept == Spec => []PromisedIsRecorded
<1>1. PublisherInv => PromisedIsRecorded
  BY DEF PublisherInv
<1> QED
  BY <1>1, PublisherInvariant, PTL

=============================================================================
