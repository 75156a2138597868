------------------------- MODULE CheckpointManager -------------------------
(***************************************************************************)
(* The checkpoint of the subscriber process (CheckpointManager.cpp): the   *)
(* subscriber thread stores the fields of the in-memory checkpoint one     *)
(* after the other, the flush thread loads them one after the other and    *)
(* writes them to a temporary file that it renames.  Files may fail to     *)
(* open, to be written or to be renamed; the process may crash at any step *)
(* and is started again; a shutdown joins the flush thread and flushes a   *)
(* last time.                                                              *)
(*                                                                         *)
(* The n-th message of the stream has the sequence number n - 1 and ends at*)
(* position n; it is stored at time n.  The stream has one publisher.      *)
(* The relaxed stores and loads are taken in program order, as the x86-64  *)
(* builds of the repository perform them.                                  *)
(***************************************************************************)
EXTENDS Integers, Sequences

CONSTANTS
  NoFile,        \* there is no such file
  Invalid,       \* a file that load() rejects: short, or another magic or version
  MaxMessages,   \* bound: messages of the stream
  MaxFailures,   \* bound: failing file operations
  MaxCrashes     \* bound: crashes

ASSUME BoundsAssumption == {MaxMessages, MaxFailures, MaxCrashes} \subseteq Nat
\* The order in which update() stores and flush() loads the fields.
Order == <<"sequence", "position", "count", "time">>
Fields == {Order[k] : k \in 1 .. 4}

Empty == [f \in Fields |-> 0]
Snapshots == [Fields -> Nat]

ASSUME FileAssumption ==
  NoFile # Invalid /\ NoFile \notin Snapshots /\ Invalid \notin Snapshots

VARIABLES
  phase,       \* "down", "up", "stopping" (running_ = false), "final" (last flush)
  data,        \* CheckpointData
  next,        \* the next message of the stream for this process
  resumed,     \* history: no process has skipped a part of the stream
  received,    \* messages received by this process
  stored,      \* fields of the current update() already stored; 0 when none under way
  fpc,         \* flush thread: "sleep", "load", "write", "rename"
  loaded, snapshot,        \* fields loaded so far, and their values
  temp, file,              \* the two files
  flush_failures, crashes  \* of all the processes, for the bounds

process == <<data, received, stored, next, resumed>>
flusher == <<fpc, loaded, snapshot>>
disk    == <<temp, file>>
vars    == <<phase, process, flusher, disk, flush_failures, crashes>>

Init ==
  /\ phase = "down"
  /\ data = Empty /\ received = 0 /\ stored = 0
  /\ next = 1 /\ resumed = TRUE
  /\ fpc = "sleep" /\ loaded = 0 /\ snapshot = Empty
  /\ temp = NoFile
  /\ file \in {NoFile, Invalid}
  /\ flush_failures = 0 /\ crashes = 0

-----------------------------------------------------------------------------
\* load(): what is in the file, or nothing when it is missing or not valid.
Loaded == IF file \in {NoFile, Invalid} THEN Empty ELSE file

\* With --replay-auto the stream is resumed after the checkpoint, otherwise it is
\* joined where it now is.
FirstMessages(checkpoint) ==
  {checkpoint["position"] + 1} \cup (next .. MaxMessages + 1)

\* The constructor: load() and the start of the flush thread.
Start ==
  /\ phase = "down"
  /\ data' = Loaded
  /\ next' \in FirstMessages(data')
  /\ resumed' = (resumed /\ next' = data'["position"] + 1)
  /\ received' = 0
  /\ stored' = 0
  /\ fpc' = "sleep" /\ loaded' = 0 /\ snapshot' = Empty
  /\ phase' = "up"
  /\ UNCHANGED <<disk, flush_failures, crashes>>

\* update(), called by the subscriber thread for each message it has enqueued:
\* one atomic store per field.
StoreField ==
  /\ phase = "up"
  /\ next <= MaxMessages
  /\ data' = [data EXCEPT ![Order[stored + 1]] =
                 CASE stored = 0 -> next - 1
                   [] stored = 2 -> received + 1
                   [] OTHER      -> next]
  /\ IF stored + 1 = Len(Order)
     THEN stored' = 0 /\ next' = next + 1 /\ received' = received + 1
     ELSE stored' = stored + 1 /\ UNCHANGED <<next, received>>
  /\ UNCHANGED <<phase, resumed, flusher, disk, flush_failures, crashes>>

-----------------------------------------------------------------------------
\* flush(): by the flush thread, or after its end by the destructor.

ProcessEnds ==
  /\ phase' = "down"
  /\ data' = Empty /\ received' = 0 /\ stored' = 0
  /\ UNCHANGED <<next, resumed>>

FlushReturns ==
  /\ fpc' = "sleep" /\ loaded' = 0 /\ snapshot' = Empty
  /\ IF phase = "final" THEN ProcessEnds ELSE UNCHANGED <<phase, process>>

\* The end of the sleep, and the second test of running_; or the final flush.
FlushBegins ==
  /\ phase \in {"up", "final"}
  /\ fpc = "sleep"
  /\ fpc' = "load"
  /\ UNCHANGED <<phase, process, loaded, snapshot, disk, flush_failures, crashes>>

\* Mutant: the position is loaded before the sequence number.
LoadPositionFirst ==
  /\ fpc = "load"
  /\ loaded < Len(Order)
  /\ LET f == <<"position", "sequence", "count", "time">>[loaded + 1]
     IN  snapshot' = [snapshot EXCEPT ![f] = data[f]]
  /\ loaded' = loaded + 1
  /\ UNCHANGED <<phase, process, fpc, disk, flush_failures, crashes>>

LoadField ==
  /\ fpc = "load"
  /\ loaded < Len(Order)
  /\ snapshot' = [snapshot EXCEPT ![Order[loaded + 1]] = data[Order[loaded + 1]]]
  /\ loaded' = loaded + 1
  /\ UNCHANGED <<phase, process, fpc, disk, flush_failures, crashes>>

\* Mutant: the first message, number 0, is taken for no message.
NoSequenceYet == snapshot["sequence"] = 0

NoDataYet == \A f \in {"sequence", "position", "count"} : snapshot[f] = 0

SkipFlush ==
  /\ fpc = "load"
  /\ loaded = Len(Order)
  /\ NoDataYet
  /\ FlushReturns
  /\ UNCHANGED <<disk, flush_failures, crashes>>

\* Mutant: the checkpoint file itself is truncated and written again.
OpenInPlace ==
  /\ fpc = "load"
  /\ loaded = Len(Order)
  /\ ~ NoDataYet
  /\ file' = Invalid
  /\ fpc' = "write"
  /\ UNCHANGED <<phase, process, loaded, snapshot, temp, flush_failures, crashes>>

\* Opening the temporary file truncates it.
OpenTemp ==
  /\ fpc = "load"
  /\ loaded = Len(Order)
  /\ ~ NoDataYet
  /\ temp' = Invalid
  /\ fpc' = "write"
  /\ UNCHANGED <<phase, process, loaded, snapshot, file, flush_failures, crashes>>

WriteTemp ==
  /\ fpc = "write"
  /\ temp' = snapshot
  /\ fpc' = "rename"
  /\ UNCHANGED <<phase, process, loaded, snapshot, file, flush_failures, crashes>>

Rename ==
  /\ fpc = "rename"
  /\ file' = temp
  /\ temp' = NoFile
  /\ FlushReturns
  /\ UNCHANGED <<flush_failures, crashes>>

\* open, write or rename fails: the failure is counted and flush() returns.
FlushFails ==
  /\ \/ fpc = "load" /\ loaded = Len(Order) /\ ~ NoDataYet
     \/ fpc \in {"write", "rename"}
  /\ flush_failures < MaxFailures
  /\ flush_failures' = flush_failures + 1
  /\ FlushReturns
  /\ UNCHANGED <<disk, crashes>>

-----------------------------------------------------------------------------
\* The destructor: no update is under way, the subscriber thread has been joined.

Stop ==
  /\ phase = "up"
  /\ stored = 0
  /\ phase' = "stopping"
  /\ UNCHANGED <<process, flusher, disk, flush_failures, crashes>>

\* Mutant: the last flush starts beside the flush thread.
JoinWithoutWaiting ==
  /\ phase = "stopping"
  /\ phase' = "final"
  /\ UNCHANGED <<process, flusher, disk, flush_failures, crashes>>

\* Mutant: there is no last flush.
JoinAndEnd ==
  /\ phase = "stopping"
  /\ fpc = "sleep"
  /\ ProcessEnds
  /\ UNCHANGED <<flusher, disk, flush_failures, crashes>>

\* The flush thread ends once it is back in its loop, and is joined.
Join ==
  /\ phase = "stopping"
  /\ fpc = "sleep"
  /\ phase' = "final"
  /\ UNCHANGED <<process, flusher, disk, flush_failures, crashes>>

Crash ==
  /\ phase # "down"
  /\ crashes < MaxCrashes
  /\ crashes' = crashes + 1
  /\ ProcessEnds
  /\ fpc' = "sleep" /\ loaded' = 0 /\ snapshot' = Empty
  /\ UNCHANGED <<disk, flush_failures>>

-----------------------------------------------------------------------------
Flush ==
  \/ FlushBegins \/ LoadField \/ SkipFlush \/ OpenTemp \/ WriteTemp \/ Rename

Next == Start \/ StoreField \/ Flush \/ FlushFails \/ Stop \/ Join \/ Crash

Spec == Init /\ [][Next]_vars

\* The flush thread keeps running, a started shutdown goes on; nobody has to
\* start the process, send a message, stop it or make it fail.
FairSpec == Spec /\ WF_vars(Flush) /\ WF_vars(Join)

-----------------------------------------------------------------------------
IsSnapshot(f) == f \notin {NoFile, Invalid}

(* The values are of the expected kind, the files complete or invalid. *)
TypeOK ==
  /\ phase \in {"down", "up", "stopping", "final"}
  /\ data \in Snapshots /\ snapshot \in Snapshots
  /\ next \in Nat \ {0} /\ received \in Nat /\ stored \in 0 .. 3
  /\ resumed \in BOOLEAN
  /\ fpc \in {"sleep", "load", "write", "rename"}
  /\ loaded \in 0 .. 4
  /\ {temp, file} \subseteq Snapshots \cup {NoFile, Invalid}
  /\ flush_failures \in Nat /\ crashes \in Nat

(* How far each thread has come. *)
FlusherProgress ==
  /\ fpc = "sleep" => loaded = 0
  /\ fpc \in {"write", "rename"} => loaded = 4
  /\ fpc = "rename" => temp = snapshot
  /\ phase = "down" => fpc = "sleep"

(* Positions grow from the file to the snapshot under way, to the memory   *)
(* and to the next message.                                                *)
PositionsInOrder ==
  /\ IsSnapshot(file) => file["position"] <= next
  /\ phase # "down" =>
       /\ data["position"] <= next
       /\ IsSnapshot(file) => file["position"] <= data["position"]
       /\ loaded >= 2 => snapshot["position"] <= data["position"]
       /\ loaded >= 2 /\ IsSnapshot(file) => file["position"] <= snapshot["position"]

(* As long as no process has skipped a part of the stream, each sequence   *)
(* number is that of a message at or before the position.                  *)
SequencesCovered ==
  resumed =>
    /\ IsSnapshot(file) => file["sequence"] <= file["position"]
    /\ phase # "down" =>
         /\ stored \in {0, 1} => next = data["position"] + 1
         /\ stored \in {2, 3} => next = data["position"]
         /\ data["sequence"] <= data["position"]
         /\ loaded >= 1 => snapshot["sequence"] <= data["position"]
         /\ loaded >= 2 => snapshot["sequence"] <= snapshot["position"]

(* The last flush runs alone: the subscriber stores nothing any more and   *)
(* the flush thread has been joined.                                       *)
LastFlushRunsAlone ==
  /\ phase # "up" => stored = 0
  /\ phase = "final" => \A k \in 1 .. loaded : snapshot[Order[k]] = data[Order[k]]

(* The inductive invariant: what the threads and the disk know of the      *)
(* stream at every step of update(), flush(), a shutdown and a restart.    *)
CheckpointInv ==
  /\ TypeOK
  /\ FlusherProgress
  /\ PositionsInOrder
  /\ SequencesCovered
  /\ LastFlushRunsAlone

(* "Checkpoint file is never corrupted, even if the process crashes during *)
(* a write": whatever fails and whenever the process crashes, the file is  *)
(* only ever replaced by a complete one, and the position it holds never   *)
(* goes back, so that a restart does not replay what an earlier one had    *)
(* already passed.                                                         *)
FileOnlyAdvances ==
  [][ \/ file' = file
      \/ /\ IsSnapshot(file')
         /\ IsSnapshot(file) => file'["position"] >= file["position"] ]_vars

(* A torn snapshot errs on one side.  update() stores the sequence number  *)
(* before the position and flush() loads them in that order too: the file  *)
(* may hold the position of a later message than the sequence number, but  *)
(* an earlier one by at most one message, as long as every process resumes *)
(* at the checkpoint.                                                      *)
PositionTrailsByAtMostOne ==
  resumed /\ IsSnapshot(file) => file["position"] >= file["sequence"]

(* A shutdown whose last flush does not fail leaves the very last update   *)
(* in the file, all its fields, whatever the flush thread was doing when   *)
(* it was told to stop.  (Nothing is written before the first message.)    *)
ShutdownSavesLast ==
  [][ phase # "down" /\ phase' = "down"
        /\ crashes' = crashes /\ flush_failures' = flush_failures
      => data["position"] = 0 \/ file' = data ]_vars

(* What update() stored is on disk one flush later, if the process lives.  *)
FlushedEventually ==
  \A n \in 1 .. MaxMessages :
    (data["position"] = n /\ stored = 0)
      ~> (IsSnapshot(file) /\ file["position"] >= n) \/ phase = "down"

(* What flush() writes is a "consistent snapshot" (CheckpointManager.cpp   *)
(* :107): the sequence number and the position are those of one message.   *)
SnapshotConsistent ==
  IsSnapshot(file) => file["position"] = file["sequence"] + 1
=============================================================================
