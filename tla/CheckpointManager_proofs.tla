---------------------- MODULE CheckpointManager_proofs ----------------------
(***************************************************************************)
(* Proofs about the checkpoint for every number of messages, failures and  *)
(* crashes: CheckpointInv is inductive, the file only advances, its        *)
(* position trails its sequence number by at most one message, and a       *)
(* shutdown saves the last update.                                         *)
(***************************************************************************)
EXTENDS CheckpointManager, TLAPS

LEMMA FieldsAre == Fields = {"sequence", "position", "count", "time"}
  BY DEF Fields, Order

LEMMA OrderType ==
  /\ Len(Order) = 4
  /\ \A k \in 1 .. 4 : Order[k] \in Fields
  /\ Order[1] = "sequence" /\ Order[2] = "position" /\ Order[3] = "count" /\ Order[4] = "time"
  BY DEF Fields, Order

LEMMA EmptyType == Empty \in Snapshots /\ \A f \in Fields : Empty[f] = 0
  BY DEF Empty, Snapshots

LEMMA SnapshotFields ==
  ASSUME NEW s \in Snapshots
  PROVE  /\ s["sequence"] \in Nat /\ s["position"] \in Nat
         /\ s["count"] \in Nat /\ s["time"] \in Nat
  BY FieldsAre DEF Snapshots

LEMMA CheckpointInvInit == Init => CheckpointInv
<1> SUFFICES ASSUME Init PROVE CheckpointInv
  OBVIOUS
<1>1. TypeOK
  BY EmptyType DEF Init, TypeOK
<1>2. ~ IsSnapshot(file)
  BY DEF Init, IsSnapshot
<1> QED
  BY <1>1, <1>2 DEF Init, CheckpointInv, FlusherProgress, PositionsInOrder, SequencesCovered,
                    LastFlushRunsAlone

-----------------------------------------------------------------------------
\* Each action preserves the invariant.

LEMMA StartStep ==
  ASSUME CheckpointInv, Start
  PROVE  CheckpointInv'
<1> USE DEF CheckpointInv, TypeOK, Start, Loaded, FirstMessages, FlushReturns, ProcessEnds,
              process, flusher, disk
<1>1. TypeOK'
  BY OrderType, FieldsAre, EmptyType, FileAssumption DEF Snapshots
<1>2. FlusherProgress'
  BY DEF FlusherProgress
<1>3. PositionsInOrder'
  BY OrderType, FieldsAre, EmptyType, FileAssumption DEF PositionsInOrder, IsSnapshot, Snapshots
<1>4. SequencesCovered'
  <2> SUFFICES ASSUME resumed' PROVE SequencesCovered'
    BY DEF SequencesCovered
  <2>1. resumed /\ next' = data'["position"] + 1
    OBVIOUS
  <2>2. IsSnapshot(file) => file \in Snapshots /\ file["sequence"] <= file["position"]
    BY <2>1 DEF SequencesCovered, IsSnapshot
  <2>3. data'["sequence"] <= data'["position"]
    BY <2>2, EmptyType, FieldsAre DEF IsSnapshot
  <2> QED
    BY <2>1, <2>2, <2>3 DEF SequencesCovered, IsSnapshot
<1>5. LastFlushRunsAlone'
  BY OrderType, FieldsAre DEF LastFlushRunsAlone, FlusherProgress, Snapshots
<1> QED
  BY <1>1, <1>2, <1>3, <1>4, <1>5

LEMMA StoreFieldStep ==
  ASSUME CheckpointInv, StoreField
  PROVE  CheckpointInv'
<1> USE DEF CheckpointInv, TypeOK, StoreField, FlushReturns, ProcessEnds, process, flusher, disk
<1>1. TypeOK'
  BY OrderType, FieldsAre, EmptyType, FileAssumption DEF Snapshots
<1>2. FlusherProgress'
  BY DEF FlusherProgress
<1>3. PositionsInOrder'
  BY OrderType, FieldsAre, EmptyType, FileAssumption DEF PositionsInOrder, IsSnapshot, Snapshots
<1>4. SequencesCovered'
  BY OrderType, FieldsAre, EmptyType, FileAssumption DEF SequencesCovered, IsSnapshot, Snapshots
<1>5. LastFlushRunsAlone'
  BY OrderType, FieldsAre DEF LastFlushRunsAlone, FlusherProgress, Snapshots
<1> QED
  BY <1>1, <1>2, <1>3, <1>4, <1>5

LEMMA FlushBeginsStep ==
  ASSUME CheckpointInv, FlushBegins
  PROVE  CheckpointInv'
<1> USE DEF CheckpointInv, TypeOK, FlushBegins, FlushReturns, ProcessEnds, process, flusher, disk
<1>1. TypeOK'
  BY OrderType, FieldsAre, EmptyType, FileAssumption DEF Snapshots
<1>2. FlusherProgress'
  BY DEF FlusherProgress
<1>3. PositionsInOrder'
  BY OrderType, FieldsAre, EmptyType, FileAssumption DEF PositionsInOrder, IsSnapshot, Snapshots
<1>4. SequencesCovered'
  BY OrderType, FieldsAre, EmptyType, FileAssumption DEF SequencesCovered, IsSnapshot, Snapshots
<1>5. LastFlushRunsAlone'
  BY OrderType, FieldsAre DEF LastFlushRunsAlone, FlusherProgress, Snapshots
<1> QED
  BY <1>1, <1>2, <1>3, <1>4, <1>5

LEMMA LoadFieldStep ==
  ASSUME CheckpointInv, LoadField
  PROVE  CheckpointInv'
<1> USE DEF CheckpointInv, TypeOK, LoadField, FlushReturns, ProcessEnds, process, flusher, disk
<1>1. TypeOK'
  BY OrderType, FieldsAre, EmptyType, FileAssumption DEF Snapshots
<1>2. FlusherProgress'
  BY DEF FlusherProgress
<1>3. PositionsInOrder'
  BY OrderType, FieldsAre, EmptyType, FileAssumption DEF PositionsInOrder, IsSnapshot, Snapshots
<1>4. SequencesCovered'
  <2>1. CASE loaded = 0
    BY <2>1, OrderType, FieldsAre, SnapshotFields DEF SequencesCovered, IsSnapshot, Snapshots, FlusherProgress
  <2>2. CASE loaded = 1
    BY <2>2, OrderType, FieldsAre, SnapshotFields DEF SequencesCovered, IsSnapshot, Snapshots, FlusherProgress
  <2>3. CASE loaded \in {2, 3}
    BY <2>3, OrderType, FieldsAre, SnapshotFields DEF SequencesCovered, IsSnapshot, Snapshots, FlusherProgress
  <2> QED
    BY <2>1, <2>2, <2>3, OrderType
<1>5. LastFlushRunsAlone'
  BY OrderType, FieldsAre DEF LastFlushRunsAlone, FlusherProgress, Snapshots
<1> QED
  BY <1>1, <1>2, <1>3, <1>4, <1>5

LEMMA SkipFlushStep ==
  ASSUME CheckpointInv, SkipFlush
  PROVE  CheckpointInv'
<1> USE DEF CheckpointInv, TypeOK, SkipFlush, FlushReturns, ProcessEnds, process, flusher, disk
<1>1. TypeOK'
  BY OrderType, FieldsAre, EmptyType, FileAssumption DEF Snapshots
<1>2. FlusherProgress'
  BY DEF FlusherProgress
<1>3. PositionsInOrder'
  BY OrderType, FieldsAre, EmptyType, FileAssumption DEF PositionsInOrder, IsSnapshot, Snapshots
<1>4. SequencesCovered'
  <2> SUFFICES ASSUME resumed' PROVE SequencesCovered'
    BY DEF SequencesCovered
  <2>1. resumed
    OBVIOUS
  <2>2. IsSnapshot(file') => file'["sequence"] <= file'["position"]
    BY <2>1, SnapshotFields DEF SequencesCovered, IsSnapshot, FlusherProgress
  <2>3. CASE phase = "final"
    BY <2>2, <2>3 DEF SequencesCovered
  <2>4. CASE phase # "final"
    BY <2>1, <2>2, <2>4 DEF SequencesCovered, FlusherProgress
  <2> QED
    BY <2>3, <2>4
<1>5. LastFlushRunsAlone'
  BY OrderType, FieldsAre DEF LastFlushRunsAlone, FlusherProgress, Snapshots
<1> QED
  BY <1>1, <1>2, <1>3, <1>4, <1>5

LEMMA OpenTempStep ==
  ASSUME CheckpointInv, OpenTemp
  PROVE  CheckpointInv'
<1> USE DEF CheckpointInv, TypeOK, OpenTemp, FlushReturns, ProcessEnds, process, flusher, disk
<1>1. TypeOK'
  BY OrderType, FieldsAre, EmptyType, FileAssumption DEF Snapshots
<1>2. FlusherProgress'
  BY OrderType DEF FlusherProgress
<1>3. PositionsInOrder'
  BY OrderType, FieldsAre, EmptyType, FileAssumption DEF PositionsInOrder, IsSnapshot, Snapshots
<1>4. SequencesCovered'
  BY OrderType, FieldsAre, EmptyType, FileAssumption DEF SequencesCovered, IsSnapshot, Snapshots
<1>5. LastFlushRunsAlone'
  BY OrderType, FieldsAre DEF LastFlushRunsAlone, FlusherProgress, Snapshots
<1> QED
  BY <1>1, <1>2, <1>3, <1>4, <1>5

LEMMA WriteTempStep ==
  ASSUME CheckpointInv, WriteTemp
  PROVE  CheckpointInv'
<1> USE DEF CheckpointInv, TypeOK, WriteTemp, FlushReturns, ProcessEnds, process, flusher, disk
<1>1. TypeOK'
  BY OrderType, FieldsAre, EmptyType, FileAssumption DEF Snapshots
<1>2. FlusherProgress'
  BY DEF FlusherProgress
<1>3. PositionsInOrder'
  BY OrderType, FieldsAre, EmptyType, FileAssumption DEF PositionsInOrder, IsSnapshot, Snapshots
<1>4. SequencesCovered'
  BY OrderType, FieldsAre, EmptyType, FileAssumption DEF SequencesCovered, IsSnapshot, Snapshots
<1>5. LastFlushRunsAlone'
  BY OrderType, FieldsAre DEF LastFlushRunsAlone, FlusherProgress, Snapshots
<1> QED
  BY <1>1, <1>2, <1>3, <1>4, <1>5

LEMMA RenameStep ==
  ASSUME CheckpointInv, Rename
  PROVE  CheckpointInv'
<1> USE DEF CheckpointInv, TypeOK, Rename, FlushReturns, ProcessEnds, process, flusher, disk
<1>1. TypeOK'
  BY OrderType, FieldsAre, EmptyType, FileAssumption DEF Snapshots
<1>2. FlusherProgress'
  BY DEF FlusherProgress
<1>0. temp = snapshot /\ loaded = 4 /\ phase # "down"
  BY DEF FlusherProgress
<1>3. PositionsInOrder'
  BY <1>0, SnapshotFields, EmptyType, FieldsAre, FileAssumption DEF PositionsInOrder, IsSnapshot
<1>4. SequencesCovered'
  <2> SUFFICES ASSUME resumed' PROVE SequencesCovered'
    BY DEF SequencesCovered
  <2>1. resumed
    OBVIOUS
  <2>2. IsSnapshot(file') => file'["sequence"] <= file'["position"]
    BY <1>0, <2>1, SnapshotFields DEF SequencesCovered, IsSnapshot, FlusherProgress
  <2>3. CASE phase = "final"
    BY <2>2, <2>3 DEF SequencesCovered
  <2>4. CASE phase # "final"
    BY <2>1, <2>2, <2>4 DEF SequencesCovered, FlusherProgress
  <2> QED
    BY <2>3, <2>4
<1>5. LastFlushRunsAlone'
  BY OrderType, FieldsAre DEF LastFlushRunsAlone, FlusherProgress, Snapshots
<1> QED
  BY <1>1, <1>2, <1>3, <1>4, <1>5

LEMMA FlushFailsStep ==
  ASSUME CheckpointInv, FlushFails
  PROVE  CheckpointInv'
<1> USE DEF CheckpointInv, TypeOK, FlushFails, FlushReturns, ProcessEnds, process, flusher, disk
<1>1. TypeOK'
  BY OrderType, FieldsAre, EmptyType, FileAssumption DEF Snapshots
<1>2. FlusherProgress'
  BY DEF FlusherProgress
<1>3. PositionsInOrder'
  BY OrderType, FieldsAre, EmptyType, FileAssumption DEF PositionsInOrder, IsSnapshot, Snapshots
<1>4. SequencesCovered'
  <2> SUFFICES ASSUME resumed' PROVE SequencesCovered'
    BY DEF SequencesCovered
  <2>1. resumed
    OBVIOUS
  <2>2. IsSnapshot(file') => file'["sequence"] <= file'["position"]
    BY <2>1, SnapshotFields DEF SequencesCovered, IsSnapshot, FlusherProgress
  <2>3. CASE phase = "final"
    BY <2>2, <2>3 DEF SequencesCovered
  <2>4. CASE phase # "final"
    BY <2>1, <2>2, <2>4 DEF SequencesCovered, FlusherProgress
  <2> QED
    BY <2>3, <2>4
<1>5. LastFlushRunsAlone'
  BY OrderType, FieldsAre DEF LastFlushRunsAlone, FlusherProgress, Snapshots
<1> QED
  BY <1>1, <1>2, <1>3, <1>4, <1>5

LEMMA StopStep ==
  ASSUME CheckpointInv, Stop
  PROVE  CheckpointInv'
<1> USE DEF CheckpointInv, TypeOK, Stop, FlushReturns, ProcessEnds, process, flusher, disk
<1>1. TypeOK'
  BY OrderType, FieldsAre, EmptyType, FileAssumption DEF Snapshots
<1>2. FlusherProgress'
  BY DEF FlusherProgress
<1>3. PositionsInOrder'
  BY OrderType, FieldsAre, EmptyType, FileAssumption DEF PositionsInOrder, IsSnapshot, Snapshots
<1>4. SequencesCovered'
  BY OrderType, FieldsAre, EmptyType, FileAssumption DEF SequencesCovered, IsSnapshot, Snapshots
<1>5. LastFlushRunsAlone'
  BY OrderType, FieldsAre DEF LastFlushRunsAlone, FlusherProgress, Snapshots
<1> QED
  BY <1>1, <1>2, <1>3, <1>4, <1>5

LEMMA JoinStep ==
  ASSUME CheckpointInv, Join
  PROVE  CheckpointInv'
<1> USE DEF CheckpointInv, TypeOK, Join, FlushReturns, ProcessEnds, process, flusher, disk
<1>1. TypeOK'
  BY OrderType, FieldsAre, EmptyType, FileAssumption DEF Snapshots
<1>2. FlusherProgress'
  BY DEF FlusherProgress
<1>3. PositionsInOrder'
  BY OrderType, FieldsAre, EmptyType, FileAssumption DEF PositionsInOrder, IsSnapshot, Snapshots
<1>4. SequencesCovered'
  BY OrderType, FieldsAre, EmptyType, FileAssumption DEF SequencesCovered, IsSnapshot, Snapshots
<1>5. LastFlushRunsAlone'
  BY OrderType, FieldsAre DEF LastFlushRunsAlone, FlusherProgress, Snapshots
<1> QED
  BY <1>1, <1>2, <1>3, <1>4, <1>5

LEMMA CrashStep ==
  ASSUME CheckpointInv, Crash
  PROVE  CheckpointInv'
<1> USE DEF CheckpointInv, TypeOK, Crash, FlushReturns, ProcessEnds, process, flusher, disk
<1>1. TypeOK'
  BY OrderType, FieldsAre, EmptyType, FileAssumption DEF Snapshots
<1>2. FlusherProgress'
  BY DEF FlusherProgress
<1>3. PositionsInOrder'
  BY OrderType, FieldsAre, EmptyType, FileAssumption DEF PositionsInOrder, IsSnapshot, Snapshots
<1>4. SequencesCovered'
  BY OrderType, FieldsAre, EmptyType, FileAssumption DEF SequencesCovered, IsSnapshot, Snapshots
<1>5. LastFlushRunsAlone'
  BY OrderType, FieldsAre DEF LastFlushRunsAlone, FlusherProgress, Snapshots
<1> QED
  BY <1>1, <1>2, <1>3, <1>4, <1>5

LEMMA CheckpointInvStep == CheckpointInv /\ [Next]_vars => CheckpointInv'
<1> SUFFICES ASSUME CheckpointInv, [Next]_vars PROVE CheckpointInv'
  OBVIOUS
<1>1. CASE Start
  BY <1>1, StartStep
<1>2. CASE StoreField
  BY <1>2, StoreFieldStep
<1>3. CASE FlushBegins
  BY <1>3, FlushBeginsStep
<1>4. CASE LoadField
  BY <1>4, LoadFieldStep
<1>5. CASE SkipFlush
  BY <1>5, SkipFlushStep
<1>6. CASE OpenTemp
  BY <1>6, OpenTempStep
<1>7. CASE WriteTemp
  BY <1>7, WriteTempStep
<1>8. CASE Rename
  BY <1>8, RenameStep
<1>9. CASE FlushFails
  BY <1>9, FlushFailsStep
<1>10. CASE Stop
  BY <1>10, StopStep
<1>11. CASE Join
  BY <1>11, JoinStep
<1>12. CASE Crash
  BY <1>12, CrashStep
<1>13. CASE UNCHANGED vars
  BY <1>13 DEF vars, process, flusher, disk, CheckpointInv, TypeOK, FlusherProgress,
     PositionsInOrder, SequencesCovered, LastFlushRunsAlone, IsSnapshot
<1> QED
  BY <1>1, <1>2, <1>3, <1>4, <1>5, <1>6, <1>7, <1>8, <1>9, <1>10, <1>11, <1>12, <1>13 DEF Next, Flush

-----------------------------------------------------------------------------
(* What the two threads and the disk know of the stream at every step of   *)
(* update(), flush(), a shutdown and a restart.                            *)
THEOREM CheckpointInvariant == Spec => []CheckpointInv
<1>1. Init => CheckpointInv
  BY CheckpointInvInit
<1>2. CheckpointInv /\ [Next]_vars => CheckpointInv'
  BY CheckpointInvStep
<1> QED
  BY <1>1, <1>2, PTL DEF Spec

(* The position in the file is at most one message behind its sequence     *)
(* number, although flush() loads the two while update() stores them.      *)
THEOREM PositionTrails == Spec => []PositionTrailsByAtMostOne
<1>1. CheckpointInv => PositionTrailsByAtMostOne
  <2> SUFFICES ASSUME CheckpointInv, resumed, IsSnapshot(file)
               PROVE  file["position"] >= file["sequence"]
    BY DEF PositionTrailsByAtMostOne
  <2>1. file \in Snapshots
    BY DEF CheckpointInv, TypeOK, IsSnapshot
  <2>2. file["sequence"] <= file["position"]
    BY DEF CheckpointInv, SequencesCovered
  <2> QED
    BY <2>1, <2>2, SnapshotFields
<1> QED
  BY <1>1, CheckpointInvariant, PTL

(* Rename is the only action that replaces the file, and it does so by the *)
(* complete snapshot just written.                                         *)
LEMMA FileAdvancesStep ==
  ASSUME CheckpointInv, [Next]_vars
  PROVE  \/ file' = file
         \/ /\ IsSnapshot(file')
            /\ IsSnapshot(file) => file'["position"] >= file["position"]
<1>1. CASE Rename
  <2>1. fpc = "rename" /\ phase # "down" /\ loaded = 4 /\ file' = snapshot
    BY <1>1 DEF Rename, CheckpointInv, FlusherProgress, TypeOK
  <2>2. snapshot \in Snapshots
    BY DEF CheckpointInv, TypeOK
  <2>3. IsSnapshot(file')
    BY <2>1, <2>2, FileAssumption DEF IsSnapshot
  <2>4. ASSUME IsSnapshot(file) PROVE file'["position"] >= file["position"]
    <3>1. file \in Snapshots
      BY <2>4 DEF CheckpointInv, TypeOK, IsSnapshot
    <3>2. file["position"] <= snapshot["position"]
      BY <2>1, <2>4 DEF CheckpointInv, PositionsInOrder
    <3> QED
      BY <2>1, <2>2, <3>1, <3>2, SnapshotFields
  <2> QED
    BY <2>3, <2>4
<1>2. CASE ~ Rename
  BY <1>2 DEF Next, vars, disk, Flush, Start, StoreField, FlushBegins, LoadField, SkipFlush,
              OpenTemp, WriteTemp, FlushFails, Stop, Join, Crash
<1> QED
  BY <1>1, <1>2

(* The checkpoint file is never corrupted and its position never goes back.*)
THEOREM FileAdvances == Spec => FileOnlyAdvances
<1>1. CheckpointInv /\ [Next]_vars =>
        [ \/ file' = file
          \/ /\ IsSnapshot(file')
             /\ IsSnapshot(file) => file'["position"] >= file["position"] ]_vars
  BY FileAdvancesStep
<1> QED
  BY <1>1, CheckpointInvariant, PTL DEF Spec, FileOnlyAdvances

(* The last flush has loaded exactly what the last update() stored. *)
LEMMA SnapshotIsData ==
  ASSUME CheckpointInv, phase = "final", loaded = 4
  PROVE  snapshot = data
<1>1. \A f \in Fields : snapshot[f] = data[f]
  BY OrderType, FieldsAre DEF CheckpointInv, LastFlushRunsAlone
<1> QED
  BY <1>1 DEF CheckpointInv, TypeOK, Snapshots

LEMMA ShutdownStep ==
  ASSUME CheckpointInv, [Next]_vars, phase # "down", phase' = "down",
         crashes' = crashes, flush_failures' = flush_failures
  PROVE  data["position"] = 0 \/ file' = data
<1>1. ~ Crash /\ ~ FlushFails
  BY DEF Crash, FlushFails, CheckpointInv, TypeOK
<1>2. CASE SkipFlush
  <2>1. phase = "final" /\ loaded = 4 /\ snapshot["position"] = 0
    BY <1>2, OrderType DEF SkipFlush, FlushReturns, NoDataYet
  <2> QED
    BY <2>1, SnapshotIsData
<1>3. CASE Rename
  <2>1. phase = "final" /\ loaded = 4 /\ file' = snapshot
    BY <1>3 DEF Rename, FlushReturns, CheckpointInv, FlusherProgress
  <2> QED
    BY <2>1, SnapshotIsData
<1>4. CASE ~ SkipFlush /\ ~ Rename
  BY <1>1, <1>4 DEF Next, vars, Flush, Start, StoreField, FlushBegins, LoadField, OpenTemp,
                    WriteTemp, Stop, Join
<1> QED
  BY <1>2, <1>3, <1>4

(* A shutdown whose last flush does not fail saves the last update.        *)
THEOREM ShutdownSaves == Spec => ShutdownSavesLast
<1>1. CheckpointInv /\ [Next]_vars =>
        [ phase # "down" /\ phase' = "down"
            /\ crashes' = crashes /\ flush_failures' = flush_failures
          => data["position"] = 0 \/ file' = data ]_vars
  BY ShutdownStep
<1> QED
  BY <1>1, CheckpointInvariant, PTL DEF Spec, ShutdownSavesLast
=============================================================================
