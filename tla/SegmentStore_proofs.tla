------------------------ MODULE SegmentStore_proofs ------------------------
(***************************************************************************)
(* Proofs about SegmentStore, for every set of hashes, record length,      *)
(* segment size and bound: type correctness; as long as no write is cut    *)
(* short, that issued refs are durable, the index is sound, and the store  *)
(* is a ChunkStore; and, torn writes or not, what no step may do to the    *)
(* segment files.                                                          *)
(***************************************************************************)
EXTENDS SegmentStore, TLAPS

\* The operation records the actions build are well-typed: a fresh
\* operation, a sync (with or without a pending rotation), an append.
LEMMA OpShapes ==
  /\ Idle \in Op
  /\ \A S \in SUBSET Hash :
       /\ [Idle EXCEPT !.kind = "put", !.todo = S] \in Op
       /\ [Idle EXCEPT !.kind = "rewrite", !.todo = S] \in Op
  /\ \A S \in SUBSET SegId : [Idle EXCEPT !.kind = "delete", !.victims = S] \in Op
  /\ \A o \in Op : [o EXCEPT !.dirty = FALSE] \in Op
  /\ \A o \in Op, h \in Hash :
       /\ [o EXCEPT !.next = {h}] \in Op
       /\ [o EXCEPT !.dirty = FALSE, !.next = {h}] \in Op
  /\ \A o \in Op, S \in SUBSET SegId : [o EXCEPT !.victims = o.victims \ S] \in Op
  /\ \A o \in Op, h \in Hash, r \in Ref :
       [o EXCEPT !.todo = @ \ {h}, !.next = {}, !.dirty = TRUE, !.refs = @ \cup {r}] \in Op
<1>1. Idle \in Op
  BY DEF Idle, Op
<1>2. ASSUME NEW S \in SUBSET Hash
      PROVE  /\ [Idle EXCEPT !.kind = "put", !.todo = S] \in Op
             /\ [Idle EXCEPT !.kind = "rewrite", !.todo = S] \in Op
  BY DEF Idle, Op
<1>3. ASSUME NEW S \in SUBSET SegId
      PROVE  [Idle EXCEPT !.kind = "delete", !.victims = S] \in Op
  BY DEF Idle, Op
<1>4. ASSUME NEW o \in Op
      PROVE  [o EXCEPT !.dirty = FALSE] \in Op
  BY DEF Op
<1>5. ASSUME NEW o \in Op, NEW h \in Hash
      PROVE  /\ [o EXCEPT !.next = {h}] \in Op
             /\ [o EXCEPT !.dirty = FALSE, !.next = {h}] \in Op
  BY DEF Op
<1>6. ASSUME NEW o \in Op, NEW S \in SUBSET SegId
      PROVE  [o EXCEPT !.victims = o.victims \ S] \in Op
  BY DEF Op
<1>7. ASSUME NEW o \in Op, NEW h \in Hash, NEW r \in Ref
      PROVE  [o EXCEPT !.todo = @ \ {h}, !.next = {}, !.dirty = TRUE,
                       !.refs = @ \cup {r}] \in Op
  BY DEF Op
<1> QED
  BY <1>1, <1>2, <1>3, <1>4, <1>5, <1>6, <1>7

\* The closed writer of a stopped process is well-typed.
LEMMA ClosedWriterType == ClosedWriter \in [id : SegId, off : Nat, open : BOOLEAN]
  BY ConstantsOK DEF ConstantsOK, ClosedWriter, SegId

\* Opening a segment file keeps the writer and the directory well-typed.
LEMMA OpenFileType ==
  ASSUME TypeOK, NEW id \in SegId, OpenFile(id)
  PROVE  /\ onDisk' \subseteq SegId
         /\ writer' \in [id : SegId, off : Nat, open : BOOLEAN]
<1>1. size[id] \in Nat
  BY DEF TypeOK
<1> QED
  BY <1>1 DEF TypeOK, OpenFile

\* So does a rotation that succeeds, and one that leaves a closed handle.
LEMMA RotateType ==
  ASSUME TypeOK, Rotate \/ RotateBreaks
  PROVE  /\ onDisk' \subseteq SegId
         /\ writer' \in [id : SegId, off : Nat, open : BOOLEAN]
<1>1. CASE Rotate
  <2>1. writer.id + 1 \in SegId /\ OpenFile(writer.id + 1)
    BY <1>1 DEF Rotate
  <2> QED
    BY <2>1, OpenFileType
<1>2. CASE RotateBreaks
  BY <1>2 DEF RotateBreaks, TypeOK
<1> QED
  BY <1>1, <1>2

\* Every variable of the chunk store keeps its type.
THEOREM TypeCorrect == Spec => []TypeOK
<1>1. Init => TypeOK
  <2> SUFFICES ASSUME Init PROVE TypeOK
    OBVIOUS
  <2>1. size \in [SegId -> Nat] /\ synced \in [SegId -> Nat]
    BY DEF Init
  <2>2. writer \in [id : SegId, off : Nat, open : BOOLEAN]
    BY ClosedWriterType DEF Init
  <2>3. op \in Op
    BY OpShapes DEF Init
  <2> QED
    BY <2>1, <2>2, <2>3 DEF Init, TypeOK
<1>2. TypeOK /\ [Next]_vars => TypeOK'
  <2> SUFFICES ASSUME TypeOK, [Next]_vars PROVE TypeOK'
    OBVIOUS
  <2>1. CASE Restart
    <3>1. PICK id \in SegId :
            \/ OpenFile(id)
            \/ id + 1 \in SegId /\ OpenFile(id + 1)
      BY <2>1 DEF Restart
    <3>2. /\ onDisk' \subseteq SegId
          /\ writer' \in [id : SegId, off : Nat, open : BOOLEAN]
      BY <3>1, OpenFileType
    <3> QED
      BY <2>1, <3>2 DEF Restart, TypeOK
  <2>2. CASE RotateForMaintenance
    <3>1. /\ onDisk' \subseteq SegId
          /\ writer' \in [id : SegId, off : Nat, open : BOOLEAN]
      BY <2>2, RotateType DEF RotateForMaintenance
    <3> QED
      BY <2>2, <3>1 DEF RotateForMaintenance, TypeOK
  <2>3. ASSUME NEW batch \in SUBSET Hash, PutBegin(batch) PROVE TypeOK'
    <3>1. op' \in Op
      BY <2>3, OpShapes DEF PutBegin
    <3> QED
      BY <2>3, <3>1 DEF PutBegin, TypeOK
  <2>4. ASSUME NEW ref \in issued, RewriteBegin(ref) PROVE TypeOK'
    <3>1. {ref.hash} \in SUBSET Hash
      BY DEF TypeOK, Ref
    <3>2. op' \in Op
      BY <2>4, <3>1, OpShapes DEF RewriteBegin
    <3> QED
      BY <2>4, <3>2 DEF RewriteBegin, TypeOK
  <2>5. CASE SyncDirty
    <3>1. writer.id \in SegId /\ size[writer.id] \in Nat /\ op \in Op
      BY DEF TypeOK
    <3>2. Candidates \subseteq Hash
      BY <3>1 DEF Candidates, Op
    <3>3. op' \in Op
      <4>1. CASE op' = [op EXCEPT !.dirty = FALSE]
        BY <4>1, <3>1, OpShapes
      <4>2. ASSUME NEW h \in Candidates,
                   op' = [op EXCEPT !.dirty = FALSE, !.next = {h}]
            PROVE  op' \in Op
        BY <4>2, <3>1, <3>2, OpShapes
      <4> QED
        BY <2>5, <4>1, <4>2 DEF SyncDirty
    <3>4. synced' \in [SegId -> Nat]
      BY <2>5, <3>1 DEF SyncDirty, TypeOK
    <3> QED
      BY <2>5, <3>3, <3>4 DEF SyncDirty, TypeOK
  <2>6. ASSUME NEW h \in Hash, RotateForRecord(h) PROVE TypeOK'
    <3>1. /\ onDisk' \subseteq SegId
          /\ writer' \in [id : SegId, off : Nat, open : BOOLEAN]
      BY <2>6, RotateType DEF RotateForRecord
    <3>2. op' \in Op
      <4>1. op \in Op
        BY DEF TypeOK
      <4> QED
        BY <2>6, <4>1, OpShapes DEF RotateForRecord
    <3> QED
      BY <2>6, <3>1, <3>2 DEF RotateForRecord, TypeOK
  <2>7. ASSUME NEW h \in Hash, AppendRecord(h) PROVE TypeOK'
    <3>1. /\ writer \in [id : SegId, off : Nat, open : BOOLEAN]
          /\ writer.id \in SegId /\ writer.off \in Nat
          /\ size[writer.id] \in Nat /\ op \in Op
      BY DEF TypeOK
    <3>2. RecordLen[h] \in Nat
      BY ConstantsOK DEF ConstantsOK
    <3>3. /\ [hash |-> h, seg |-> writer.id, off |-> writer.off] \in Ref
          /\ [hash |-> h, seg |-> writer.id, off |-> size[writer.id]] \in Ref
      BY <3>1 DEF Ref
    <3>4. recs' \subseteq Ref
      BY <2>7, <3>3 DEF AppendRecord, TypeOK
    <3>5. size[writer.id] + RecordLen[h] \in Nat /\ writer.off + RecordLen[h] \in Nat
      BY <3>1, <3>2
    <3>6. size' \in [SegId -> Nat]
      BY <2>7, <3>5 DEF AppendRecord, TypeOK
    <3>7. writer' \in [id : SegId, off : Nat, open : BOOLEAN]
      BY <2>7, <3>1, <3>5 DEF AppendRecord
    <3>8. op' \in Op
      BY <2>7, <3>1, <3>3, OpShapes DEF AppendRecord
    <3> QED
      BY <2>7, <3>4, <3>6, <3>7, <3>8 DEF AppendRecord, TypeOK
  <2>8. ASSUME NEW h \in Hash, ShortWrite(h) PROVE TypeOK'
    <3>1. PICK k \in 1..(RecordLen[h] - 1) :
            size' = [size EXCEPT ![writer.id] = @ + k]
      BY <2>8 DEF ShortWrite
    <3>2. RecordLen[h] \in Nat /\ size[writer.id] \in Nat
      BY ConstantsOK DEF ConstantsOK, TypeOK
    <3>3. size[writer.id] + k \in Nat
      BY <3>2
    <3>4. size' \in [SegId -> Nat]
      BY <3>1, <3>3 DEF TypeOK
    <3> QED
      BY <2>8, <3>4, OpShapes DEF ShortWrite, TypeOK
  <2>9. CASE CommitIndex
    <3>1. op.refs \subseteq Ref
      BY DEF TypeOK, Op
    <3> QED
      BY <2>9, <3>1, OpShapes DEF CommitIndex, TypeOK
  <2>10. CASE Abort
    BY <2>10, OpShapes DEF Abort, TypeOK
  <2>11. ASSUME NEW hashes \in SUBSET Hash, DropFromIndex(hashes) PROVE TypeOK'
    BY <2>11 DEF DropFromIndex, TypeOK
  <2>12. ASSUME NEW keep \in SUBSET SegId, DeleteSegmentsBegin(keep) PROVE TypeOK'
    <3>1. onDisk \ (keep \cup {writer.id}) \in SUBSET SegId
      BY DEF TypeOK
    <3>2. op' \in Op
      BY <2>12, <3>1, OpShapes DEF DeleteSegmentsBegin
    <3> QED
      BY <2>12, <3>2 DEF DeleteSegmentsBegin, TypeOK
  <2>13. CASE RemoveSegment
    <3>1. CASE op.victims = {} /\ op' = Idle /\ UNCHANGED <<onDisk, size, synced, recs>>
      BY <2>13, <3>1, OpShapes DEF RemoveSegment, TypeOK
    <3>2. ASSUME NEW s \in op.victims,
                 op' = [op EXCEPT !.victims = @ \ {s}],
                 onDisk' = onDisk \ {s},
                 recs' = {r \in recs : r.seg # s},
                 size' = [size EXCEPT ![s] = 0],
                 synced' = [synced EXCEPT ![s] = 0]
          PROVE  TypeOK'
      <4>1. op \in Op /\ {s} \in SUBSET SegId
        BY DEF TypeOK, Op
      <4>2. op' \in Op
        BY <3>2, <4>1, OpShapes
      <4>3. size' \in [SegId -> Nat] /\ synced' \in [SegId -> Nat]
        BY <3>2 DEF TypeOK
      <4> QED
        BY <2>13, <3>2, <4>2, <4>3 DEF RemoveSegment, TypeOK
    <3> QED
      BY <2>13, <3>1, <3>2 DEF RemoveSegment
  <2>14. ASSUME NEW s \in SegId, Crash(s) PROVE TypeOK'
    <3>1. PICK n \in synced[s]..size[s] :
            /\ size' = [size EXCEPT ![s] = n]
            /\ recs' = {r \in recs : r.seg = s => End(r) <= n}
      BY <2>14 DEF Crash
    <3>2. synced[s] \in Nat /\ size[s] \in Nat
      BY DEF TypeOK
    <3>3. n \in Nat
      BY <3>2
    <3>4. size' \in [SegId -> Nat]
      BY <3>1, <3>3 DEF TypeOK
    <3> QED
      BY <2>14, <3>1, <3>4, OpShapes, ClosedWriterType DEF Crash, TypeOK
  <2>15. CASE UNCHANGED vars
    BY <2>15 DEF vars, TypeOK
  <2> QED
    BY <2>1, <2>2, <2>3, <2>4, <2>5, <2>6, <2>7, <2>8, <2>9, <2>10, <2>11,
       <2>12, <2>13, <2>14, <2>15 DEF Next
<1>3. QED
  BY <1>1, <1>2, PTL DEF Spec

-----------------------------------------------------------------------------
(* The store invariant, while no write is cut short.                       *)

\* The place of a ref is a segment id and its end a natural number.
LEMMA EndType == \A r \in Ref : r.hash \in Hash /\ r.seg \in SegId /\ r.off \in Nat /\ End(r) \in Nat
  BY ConstantsOK DEF ConstantsOK, Ref, End

\* Segment ids are natural numbers.
LEMMA SegIdNat == \A s \in SegId : s \in Nat
  BY ConstantsOK DEF ConstantsOK, SegId

\* A call that only takes the lock, or ends without a result, keeps the
\* invariant: a fresh operation has written nothing yet.
LEMMA FreshOpKeeps ==
  ASSUME TypeOK, LogInv,
         UNCHANGED <<up, onDisk, size, synced, recs, writer, index, issued>>,
         op'.refs = {}, op'.next = {}, op'.kind # "idle" => up,
         op'.kind = "delete" => /\ writer.id \notin op'.victims
                                /\ \A r \in index : r.seg \notin op'.victims
  PROVE  LogInv'
<1>1. WriterInv' /\ FilesInv' /\ WatermarkInv'
  BY DEF LogInv, WriterInv, FilesInv, WatermarkInv, End
<1>2. BatchInv' /\ DeleteInv'
  BY DEF BatchInv, DeleteInv
<1>3. IssuedRefsDurable' /\ IndexSound'
  BY DEF LogInv, IssuedRefsDurable, IndexSound, Readable, End
<1> QED
  BY <1>1, <1>2, <1>3 DEF LogInv

\* A rotation, also one that breaks, keeps everything but the operation.
LEMMA RotateKeeps ==
  ASSUME TypeOK, LogInv, up, Rotate \/ RotateBreaks,
         UNCHANGED <<up, size, synced, recs, index, issued>>
  PROVE  /\ WriterInv' /\ FilesInv' /\ WatermarkInv'
         /\ IssuedRefsDurable' /\ IndexSound'
         /\ writer.id <= writer'.id
<1>1. /\ writer.id \in SegId /\ writer.id \in Nat /\ writer.open
      /\ writer \in [id : SegId, off : Nat, open : BOOLEAN]
  BY SegIdNat DEF TypeOK, Rotate, RotateBreaks
<1>2. /\ \A t \in onDisk : t \in Nat /\ t <= writer.id
      /\ writer.id \in onDisk
      /\ writer.off = size[writer.id]
  BY <1>1, SegIdNat DEF LogInv, WriterInv, TypeOK
<1>3. \A r \in issued : r \in Ref /\ r.seg \in Nat /\ r.seg <= writer.id
  BY EndType, SegIdNat DEF TypeOK, LogInv, WatermarkInv
<1>4. /\ onDisk \subseteq onDisk'
      /\ \A t \in onDisk' : t \in onDisk \/ t = writer.id + 1
      /\ onDisk' \subseteq SegId
  BY RotateType DEF Rotate, RotateBreaks, OpenFile
<1>5. WriterInv'
  <2>1. CASE Rotate
    BY <2>1, <1>1, <1>2, <1>4 DEF Rotate, OpenFile, WriterInv
  <2>2. CASE RotateBreaks
    BY <2>2, <1>1, <1>2, <1>4 DEF RotateBreaks, WriterInv
  <2> QED
    BY <2>1, <2>2
<1>6. writer.id <= writer'.id /\ writer'.id \in Nat
  BY <1>1 DEF Rotate, RotateBreaks, OpenFile
<1>7. FilesInv'
  BY <1>4 DEF LogInv, FilesInv, End
<1>8. WatermarkInv'
  BY <1>1, <1>3, <1>6 DEF WatermarkInv
<1>9. IssuedRefsDurable'
  BY <1>1, <1>3, <1>4 DEF LogInv, IssuedRefsDurable, Readable, End
<1>10. IndexSound'
  BY <1>4 DEF LogInv, IndexSound, Readable
<1> QED
  BY <1>5, <1>6, <1>7, <1>8, <1>9, <1>10

\* Reopening the store after a stop.
LEMMA RestartKeeps ==
  ASSUME TypeOK, LogInv, Restart
  PROVE  LogInv'
<1>1. PICK id \in SegId :
        /\ \/ onDisk = {} /\ id = 1
           \/ id \in onDisk /\ \A t \in onDisk : t <= id
        /\ OpenFile(id) \/ (id + 1 \in SegId /\ OpenFile(id + 1))
  BY DEF Restart
<1>2. ~up /\ up' /\ UNCHANGED <<size, synced, recs, index, issued, op>>
  BY DEF Restart
<1>3. PICK w \in SegId : w \in {id, id + 1} /\ OpenFile(w)
  BY <1>1
<1>4. id \in Nat /\ w \in Nat /\ id <= w /\ \A t \in onDisk : t \in Nat /\ t <= w
  BY <1>1, <1>3, SegIdNat DEF TypeOK
<1>5. onDisk' = onDisk \cup {w} /\ writer'.id = w /\ writer'.off = size[w]
  BY <1>3 DEF OpenFile
<1>6. \A r \in issued : r \in Ref /\ r.seg \in Nat /\ \E t \in onDisk : r.seg <= t
  BY <1>2, EndType, SegIdNat DEF TypeOK, LogInv, WatermarkInv
<1>7. WriterInv'
  BY <1>2, <1>4, <1>5 DEF WriterInv
<1>8. FilesInv'
  BY <1>2, <1>5 DEF LogInv, FilesInv, End
<1>9. WatermarkInv'
  BY <1>2, <1>4, <1>5, <1>6 DEF WatermarkInv
<1>10. BatchInv' /\ DeleteInv'
  BY <1>2 DEF LogInv, BatchInv, DeleteInv
<1>11. IssuedRefsDurable'
  <2>1. w \in onDisk \/ \A r \in issued : r.seg # w
    <3>1. CASE w = id
      BY <1>1, <1>6, <3>1
    <3>2. CASE w = id + 1
      BY <1>1, <1>4, <1>6, <3>2
    <3> QED
      BY <1>3, <3>1, <3>2
  <2> QED
    BY <2>1, <1>2, <1>5 DEF LogInv, IssuedRefsDurable, Readable, End
<1>12. IndexSound'
  BY <1>2, <1>5 DEF LogInv, IndexSound, Readable
<1> QED
  BY <1>7, <1>8, <1>9, <1>10, <1>11, <1>12 DEF LogInv

\* fsync: the dirty refs become durable.
LEMMA SyncDirtyKeeps ==
  ASSUME TypeOK, LogInv, SyncDirty
  PROVE  LogInv'
<1>1. /\ UNCHANGED <<up, onDisk, size, recs, writer, index, issued>>
      /\ synced' = [synced EXCEPT ![writer.id] = size[writer.id]]
      /\ op.kind \in {"put", "rewrite"} /\ up
  BY DEF SyncDirty, Writing
<1>2. /\ op \in Op /\ writer.id \in onDisk /\ writer.id \in SegId
      /\ synced \in [SegId -> Nat] /\ size \in [SegId -> Nat]
  BY <1>1 DEF TypeOK, LogInv, WriterInv
<1>3. /\ \A s \in SegId : synced[s] <= synced'[s] /\ synced'[s] <= size[s]
      /\ \A s \in SegId \ {writer.id} : synced'[s] = synced[s]
      /\ synced'[writer.id] = size[writer.id]
  BY <1>1, <1>2 DEF LogInv, FilesInv
<1>4. /\ op'.kind = op.kind /\ op'.todo = op.todo /\ op'.refs = op.refs
      /\ op'.next \subseteq op.todo
  <2>1. CASE op' = [op EXCEPT !.dirty = FALSE]
    BY <2>1, <1>2 DEF Op, LogInv, BatchInv
  <2>2. ASSUME NEW h \in Candidates, op' = [op EXCEPT !.dirty = FALSE, !.next = {h}]
        PROVE  /\ op'.kind = op.kind /\ op'.todo = op.todo /\ op'.refs = op.refs
               /\ op'.next \subseteq op.todo
    <3>1. h \in op.todo
      BY DEF Candidates, LogInv, BatchInv
    <3> QED
      BY <2>2, <3>1, <1>2 DEF Op
  <2> QED
    BY <2>1, <2>2 DEF SyncDirty
<1>5. WriterInv' /\ WatermarkInv'
  BY <1>1 DEF LogInv, WriterInv, WatermarkInv
<1>6. FilesInv'
  BY <1>1, <1>2, <1>3 DEF LogInv, FilesInv, End
<1>7. BatchInv'
  <2>1. ASSUME NEW r \in op.refs PROVE End(r) <= synced'[r.seg]
    <3>1. r \in recs /\ r \in Ref
      BY DEF LogInv, BatchInv, Readable, TypeOK
    <3>2. r.seg \in SegId /\ End(r) \in Nat /\ End(r) <= size[r.seg]
      BY <3>1, EndType DEF LogInv, FilesInv
    <3>3. End(r) <= synced[r.seg] \/ r.seg = writer.id
      BY DEF LogInv, BatchInv
    <3>4. /\ synced[r.seg] \in Nat /\ synced'[r.seg] \in Nat
          /\ synced[r.seg] <= synced'[r.seg]
      BY <3>2, <1>1, <1>2, <1>3
    <3> QED
      BY <3>2, <3>3, <3>4, <1>3
  <2> QED
    BY <2>1, <1>1, <1>4 DEF LogInv, BatchInv, Readable, End
<1>8. DeleteInv'
  BY <1>1, <1>4 DEF DeleteInv
<1>9. IssuedRefsDurable'
  <2> SUFFICES ASSUME NEW r \in issued, r.seg \in onDisk
               PROVE  r \in recs /\ End(r) <= synced'[r.seg]
    BY <1>1 DEF IssuedRefsDurable, Readable, End
  <2>1. r \in recs /\ End(r) <= synced[r.seg]
    BY DEF LogInv, IssuedRefsDurable, Readable
  <2>2. r.seg \in SegId /\ End(r) \in Nat
    BY EndType DEF TypeOK
  <2>3. synced[r.seg] \in Nat /\ synced'[r.seg] \in Nat
    BY <2>2, <1>1, <1>2
  <2> QED
    BY <2>1, <2>2, <2>3, <1>3
<1>10. IndexSound'
  BY <1>1 DEF LogInv, IndexSound, Readable
<1> QED
  BY <1>5, <1>6, <1>7, <1>8, <1>9, <1>10 DEF LogInv

\* A rotation inside a batch: everything the batch wrote has been fsynced.
LEMMA RotateForRecordKeeps ==
  ASSUME TypeOK, LogInv, NEW h \in Hash, RotateForRecord(h)
  PROVE  LogInv'
<1>1. /\ up /\ op.kind \in {"put", "rewrite"} /\ h \in Candidates /\ ~op.dirty
      /\ Rotate \/ RotateBreaks
      /\ UNCHANGED <<up, size, synced, recs, index, issued>>
      /\ op' = [op EXCEPT !.next = {h}] \/ op' = Idle
  BY DEF RotateForRecord, Writing
<1>2. /\ WriterInv' /\ FilesInv' /\ WatermarkInv' /\ IssuedRefsDurable' /\ IndexSound'
      /\ writer.id <= writer'.id
  BY <1>1, RotateKeeps
<1>3. h \in op.todo /\ op \in Op
  BY <1>1 DEF Candidates, LogInv, BatchInv, TypeOK
<1>4. CASE op' = Idle
  BY <1>2, <1>4 DEF LogInv, BatchInv, DeleteInv, Idle
<1>5. CASE op' = [op EXCEPT !.next = {h}]
  <2>1. /\ op'.kind = op.kind /\ op'.todo = op.todo /\ op'.refs = op.refs
        /\ op'.next = {h} /\ op'.dirty = op.dirty
    BY <1>3, <1>5 DEF Op
  <2>2. ASSUME NEW r \in op.refs PROVE r.seg <= writer'.id
    <3>1. r.seg \in Nat /\ writer.id \in Nat /\ r.seg <= writer.id
      BY <1>3, EndType, SegIdNat DEF LogInv, BatchInv, TypeOK, Op
    <3>2. writer'.id \in Nat
      BY <1>1, RotateType, SegIdNat
    <3> QED
      BY <3>1, <3>2, <1>2
  <2>3. BatchInv'
    BY <2>1, <2>2, <1>1, <1>3 DEF LogInv, BatchInv, Readable, End
  <2>4. DeleteInv'
    BY <2>1, <1>1 DEF DeleteInv
  <2> QED
    BY <2>3, <2>4, <1>2 DEF LogInv
<1> QED
  BY <1>1, <1>4, <1>5

\* An appended record starts where its ref says, because the writer's offset
\* is the end of the file.
LEMMA AppendRecordKeeps ==
  ASSUME TypeOK, LogInv, NEW h \in Hash, AppendRecord(h)
  PROVE  LogInv'
<1> DEFINE new == [hash |-> h, seg |-> writer.id, off |-> writer.off]
<1>1. /\ up /\ writer.open /\ op.kind \in {"put", "rewrite"} /\ h \in Candidates
      /\ UNCHANGED <<up, onDisk, synced, index, issued>>
  BY DEF AppendRecord, Writing
<1>2. /\ op \in Op /\ h \in op.todo
      /\ writer \in [id : SegId, off : Nat, open : BOOLEAN]
      /\ writer.id \in SegId /\ writer.id \in Nat /\ writer.off \in Nat
      /\ writer.id \in onDisk /\ writer.off = size[writer.id]
      /\ \A t \in onDisk : t <= writer.id
  BY <1>1, SegIdNat DEF TypeOK, LogInv, WriterInv, BatchInv, Candidates
<1>3. RecordLen[h] \in Nat /\ new \in Ref /\ End(new) = size[writer.id] + RecordLen[h]
  BY <1>2, ConstantsOK DEF ConstantsOK, Ref, End
<1>4. recs' = recs \cup {new}
  BY <1>2 DEF AppendRecord
<1>5. /\ size' = [size EXCEPT ![writer.id] = @ + RecordLen[h]]
      /\ size'[writer.id] = size[writer.id] + RecordLen[h]
      /\ \A s \in SegId : size[s] \in Nat /\ size'[s] \in Nat /\ size[s] <= size'[s]
      /\ \A s \in SegId \ {writer.id} : size'[s] = size[s]
  BY <1>2, <1>3 DEF AppendRecord, TypeOK
<1>6. writer'.id = writer.id /\ writer'.off = size'[writer.id]
  BY <1>2, <1>3, <1>5 DEF AppendRecord
<1>7. /\ op'.kind = op.kind /\ op'.todo = op.todo \ {h} /\ op'.next = {}
      /\ op'.dirty = TRUE /\ op'.refs = op.refs \cup {new}
  BY <1>2 DEF AppendRecord, Op
<1>8. WriterInv'
  BY <1>1, <1>2, <1>6 DEF WriterInv
<1>9. FilesInv'
  <2>1. \A s \in SegId \ onDisk : size'[s] = 0 /\ synced[s] = 0
    BY <1>2, <1>5 DEF LogInv, FilesInv
  <2>2. \A s \in SegId : synced[s] <= size'[s]
    BY <1>5 DEF LogInv, FilesInv, TypeOK
  <2>3. ASSUME NEW r \in recs PROVE r.seg \in onDisk /\ End(r) <= size'[r.seg]
    <3>1. r.seg \in SegId /\ End(r) \in Nat
      BY EndType DEF TypeOK
    <3> QED
      BY <3>1, <1>5 DEF LogInv, FilesInv
  <2>4. new.seg \in onDisk /\ End(new) <= size'[new.seg]
    BY <1>2, <1>3, <1>5
  <2> QED
    BY <2>1, <2>2, <2>3, <2>4, <1>1, <1>4 DEF FilesInv, End
<1>10. WatermarkInv'
  BY <1>1, <1>6 DEF LogInv, WatermarkInv
<1>11. BatchInv'
  <2>1. ASSUME NEW r \in op.refs
        PROVE  /\ r \in recs' /\ r.seg <= writer.id /\ r.hash \notin op'.todo
               /\ End(r) <= synced[r.seg] \/ r.seg = writer.id
               /\ r.hash # h
    BY <1>2, <1>4, <1>7 DEF LogInv, BatchInv, Readable
  <2>2. new \in recs' /\ new.seg <= writer.id /\ new.hash \notin op'.todo /\ new.hash = h
        /\ new.seg = writer.id
    BY <1>2, <1>4, <1>7
  <2>3. \A r1, r2 \in op'.refs : r1.hash = r2.hash => r1 = r2
    BY <2>1, <2>2, <1>7 DEF LogInv, BatchInv
  <2> QED
    BY <2>1, <2>2, <2>3, <1>1, <1>6, <1>7 DEF BatchInv, Readable, End
<1>12. DeleteInv'
  BY <1>1, <1>7 DEF DeleteInv
<1>13. IssuedRefsDurable' /\ IndexSound'
  BY <1>1, <1>4 DEF LogInv, IssuedRefsDurable, IndexSound, Readable, End
<1> QED
  BY <1>8, <1>9, <1>10, <1>11, <1>12, <1>13 DEF LogInv

\* The batch is issued and indexed only once all of it has been fsynced.
LEMMA CommitIndexKeeps ==
  ASSUME TypeOK, LogInv, CommitIndex
  PROVE  LogInv'
<1>1. /\ up /\ ~op.dirty
      /\ index' = {r \in index : r.hash \notin Hashes(op.refs)} \cup op.refs
      /\ issued' = issued \cup op.refs
      /\ op' = Idle
      /\ UNCHANGED <<up, onDisk, size, synced, recs, writer>>
  BY DEF CommitIndex, Writing
<1>2. ASSUME NEW r \in op.refs
      PROVE  r \in recs /\ r.seg \in onDisk /\ r.seg <= writer.id /\ End(r) <= synced[r.seg]
  BY <1>1 DEF LogInv, BatchInv, FilesInv, Readable
<1>3. WriterInv' /\ FilesInv' /\ WatermarkInv'
  BY <1>1, <1>2 DEF LogInv, WriterInv, FilesInv, WatermarkInv, End
<1>4. BatchInv' /\ DeleteInv'
  BY <1>1 DEF BatchInv, DeleteInv, Idle
<1>5. IssuedRefsDurable'
  BY <1>1, <1>2 DEF LogInv, IssuedRefsDurable, Readable, End
<1>6. IndexSound'
  <2>1. \A r \in index' : r \in issued' /\ r.seg \in onDisk /\ r \in recs
    BY <1>1, <1>2 DEF LogInv, IndexSound, Readable
  <2>2. \A r1, r2 \in index' : r1.hash = r2.hash => r1 = r2
    BY <1>1 DEF LogInv, IndexSound, BatchInv, Hashes
  <2> QED
    BY <2>1, <2>2, <1>1 DEF IndexSound, Readable
<1> QED
  BY <1>3, <1>4, <1>5, <1>6 DEF LogInv

\* Dropping hashes from the index.
LEMMA DropFromIndexKeeps ==
  ASSUME TypeOK, LogInv, NEW hashes \in SUBSET Hash, DropFromIndex(hashes)
  PROVE  LogInv'
<1>1. /\ index' \subseteq index
      /\ UNCHANGED <<up, onDisk, size, synced, recs, writer, issued, op>>
  BY DEF DropFromIndex
<1>2. WriterInv' /\ FilesInv' /\ WatermarkInv' /\ IssuedRefsDurable'
  BY <1>1 DEF LogInv, WriterInv, FilesInv, WatermarkInv, IssuedRefsDurable, Readable, End
<1>3. BatchInv' /\ DeleteInv' /\ IndexSound'
  BY <1>1 DEF LogInv, BatchInv, DeleteInv, IndexSound, Readable, End
<1> QED
  BY <1>2, <1>3 DEF LogInv

\* Removing one segment file: neither the open one nor an indexed one.
LEMMA RemoveSegmentKeeps ==
  ASSUME TypeOK, LogInv, RemoveSegment
  PROVE  LogInv'
<1>1. up /\ op.kind = "delete" /\ UNCHANGED <<up, writer, index, issued>>
  BY DEF RemoveSegment
<1>2. CASE op' = Idle /\ UNCHANGED <<onDisk, size, synced, recs>>
  BY <1>1, <1>2, FreshOpKeeps DEF Idle
<1>3. ASSUME NEW s \in op.victims,
             op' = [op EXCEPT !.victims = @ \ {s}],
             onDisk' = onDisk \ {s},
             recs' = {r \in recs : r.seg # s},
             size' = [size EXCEPT ![s] = 0],
             synced' = [synced EXCEPT ![s] = 0]
      PROVE  LogInv'
  <2>1. /\ op \in Op /\ s \in SegId /\ s # writer.id
        /\ \A r \in index : r.seg # s
    BY <1>1 DEF TypeOK, Op, LogInv, DeleteInv
  <2>2. /\ size'[s] = 0 /\ synced'[s] = 0
        /\ \A t \in SegId \ {s} : size'[t] = size[t] /\ synced'[t] = synced[t]
    BY <1>3, <2>1 DEF TypeOK
  <2>3. /\ op'.kind = op.kind /\ op'.todo = op.todo /\ op'.next = op.next
        /\ op'.refs = {} /\ op'.victims \subseteq op.victims
    BY <1>1, <1>3, <2>1 DEF Op, LogInv, BatchInv
  <2>4. WriterInv'
    <3>1. writer.id \in SegId
      BY DEF TypeOK
    <3> QED
      BY <1>1, <1>3, <2>1, <2>2, <3>1 DEF LogInv, WriterInv
  <2>5. FilesInv'
    <3>1. \A t \in SegId \ onDisk' : size'[t] = 0 /\ synced'[t] = 0
      BY <1>3, <2>2 DEF LogInv, FilesInv
    <3>2. \A t \in SegId : synced'[t] <= size'[t]
      BY <2>2 DEF LogInv, FilesInv
    <3>3. ASSUME NEW r \in recs' PROVE r.seg \in onDisk' /\ End(r) <= size'[r.seg]
      <4>1. r \in recs /\ r.seg # s /\ r.seg \in SegId
        BY <1>3, EndType DEF TypeOK
      <4> QED
        BY <4>1, <1>3, <2>2 DEF LogInv, FilesInv
    <3> QED
      BY <3>1, <3>2, <3>3 DEF FilesInv, End
  <2>6. WatermarkInv'
    BY <1>1 DEF LogInv, WatermarkInv
  <2>7. BatchInv' /\ DeleteInv'
    BY <1>1, <2>3 DEF LogInv, BatchInv, DeleteInv
  <2>8. IssuedRefsDurable'
    <3> SUFFICES ASSUME NEW r \in issued, r.seg \in onDisk'
                 PROVE  r \in recs' /\ End(r) <= synced'[r.seg]
      BY <1>1 DEF IssuedRefsDurable, Readable, End
    <3>1. r.seg \in onDisk /\ r.seg # s /\ r.seg \in SegId
      BY <1>3, EndType DEF TypeOK
    <3> QED
      BY <3>1, <1>3, <2>2 DEF LogInv, IssuedRefsDurable, Readable
  <2>9. IndexSound'
    BY <1>1, <1>3, <2>1 DEF LogInv, IndexSound, Readable
  <2> QED
    BY <2>4, <2>5, <2>6, <2>7, <2>8, <2>9 DEF LogInv
<1> QED
  BY <1>2, <1>3 DEF RemoveSegment

\* A crash truncates a file behind its synced prefix only, and no issued ref
\* reaches beyond it.
LEMMA CrashKeeps ==
  ASSUME TypeOK, LogInv, NEW s \in SegId, Crash(s)
  PROVE  LogInv'
<1>1. PICK n \in synced[s]..size[s] :
        /\ size' = [size EXCEPT ![s] = n]
        /\ recs' = {r \in recs : r.seg = s => End(r) <= n}
  BY DEF Crash
<1>2. /\ s \in onDisk /\ ~up' /\ op' = Idle /\ writer' = ClosedWriter
      /\ UNCHANGED <<onDisk, synced, index, issued>>
  BY DEF Crash
<1>3. synced[s] \in Nat /\ size[s] \in Nat
  BY DEF TypeOK
<1>4. n \in Nat /\ synced[s] <= n /\ n <= size[s]
  BY <1>3
<1>5. size'[s] = n /\ \A t \in SegId \ {s} : size'[t] = size[t]
  BY <1>1 DEF TypeOK
<1>6. WriterInv'
  BY <1>2 DEF WriterInv
<1>7. FilesInv'
  <2>1. \A t \in SegId \ onDisk : size'[t] = 0 /\ synced[t] = 0
    BY <1>2, <1>5 DEF LogInv, FilesInv
  <2>2. \A t \in SegId : synced[t] <= size'[t]
    BY <1>4, <1>5 DEF LogInv, FilesInv
  <2>3. ASSUME NEW r \in recs' PROVE r.seg \in onDisk /\ End(r) <= size'[r.seg]
    <3>1. r \in recs /\ r.seg \in SegId /\ (r.seg = s => End(r) <= n)
      BY <1>1, EndType DEF TypeOK
    <3> QED
      BY <3>1, <1>5 DEF LogInv, FilesInv
  <2> QED
    BY <2>1, <2>2, <2>3, <1>2 DEF FilesInv, End
<1>8. WatermarkInv'
  <2> SUFFICES ASSUME NEW r \in issued PROVE \E t \in onDisk : r.seg <= t
    BY <1>2 DEF WatermarkInv
  <2>1. CASE up
    BY <2>1 DEF LogInv, WatermarkInv, WriterInv
  <2>2. CASE ~up
    BY <2>2 DEF LogInv, WatermarkInv
  <2> QED
    BY <2>1, <2>2
<1>9. BatchInv' /\ DeleteInv'
  BY <1>2 DEF BatchInv, DeleteInv, Idle
<1>10. ASSUME NEW r \in issued, r.seg \in onDisk
       PROVE  r \in recs' /\ End(r) <= synced[r.seg]
  <2>1. r \in recs /\ End(r) <= synced[r.seg]
    BY <1>10 DEF LogInv, IssuedRefsDurable, Readable
  <2>2. r.seg \in SegId /\ End(r) \in Nat
    BY EndType DEF TypeOK
  <2>3. r.seg = s => End(r) <= n
    BY <2>1, <2>2, <1>3, <1>4
  <2> QED
    BY <2>1, <2>3, <1>1
<1>11. IssuedRefsDurable'
  BY <1>2, <1>10 DEF IssuedRefsDurable, Readable, End
<1>12. IndexSound'
  BY <1>2, <1>10 DEF LogInv, IndexSound, Readable
<1> QED
  BY <1>6, <1>7, <1>8, <1>9, <1>11, <1>12 DEF LogInv

\* The initial store is consistent.
LEMMA InitLogInv == Init => LogInv
<1> SUFFICES ASSUME Init PROVE LogInv
  OBVIOUS
<1>1. WriterInv /\ FilesInv /\ WatermarkInv
  BY DEF Init, WriterInv, FilesInv, WatermarkInv
<1>2. BatchInv /\ DeleteInv
  BY DEF Init, BatchInv, DeleteInv, Idle
<1>3. IssuedRefsDurable /\ IndexSound
  BY DEF Init, IssuedRefsDurable, IndexSound
<1> QED
  BY <1>1, <1>2, <1>3 DEF LogInv

\* No step of any operation, failure or crash disturbs the store, as long as
\* the disk never cuts a write short.
LEMMA NextKeepsLogInv ==
  ASSUME DiskFills = FALSE, TypeOK, LogInv, [Next]_vars
  PROVE  LogInv'
<1>1. CASE Restart
  BY <1>1, RestartKeeps
<1>2. CASE RotateForMaintenance
  <2>1. /\ up
        /\ Rotate \/ RotateBreaks
        /\ UNCHANGED <<up, size, synced, recs, index, issued>>
        /\ UNCHANGED op /\ op.kind = "idle"
    BY <1>2 DEF RotateForMaintenance, Unlocked
  <2>2. /\ WriterInv' /\ FilesInv' /\ WatermarkInv' /\ IssuedRefsDurable' /\ IndexSound'
    BY <2>1, RotateKeeps
  <2>3. BatchInv' /\ DeleteInv'
    BY <2>1 DEF LogInv, BatchInv, DeleteInv
  <2> QED
    BY <2>2, <2>3 DEF LogInv
<1>3. ASSUME NEW batch \in SUBSET Hash, PutBegin(batch) PROVE LogInv'
  BY <1>3, FreshOpKeeps DEF PutBegin, Unlocked, Idle
<1>4. ASSUME NEW ref \in issued, RewriteBegin(ref) PROVE LogInv'
  BY <1>4, FreshOpKeeps DEF RewriteBegin, Unlocked, Idle
<1>5. CASE SyncDirty
  BY <1>5, SyncDirtyKeeps
<1>6. ASSUME NEW h \in Hash, RotateForRecord(h) PROVE LogInv'
  BY <1>6, RotateForRecordKeeps
<1>7. ASSUME NEW h \in Hash, AppendRecord(h) PROVE LogInv'
  BY <1>7, AppendRecordKeeps
<1>8. ASSUME NEW h \in Hash, ShortWrite(h) PROVE LogInv'
  BY <1>8 DEF ShortWrite
<1>9. CASE CommitIndex
  BY <1>9, CommitIndexKeeps
<1>10. CASE Abort
  BY <1>10, FreshOpKeeps DEF Abort, Idle
<1>11. ASSUME NEW hashes \in SUBSET Hash, DropFromIndex(hashes) PROVE LogInv'
  BY <1>11, DropFromIndexKeeps
<1>12. ASSUME NEW keep \in SUBSET SegId, DeleteSegmentsBegin(keep) PROVE LogInv'
  <2>1. /\ {r.seg : r \in index} \subseteq keep
        /\ op'.kind = "delete" /\ op'.refs = {} /\ op'.next = {}
        /\ op'.victims = onDisk \ (keep \cup {writer.id})
        /\ up /\ UNCHANGED <<up, onDisk, size, synced, recs, writer, index, issued>>
    BY <1>12 DEF DeleteSegmentsBegin, Unlocked, Idle
  <2>2. writer.id \notin op'.victims /\ \A r \in index : r.seg \notin op'.victims
    BY <2>1
  <2> QED
    BY <2>1, <2>2, FreshOpKeeps
<1>13. CASE RemoveSegment
  BY <1>13, RemoveSegmentKeeps
<1>14. ASSUME NEW s \in SegId, Crash(s) PROVE LogInv'
  BY <1>14, CrashKeeps
<1>15. CASE UNCHANGED vars
  <2>1. WriterInv' /\ FilesInv' /\ WatermarkInv' /\ IssuedRefsDurable'
    BY <1>15 DEF vars, LogInv, WriterInv, FilesInv, WatermarkInv, IssuedRefsDurable,
                 Readable, End
  <2>2. BatchInv' /\ DeleteInv' /\ IndexSound'
    BY <1>15 DEF vars, LogInv, BatchInv, DeleteInv, IndexSound, Readable, End
  <2> QED
    BY <2>1, <2>2 DEF LogInv
<1> QED
  BY <1>1, <1>2, <1>3, <1>4, <1>5, <1>6, <1>7, <1>8, <1>9, <1>10,
     <1>11, <1>12, <1>13, <1>14, <1>15 DEF Next

\* While no write is cut short, files, writer, batch and index agree between
\* any two steps of any operation, whatever fails or crashes.
LEMMA LogConsistent == DiskFills = FALSE => (Spec => []LogInv)
<1> SUFFICES ASSUME DiskFills = FALSE PROVE Spec => []LogInv
  OBVIOUS
<1>1. Init => LogInv
  BY InitLogInv
<1>2. TypeOK /\ LogInv /\ [Next]_vars => LogInv'
  BY NextKeepsLogInv
<1> QED
  BY <1>1, <1>2, TypeCorrect, PTL DEF Spec

\* What PutChunks and RewriteChunkRef return survives every crash and
\* failure but a torn write, for as long as the segment file exists.
THEOREM IssuedRefsAreDurable == DiskFills = FALSE => (Spec => []IssuedRefsDurable)
<1>1. LogInv => IssuedRefsDurable
  BY DEF LogInv
<1> QED
  BY <1>1, LogConsistent, PTL

\* The chunk index never names a missing or unreadable record.
THEOREM IndexIsSound == DiskFills = FALSE => (Spec => []IndexSound)
<1>1. LogInv => IndexSound
  BY DEF LogInv
<1> QED
  BY <1>1, LogConsistent, PTL

-----------------------------------------------------------------------------
(* What torn writes do not disturb, and the action properties.             *)

\* Taking the lock for a call, or giving it up: the files are untouched.
LEMMA FreshOpKeepsTorn ==
  ASSUME TypeOK, TornInv,
         UNCHANGED <<up, onDisk, synced, writer, index, issued>>,
         \A s \in SegId : size[s] <= size'[s] /\ (s \notin onDisk => size'[s] = size[s]),
         recs' = recs, size' \in [SegId -> Nat],
         op'.refs = {}, op'.next = {}, op'.kind # "idle" => up,
         op'.kind = "put" => op'.todo \cap Hashes(index) = {},
         op'.kind = "delete" => writer.id \notin op'.victims
  PROVE  TornInv'
<1>1. \A s \in SegId : size[s] \in Nat /\ size'[s] \in Nat /\ synced[s] \in Nat
  BY DEF TypeOK
<1>2. OffsetInv'
  <2>1. writer.id \in SegId /\ writer.off \in Nat
    BY DEF TypeOK
  <2> QED
    BY <1>1, <2>1 DEF TornInv, OffsetInv
<1>3. FilesInv'
  <2>1. \A r \in recs : r.seg \in onDisk /\ End(r) <= size'[r.seg]
    BY <1>1, EndType DEF TornInv, FilesInv, TypeOK
  <2> QED
    BY <1>1, <2>1 DEF TornInv, FilesInv, End
<1>4. WatermarkInv' /\ IssuedSynced'
  BY DEF TornInv, WatermarkInv, IssuedSynced, End
<1>5. FlushInv'
  BY DEF FlushInv, Hashes
<1> QED
  BY <1>2, <1>3, <1>4, <1>5 DEF TornInv

\* A file is opened: reopened, or made with a number above all others.
LEMMA OpenKeepsTorn ==
  ASSUME TypeOK, TornInv, NEW w \in SegId, OpenFile(w), up',
         UNCHANGED <<size, synced, recs, index, issued>>,
         \A t \in onDisk : t <= w,
         \A r \in issued : r.seg <= w /\ (r.seg = w => w \in onDisk)
  PROVE  OffsetInv' /\ FilesInv' /\ WatermarkInv' /\ IssuedSynced'
<1>1. onDisk' = onDisk \cup {w} /\ writer'.id = w /\ writer'.off = size[w]
  BY DEF OpenFile
<1>2. w \in Nat /\ size[w] \in Nat
  BY SegIdNat DEF TypeOK
<1>3. OffsetInv'
  BY <1>1, <1>2 DEF OffsetInv
<1>4. FilesInv'
  BY <1>1 DEF TornInv, FilesInv, End
<1>5. WatermarkInv'
  BY <1>1 DEF WatermarkInv
<1>6. IssuedSynced'
  BY <1>1 DEF TornInv, IssuedSynced, End
<1> QED
  BY <1>3, <1>4, <1>5, <1>6

\* A rotation, also one that breaks.
LEMMA RotateKeepsTorn ==
  ASSUME TypeOK, TornInv, up, Rotate \/ RotateBreaks,
         UNCHANGED <<up, size, synced, recs, index, issued>>
  PROVE  /\ OffsetInv' /\ FilesInv' /\ WatermarkInv' /\ IssuedSynced'
         /\ onDisk \subseteq onDisk' /\ writer.id <= writer'.id
<1>1. /\ writer.id \in SegId /\ writer.id \in Nat /\ writer.open
      /\ writer \in [id : SegId, off : Nat, open : BOOLEAN]
  BY SegIdNat DEF TypeOK, Rotate, RotateBreaks
<1>2. /\ writer.id \in onDisk
      /\ \A t \in onDisk : t \in Nat /\ t <= writer.id
      /\ \A r \in issued : r.seg \in Nat /\ r.seg <= writer.id
  BY <1>1, SegIdNat, EndType DEF TypeOK, TornInv, OffsetInv, WatermarkInv
<1>3. CASE Rotate
  <2>1. writer.id + 1 \in SegId /\ OpenFile(writer.id + 1) /\ writer'.id = writer.id + 1
    BY <1>3 DEF Rotate, OpenFile
  <2>2. OffsetInv' /\ FilesInv' /\ WatermarkInv' /\ IssuedSynced'
    BY <1>1, <1>2, <2>1, OpenKeepsTorn
  <2> QED
    BY <1>1, <2>1, <2>2 DEF OpenFile
<1>4. CASE RotateBreaks
  <2>1. /\ writer'.id = writer.id /\ ~writer'.open
        /\ onDisk \subseteq onDisk' /\ \A t \in onDisk' : t \in onDisk \/ t = writer.id + 1
    BY <1>1, <1>4 DEF RotateBreaks
  <2>2. OffsetInv' /\ WatermarkInv'
    BY <1>1, <1>2, <2>1 DEF OffsetInv, WatermarkInv
  <2>3. FilesInv'
    BY <2>1 DEF TornInv, FilesInv, End
  <2>4. IssuedSynced'
    BY <1>1, <1>2, <2>1 DEF TornInv, IssuedSynced, End
  <2> QED
    BY <1>1, <2>1, <2>2, <2>3, <2>4
<1> QED
  BY <1>3, <1>4

\* Reopening the store: the file opened is the newest or newer than all.
LEMMA RestartOpens ==
  ASSUME TypeOK, TornInv, Restart
  PROVE  \E w \in SegId :
           /\ OpenFile(w)
           /\ \A t \in onDisk : t <= w
           /\ \A r \in issued : r.seg <= w /\ (r.seg = w => w \in onDisk)
           /\ w \notin onDisk => \A t \in onDisk \cup {r.seg : r \in issued} : t < w
<1>1. PICK id \in SegId :
        /\ \/ onDisk = {} /\ id = 1
           \/ id \in onDisk /\ \A t \in onDisk : t <= id
        /\ OpenFile(id) \/ (id + 1 \in SegId /\ OpenFile(id + 1))
  BY DEF Restart
<1>2. PICK w \in SegId : w \in {id, id + 1} /\ OpenFile(w)
  BY <1>1
<1>3. id \in Nat /\ w \in Nat /\ id <= w /\ \A t \in onDisk : t \in Nat /\ t <= id
  BY <1>1, <1>2, SegIdNat DEF TypeOK
<1>4. \A r \in issued : r.seg \in Nat /\ \E t \in onDisk : r.seg <= t
  BY EndType, SegIdNat DEF Restart, TypeOK, TornInv, WatermarkInv
<1>5. \A r \in issued : r.seg <= id /\ id \in onDisk
  BY <1>1, <1>3, <1>4
<1> QED
  BY <1>2, <1>3, <1>4, <1>5

\* fsync of the file being written, which every dirty ref is in.
LEMMA SyncDirtyKeepsTorn ==
  ASSUME TypeOK, TornInv, SyncDirty
  PROVE  TornInv'
<1>1. /\ UNCHANGED <<up, onDisk, size, recs, writer, index, issued>>
      /\ synced' = [synced EXCEPT ![writer.id] = size[writer.id]]
      /\ op.kind \in {"put", "rewrite"} /\ up
  BY DEF SyncDirty, Writing
<1>2. /\ op \in Op /\ writer.id \in onDisk /\ writer.id \in SegId
      /\ synced \in [SegId -> Nat] /\ size \in [SegId -> Nat]
  BY <1>1 DEF TypeOK, TornInv, OffsetInv
<1>3. /\ \A s \in SegId : /\ synced[s] \in Nat /\ synced'[s] \in Nat
                          /\ synced[s] <= synced'[s] /\ synced'[s] <= size[s]
      /\ \A s \in SegId \ {writer.id} : synced'[s] = synced[s]
      /\ synced'[writer.id] = size[writer.id]
  BY <1>1, <1>2 DEF TornInv, FilesInv
<1>4. /\ op'.kind = op.kind /\ op'.todo = op.todo /\ op'.refs = op.refs
      /\ op'.next \subseteq op.todo
  <2>1. CASE op' = [op EXCEPT !.dirty = FALSE]
    BY <2>1, <1>2 DEF Op, TornInv, FlushInv
  <2>2. ASSUME NEW h \in Candidates, op' = [op EXCEPT !.dirty = FALSE, !.next = {h}]
        PROVE  /\ op'.kind = op.kind /\ op'.todo = op.todo /\ op'.refs = op.refs
               /\ op'.next \subseteq op.todo
    <3>1. h \in op.todo
      BY DEF Candidates, TornInv, FlushInv
    <3> QED
      BY <2>2, <3>1, <1>2 DEF Op
  <2> QED
    BY <2>1, <2>2 DEF SyncDirty
<1>5. OffsetInv' /\ WatermarkInv'
  BY <1>1 DEF TornInv, OffsetInv, WatermarkInv
<1>6. FilesInv'
  BY <1>1, <1>2, <1>3 DEF TornInv, FilesInv, End
<1>7. FlushInv'
  <2>1. ASSUME NEW r \in op.refs PROVE End(r) <= synced'[r.seg]
    <3>1. r \in Ref /\ r.seg \in SegId /\ End(r) \in Nat
      BY <1>2, EndType DEF Op
    <3> QED
      BY <3>1, <1>3 DEF TornInv, FlushInv
  <2> QED
    BY <2>1, <1>1, <1>4 DEF TornInv, FlushInv, Hashes, End
<1>8. IssuedSynced'
  <2> SUFFICES ASSUME NEW r \in issued, r.seg \in onDisk PROVE End(r) <= synced'[r.seg]
    BY <1>1 DEF IssuedSynced, End
  <2>1. r.seg \in SegId /\ End(r) \in Nat /\ End(r) <= synced[r.seg]
    BY EndType DEF TypeOK, TornInv, IssuedSynced
  <2> QED
    BY <2>1, <1>3
<1> QED
  BY <1>5, <1>6, <1>7, <1>8 DEF TornInv

\* A rotation inside a batch.
LEMMA RotateForRecordKeepsTorn ==
  ASSUME TypeOK, TornInv, NEW h \in Hash, RotateForRecord(h)
  PROVE  TornInv'
<1>1. /\ up /\ op.kind \in {"put", "rewrite"} /\ h \in Candidates /\ ~op.dirty
      /\ Rotate \/ RotateBreaks
      /\ UNCHANGED <<up, size, synced, recs, index, issued>>
      /\ op' = [op EXCEPT !.next = {h}] \/ op' = Idle
  BY DEF RotateForRecord, Writing
<1>2. /\ OffsetInv' /\ FilesInv' /\ WatermarkInv' /\ IssuedSynced'
      /\ onDisk \subseteq onDisk' /\ writer.id <= writer'.id
  BY <1>1, RotateKeepsTorn
<1>3. h \in op.todo /\ op \in Op
  BY <1>1 DEF Candidates, TornInv, FlushInv, TypeOK
<1>4. CASE op' = Idle
  BY <1>2, <1>4 DEF TornInv, FlushInv, Idle
<1>5. CASE op' = [op EXCEPT !.next = {h}]
  <2>1. /\ op'.kind = op.kind /\ op'.todo = op.todo /\ op'.refs = op.refs
        /\ op'.next = {h} /\ op'.dirty = op.dirty
    BY <1>3, <1>5 DEF Op
  <2>2. ASSUME NEW r \in op.refs PROVE r.seg <= writer'.id
    <3>1. r.seg \in Nat /\ writer.id \in Nat /\ r.seg <= writer.id
      BY <1>3, EndType, SegIdNat DEF TornInv, FlushInv, TypeOK, Op
    <3>2. writer'.id \in Nat
      BY <1>1, RotateType, SegIdNat
    <3> QED
      BY <3>1, <3>2, <1>2
  <2> QED
    BY <2>1, <2>2, <1>1, <1>2, <1>3 DEF TornInv, FlushInv, Hashes, End
<1> QED
  BY <1>1, <1>2, <1>4, <1>5 DEF TornInv

\* An appended record grows the newest file; its ref ends inside it.
LEMMA AppendRecordKeepsTorn ==
  ASSUME TypeOK, TornInv, NEW h \in Hash, AppendRecord(h)
  PROVE  TornInv'
<1> DEFINE new == [hash |-> h, seg |-> writer.id, off |-> writer.off]
           rec == [hash |-> h, seg |-> writer.id, off |-> size[writer.id]]
<1>1. /\ up /\ writer.open /\ op.kind \in {"put", "rewrite"} /\ h \in Candidates
      /\ UNCHANGED <<up, onDisk, synced, index, issued>>
      /\ recs' = recs \cup {rec}
  BY DEF AppendRecord, Writing
<1>2. /\ op \in Op /\ h \in op.todo
      /\ writer \in [id : SegId, off : Nat, open : BOOLEAN]
      /\ writer.id \in SegId /\ writer.id \in Nat /\ writer.off \in Nat
      /\ size[writer.id] \in Nat
      /\ writer.id \in onDisk /\ writer.off <= size[writer.id]
      /\ \A t \in onDisk : t <= writer.id
  BY <1>1, SegIdNat DEF TypeOK, TornInv, OffsetInv, FlushInv, Candidates
<1>3. /\ RecordLen[h] \in Nat /\ new \in Ref /\ End(new) = writer.off + RecordLen[h]
      /\ rec \in Ref /\ End(rec) = size[writer.id] + RecordLen[h]
  BY <1>2, ConstantsOK DEF ConstantsOK, Ref, End
<1>4. /\ size' = [size EXCEPT ![writer.id] = @ + RecordLen[h]]
      /\ size'[writer.id] = size[writer.id] + RecordLen[h]
      /\ \A s \in SegId : size[s] \in Nat /\ size'[s] \in Nat /\ size[s] <= size'[s]
      /\ \A s \in SegId \ {writer.id} : size'[s] = size[s]
  BY <1>2, <1>3 DEF AppendRecord, TypeOK
<1>5. writer'.id = writer.id /\ writer'.off = writer.off + RecordLen[h]
  BY <1>2 DEF AppendRecord
<1>6. /\ op'.kind = op.kind /\ op'.todo = op.todo \ {h} /\ op'.next = {}
      /\ op'.dirty = TRUE /\ op'.refs = op.refs \cup {new}
  BY <1>2 DEF AppendRecord, Op
<1>7. OffsetInv'
  BY <1>1, <1>2, <1>3, <1>4, <1>5 DEF OffsetInv
<1>8. FilesInv'
  <2>1. \A s \in SegId \ onDisk : size'[s] = 0 /\ synced[s] = 0
    BY <1>2, <1>4 DEF TornInv, FilesInv
  <2>2. \A s \in SegId : synced[s] <= size'[s]
    BY <1>4 DEF TornInv, FilesInv, TypeOK
  <2>3. ASSUME NEW r \in recs PROVE r.seg \in onDisk /\ End(r) <= size'[r.seg]
    <3>1. r.seg \in SegId /\ End(r) \in Nat
      BY EndType DEF TypeOK
    <3> QED
      BY <3>1, <1>4 DEF TornInv, FilesInv
  <2>4. rec.seg \in onDisk /\ End(rec) <= size'[rec.seg]
    BY <1>2, <1>3, <1>4
  <2> QED
    BY <2>1, <2>2, <2>3, <2>4, <1>1 DEF FilesInv, End
<1>9. WatermarkInv' /\ IssuedSynced'
  BY <1>1, <1>5 DEF TornInv, WatermarkInv, IssuedSynced, End
<1>10. FlushInv'
  <2>1. ASSUME NEW r \in op.refs
        PROVE  /\ r.seg \in onDisk /\ r.seg <= writer.id /\ End(r) <= size'[r.seg]
               /\ End(r) <= synced[r.seg] \/ r.seg = writer.id
    <3>1. r.seg \in SegId /\ End(r) \in Nat
      BY <1>2, EndType DEF Op
    <3> QED
      BY <3>1, <1>4 DEF TornInv, FlushInv
  <2>2. /\ new.seg \in onDisk /\ new.seg <= writer.id /\ End(new) <= size'[new.seg]
        /\ new.seg = writer.id
    BY <1>2, <1>3, <1>4
  <2>3. op'.kind = "put" => op'.todo \cap Hashes(index) = {}
    BY <1>6 DEF TornInv, FlushInv
  <2> QED
    BY <2>1, <2>2, <2>3, <1>1, <1>5, <1>6 DEF FlushInv, Hashes, End
<1> QED
  BY <1>7, <1>8, <1>9, <1>10 DEF TornInv

\* Removing a segment file, which is not the one being written.
LEMMA RemoveSegmentKeepsTorn ==
  ASSUME TypeOK, TornInv, RemoveSegment
  PROVE  TornInv'
<1>1. up /\ op.kind = "delete" /\ UNCHANGED <<up, writer, index, issued>>
  BY DEF RemoveSegment
<1>2. CASE op' = Idle /\ UNCHANGED <<onDisk, size, synced, recs>>
  <2>1. \A s \in SegId : size[s] <= size[s]
    BY DEF TypeOK
  <2> QED
    BY <1>1, <1>2, <2>1, FreshOpKeepsTorn DEF Idle, TypeOK
<1>3. ASSUME NEW s \in op.victims,
             op' = [op EXCEPT !.victims = @ \ {s}],
             onDisk' = onDisk \ {s},
             recs' = {r \in recs : r.seg # s},
             size' = [size EXCEPT ![s] = 0],
             synced' = [synced EXCEPT ![s] = 0]
      PROVE  TornInv'
  <2>1. op \in Op /\ s \in SegId /\ s # writer.id
    BY <1>1 DEF TypeOK, Op, TornInv, FlushInv
  <2>2. /\ size'[s] = 0 /\ synced'[s] = 0
        /\ \A t \in SegId \ {s} : size'[t] = size[t] /\ synced'[t] = synced[t]
    BY <1>3, <2>1 DEF TypeOK
  <2>3. /\ op'.kind = op.kind /\ op'.todo = op.todo /\ op'.next = op.next
        /\ op'.refs = {} /\ op'.victims \subseteq op.victims
    BY <1>1, <1>3, <2>1 DEF Op, TornInv, FlushInv
  <2>4. OffsetInv'
    <3>1. writer.id \in SegId
      BY DEF TypeOK
    <3> QED
      BY <1>1, <1>3, <2>1, <2>2, <3>1 DEF TornInv, OffsetInv
  <2>5. FilesInv'
    <3>1. \A t \in SegId \ onDisk' : size'[t] = 0 /\ synced'[t] = 0
      BY <1>3, <2>2 DEF TornInv, FilesInv
    <3>2. \A t \in SegId : synced'[t] <= size'[t]
      BY <2>2 DEF TornInv, FilesInv
    <3>3. ASSUME NEW r \in recs' PROVE r.seg \in onDisk' /\ End(r) <= size'[r.seg]
      <4>1. r \in recs /\ r.seg # s /\ r.seg \in SegId
        BY <1>3, EndType DEF TypeOK
      <4> QED
        BY <4>1, <1>3, <2>2 DEF TornInv, FilesInv
    <3> QED
      BY <3>1, <3>2, <3>3 DEF FilesInv, End
  <2>6. WatermarkInv' /\ FlushInv'
    BY <1>1, <2>3 DEF TornInv, WatermarkInv, FlushInv
  <2>7. IssuedSynced'
    <3> SUFFICES ASSUME NEW r \in issued, r.seg \in onDisk' PROVE End(r) <= synced'[r.seg]
      BY <1>1 DEF IssuedSynced, End
    <3>1. r.seg \in onDisk /\ r.seg # s /\ r.seg \in SegId
      BY <1>3, EndType DEF TypeOK
    <3> QED
      BY <3>1, <2>2 DEF TornInv, IssuedSynced
  <2> QED
    BY <2>4, <2>5, <2>6, <2>7 DEF TornInv
<1> QED
  BY <1>2, <1>3 DEF RemoveSegment

\* A crash takes no fsynced byte.
LEMMA CrashKeepsTorn ==
  ASSUME TypeOK, TornInv, NEW s \in SegId, Crash(s)
  PROVE  TornInv'
<1>1. PICK n \in synced[s]..size[s] :
        /\ size' = [size EXCEPT ![s] = n]
        /\ recs' = {r \in recs : r.seg = s => End(r) <= n}
  BY DEF Crash
<1>2. /\ s \in onDisk /\ ~up' /\ op' = Idle
      /\ UNCHANGED <<onDisk, synced, index, issued>>
  BY DEF Crash
<1>3. n \in Nat /\ synced[s] <= n /\ n <= size[s]
  BY DEF TypeOK
<1>4. size'[s] = n /\ \A t \in SegId \ {s} : size'[t] = size[t]
  BY <1>1 DEF TypeOK
<1>5. OffsetInv' /\ FlushInv'
  BY <1>2 DEF OffsetInv, FlushInv, Idle
<1>6. FilesInv'
  <2>1. \A t \in SegId \ onDisk : size'[t] = 0 /\ synced[t] = 0
    BY <1>2, <1>4 DEF TornInv, FilesInv
  <2>2. \A t \in SegId : synced[t] <= size'[t]
    BY <1>3, <1>4 DEF TornInv, FilesInv
  <2>3. ASSUME NEW r \in recs' PROVE r.seg \in onDisk /\ End(r) <= size'[r.seg]
    <3>1. r \in recs /\ r.seg \in SegId /\ (r.seg = s => End(r) <= n)
      BY <1>1, EndType DEF TypeOK
    <3> QED
      BY <3>1, <1>4 DEF TornInv, FilesInv
  <2> QED
    BY <2>1, <2>2, <2>3, <1>2 DEF FilesInv, End
<1>7. WatermarkInv'
  <2> SUFFICES ASSUME NEW r \in issued PROVE \E t \in onDisk : r.seg <= t
    BY <1>2 DEF WatermarkInv
  <2> QED
    BY DEF TornInv, WatermarkInv, OffsetInv
<1>8. IssuedSynced'
  BY <1>2 DEF TornInv, IssuedSynced, End
<1> QED
  BY <1>5, <1>6, <1>7, <1>8 DEF TornInv

\* The initial state, and every step of the store.
LEMMA TornInvHolds == Spec => [](TypeOK /\ TornInv)
<1>1. Init => TornInv
  BY DEF Init, TornInv, OffsetInv, FilesInv, WatermarkInv, FlushInv, IssuedSynced, Idle
<1>2. TypeOK /\ TornInv /\ [Next]_vars => TornInv'
  <2> SUFFICES ASSUME TypeOK, TornInv, [Next]_vars PROVE TornInv'
    OBVIOUS
  <2> DEFINE Calm == /\ UNCHANGED <<up, onDisk, size, synced, recs, writer, index, issued>>
                     /\ op'.refs = {} /\ op'.next = {} /\ (op'.kind # "idle" => up)
  <2>1. ASSUME Calm,
               op'.kind = "put" => op'.todo \cap Hashes(index) = {},
               op'.kind = "delete" => writer.id \notin op'.victims
        PROVE  TornInv'
    <3>1. \A s \in SegId : size[s] <= size[s]
      BY DEF TypeOK
    <3> QED
      BY <2>1, <3>1, FreshOpKeepsTorn DEF TypeOK
  <2>2. CASE Restart
    <3>1. up' /\ UNCHANGED <<size, synced, recs, index, issued, op>> /\ ~up
      BY <2>2 DEF Restart
    <3>2. OffsetInv' /\ FilesInv' /\ WatermarkInv' /\ IssuedSynced'
      BY <2>2, <3>1, RestartOpens, OpenKeepsTorn
    <3>3. FlushInv'
      BY <3>1 DEF TornInv, FlushInv, Hashes
    <3> QED
      BY <3>2, <3>3 DEF TornInv
  <2>3. CASE RotateForMaintenance
    <3>1. /\ up /\ op.kind = "idle" /\ (Rotate \/ RotateBreaks)
          /\ UNCHANGED <<up, size, synced, recs, index, issued, op>>
      BY <2>3 DEF RotateForMaintenance, Unlocked
    <3>2. OffsetInv' /\ FilesInv' /\ WatermarkInv' /\ IssuedSynced'
      BY <3>1, RotateKeepsTorn
    <3>3. FlushInv'
      BY <3>1 DEF TornInv, FlushInv, Hashes
    <3> QED
      BY <3>2, <3>3 DEF TornInv
  <2>4. ASSUME NEW batch \in SUBSET Hash, PutBegin(batch) PROVE TornInv'
    BY <2>1, <2>4 DEF PutBegin, Unlocked, Idle
  <2>5. ASSUME NEW ref \in issued, RewriteBegin(ref) PROVE TornInv'
    BY <2>1, <2>5 DEF RewriteBegin, Unlocked, Idle
  <2>6. CASE SyncDirty
    BY <2>6, SyncDirtyKeepsTorn
  <2>7. ASSUME NEW h \in Hash, RotateForRecord(h) PROVE TornInv'
    BY <2>7, RotateForRecordKeepsTorn
  <2>8. ASSUME NEW h \in Hash, AppendRecord(h) PROVE TornInv'
    BY <2>8, AppendRecordKeepsTorn
  <2>9. ASSUME NEW h \in Hash, ShortWrite(h) PROVE TornInv'
    <3>1. PICK k \in 1..(RecordLen[h] - 1) : size' = [size EXCEPT ![writer.id] = @ + k]
      BY <2>9 DEF ShortWrite
    <3>2. /\ up /\ UNCHANGED <<up, onDisk, synced, recs, writer, index, issued>> /\ op' = Idle
      BY <2>9 DEF ShortWrite, Writing
    <3>3. writer.id \in SegId /\ writer.id \in onDisk /\ k \in Nat
      BY <3>2, ConstantsOK DEF ConstantsOK, TypeOK, TornInv, OffsetInv
    <3>4. /\ \A s \in SegId : size[s] <= size'[s] /\ (s \notin onDisk => size'[s] = size[s])
          /\ size' \in [SegId -> Nat]
      BY <3>1, <3>3 DEF TypeOK
    <3> QED
      BY <3>2, <3>4, FreshOpKeepsTorn DEF Idle
  <2>10. CASE CommitIndex
    <3>1. /\ up /\ ~op.dirty /\ issued' = issued \cup op.refs /\ op' = Idle
          /\ UNCHANGED <<up, onDisk, size, synced, recs, writer>>
      BY <2>10 DEF CommitIndex, Writing
    <3>2. OffsetInv' /\ FilesInv' /\ WatermarkInv' /\ IssuedSynced'
      BY <3>1 DEF TornInv, OffsetInv, FilesInv, WatermarkInv, FlushInv, IssuedSynced, End
    <3> QED
      BY <3>1, <3>2 DEF TornInv, FlushInv, Idle
  <2>11. CASE Abort
    BY <2>1, <2>11 DEF Abort, Idle
  <2>12. ASSUME NEW hashes \in SUBSET Hash, DropFromIndex(hashes) PROVE TornInv'
    <3>1. /\ UNCHANGED <<up, onDisk, size, synced, recs, writer, issued, op>>
          /\ Hashes(index') \subseteq Hashes(index)
      BY <2>12 DEF DropFromIndex, Hashes
    <3>2. OffsetInv' /\ FilesInv' /\ WatermarkInv' /\ IssuedSynced'
      BY <3>1 DEF TornInv, OffsetInv, FilesInv, WatermarkInv, IssuedSynced, End
    <3>3. FlushInv'
      BY <3>1 DEF TornInv, FlushInv, End
    <3> QED
      BY <3>2, <3>3 DEF TornInv
  <2>13. ASSUME NEW keep \in SUBSET SegId, DeleteSegmentsBegin(keep) PROVE TornInv'
    BY <2>1, <2>13 DEF DeleteSegmentsBegin, Unlocked, Idle
  <2>14. CASE RemoveSegment
    BY <2>14, RemoveSegmentKeepsTorn
  <2>15. ASSUME NEW s \in SegId, Crash(s) PROVE TornInv'
    BY <2>15, CrashKeepsTorn
  <2>16. CASE UNCHANGED vars
    BY <2>16 DEF vars, TornInv, OffsetInv, FilesInv, WatermarkInv, FlushInv, IssuedSynced,
                 Hashes, End
  <2> QED
    BY <2>2, <2>3, <2>4, <2>5, <2>6, <2>7, <2>8, <2>9, <2>10, <2>11,
       <2>12, <2>13, <2>14, <2>15, <2>16 DEF Next
<1> QED
  BY <1>1, <1>2, TypeCorrect, PTL DEF Spec

\* Which steps touch the files: three of them append, two take away.
LEMMA FileSteps ==
  ASSUME [Next]_vars
  PROVE  \/ UNCHANGED <<onDisk, size, recs>>
         \/ UNCHANGED <<size, recs>>
            /\ (Restart \/ RotateForMaintenance \/ \E h \in Hash : RotateForRecord(h))
         \/ \E h \in Hash : AppendRecord(h) \/ ShortWrite(h)
         \/ RemoveSegment
         \/ \E s \in SegId : Crash(s)
  BY DEF Next, vars, Restart, RotateForMaintenance, PutBegin, RewriteBegin, SyncDirty,
         RotateForRecord, CommitIndex, Abort, DropFromIndex, DeleteSegmentsBegin

\* A segment file that is not the newest never grows, torn writes included.
THEOREM OnlyTheNewestGrows == Spec => SealedSegmentsFrozen
<1>1. ASSUME TypeOK, TornInv, [Next]_vars,
             NEW s \in onDisk, size'[s] > size[s], NEW t \in onDisk'
      PROVE  t <= s
  <2>0. s \in SegId /\ size[s] \in Nat
    BY <1>1 DEF TypeOK
  <2>1. ASSUME NEW h \in Hash, AppendRecord(h) \/ ShortWrite(h) PROVE t <= s
    <3>1. /\ up /\ writer.open /\ onDisk' = onDisk
          /\ \E k \in Int : size' = [size EXCEPT ![writer.id] = @ + k]
      BY <2>1, ConstantsOK DEF AppendRecord, ShortWrite, Writing, ConstantsOK
    <3>2. s = writer.id
      BY <2>0, <3>1, <1>1 DEF TypeOK
    <3> QED
      BY <3>1, <3>2, <1>1 DEF TornInv, OffsetInv
  <2>2. CASE RemoveSegment
    <3>1. size' = size \/ \E v \in SegId : size' = [size EXCEPT ![v] = 0]
      BY <1>1, <2>2 DEF RemoveSegment, TypeOK, Op
    <3> QED
      BY <2>0, <3>1, <1>1 DEF TypeOK
  <2>3. ASSUME NEW c \in SegId, Crash(c) PROVE t <= s
    <3>1. PICK n \in synced[c]..size[c] : size' = [size EXCEPT ![c] = n]
      BY <2>3 DEF Crash
    <3>2. size[c] \in Nat /\ synced[c] \in Nat
      BY <1>1 DEF TypeOK
    <3> QED
      BY <2>0, <3>1, <3>2, <1>1 DEF TypeOK
  <2>4. CASE UNCHANGED size
    BY <2>0, <2>4, <1>1
  <2> QED
    BY <1>1, <2>1, <2>2, <2>3, <2>4, FileSteps
<1>2. TypeOK /\ TornInv /\ [Next]_vars
        => [\A s \in onDisk : size'[s] > size[s] => \A t \in onDisk' : t <= s]_vars
  BY <1>1
<1> QED
  BY <1>2, TornInvHolds, PTL DEF Spec, SealedSegmentsFrozen

\* A new segment file has a number above every file and every ref there is.
LEMMA NewNumbersAreFresh ==
  ASSUME TypeOK, TornInv, [Next]_vars, NEW s \in onDisk' \ onDisk,
         NEW t \in onDisk \cup {r.seg : r \in issued}
  PROVE  t < s
<1>1. CASE Restart
  <2>1. PICK w \in SegId :
          /\ OpenFile(w)
          /\ w \notin onDisk => \A u \in onDisk \cup {r.seg : r \in issued} : u < w
    BY <1>1, RestartOpens
  <2> QED
    BY <2>1 DEF OpenFile
<1>2. ASSUME Rotate \/ RotateBreaks, up PROVE t < s
  <2>1. s = writer.id + 1 /\ writer.open
    BY <1>2 DEF Rotate, RotateBreaks, OpenFile
  <2>2. t <= writer.id
    BY <1>2, <2>1 DEF TornInv, OffsetInv, WatermarkInv
  <2>3. t \in Nat /\ writer.id \in Nat
    BY SegIdNat, EndType DEF TypeOK
  <2> QED
    BY <2>1, <2>2, <2>3
<1>3. CASE RotateForMaintenance
  BY <1>2, <1>3 DEF RotateForMaintenance, Unlocked
<1>4. ASSUME NEW h \in Hash, RotateForRecord(h) PROVE t < s
  BY <1>2, <1>4 DEF RotateForRecord, Writing
<1>5. CASE onDisk' \subseteq onDisk
  BY <1>5
<1>6. ASSUME NEW h \in Hash, AppendRecord(h) \/ ShortWrite(h) PROVE onDisk' \subseteq onDisk
  BY <1>6 DEF AppendRecord, ShortWrite
<1>7. RemoveSegment => onDisk' \subseteq onDisk
  BY DEF RemoveSegment
<1>8. ASSUME NEW c \in SegId, Crash(c) PROVE onDisk' \subseteq onDisk
  BY <1>8 DEF Crash
<1> QED
  BY <1>1, <1>3, <1>4, <1>5, <1>6, <1>7, <1>8, FileSteps

\* A new segment file has a number above every file and every ref there is,
\* torn writes included.
THEOREM NumbersAreFresh == Spec => SegmentIdsNeverReused
<1>1. TypeOK /\ TornInv /\ [Next]_vars
        => [\A s \in onDisk' \ onDisk :
              \A t \in onDisk \cup {r.seg : r \in issued} : t < s]_vars
  BY NewNumbersAreFresh
<1> QED
  BY <1>1, TornInvHolds, PTL DEF Spec, SegmentIdsNeverReused

\* PutChunks appends no record of a chunk the index has.
THEOREM UploadsDeduplicate == Spec => DuplicatesNeverAppended
<1>1. ASSUME TypeOK, TornInv, [Next]_vars, op.kind = "put"
      PROVE  Hashes(recs' \ recs) \cap Hashes(index) = {}
  <2>1. ASSUME NEW h \in Hash, AppendRecord(h)
        PROVE  Hashes(recs' \ recs) \cap Hashes(index) = {}
    <3>1. Hashes(recs' \ recs) \subseteq {h} /\ h \in Candidates
      BY <2>1 DEF AppendRecord, Hashes
    <3>2. h \in op.todo
      BY <1>1, <3>1 DEF Candidates, TornInv, FlushInv
    <3> QED
      BY <1>1, <3>1, <3>2 DEF TornInv, FlushInv
  <2>2. CASE recs' \subseteq recs
    BY <2>2 DEF Hashes
  <2>3. ASSUME NEW h \in Hash, ShortWrite(h) PROVE recs' \subseteq recs
    BY <2>3 DEF ShortWrite
  <2>4. RemoveSegment => recs' \subseteq recs
    BY DEF RemoveSegment
  <2>5. ASSUME NEW c \in SegId, Crash(c) PROVE recs' \subseteq recs
    BY <2>5 DEF Crash
  <2> QED
    BY <1>1, <2>1, <2>2, <2>3, <2>4, <2>5, FileSteps
<1>2. TypeOK /\ TornInv /\ [Next]_vars
        => [op.kind = "put" => Hashes(recs' \ recs) \cap Hashes(index) = {}]_vars
  BY <1>1
<1> QED
  BY <1>2, TornInvHolds, PTL DEF Spec, DuplicatesNeverAppended

\* What an issued ref reads stays readable while its segment exists: torn
\* writes and crashes take only bytes no ref was issued for.
THEOREM ReadableRefsStay == Spec => ReadableStays
<1>1. ASSUME TypeOK, TornInv, [Next]_vars, NEW r \in issued, r \in recs, r.seg \in onDisk'
      PROVE  r \in recs'
  <2>0. r.seg \in SegId /\ End(r) \in Nat
    BY <1>1, EndType DEF TypeOK
  <2>1. ASSUME NEW h \in Hash, AppendRecord(h) \/ ShortWrite(h) PROVE r \in recs'
    BY <1>1, <2>1 DEF AppendRecord, ShortWrite
  <2>2. CASE RemoveSegment
    BY <1>1, <2>2 DEF RemoveSegment
  <2>3. ASSUME NEW c \in SegId, Crash(c) PROVE r \in recs'
    <3>1. PICK n \in synced[c]..size[c] : recs' = {q \in recs : q.seg = c => End(q) <= n}
      BY <2>3 DEF Crash
    <3>2. synced[c] \in Nat /\ size[c] \in Nat /\ onDisk' = onDisk
      BY <1>1, <2>3 DEF TypeOK, Crash
    <3>3. r.seg = c => End(r) <= synced[c]
      BY <1>1, <3>2 DEF TornInv, IssuedSynced
    <3> QED
      BY <1>1, <2>0, <3>1, <3>2, <3>3
  <2> QED
    BY <1>1, <2>1, <2>2, <2>3, FileSteps
<1>2. TypeOK /\ TornInv /\ [Next]_vars
        => [\A r \in issued : Readable(r) /\ r.seg \in onDisk' => Readable(r)']_vars
  BY <1>1 DEF Readable
<1> QED
  BY <1>2, TornInvHolds, PTL DEF Spec, ReadableStays

-----------------------------------------------------------------------------
(* What a batch will commit, and the store as its callers see it.           *)

\* The steps of a batch keep what it will commit fit to be committed.
LEMMA NextKeepsCommitInv ==
  ASSUME TypeOK, StoreInv, [Next]_vars
  PROVE  CommitInv'
<1>0. op \in Op /\ LogInv /\ CommitInv
  BY DEF TypeOK, StoreInv
\* No batch is under way afterwards.
<1>1. ASSUME op'.refs = {}, op'.kind \notin {"put", "rewrite"} PROVE CommitInv'
  BY <1>1 DEF CommitInv
\* It has what it had before.
<1>2. ASSUME UNCHANGED <<index, issued>>, recs \subseteq recs', op'.kind = op.kind,
             op'.todo = op.todo, op'.refs = op.refs
      PROVE  CommitInv'
  BY <1>0, <1>2 DEF CommitInv, Readable, Behind, End
<1>3. ASSUME Restart \/ RotateForMaintenance PROVE CommitInv'
  BY <1>2, <1>3 DEF Restart, RotateForMaintenance
<1>4. ASSUME NEW batch \in SUBSET Hash, PutBegin(batch) PROVE CommitInv'
  <2>1. op'.kind = "put" /\ op'.refs = {} /\ op'.todo = batch \ Hashes(index) /\ index' = index
    BY <1>4 DEF PutBegin, Idle
  <2>2. (op'.todo \cup Hashes(op'.refs)) \cap Hashes(index)' = {}
    BY <2>1 DEF Hashes
  <2> QED
    BY <2>1, <2>2 DEF CommitInv
<1>5. ASSUME NEW ref \in issued, RewriteBegin(ref) PROVE CommitInv'
  <2>1. /\ op'.kind = "rewrite" /\ op'.refs = {} /\ op'.todo = {ref.hash}
        /\ Readable(ref)' /\ issued' = issued
    BY <1>5 DEF RewriteBegin, Idle, Readable
  <2>2. op'.todo \cup Hashes(op'.refs) = {ref.hash}
    BY <2>1 DEF Hashes
  <2> QED
    BY <2>1, <2>2 DEF CommitInv
<1>6. CASE SyncDirty
  <2>1. /\ UNCHANGED <<index, issued, recs>>
        /\ \/ op' = [op EXCEPT !.dirty = FALSE]
           \/ \E h \in Candidates : op' = [op EXCEPT !.dirty = FALSE, !.next = {h}]
    BY <1>6 DEF SyncDirty
  <2>2. op'.kind = op.kind /\ op'.todo = op.todo /\ op'.refs = op.refs
    BY <1>0, <2>1 DEF Op
  <2> QED
    BY <1>2, <2>1, <2>2
<1>7. ASSUME NEW h \in Hash, RotateForRecord(h) PROVE CommitInv'
  <2>1. /\ UNCHANGED <<index, issued, recs>>
        /\ op' = [op EXCEPT !.next = {h}] \/ op' = Idle
    BY <1>7 DEF RotateForRecord
  <2>2. CASE op' = Idle
    BY <1>1, <2>2 DEF Idle
  <2>3. CASE op' = [op EXCEPT !.next = {h}]
    <3>1. op'.kind = op.kind /\ op'.todo = op.todo /\ op'.refs = op.refs
      BY <1>0, <2>3 DEF Op
    <3> QED
      BY <1>2, <2>1, <3>1
  <2> QED
    BY <2>1, <2>2, <2>3
<1>8. ASSUME NEW h \in Hash, AppendRecord(h) PROVE CommitInv'
  <2> DEFINE new == [hash |-> h, seg |-> writer.id, off |-> writer.off]
  <2>1. /\ up /\ writer.open /\ op.kind \in {"put", "rewrite"} /\ h \in Candidates
        /\ recs \subseteq recs' /\ UNCHANGED <<onDisk, index, issued>>
    BY <1>8 DEF AppendRecord, Writing
  <2>2. /\ h \in op.todo /\ writer.id \in onDisk /\ writer.off = size[writer.id]
        /\ writer.id \in Nat /\ writer.off \in Nat
    BY <1>0, <2>1, SegIdNat DEF LogInv, WriterInv, BatchInv, Candidates, TypeOK
  <2>3. /\ op'.kind = op.kind /\ op'.todo = op.todo \ {h} /\ op'.refs = op.refs \cup {new}
    BY <1>0, <1>8 DEF AppendRecord, Op
\* What is in a file lies before its end, where the new record goes.
  <2>4. ASSUME NEW r \in Ref, r.seg <= writer.id, r.seg = writer.id => Readable(r)
        PROVE  Behind(r, new)
    <3>1. r.seg \in Nat /\ End(r) \in Nat
      BY EndType, SegIdNat
    <3>2. r.seg = writer.id => End(r) <= size[writer.id]
      BY <1>0, <2>4 DEF LogInv, FilesInv, Readable
    <3> QED
      BY <2>2, <2>4, <3>1, <3>2 DEF Behind
  <2>5. \A r \in issued : Behind(r, new)
    <3> SUFFICES ASSUME NEW r \in issued PROVE Behind(r, new)
      OBVIOUS
    <3>1. r \in Ref /\ r.seg <= writer.id
      BY <1>0, <2>1 DEF LogInv, WatermarkInv, TypeOK
    <3>2. r.seg = writer.id => Readable(r)
      BY <1>0, <2>2 DEF LogInv, IssuedRefsDurable
    <3> QED
      BY <2>4, <3>1, <3>2
  <2>6. \A r \in op.refs : Behind(r, new)
    <3> SUFFICES ASSUME NEW r \in op.refs PROVE Behind(r, new)
      OBVIOUS
    <3>1. r \in Ref /\ r.seg <= writer.id /\ Readable(r)
      BY <1>0 DEF LogInv, BatchInv, Op
    <3> QED
      BY <2>4, <3>1
  <2>7. op'.todo \cup Hashes(op'.refs) = op.todo \cup Hashes(op.refs)
    <3>1. new.hash = h
      OBVIOUS
    <3> HIDE DEF new
    <3>2. Hashes(op'.refs) = Hashes(op.refs) \cup {h}
      BY <2>3, <3>1 DEF Hashes
    <3> QED
      BY <2>2, <2>3, <3>2
  <2> HIDE DEF new
  <2>8. \A r \in issued', l \in op'.refs : Behind(r, l)
    BY <1>0, <2>1, <2>3, <2>5 DEF CommitInv
  <2>9. \A r1, r2 \in op'.refs : r1 # r2 => Behind(r1, r2) \/ Behind(r2, r1)
    BY <1>0, <2>3, <2>6 DEF CommitInv
  <2>10. op'.kind = "put" => (op'.todo \cup Hashes(op'.refs)) \cap Hashes(index)' = {}
    BY <1>0, <2>1, <2>3, <2>7 DEF CommitInv, Hashes
  <2>11. op'.kind = "rewrite" =>
           \E r \in issued' : Readable(r)' /\ op'.todo \cup Hashes(op'.refs) = {r.hash}
    BY <1>0, <2>1, <2>3, <2>7 DEF CommitInv, Readable
  <2> QED
    BY <2>8, <2>9, <2>10, <2>11 DEF CommitInv, Behind, End
<1>9. ASSUME \/ \E h \in Hash : ShortWrite(h)
             \/ CommitIndex \/ Abort
             \/ \E keep \in SUBSET SegId : DeleteSegmentsBegin(keep)
             \/ \E s \in SegId : Crash(s)
      PROVE  CommitInv'
  <2>1. \/ op' = Idle
        \/ \E V \in SUBSET SegId : op' = [Idle EXCEPT !.kind = "delete", !.victims = V]
    <3>1. ASSUME NEW keep \in SUBSET SegId, DeleteSegmentsBegin(keep)
          PROVE  \E V \in SUBSET SegId : op' = [Idle EXCEPT !.kind = "delete", !.victims = V]
      BY <3>1 DEF DeleteSegmentsBegin, TypeOK
    <3> QED
      BY <1>9, <3>1 DEF ShortWrite, CommitIndex, Abort, Crash
  <2>2. CASE op' = Idle
    BY <1>1, <2>2 DEF Idle
  <2>3. ASSUME NEW V \in SUBSET SegId, op' = [Idle EXCEPT !.kind = "delete", !.victims = V]
        PROVE  CommitInv'
    <3>1. op'.refs = {} /\ op'.kind = "delete"
      BY <2>3 DEF Idle
    <3> QED
      BY <1>1, <3>1
  <2> QED
    BY <2>1, <2>2, <2>3
<1>10. ASSUME NEW hashes \in SUBSET Hash, DropFromIndex(hashes) PROVE CommitInv'
  <2>1. op' = op /\ op.kind = "idle"
    BY <1>10 DEF DropFromIndex, Unlocked
  <2> QED
    BY <1>0, <1>1, <2>1 DEF LogInv, BatchInv
<1>11. CASE RemoveSegment
  <2>1. op.kind = "delete" /\ (op' = Idle \/ \E s \in op.victims : op' = [op EXCEPT !.victims = @ \ {s}])
    BY <1>11 DEF RemoveSegment
  <2>2. op.refs = {}
    BY <1>0, <2>1 DEF LogInv, BatchInv
  <2>3. op'.refs = {} /\ op'.kind \in {"idle", "delete"}
    BY <1>0, <2>1, <2>2 DEF Op, Idle
  <2> QED
    BY <1>1, <2>3
<1>12. CASE UNCHANGED vars
  BY <1>2, <1>12 DEF vars
<1> QED
  BY <1>3, <1>4, <1>5, <1>6, <1>7, <1>8, <1>9, <1>10, <1>11, <1>12 DEF Next

\* While no write is cut short, the store is consistent between any two
\* steps of any operation, and what a batch has written can be committed.
THEOREM StoreConsistent == DiskFills = FALSE => (Spec => []StoreInv)
<1> SUFFICES ASSUME DiskFills = FALSE PROVE Spec => []StoreInv
  OBVIOUS
<1>1. Init => StoreInv
  <2>1. Init => CommitInv
    BY DEF Init, Idle, CommitInv
  <2> QED
    BY <2>1, InitLogInv DEF StoreInv
<1>2. TypeOK /\ StoreInv /\ LogInv' /\ [Next]_vars => StoreInv'
  BY NextKeepsCommitInv DEF StoreInv
<1> QED
  BY <1>1, <1>2, TypeCorrect, LogConsistent, PTL DEF Spec

\* The readable refs are those whose segment is there.
LEMMA KeptAre ==
  ASSUME LogInv
  PROVE  Kept = {r \in issued : r.seg \in onDisk}
BY DEF LogInv, IssuedRefsDurable, FilesInv, Kept, Readable

\* Every step is one of ChunkStore, or one its callers do not see.
LEMMA StoreStep ==
  ASSUME TypeOK, StoreInv, LogInv', TornInv, [Next]_vars
  PROVE  Store!Next \/ UNCHANGED <<issued, Kept, index>>
<1>0. op \in Op /\ LogInv /\ CommitInv
  BY DEF TypeOK, StoreInv
<1>1. /\ Kept = {r \in issued : r.seg \in onDisk}
      /\ Kept' = {r \in issued' : r.seg \in onDisk'}
  <2>1. Kept = {r \in issued : r.seg \in onDisk}
    BY <1>0, KeptAre
  <2>2. Kept' = {r \in issued' : r.seg \in onDisk'}
    BY DEF LogInv, IssuedRefsDurable, FilesInv, Kept, Readable
  <2> QED
    BY <2>1, <2>2
<1>2. ASSUME UNCHANGED <<index, issued>>, onDisk \subseteq onDisk'
      PROVE  UNCHANGED <<issued, Kept, index>>
  <2>1. ASSUME NEW r \in issued, r.seg \in onDisk' PROVE r.seg \in onDisk
    <3>1. r.seg \in Nat
      BY SegIdNat, EndType DEF TypeOK
    <3>2. r.seg \notin onDisk => r.seg < r.seg
      BY <2>1, NewNumbersAreFresh
    <3> QED
      BY <3>1, <3>2
  <2> QED
    BY <1>1, <1>2, <2>1
<1>3. ASSUME \/ Restart \/ RotateForMaintenance
             \/ \E batch \in SUBSET Hash : PutBegin(batch)
             \/ \E ref \in issued : RewriteBegin(ref)
             \/ SyncDirty
             \/ \E h \in Hash : RotateForRecord(h) \/ AppendRecord(h) \/ ShortWrite(h)
             \/ Abort
             \/ \E keep \in SUBSET SegId : DeleteSegmentsBegin(keep)
             \/ \E s \in SegId : Crash(s)
             \/ UNCHANGED vars
      PROVE  UNCHANGED <<issued, Kept, index>>
  <2>1. UNCHANGED <<index, issued>> /\ onDisk \subseteq onDisk'
    BY <1>3 DEF Restart, RotateForMaintenance, PutBegin, RewriteBegin, SyncDirty, RotateForRecord,
                AppendRecord, ShortWrite, Abort, DeleteSegmentsBegin, Crash, OpenFile, Rotate,
                RotateBreaks, vars
  <2> QED
    BY <1>2, <2>1
<1>4. CASE CommitIndex
  <2>1. /\ op.kind \in {"put", "rewrite"} /\ op.todo = {} /\ UNCHANGED <<onDisk, recs>>
        /\ index' = {r \in index : r.hash \notin Hashes(op.refs)} \cup op.refs
        /\ issued' = issued \cup op.refs
    BY <1>4 DEF CommitIndex, Writing
  <2>2. Kept' = Kept \cup op.refs
    BY <1>0, <2>1 DEF Kept, Readable, LogInv, BatchInv
  <2>3. Store!Give(op.refs)
    <3>1. op.refs \in SUBSET Store!Ref
      BY <1>0 DEF Op, Ref, Store!Ref
    <3>2. \A r, l : Behind(r, l) <=> Store!Behind(r, l)
      BY DEF Behind, End, Store!Behind
    <3> QED
      BY <1>0, <2>1, <2>2, <3>1, <3>2 DEF CommitInv, Store!Give, Store!InLine
  <2>4. Store!OnePerHash(op.refs)
    BY <1>0 DEF LogInv, BatchInv, Store!OnePerHash
  <2>5. \A R : Store!Hashes(R) = Hashes(R)
    BY DEF Hashes, Store!Hashes
  <2>6. CASE op.kind = "put"
    <3>1. Hashes(op.refs) \cap Hashes(index) = {}
      BY <1>0, <2>6 DEF CommitInv
    <3>2. index' = index \cup op.refs
      BY <2>1, <3>1 DEF Hashes
    <3>3. Store!Put(op.refs)
      BY <2>3, <2>4, <2>5, <3>1, <3>2 DEF Store!Put
    <3>4. op.refs \in SUBSET issued'
      BY <2>1
    <3> QED
      BY <3>3, <3>4 DEF Store!Next
  <2>7. CASE op.kind = "rewrite"
    <3>1. PICK k \in issued : Readable(k) /\ Hashes(op.refs) = {k.hash}
      BY <1>0, <2>1, <2>7 DEF CommitInv
    <3>2. PICK r \in op.refs : r.hash = k.hash
      BY <3>1 DEF Hashes
    <3>3. op.refs = {r}
      BY <2>4, <3>1, <3>2 DEF Hashes, Store!OnePerHash
    <3>4. r.hash \in Store!Hashes(Kept)
      BY <3>1, <3>2 DEF Kept, Store!Hashes
    <3>5. index' = {i \in index : i.hash # r.hash} \cup {r}
      BY <2>1, <3>1, <3>2, <3>3
    <3>6. Store!Rewrite(r)
      BY <2>3, <3>3, <3>4, <3>5 DEF Store!Rewrite
    <3>7. r \in issued'
      BY <2>1, <3>2
    <3> QED
      BY <3>6, <3>7 DEF Store!Next
  <2> QED
    BY <2>1, <2>6, <2>7
<1>5. ASSUME NEW hashes \in SUBSET Hash, DropFromIndex(hashes) PROVE Store!Next
  <2>1. Store!Forget(hashes)
    BY <1>5 DEF DropFromIndex, Store!Forget, Kept, Readable
  <2> QED
    BY <2>1 DEF Store!Next
<1>6. CASE RemoveSegment
  <2>1. op.kind = "delete" /\ UNCHANGED <<index, issued>>
    BY <1>6 DEF RemoveSegment
  <2>2. CASE UNCHANGED onDisk
    BY <1>2, <2>1, <2>2
  <2>3. ASSUME NEW s \in op.victims, onDisk' = onDisk \ {s} PROVE Store!Next
    <3>1. s \in SegId
      BY <1>0 DEF Op
    <3>2. \A i \in index : i.seg # s
      BY <1>0, <2>1 DEF LogInv, DeleteInv
    <3>3. Kept' = {k \in Kept : k.seg # s}
      BY <1>1, <2>1, <2>3
    <3>4. Store!Remove(s)
      BY <2>1, <3>2, <3>3 DEF Store!Remove
    <3> QED
      BY <3>1, <3>4 DEF Store!Next
  <2> QED
    BY <1>6, <2>2, <2>3 DEF RemoveSegment
<1> QED
  BY <1>3, <1>4, <1>5, <1>6 DEF Next

\* While no write is cut short, the segment store implements ChunkStore: a
\* batch takes effect when it is committed, and nothing else does but index
\* cleanup and the removal of segments.
THEOREM StoreImplemented == DiskFills = FALSE => (Spec => BatchesAreAtomic)
<1> SUFFICES ASSUME DiskFills = FALSE PROVE Spec => BatchesAreAtomic
  OBVIOUS
<1>1. Init => Store!Init
  BY DEF Init, Kept, Store!Init
<1>2. TypeOK /\ StoreInv /\ LogInv' /\ TornInv /\ [Next]_vars
        => [Store!Next]_<<issued, Kept, index>>
  BY StoreStep
<1> QED
  BY <1>1, <1>2, TypeCorrect, StoreConsistent, LogConsistent, TornInvHolds, PTL
     DEF Spec, BatchesAreAtomic, Store!Spec

=============================================================================
