---------------------------- MODULE SegmentStore ----------------------------
(***************************************************************************)
(* The chunk store of internal/repository: append-only segment files, the  *)
(* segment writer that appends to the newest one, and the chunk index that *)
(* maps a content hash to the place of its record.                         *)
(*                                                                         *)
(* Every mutating operation holds Repository.mu, so at most one operation  *)
(* `op' is under way; its steps are separate actions because readers take  *)
(* no lock and because a crash, an I/O error or a full disk may hit        *)
(* between any two of them.                                                *)
(*                                                                         *)
(* A record is abstracted to its hash, its place and its length: the       *)
(* checksum, the AEAD tag and the hash test of segmentReader.Read make a   *)
(* read succeed exactly when that record starts at that place.             *)
(***************************************************************************)
EXTENDS Integers

CONSTANTS
  Hash,         \* content hashes of the chunks
  RecordLen,    \* RecordLen[h]: bytes of the encoded record of h
  SegmentSize,  \* Options.SegmentSize, segmentWriter.maxSize
  DiskFills,    \* may a write be cut short (ENOSPC)?
  MaxSegment,   \* bound on segment ids
  MaxFile       \* bound on the bytes torn writes may add to a file

SegId == 1..MaxSegment
Ref   == [hash : Hash, seg : SegId, off : Nat]

ASSUME ConstantsOK ==
  /\ RecordLen \in [Hash -> Nat \ {0}]
  /\ SegmentSize \in Nat \ {0}
  /\ DiskFills \in BOOLEAN
  /\ MaxSegment \in Nat \ {0}
  /\ MaxFile \in Nat

VARIABLES
  up,       \* is a process holding the repository open?
  onDisk,   \* ids of the segment files in repo/segments
  size,     \* size[s]: length of file s
  synced,   \* synced[s]: the prefix of s an fsync has made durable
  recs,     \* the intact records in the files, at their physical offsets
  writer,   \* segmentWriter: id, offset, and whether its file handle is open
  index,    \* the Pebble chunk index, as the set of its refs
  issued,   \* every ref ever returned to a caller (and so in any manifest)
  op        \* the operation holding Repository.mu

vars == <<up, onDisk, size, synced, recs, writer, index, issued, op>>

End(r)      == r.off + RecordLen[r.hash]
Readable(r) == r \in recs
Hashes(R)   == {r.hash : r \in R}

\* kind: which call; todo: chunks still to write; next: the chunk a rotation
\* was made for; refs: records written; dirty: WriteChunks's own flag;
\* victims: segment files DeleteSegmentsExcept has yet to remove.
Idle == [kind |-> "idle", todo |-> {}, next |-> {}, refs |-> {},
         dirty |-> FALSE, victims |-> {}]

Op == [kind : {"idle", "put", "rewrite", "delete"}, todo : SUBSET Hash,
       next : SUBSET Hash, refs : SUBSET Ref, dirty : BOOLEAN,
       victims : SUBSET SegId]

Unlocked == up /\ op.kind = "idle"
Writing  == up /\ op.kind \in {"put", "rewrite"}

ClosedWriter == [id |-> 1, off |-> 0, open |-> FALSE]

Init ==
  /\ up = FALSE
  /\ onDisk = {}
  /\ size = [s \in SegId |-> 0]
  /\ synced = [s \in SegId |-> 0]
  /\ recs = {}
  /\ writer = ClosedWriter
  /\ index = {}
  /\ issued = {}
  /\ op = Idle

-----------------------------------------------------------------------------
(* Opening and rotating segment files.                                     *)

\* segmentWriter.open: O_CREATE|O_APPEND, offset := file size.
OpenFile(id) ==
  /\ onDisk' = onDisk \cup {id}
  /\ writer' = [id |-> id, off |-> size[id], open |-> TRUE]

\* Mutated: the directory listing is not sorted, any existing id is reopened.
RestartUnsorted ==
  /\ ~up
  /\ up' = TRUE
  /\ \E id \in SegId :
       /\ \/ onDisk = {} /\ id = 1
          \/ id \in onDisk
       /\ \/ size[id] < SegmentSize /\ OpenFile(id)
          \/ size[id] >= SegmentSize /\ id + 1 \in SegId /\ OpenFile(id + 1)
  /\ UNCHANGED <<size, synced, recs, index, issued, op>>

\* openSegmentWriter: the highest id in the directory, or 1; a full file is
\* rotated away at once.
Restart ==
  /\ ~up
  /\ up' = TRUE
  /\ \E id \in SegId :
       /\ \/ onDisk = {} /\ id = 1
          \/ id \in onDisk /\ \A t \in onDisk : t <= id
       /\ \/ size[id] < SegmentSize /\ OpenFile(id)
          \/ size[id] >= SegmentSize /\ id + 1 \in SegId /\ OpenFile(id + 1)
  /\ UNCHANGED <<size, synced, recs, index, issued, op>>

\* segmentWriter.rotate, when the new file opens.
Rotate ==
  /\ writer.open
  /\ writer.id + 1 \in SegId
  /\ OpenFile(writer.id + 1)

\* Mutated: the failed rotation goes on writing to the old file.
RotateBreaksOpen ==
  /\ writer.open
  /\ UNCHANGED writer
  /\ \/ UNCHANGED onDisk
     \/ writer.id + 1 \in SegId /\ onDisk' = onDisk \cup {writer.id + 1}

\* segmentWriter.rotate, when the old file is closed but the new one cannot
\* be opened: the writer keeps its id and a closed handle.
RotateBreaks ==
  /\ writer.open
  /\ writer' = [writer EXCEPT !.open = FALSE]
  /\ \/ UNCHANGED onDisk
     \/ writer.id + 1 \in SegId /\ onDisk' = onDisk \cup {writer.id + 1}

\* RotateSegmentForMaintenance, called at the start of a compaction.
RotateForMaintenance ==
  /\ Unlocked
  /\ writer.off > 0
  /\ Rotate \/ RotateBreaks
  /\ UNCHANGED <<up, size, synced, recs, index, issued, op>>

-----------------------------------------------------------------------------
(* PutChunks and RewriteChunkRef: WriteChunks under the lock, then the     *)
(* index.                                                                  *)

\* Mutated: PutChunks does not look the hashes up in the index first.
PutBeginBlind(batch) ==
  /\ Unlocked
  /\ batch # {}
  /\ op' = [Idle EXCEPT !.kind = "put", !.todo = batch]
  /\ UNCHANGED <<up, onDisk, size, synced, recs, writer, index, issued>>

\* PutChunks: only hashes absent from the index are written; a duplicate
\* within the batch is an alias of the first occurrence, so a batch is a set.
PutBegin(batch) ==
  /\ Unlocked
  /\ batch \ Hashes(index) # {}
  /\ op' = [Idle EXCEPT !.kind = "put", !.todo = batch \ Hashes(index)]
  /\ UNCHANGED <<up, onDisk, size, synced, recs, writer, index, issued>>

\* RewriteChunkRef: reads the old record under the lock; an unreadable one
\* is an error and nothing is written.
RewriteBegin(ref) ==
  /\ Unlocked
  /\ Readable(ref)
  /\ op' = [Idle EXCEPT !.kind = "rewrite", !.todo = {ref.hash}]
  /\ UNCHANGED <<up, onDisk, size, synced, recs, writer, index, issued>>

Candidates == IF op.next = {} THEN op.todo ELSE op.next
NeedsRotate(h) == writer.off > 0 /\ writer.off + RecordLen[h] > SegmentSize

\* syncDirty: before a rotation and at the end of the batch.
SyncDirty ==
  /\ Writing /\ writer.open /\ op.dirty
  /\ \/ op.todo = {} /\ op' = [op EXCEPT !.dirty = FALSE]
     \/ \E h \in Candidates :
          NeedsRotate(h) /\ op' = [op EXCEPT !.dirty = FALSE, !.next = {h}]
  /\ synced' = [synced EXCEPT ![writer.id] = size[writer.id]]
  /\ UNCHANGED <<up, onDisk, size, recs, writer, index, issued>>

\* Mutated: WriteChunks rotates without syncing the file it leaves.
RotateForRecordUnsynced(h) ==
  /\ Writing /\ h \in Candidates /\ NeedsRotate(h)
  /\ \/ Rotate /\ op' = [op EXCEPT !.next = {h}]
     \/ RotateBreaks /\ op' = Idle
  /\ UNCHANGED <<up, size, synced, recs, index, issued>>

RotateForRecord(h) ==
  /\ Writing /\ h \in Candidates /\ NeedsRotate(h)
  /\ ~op.dirty
  /\ \/ Rotate /\ op' = [op EXCEPT !.next = {h}]
     \/ RotateBreaks /\ op' = Idle
  /\ UNCHANGED <<up, size, synced, recs, index, issued>>

\* Mutated: the writer's offset moves the wrong way.
AppendRecordBackwards(h) ==
  /\ Writing /\ writer.open /\ h \in Candidates /\ ~NeedsRotate(h)
  /\ recs' = recs \cup {[hash |-> h, seg |-> writer.id, off |-> size[writer.id]]}
  /\ size' = [size EXCEPT ![writer.id] = @ + RecordLen[h]]
  /\ writer' = [writer EXCEPT !.off = @ - RecordLen[h]]
  /\ op' = [op EXCEPT !.todo = @ \ {h}, !.next = {}, !.dirty = TRUE,
              !.refs = @ \cup {[hash |-> h, seg |-> writer.id, off |-> writer.off]}]
  /\ UNCHANGED <<up, onDisk, synced, index, issued>>

\* The record lands at the physical end of the file (O_APPEND); its ref gets
\* the writer's own offset.
AppendRecord(h) ==
  /\ Writing /\ writer.open /\ h \in Candidates /\ ~NeedsRotate(h)
  /\ recs' = recs \cup {[hash |-> h, seg |-> writer.id, off |-> size[writer.id]]}
  /\ size' = [size EXCEPT ![writer.id] = @ + RecordLen[h]]
  /\ writer' = [writer EXCEPT !.off = @ + RecordLen[h]]
  /\ op' = [op EXCEPT !.todo = @ \ {h}, !.next = {}, !.dirty = TRUE,
              !.refs = @ \cup {[hash |-> h, seg |-> writer.id, off |-> writer.off]}]
  /\ UNCHANGED <<up, onDisk, synced, index, issued>>

\* file.Write fails after k bytes: the bytes stay in the file, w.offset does
\* not move, the call returns the error.
ShortWrite(h) ==
  /\ DiskFills
  /\ Writing /\ writer.open /\ h \in Candidates /\ ~NeedsRotate(h)
  /\ \E k \in 1..(RecordLen[h] - 1) :
       /\ size[writer.id] + k <= MaxFile
       /\ size' = [size EXCEPT ![writer.id] = @ + k]
  /\ op' = Idle
  /\ UNCHANGED <<up, onDisk, synced, recs, writer, index, issued>>

\* Mutated: the batch is indexed before the final syncDirty.
CommitIndexUnsynced ==
  /\ Writing /\ op.todo = {}
  /\ index' = {r \in index : r.hash \notin Hashes(op.refs)} \cup op.refs
  /\ issued' = issued \cup op.refs
  /\ op' = Idle
  /\ UNCHANGED <<up, onDisk, size, synced, recs, writer>>

\* chunkIndex.PutBatch commits atomically; only then are refs returned.
CommitIndex ==
  /\ Writing /\ op.todo = {} /\ ~op.dirty
  /\ index' = {r \in index : r.hash \notin Hashes(op.refs)} \cup op.refs
  /\ issued' = issued \cup op.refs
  /\ op' = Idle
  /\ UNCHANGED <<up, onDisk, size, synced, recs, writer>>

\* Any error without a partial write: encoding, a write on a closed handle,
\* sync, the index commit; or DeleteSegmentsExcept stopping at a file.
Abort ==
  /\ up /\ op.kind # "idle"
  /\ op' = Idle
  /\ UNCHANGED <<up, onDisk, size, synced, recs, writer, index, issued>>

-----------------------------------------------------------------------------
(* Maintenance of the index and of the files.                              *)

\* deleteUnreferenced: one atomic batch; which hashes is the caller's choice.
DropFromIndex(hashes) ==
  /\ Unlocked
  /\ hashes \cap Hashes(index) # {}
  /\ index' = {r \in index : r.hash \notin hashes}
  /\ UNCHANGED <<up, onDisk, size, synced, recs, writer, issued, op>>

\* Mutated: the index still names records of the segments removed.
DeleteSegmentsBeginIndexed(keep) ==
  /\ Unlocked
  /\ op' = [Idle EXCEPT !.kind = "delete",
                        !.victims = onDisk \ (keep \cup {writer.id})]
  /\ UNCHANGED <<up, onDisk, size, synced, recs, writer, index, issued>>

\* Mutated: the segment being written is not added to the kept ones.
DeleteSegmentsBeginAll(keep) ==
  /\ Unlocked
  /\ {r.seg : r \in index} \subseteq keep
  /\ op' = [Idle EXCEPT !.kind = "delete", !.victims = onDisk \ keep]
  /\ UNCHANGED <<up, onDisk, size, synced, recs, writer, index, issued>>

\* DeleteSegmentsExcept.  Its one caller, compactRepository, has by then cut
\* the index down to refs in the segments it keeps.
DeleteSegmentsBegin(keep) ==
  /\ Unlocked
  /\ {r.seg : r \in index} \subseteq keep
  /\ op' = [Idle EXCEPT !.kind = "delete",
                        !.victims = onDisk \ (keep \cup {writer.id})]
  /\ UNCHANGED <<up, onDisk, size, synced, recs, writer, index, issued>>

\* ids ascend; a Remove takes the whole file.
RemoveSegment ==
  /\ up /\ op.kind = "delete"
  /\ \/ /\ op.victims = {}
        /\ op' = Idle
        /\ UNCHANGED <<onDisk, size, synced, recs>>
     \/ \E s \in op.victims :
          /\ \A t \in op.victims : s <= t
          /\ op' = [op EXCEPT !.victims = @ \ {s}]
          /\ onDisk' = onDisk \ {s}
          /\ recs' = {r \in recs : r.seg # s}
          /\ size' = [size EXCEPT ![s] = 0]
          /\ synced' = [synced EXCEPT ![s] = 0]
  /\ UNCHANGED <<up, writer, index, issued>>

-----------------------------------------------------------------------------
(* The process or the machine stops: a file keeps at least its synced      *)
(* prefix; the index (pebble.Sync) keeps everything.                       *)
Crash(s) ==
  /\ s \in onDisk
  /\ \E n \in synced[s]..size[s] :
       /\ size' = [size EXCEPT ![s] = n]
       /\ recs' = {r \in recs : r.seg = s => End(r) <= n}
  /\ up' = FALSE
  /\ writer' = ClosedWriter
  /\ op' = Idle
  /\ UNCHANGED <<onDisk, synced, index, issued>>

Next ==
  \/ Restart
  \/ RotateForMaintenance
  \/ \E batch \in SUBSET Hash : PutBegin(batch)
  \/ \E ref \in issued : RewriteBegin(ref)
  \/ SyncDirty
  \/ \E h \in Hash : RotateForRecord(h)
  \/ \E h \in Hash : AppendRecord(h)
  \/ \E h \in Hash : ShortWrite(h)
  \/ CommitIndex
  \/ Abort
  \/ \E hashes \in SUBSET Hash : DropFromIndex(hashes)
  \/ \E keep \in SUBSET SegId : DeleteSegmentsBegin(keep)
  \/ RemoveSegment
  \/ \E s \in SegId : Crash(s)

Spec == Init /\ [][Next]_vars

-----------------------------------------------------------------------------
(* Properties.                                                             *)

\* Every variable keeps its shape.
TypeOK ==
  /\ up \in BOOLEAN
  /\ onDisk \subseteq SegId
  /\ size \in [SegId -> Nat]
  /\ synced \in [SegId -> Nat]
  /\ recs \subseteq Ref
  /\ writer \in [id : SegId, off : Nat, open : BOOLEAN]
  /\ index \subseteq Ref
  /\ issued \subseteq Ref
  /\ op \in Op

\* A ref PutChunks or RewriteChunkRef has returned (so one a manifest may
\* hold) names an intact, fsynced record for as long as its segment file
\* exists: no crash, failed batch, rotation or reopened segment loses it.
IssuedRefsDurable ==
  \A r \in issued : r.seg \in onDisk => Readable(r) /\ End(r) <= synced[r.seg]

\* The chunk index never lies: one ref per hash, its segment exists and the
\* record reads back, whatever maintenance and failures happened before.
IndexSound ==
  /\ \A r \in index : r \in issued /\ r.seg \in onDisk /\ Readable(r)
  /\ \A r1, r2 \in index : r1.hash = r2.hash => r1 = r2

\* A retried upload is idempotent: whatever failed before, a ref the store
\* has acknowledged can be read back while its segment exists.
AcknowledgedReadable ==
  \A r \in issued : r.seg \in onDisk => Readable(r)

\* A closed segment is never appended to, across rotations, failed
\* rotations and restarts: only the highest-numbered file grows.
SealedSegmentsFrozen ==
  [][\A s \in onDisk : size'[s] > size[s] => \A t \in onDisk' : t <= s]_vars

\* The number of a deleted segment is never given to a new file, so a stale
\* ref can miss but can never resolve to another chunk's bytes.
SegmentIdsNeverReused ==
  [][\A s \in onDisk' \ onDisk :
       \A t \in onDisk \cup {r.seg : r \in issued} : t < s]_vars

\* Uploading a chunk the index already has never appends a record.
DuplicatesNeverAppended ==
  [][op.kind = "put" => Hashes(recs' \ recs) \cap Hashes(index) = {}]_vars

\* What a caller can read stays readable until its segment is deleted, even
\* when the disk fills: torn writes and crashes only harm unreturned records.
ReadableStays ==
  [][\A r \in issued : Readable(r) /\ r.seg \in onDisk' => Readable(r)']_vars

-----------------------------------------------------------------------------
(* Why IssuedRefsDurable and IndexSound hold while no write is cut short:   *)
(* the parts of an inductive invariant.                                    *)

\* The open segment is the newest file and the writer's offset is its end.
WriterInv ==
  up => /\ writer.id \in onDisk
        /\ writer.open => /\ writer.off = size[writer.id]
                          /\ \A t \in onDisk : t <= writer.id

\* Records lie inside their files, and nothing is left of a removed file.
FilesInv ==
  /\ \A s \in SegId \ onDisk : size[s] = 0 /\ synced[s] = 0
  /\ \A s \in SegId : synced[s] <= size[s]
  /\ \A r \in recs : r.seg \in onDisk /\ End(r) <= size[r.seg]

\* No ref was issued beyond the segment a restart would reopen.
WatermarkInv ==
  \A r \in issued : IF up THEN r.seg <= writer.id ELSE \E t \in onDisk : r.seg <= t

\* What the batch under way has written: intact, one ref per hash, and
\* either fsynced or in the open segment with WriteChunks's dirty flag set.
BatchInv ==
  /\ op.kind # "idle" => up
  /\ op.kind \notin {"put", "rewrite"} => op.refs = {}
  /\ op.next \subseteq op.todo
  /\ \A r \in op.refs :
       /\ Readable(r) /\ r.seg <= writer.id /\ r.hash \notin op.todo
       /\ End(r) <= synced[r.seg] \/ (op.dirty /\ r.seg = writer.id)
  /\ \A r1, r2 \in op.refs : r1.hash = r2.hash => r1 = r2

\* The segments being removed are neither written to nor indexed.
DeleteInv ==
  op.kind = "delete" =>
    /\ writer.id \notin op.victims
    /\ \A r \in index : r.seg \notin op.victims

\* Files, writer, batch in progress, acknowledged refs and index agree.
LogInv ==
  /\ WriterInv /\ FilesInv /\ WatermarkInv /\ BatchInv /\ DeleteInv
  /\ IssuedRefsDurable /\ IndexSound

Behind(r, l) == r.seg < l.seg \/ (r.seg = l.seg /\ End(r) <= l.off)

\* What the batch under way will return: refs behind all there ever were, of
\* chunks the index lacks, or a second copy of a chunk that can be read.
CommitInv ==
  /\ \A r \in issued, l \in op.refs : Behind(r, l)
  /\ \A r1, r2 \in op.refs : r1 # r2 => Behind(r1, r2) \/ Behind(r2, r1)
  /\ op.kind = "put" => (op.todo \cup Hashes(op.refs)) \cap Hashes(index) = {}
  /\ op.kind = "rewrite" =>
       \E r \in issued : Readable(r) /\ op.todo \cup Hashes(op.refs) = {r.hash}

\* Between any two steps of any operation the store is consistent, and ready
\* to commit what it has begun.
StoreInv == LogInv /\ CommitInv

-----------------------------------------------------------------------------
(* What a caller sees of it all.                                           *)

Kept  == {r \in issued : Readable(r)}
Store == INSTANCE ChunkStore WITH given <- issued, kept <- Kept

\* To its callers the store is a ChunkStore: steps of a batch, rotations, I/O
\* errors and crashes between any two of them are invisible, and PutChunks,
\* RewriteChunkRef, index cleanup and segment removal happen at once.
BatchesAreAtomic == Store!Spec

-----------------------------------------------------------------------------
(* What holds when writes are cut short as well: refs may name the wrong    *)
(* place, but never bytes that no fsync has covered.                        *)

\* The writer's offset may lag behind the end of the file, never run ahead.
OffsetInv ==
  up => /\ writer.id \in onDisk
        /\ writer.open => /\ writer.off <= size[writer.id]
                          /\ \A t \in onDisk : t <= writer.id

\* A batch writes only chunks the index lacks, and what it has written lies
\* in its file, behind the synced prefix only if the batch will sync it.
FlushInv ==
  /\ op.kind # "idle" => up
  /\ op.kind \notin {"put", "rewrite"} => op.refs = {}
  /\ op.next \subseteq op.todo
  /\ op.kind = "put" => op.todo \cap Hashes(index) = {}
  /\ op.kind = "delete" => writer.id \notin op.victims
  /\ \A r \in op.refs :
       /\ r.seg \in onDisk /\ r.seg <= writer.id /\ End(r) <= size[r.seg]
       /\ End(r) <= synced[r.seg] \/ (op.dirty /\ r.seg = writer.id)

\* What an issued ref names has been fsynced, whatever is there.
IssuedSynced == \A r \in issued : r.seg \in onDisk => End(r) <= synced[r.seg]

\* Torn writes or not, files, writer, batch and issued refs keep in step.
TornInv == OffsetInv /\ FilesInv /\ WatermarkInv /\ FlushInv /\ IssuedSynced

=============================================================================
