--------------------------- MODULE BackupLifecycle --------------------------
(***************************************************************************)
(* Backup runs, snapshots, restores and storage maintenance of the server  *)
(* (internal/httpapi, internal/state) over one chunk repository.           *)
(*                                                                         *)
(* Local runs execute inside the server and hold the run gate; an agent    *)
(* uploads chunks under the gate but has its manifest accepted by          *)
(* handleAgentPostManifest without it.  Maintenance runs in a mode, phase   *)
(* by phase; several may be under way, of which one may be a compact.      *)
(* PutChunk and RewriteChunkRef are one step each and durable:             *)
(* SegmentStore shows that.  A segment file is the set of records written  *)
(* between two maintenance rotations.                                      *)
(***************************************************************************)
EXTENDS FiniteSets

CONSTANTS
  Run,     \* runs that will ever be created
  Local,   \* those of the local job; the others are runs of the agent's job
  Hash,    \* chunk hashes
  Seg,     \* names of the segment files that are ever alive together
  NoSeg,   \* no segment
  Maint,   \* maintenance processes: the scheduler's and those of users
  FailsWhileServed,   \* may a run be failed while its manifest is handled?
  PublishesInWindow,  \* may a manifest be published between the two
                      \* statements a compact starts with?
  ClientsDisconnect,  \* may the client of a request go away?
  Restores            \* are restores and manual deletions modelled?

ASSUME ConstantsOK ==
  /\ Local \subseteq Run
  /\ NoSeg \notin Seg
  /\ FailsWhileServed \in BOOLEAN
  /\ PublishesInWindow \in BOOLEAN
  /\ ClientsDisconnect \in BOOLEAN
  /\ Restores \in BOOLEAN

VARIABLES
  status,     \* runs.status; "active" is pending or running: all queries test both
  preBoot,    \* runs created before the process started
  worker,     \* worker[r]: the local execution or the manifest request of run r
  snaps,      \* the snapshots table: the snapshot of each run
  onFile,     \* runs whose manifest file run-<id>.json exists
  manifests,  \* manifests[r]: the chunk refs in that file
  index,      \* chunk index: hash -> segment of its ref, or NoSeg
  recs,       \* records in the segment files
  current,    \* the segment file being written
  freshIndex, \* hashes indexed less than error_grace_period ago
  freshFile,  \* runs whose manifest file is younger than that
  maint,      \* maint[m]: what maintenance process m is doing
  restore,    \* the restore request
  tasks,      \* snapshots whose restore task was left 'running' for ever
  deleting    \* snapshots DeleteSnapshot has checked and will mark deleted

runVars   == <<status, preBoot>>
storeVars == <<index, recs, current, freshIndex>>
fileVars  == <<onFile, manifests, freshFile>>
restVars  == <<restore, tasks, deleting>>
vars == <<runVars, worker, snaps, fileVars, storeVars, maint, restVars>>

Ref == [hash : Hash, seg : Seg]
Hashes(R) == {r.hash : r \in R}

NoWork     == [phase |-> "idle", base |-> {}, todo |-> {}, refs |-> {}]
NoRestore  == [phase |-> "idle", of |-> {}, refs |-> {}]
NoneOf     == [h \in Hash |-> NoSeg]
NoRefs     == [r \in Run |-> {}]
NoMaint    == [mode |-> "none", phase |-> "idle", listed |-> {}, live |-> {},
               read |-> NoRefs, old |-> NoneOf, new |-> NoneOf]

ActiveSnaps     == {r \in Run : snaps[r] = "active"}
InUse(r)        == r \in tasks \/ (restore.phase = "running" /\ r \in restore.of)
Indexed         == {h \in Hash : index[h] # NoSeg}
RefOf(h)        == [hash |-> h, seg |-> index[h]]
OnDisk          == {r.seg : r \in recs} \cup {current}

In(m, phase) == maint[m].phase = phase

\* Mutated: a compact takes the gate like a reader.
GateFreeShared == \A r \in Local : worker[r].phase = "idle"

\* runGate: TryRLock fails while a compact holds it, TryLock while any local
\* run does.
GateOpen  == \A m \in Maint : maint[m].mode # "compact"
GateFree  == GateOpen /\ \A r \in Local : worker[r].phase = "idle"

Init ==
  /\ status = [r \in Run |-> "none"]
  /\ preBoot = {}
  /\ worker = [r \in Run |-> NoWork]
  /\ snaps = [r \in Run |-> "none"]
  /\ onFile = {}
  /\ manifests = NoRefs
  /\ index = NoneOf
  /\ recs = {}
  /\ current \in Seg
  /\ freshIndex = {}
  /\ freshFile = {}
  /\ maint = [m \in Maint |-> NoMaint]
  /\ restore = NoRestore
  /\ tasks = {}
  /\ deleting = {}

-----------------------------------------------------------------------------
(* The repository operations the handlers call.                            *)

\* PutChunk: an indexed hash is answered from the index, else appended.
Put(h) ==
  /\ UNCHANGED current
  /\ IF index[h] # NoSeg THEN UNCHANGED <<index, recs, freshIndex>>
     ELSE /\ index' = [index EXCEPT ![h] = current]
          /\ recs' = recs \cup {[hash |-> h, seg |-> current]}
          /\ freshIndex' = freshIndex \cup {h}

\* WriteManifest: a temporary file renamed over run-<id>.json.
WriteManifest(r, refs) ==
  /\ onFile' = onFile \cup {r}
  /\ manifests' = [manifests EXCEPT ![r] = refs]
  /\ freshFile' = freshFile \cup {r}

\* deleteUnreferenced: one atomic batch.
Unindex(H) ==
  /\ index' = [h \in Hash |-> IF h \in H THEN NoSeg ELSE index[h]]
  /\ freshIndex' = freshIndex \ H

-----------------------------------------------------------------------------
(* Runs.                                                                   *)

MayFail(r) == FailsWhileServed \/ worker[r].phase = "idle"

SameJob(r, q) == (r \in Local) <=> (q \in Local)

\* CreateRun: one transaction, refused while the job has an active run.
CreateRun(r) ==
  /\ status[r] = "none"
  /\ \A q \in Run : SameJob(r, q) => status[q] # "active"
  /\ status' = [status EXCEPT ![r] = "active"]
  /\ UNCHANGED preBoot

\* Mutated: a local run does not ask for the gate.
StartLocalUngated(r) ==
  /\ r \in Local
  /\ CreateRun(r)
  /\ \E base \in {{}} \cup {manifests[q] : q \in Local \cap ActiveSnaps \cap onFile} :
       worker' = [worker EXCEPT ![r] = [NoWork EXCEPT !.phase = "scan", !.base = base]]
  /\ UNCHANGED <<snaps, fileVars, storeVars, maint, restVars>>

\* handleRunJob, tryStartScheduledJob: the gate is held until the run ends.
\* executeRun reads the latest manifest of the job as the incremental base.
StartLocal(r) ==
  /\ r \in Local /\ GateOpen
  /\ CreateRun(r)
  /\ \E base \in {{}} \cup {manifests[q] : q \in Local \cap ActiveSnaps \cap onFile} :
       worker' = [worker EXCEPT ![r] = [NoWork EXCEPT !.phase = "scan", !.base = base]]
  /\ UNCHANGED <<snaps, fileVars, storeVars, maint, restVars>>

\* An unchanged file: its refs are cloned from the base, no index lookup.
Reuse(r) ==
  /\ r \in Local /\ worker[r].phase = "scan"
  /\ \E ref \in worker[r].base \ worker[r].refs :
       worker' = [worker EXCEPT ![r].refs = @ \cup {ref}]
  /\ UNCHANGED <<runVars, snaps, fileVars, storeVars, maint, restVars>>

\* A changed file: its chunks are put and their refs kept.
Store(r, h) ==
  /\ r \in Local /\ worker[r].phase = "scan"
  /\ h \notin Hashes(worker[r].refs)
  /\ Put(h)
  /\ worker' = [worker EXCEPT ![r].refs = @ \cup {[hash |-> h, seg |-> index'[h]]}]
  /\ UNCHANGED <<runVars, snaps, fileVars, maint, restVars>>

\* handleAgentCreateRun.
StartAgent(r) ==
  /\ r \notin Local /\ GateOpen
  /\ CreateRun(r)
  /\ UNCHANGED <<worker, snaps, fileVars, storeVars, maint, restVars>>

\* handleAgentPutChunk, handleAgentUploadChunks: the run was active when it
\* was authorised; the gate is entered afterwards.
Upload(r, h) ==
  /\ r \notin Local /\ status[r] # "none" /\ GateOpen
  /\ index[h] = NoSeg
  /\ Put(h)
  /\ UNCHANGED <<runVars, worker, snaps, fileVars, maint, restVars>>

\* Mutated: a run that has a snapshot may post another manifest.
PostBeginAgain(r, S) ==
  /\ r \notin Local /\ worker[r].phase = "idle"
  /\ status[r] = "active"
  /\ worker' = [worker EXCEPT ![r] = [NoWork EXCEPT !.phase = "scan", !.todo = S]]
  /\ UNCHANGED <<runVars, snaps, fileVars, storeVars, maint, restVars>>

\* handleAgentPostManifest: a run with a snapshot answers at once; otherwise
\* it must be active, and the chunks S are looked up one by one.
PostBegin(r, S) ==
  /\ r \notin Local /\ worker[r].phase = "idle"
  /\ snaps[r] = "none" /\ status[r] = "active"
  /\ worker' = [worker EXCEPT ![r] = [NoWork EXCEPT !.phase = "scan", !.todo = S]]
  /\ UNCHANGED <<runVars, snaps, fileVars, storeVars, maint, restVars>>

\* canonicalizeManifestChunks: the server's ref replaces the agent's.  A
\* missing hash ends the request with 409 and leaves the run active.
Canonicalize(r, h) ==
  /\ r \notin Local /\ worker[r].phase = "scan" /\ h \in worker[r].todo
  /\ LET found == [worker[r] EXCEPT !.todo = @ \ {h}, !.refs = @ \cup {RefOf(h)}]
     IN worker' = [worker EXCEPT ![r] = IF index[h] = NoSeg THEN NoWork ELSE found]
  /\ UNCHANGED <<runVars, snaps, fileVars, storeVars, maint, restVars>>

\* Both kinds: the manifest file is written, ...
SaveManifest(r) ==
  /\ worker[r].phase = "scan"
  /\ worker[r].todo = {}
  /\ WriteManifest(r, worker[r].refs)
  /\ worker' = [worker EXCEPT ![r].phase = "written"]
  /\ UNCHANGED <<runVars, snaps, storeVars, maint, restVars>>

\* ... the snapshot is created, ...
CreateSnapshot(r) ==
  /\ worker[r].phase = "written"
  /\ PublishesInWindow \/ \A m \in Maint : ~In(m, "count")
  /\ snaps' = [snaps EXCEPT ![r] = "active"]
  /\ worker' = [worker EXCEPT ![r] = [NoWork EXCEPT !.phase = "published"]]
  /\ UNCHANGED <<runVars, fileVars, storeVars, maint, restVars>>

\* ... and the run is completed, whatever its status is by then.
CompleteRun(r) ==
  /\ worker[r].phase = "published"
  /\ status' = [status EXCEPT ![r] = "completed"]
  /\ worker' = [worker EXCEPT ![r] = NoWork]
  /\ UNCHANGED <<preBoot, snaps, fileVars, storeVars, maint, restVars>>

\* Any error before the snapshot exists: FailRun.
WorkFails(r) ==
  /\ worker[r].phase \in {"scan", "written"}
  /\ status' = [status EXCEPT ![r] = "failed"]
  /\ worker' = [worker EXCEPT ![r] = NoWork]
  /\ UNCHANGED <<preBoot, snaps, fileVars, storeVars, maint, restVars>>

\* The client of the request is gone: its context is cancelled, so the work
\* ends and every later write to the state database, FailRun's and
\* CompleteRun's included, is refused.
Disconnect(r) ==
  /\ ClientsDisconnect
  /\ worker[r].phase # "idle"
  /\ worker' = [worker EXCEPT ![r] = NoWork]
  /\ UNCHANGED <<runVars, snaps, fileVars, storeVars, maint, restVars>>

\* handleAgentFinishRun with status "failed": anything but a completed run.
FinishFailed(r) ==
  /\ r \notin Local /\ status[r] = "active" /\ MayFail(r)
  /\ status' = [status EXCEPT ![r] = "failed"]
  /\ UNCHANGED <<preBoot, worker, snaps, fileVars, storeVars, maint, restVars>>

\* handleAgentFinishRun without a status: the manifest must have arrived.
FinishCompleted(r) ==
  /\ r \notin Local /\ status[r] \in {"active", "failed"} /\ snaps[r] # "none"
  /\ status' = [status EXCEPT ![r] = "completed"]
  /\ UNCHANGED <<preBoot, worker, snaps, fileVars, storeVars, maint, restVars>>

-----------------------------------------------------------------------------
(* runStorageMaintenance: process m, in one mode, phase by phase.          *)

Compacting(m) == maint[m].mode = "compact"
Goto(m, phase) == maint' = [maint EXCEPT ![m].phase = phase]
Become(m, doing) == maint' = [maint EXCEPT ![m] = doing]

\* A compact needs the gate; then, in every mode, the active snapshots are
\* listed.
MaintBegin(m, mode) ==
  /\ In(m, "idle")
  /\ mode = "compact" => GateFree
  /\ Become(m, [NoMaint EXCEPT !.mode = mode, !.listed = ActiveSnaps,
                  !.phase = IF mode = "cleanup" THEN "stale" ELSE "expire"])
  /\ UNCHANGED <<runVars, worker, snaps, fileVars, storeVars, restVars>>

\* Mutated: retention does not ask for restore tasks.
ExpireInUse(m, R) ==
  /\ In(m, "expire") /\ R \subseteq maint[m].listed
  /\ snaps' = [r \in Run |-> IF r \in R THEN "deleted" ELSE snaps[r]]
  /\ Become(m, IF maint[m].mode = "retention" THEN NoMaint
               ELSE [maint[m] EXCEPT !.phase = "stale",
                       !.listed = {r \in Run : snaps'[r] = "active"}])
  /\ UNCHANGED <<runVars, worker, fileVars, storeVars, restVars>>

\* ExpireSnapshots: one transaction; which of the listed snapshots the policy
\* drops is left open, those in use by a restore task stay.  Then relist.
Expire(m, R) ==
  /\ In(m, "expire") /\ R \subseteq maint[m].listed
  /\ snaps' = [r \in Run |-> IF r \in R /\ snaps[r] = "active" /\ ~InUse(r)
                             THEN "deleted" ELSE snaps[r]]
  /\ Become(m, IF maint[m].mode = "retention" THEN NoMaint
               ELSE [maint[m] EXCEPT !.phase = "stale",
                       !.listed = {r \in Run : snaps'[r] = "active"}])
  /\ UNCHANGED <<runVars, worker, fileVars, storeVars, restVars>>

\* Mutated: the runs of this process are the stale ones.
MarkStaleSinceBoot(m, R) ==
  /\ In(m, "stale")
  /\ R \subseteq {r \in Run \ preBoot : status[r] = "active" /\ MayFail(r)}
  /\ status' = [r \in Run |-> IF r \in R THEN "failed" ELSE status[r]]
  /\ Goto(m, "live")
  /\ UNCHANGED <<preBoot, worker, snaps, fileVars, storeVars, restVars>>

\* MarkStaleRunsFailed: runs created before the process started; whether
\* they made progress lately is left open.
MarkStale(m, R) ==
  /\ In(m, "stale")
  /\ R \subseteq {r \in preBoot : status[r] = "active" /\ MayFail(r)}
  /\ status' = [r \in Run |-> IF r \in R THEN "failed" ELSE status[r]]
  /\ Goto(m, "live")
  /\ UNCHANGED <<preBoot, worker, snaps, fileVars, storeVars, restVars>>

AfterCleanup(m) ==
  IF Compacting(m) THEN [maint[m] EXCEPT !.phase = "relist"] ELSE NoMaint

\* snapshotLiveSets: the chunks of the listed snapshots; an unreadable
\* manifest skips the rest of the cleanup.
ReadLive(m) ==
  /\ In(m, "live")
  /\ Become(m, IF maint[m].listed \subseteq onFile
               THEN [maint[m] EXCEPT !.phase = "manifests",
                       !.live = UNION {Hashes(manifests[r]) : r \in maint[m].listed}]
               ELSE AfterCleanup(m))
  /\ UNCHANGED <<runVars, worker, snaps, fileVars, storeVars, restVars>>

\* Mutated: the grace period does not protect recent manifests.
DropManifestsNoGrace(m, kept) ==
  /\ In(m, "manifests")
  /\ kept \subseteq {r \in Run : snaps[r] = "deleted"}
  /\ LET gone == onFile \ (maint[m].listed \cup kept)
     IN /\ onFile' = onFile \ gone
        /\ manifests' = [r \in Run |-> IF r \in gone THEN {} ELSE manifests[r]]
  /\ Goto(m, "index")
  /\ UNCHANGED <<runVars, worker, snaps, freshFile, storeVars, restVars>>

\* DeleteManifestsExceptOlderThan keeps listed and recently deleted snapshots
\* (keep_deleted_metadata_days: kept is left open) and recent files.
DropManifests(m, kept) ==
  /\ In(m, "manifests")
  /\ kept \subseteq {r \in Run : snaps[r] = "deleted"}
  /\ LET gone == onFile \ (maint[m].listed \cup kept \cup freshFile)
     IN /\ onFile' = onFile \ gone
        /\ manifests' = [r \in Run |-> IF r \in gone THEN {} ELSE manifests[r]]
  /\ Goto(m, "index")
  /\ UNCHANGED <<runVars, worker, snaps, freshFile, storeVars, restVars>>

\* DeleteUnreferencedChunksOlderThan.
DropOldIndex(m) ==
  /\ In(m, "index")
  /\ Unindex(Indexed \ (maint[m].live \cup freshIndex))
  /\ Become(m, AfterCleanup(m))
  /\ UNCHANGED <<runVars, worker, snaps, fileVars, recs, current, restVars>>

\* Before the compaction proper the snapshots are listed once more.
Relist(m) ==
  /\ In(m, "relist")
  /\ Become(m, [maint[m] EXCEPT !.phase = "count", !.listed = ActiveSnaps,
                                 !.live = {}])
  /\ UNCHANGED <<runVars, worker, snaps, fileVars, storeVars, restVars>>

\* Mutated: active runs do not stop a compact.
CountActiveRunsIgnored(m) ==
  /\ In(m, "count")
  /\ Goto(m, "read")
  /\ UNCHANGED <<runVars, worker, snaps, fileVars, storeVars, restVars>>

\* compactRepository: skipped while any run is active.
CountActiveRuns(m) ==
  /\ In(m, "count")
  /\ Become(m, IF \E r \in Run : status[r] = "active" THEN NoMaint
               ELSE [maint[m] EXCEPT !.phase = "read"])
  /\ UNCHANGED <<runVars, worker, snaps, fileVars, storeVars, restVars>>

\* The manifests of the listed snapshots; refsByHash keeps one ref per hash.
ReadManifests(m) ==
  /\ In(m, "read")
  /\ LET read == [r \in Run |-> IF r \in maint[m].listed THEN manifests[r] ELSE {}]
         refs == UNION {read[r] : r \in Run}
     IN IF maint[m].listed \subseteq onFile
        THEN \E old \in [Hash -> Seg \cup {NoSeg}] :
               /\ \A h \in Hash : IF h \in Hashes(refs)
                                  THEN [hash |-> h, seg |-> old[h]] \in refs
                                  ELSE old[h] = NoSeg
               /\ Become(m, [maint[m] EXCEPT !.phase = "rotate", !.read = read,
                                              !.old = old])
        ELSE Become(m, NoMaint)
  /\ UNCHANGED <<runVars, worker, snaps, fileVars, storeVars, restVars>>

\* A segment id never used before: a name nothing refers to any more.
Referring == restore.refs \cup
             UNION {manifests[r] \cup worker[r].refs \cup worker[r].base : r \in Run}
FreeSegs  == Seg \ (OnDisk \cup {index[h] : h \in Hash} \cup {ref.seg : ref \in Referring})

\* RotateSegmentForMaintenance: a new file unless the current one is empty.
RotateForMaintenance(m) ==
  /\ In(m, "rotate")
  /\ IF \E r \in recs : r.seg = current
     THEN \E s \in FreeSegs : current' = s
     ELSE UNCHANGED current
  /\ Goto(m, "rewrite")
  /\ UNCHANGED <<runVars, worker, snaps, fileVars, index, recs, freshIndex, restVars>>

ToRewrite(m) == {h \in Hash : maint[m].old[h] # NoSeg /\ maint[m].new[h] = NoSeg}

\* RewriteChunkRef: the chunk is read through the old ref, appended, and its
\* index entry replaced; an unreadable chunk ends the compact.
Rewrite(m, h) ==
  /\ In(m, "rewrite") /\ h \in ToRewrite(m)
  /\ IF [hash |-> h, seg |-> maint[m].old[h]] \in recs
     THEN /\ recs' = recs \cup {[hash |-> h, seg |-> current]}
          /\ index' = [index EXCEPT ![h] = current]
          /\ freshIndex' = freshIndex \cup {h}
          /\ Become(m, [maint[m] EXCEPT !.new[h] = current])
     ELSE Become(m, NoMaint) /\ UNCHANGED <<recs, index, freshIndex>>
  /\ UNCHANGED <<runVars, worker, snaps, fileVars, current, restVars>>

\* WriteManifest for each manifest that changed, with the new refs.
RewriteManifest(m, r) ==
  /\ In(m, "rewrite") /\ ToRewrite(m) = {} /\ r \in maint[m].listed
  /\ LET old == maint[m].read[r]
         new == {[hash |-> h, seg |-> maint[m].new[h]] : h \in Hashes(old)}
     IN IF new = old THEN UNCHANGED fileVars ELSE WriteManifest(r, new)
  /\ Become(m, [maint[m] EXCEPT !.listed = @ \ {r}, !.read[r] = {}])
  /\ UNCHANGED <<runVars, worker, snaps, storeVars, restVars>>

\* Mutated: index entries and segments go before the manifests are rewritten.
DropIndexEarly(m) ==
  /\ In(m, "rewrite") /\ ToRewrite(m) = {}
  /\ Unindex({h \in Hash : maint[m].new[h] = NoSeg})
  /\ Goto(m, "segments")
  /\ UNCHANGED <<runVars, worker, snaps, fileVars, recs, current, restVars>>

\* Mutated: the index keeps the entries of chunks whose segments go.
DropIndexKept(m) ==
  /\ In(m, "rewrite") /\ ToRewrite(m) = {} /\ maint[m].listed = {}
  /\ Goto(m, "segments")
  /\ UNCHANGED <<runVars, worker, snaps, fileVars, storeVars, restVars>>

\* DeleteUnreferencedChunkStats: whatever was not rewritten, no grace period.
DropIndex(m) ==
  /\ In(m, "rewrite") /\ ToRewrite(m) = {} /\ maint[m].listed = {}
  /\ Unindex({h \in Hash : maint[m].new[h] = NoSeg})
  /\ Goto(m, "segments")
  /\ UNCHANGED <<runVars, worker, snaps, fileVars, recs, current, restVars>>

Victims(m) == OnDisk \ ({maint[m].new[h] : h \in Hash} \cup {current})

\* DeleteSegmentsExcept, one file at a time; then the gate is released.
DeleteSegment(m) ==
  /\ In(m, "segments")
  /\ \/ /\ Victims(m) = {}
        /\ Become(m, NoMaint)
        /\ UNCHANGED recs
     \/ \E s \in Victims(m) :
          /\ recs' = {r \in recs : r.seg # s}
          /\ UNCHANGED maint
  /\ UNCHANGED <<runVars, worker, snaps, fileVars, index, current, freshIndex, restVars>>

\* An error or a cancelled context ends the maintenance between two steps.
MaintFails(m) ==
  /\ ~In(m, "idle")
  /\ Become(m, NoMaint)
  /\ UNCHANGED <<runVars, worker, snaps, fileVars, storeVars, restVars>>

-----------------------------------------------------------------------------
(* Restores, deletions, crashes, time.                                     *)

\* handleRestore: the snapshot and its manifest are read, ...
RestoreLoad(r) ==
  /\ Restores /\ restore.phase = "idle"
  /\ snaps[r] = "active" /\ r \in onFile
  /\ restore' = [phase |-> "loaded", of |-> {r}, refs |-> manifests[r]]
  /\ UNCHANGED <<runVars, worker, snaps, fileVars, storeVars, maint, tasks, deleting>>

\* ... the task is created, ...
RestoreStart ==
  /\ restore.phase = "loaded"
  /\ restore' = [restore EXCEPT !.phase = "running"]
  /\ UNCHANGED <<runVars, worker, snaps, fileVars, storeVars, maint, tasks, deleting>>

\* ... the chunks are read through the refs in memory, and the task ends,
\* completed or, at the first unreadable chunk, failed.
RestoreRead ==
  /\ restore.phase = "running"
  /\ \/ restore.refs = {} /\ restore' = NoRestore
     \/ \E ref \in restore.refs :
          restore' = IF ref \in recs THEN [restore EXCEPT !.refs = @ \ {ref}] ELSE NoRestore
  /\ UNCHANGED <<runVars, worker, snaps, fileVars, storeVars, maint, tasks, deleting>>

\* The client of the restore is gone: with its context cancelled the status
\* of the task is never updated again.
RestoreAbandoned ==
  /\ ClientsDisconnect
  /\ restore.phase # "idle"
  /\ tasks' = tasks \cup (IF restore.phase = "running" THEN restore.of ELSE {})
  /\ restore' = NoRestore
  /\ UNCHANGED <<runVars, worker, snaps, fileVars, storeVars, maint, deleting>>

\* DeleteSnapshot: the task check and the update are two statements.
DeleteCheck(r) ==
  /\ Restores /\ deleting = {}
  /\ snaps[r] = "active" /\ ~InUse(r)
  /\ deleting' = {r}
  /\ UNCHANGED <<runVars, worker, snaps, fileVars, storeVars, maint, restore, tasks>>

DeleteUpdate ==
  /\ deleting # {}
  /\ snaps' = [r \in Run |-> IF r \in deleting /\ snaps[r] = "active"
                             THEN "deleted" ELSE snaps[r]]
  /\ deleting' = {}
  /\ UNCHANGED <<runVars, worker, fileVars, storeVars, maint, restore, tasks>>

\* The process stops and starts again: everything in memory is gone.
Crash ==
  /\ preBoot' = {r \in Run : status[r] = "active"}
  /\ worker' = [r \in Run |-> NoWork]
  /\ maint' = [m \in Maint |-> NoMaint]
  /\ restore' = NoRestore
  /\ tasks' = tasks \cup (IF restore.phase = "running" THEN restore.of ELSE {})
  /\ deleting' = {}
  /\ UNCHANGED <<status, snaps, fileVars, storeVars>>

\* error_grace_period passes.  It is longer than a maintenance run, than a
\* manifest request, and than a local run takes to publish what it wrote; the
\* scan of a local run may outlast it.
GracePasses ==
  /\ \A m \in Maint : In(m, "idle")
  /\ \A r \in Run : worker[r].phase \in (IF r \in Local THEN {"idle", "scan"} ELSE {"idle"})
  /\ freshIndex' = {} /\ freshFile' = {}
  /\ UNCHANGED <<runVars, worker, snaps, onFile, manifests, index, recs, current,
                 maint, restVars>>

Next ==
  \/ \E r \in Run : \/ StartLocal(r) \/ Reuse(r) \/ StartAgent(r)
                    \/ SaveManifest(r) \/ CreateSnapshot(r) \/ CompleteRun(r)
                    \/ WorkFails(r) \/ Disconnect(r)
                    \/ FinishFailed(r) \/ FinishCompleted(r)
                    \/ RestoreLoad(r) \/ DeleteCheck(r)
  \/ \E r \in Run, h \in Hash : Store(r, h) \/ Upload(r, h) \/ Canonicalize(r, h)
  \/ \E r \in Run, S \in SUBSET Hash : PostBegin(r, S)
  \/ \E m \in Maint :
       \/ \E mode \in {"retention", "cleanup", "compact"} : MaintBegin(m, mode)
       \/ \E R \in SUBSET Run : Expire(m, R) \/ MarkStale(m, R) \/ DropManifests(m, R)
       \/ ReadLive(m) \/ DropOldIndex(m) \/ Relist(m) \/ CountActiveRuns(m)
       \/ ReadManifests(m) \/ RotateForMaintenance(m)
       \/ \E h \in Hash : Rewrite(m, h)
       \/ \E r \in Run : RewriteManifest(m, r)
       \/ DropIndex(m) \/ DeleteSegment(m) \/ MaintFails(m)
  \/ RestoreStart \/ RestoreRead \/ RestoreAbandoned \/ DeleteUpdate
  \/ Crash \/ GracePasses

Spec == Init /\ [][Next]_vars

\* A run that is executing goes on, and an agent that posted a manifest, or
\* started a run, reports how it ended.
RunStep(r) ==
  \/ SaveManifest(r) \/ CreateSnapshot(r) \/ CompleteRun(r)
  \/ \E h \in Hash : Canonicalize(r, h)
  \/ FinishFailed(r)

\* Maintenance goes on to its next phase.
MaintStep(m) ==
  \/ \E R \in SUBSET Run : Expire(m, R) \/ MarkStale(m, R) \/ DropManifests(m, R)
  \/ ReadLive(m) \/ DropOldIndex(m) \/ Relist(m) \/ CountActiveRuns(m)
  \/ ReadManifests(m) \/ RotateForMaintenance(m)
  \/ \E h \in Hash : Rewrite(m, h)
  \/ \E r \in Run : RewriteManifest(m, r)
  \/ DropIndex(m) \/ DeleteSegment(m)

SomeMaintFails == \E m \in Maint : MaintFails(m)
SomeMaintStep  == \E m \in Maint : MaintStep(m)

\* Goroutines run on, and a run a restart has orphaned makes no progress, so
\* that it is stale at last.  A compact is tried again and again (the
\* compact_schedule while compact_min_reclaim_* is met, else an
\* administrator) and gets the gate if it is free again and again.  At some
\* point the process and its maintenance stop failing.  The last conjunct is
\* the model's: the names in Seg did not run out.
LiveSpec ==
  /\ Spec
  /\ \A r \in Run : SF_vars(RunStep(r))
  /\ \A r \in Run : SF_vars(\E m \in Maint, R \in SUBSET Run : r \in R /\ MarkStale(m, R))
  /\ \A m \in Maint : WF_vars(MaintStep(m)) /\ SF_vars(MaintBegin(m, "compact"))
  /\ <>[][SomeMaintFails \/ Crash => SomeMaintStep]_vars
  /\ [](\A m \in Maint : In(m, "rotate") => FreeSegs # {})

-----------------------------------------------------------------------------
(* Properties.                                                             *)

\* Every variable keeps its shape.
TypeOK ==
  /\ status \in [Run -> {"none", "active", "completed", "failed"}]
  /\ preBoot \subseteq Run
  /\ worker \in [Run -> [phase : {"idle", "scan", "written", "published"},
                         base : SUBSET Ref, todo : SUBSET Hash, refs : SUBSET Ref]]
  /\ snaps \in [Run -> {"none", "active", "deleted"}]
  /\ onFile \subseteq Run
  /\ manifests \in [Run -> SUBSET Ref]
  /\ freshFile \subseteq Run
  /\ index \in [Hash -> Seg \cup {NoSeg}]
  /\ recs \subseteq Ref
  /\ current \in Seg
  /\ freshIndex \subseteq Hash
  /\ maint \in [Maint -> [mode : {"none", "retention", "cleanup", "compact"},
                phase : {"idle", "expire", "stale", "live", "manifests", "index",
                         "relist", "count", "read", "rotate", "rewrite", "segments"},
                listed : SUBSET Run, live : SUBSET Hash, read : [Run -> SUBSET Ref],
                old : [Hash -> Seg \cup {NoSeg}], new : [Hash -> Seg \cup {NoSeg}]]]
  /\ restore \in [phase : {"idle", "loaded", "running"}, of : SUBSET Run, refs : SUBSET Ref]
  /\ tasks \subseteq Run
  /\ deleting \subseteq Run

\* An active snapshot can be restored at every moment: its manifest file is
\* there and every chunk it names reads back, whatever cleanup, compact,
\* failed or crashed maintenance and other runs are doing.
ActiveSnapshotsRestorable ==
  \A r \in ActiveSnaps : r \in onFile /\ manifests[r] \subseteq recs

\* Deduplication never answers with a lost chunk: what the index names reads
\* back, in the middle of a compact too.
IndexResolves == \A h \in Indexed : RefOf(h) \in recs

\* No maintenance pulls a chunk from under a run: the refs it has gathered,
\* and the base manifest it clones refs from, stay readable until it ends.
InFlightRefsReadable ==
  \A r \in Run : worker[r].refs \cup worker[r].base \subseteq recs

\* Cleanup drops an index entry only if no active snapshot names its chunk.
IndexDropsOnlyUnreferenced ==
  [][\A h \in Indexed : index'[h] = NoSeg =>
       \A r \in ActiveSnaps : h \notin Hashes(manifests[r])]_vars

\* A running restore of a snapshot that is still active can read every chunk
\* it has yet to write.
RunningRestoreReadable ==
  restore.phase = "running" /\ restore.of \subseteq ActiveSnaps => restore.refs \subseteq recs

\* A snapshot a restore task is using is not deleted.
NotDeletedWhileRestoring ==
  [][\A r \in ActiveSnaps : snaps'[r] = "deleted" => ~InUse(r)]_vars

\* Retention never takes a snapshot from a restore task: one that is in use
\* goes away only by a deletion that had found it unused before.
RetentionSparesRestores ==
  [][\A r \in ActiveSnaps : snaps'[r] = "deleted" /\ InUse(r) => r \in deleting]_vars

\* Deleting a snapshot frees its space in the end: some compact removes every
\* record that no active snapshot names.
DeletedSpaceReclaimed ==
  \A r \in Run : snaps[r] = "deleted" ~> recs = UNION {manifests[q] : q \in ActiveSnaps}

\* What a user sees: a snapshot appears once, with all of its chunks, and
\* until it is withdrawn they are exactly what can be restored from it.
Restorable(r) ==
  IF r \in onFile THEN Hashes(manifests[r] \cap recs) ELSE {}

Shelf == [r \in Run |-> [state |-> snaps[r],
                          chunks |-> IF snaps[r] = "active" THEN Restorable(r) ELSE {}]]

Vault == INSTANCE SnapshotVault WITH vault <- Shelf

\* The server implements the vault: no maintenance, crash or failure changes
\* what an active snapshot contains, and no deleted snapshot reappears.
SnapshotsAreImmutable == Vault!Spec

-----------------------------------------------------------------------------
(* The inductive invariant, where no run is failed while its manifest is    *)
(* handled and no manifest is published in the window of a compact.         *)

\* What a run's execution, its status, its snapshot and its manifest file
\* say of each other.
RunsInv ==
  \A r \in Run :
    /\ status[r] = "none" => snaps[r] = "none" /\ worker[r] = NoWork
    /\ worker[r].phase \in {"scan", "written"} => status[r] = "active" /\ snaps[r] = "none"
    /\ worker[r].phase \in {"idle", "published"} => worker[r].refs \cup worker[r].base = {}
    /\ worker[r].phase = "written" =>
         r \in onFile /\ r \in freshFile /\ manifests[r] = worker[r].refs

\* The gate keeps compacts and local runs apart; a compact past its count
\* has found no active run, and none starts while it holds the gate.
GateInv ==
  /\ \A m, n \in Maint : Compacting(m) /\ Compacting(n) => m = n
  /\ \A m \in Maint :
       /\ maint[m].phase \in {"relist", "count", "read", "rotate", "rewrite", "segments"} =>
            Compacting(m)
       /\ Compacting(m) => \A r \in Local : worker[r].phase = "idle"
       /\ maint[m].phase \in {"read", "rotate", "rewrite", "segments"} =>
            \A r \in Run : status[r] # "active"

\* A cleanup lists the active snapshots but for those whose manifest is
\* recent; a compact, from its count on, lists them all.
ListedInv ==
  \A m \in Maint :
    /\ maint[m].phase \in {"expire", "stale", "live", "manifests"} =>
         ActiveSnaps \subseteq maint[m].listed \cup freshFile
    /\ maint[m].phase \in {"count", "read", "rotate"} => ActiveSnaps \subseteq maint[m].listed

\* A compact holds one ref for every chunk of the manifests it has read.
ReadInv ==
  \A m \in Maint : maint[m].phase \in {"rotate", "rewrite"} =>
    \A r \in Run : \A h \in Hashes(maint[m].read[r]) : maint[m].old[h] # NoSeg

\* A compact has read what the manifests still say, rewrites into the current
\* segment, and leaves no manifest and no index entry pointing elsewhere.
RewriteInv ==
  \A m \in Maint :
    /\ maint[m].phase \notin {"rewrite", "segments"} => maint[m].new = NoneOf
    /\ maint[m].phase \in {"rotate", "rewrite"} =>
         \A r \in maint[m].listed \cap ActiveSnaps : maint[m].read[r] = manifests[r]
    /\ In(m, "rewrite") =>
         /\ \A h \in Hash : maint[m].new[h] # NoSeg =>
              /\ maint[m].new[h] = current
              /\ [hash |-> h, seg |-> current] \in recs
              /\ index[h] \in {NoSeg, current}
         /\ \A r \in ActiveSnaps \ maint[m].listed : \A ref \in manifests[r] : ref.seg = current
    /\ In(m, "segments") =>
         /\ \A h \in Hash : index[h] \in {NoSeg, current}
         /\ \A r \in ActiveSnaps : \A ref \in manifests[r] : ref.seg = current

\* Between any two steps: snapshots, index and runs can read what they name,
\* because cleanup and compact know every manifest they have to spare.
LifecycleInv ==
  /\ TypeOK
  /\ RunsInv /\ GateInv /\ ListedInv /\ ReadInv /\ RewriteInv
  /\ ActiveSnapshotsRestorable /\ IndexResolves /\ InFlightRefsReadable

=============================================================================
