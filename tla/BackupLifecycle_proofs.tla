----------------------- MODULE BackupLifecycle_proofs -----------------------
(***************************************************************************)
(* Proofs about BackupLifecycle, for any runs, chunks, segment names and    *)
(* maintenance processes: active snapshots, the index and running backups   *)
(* can read what they name at every moment, and the server implements       *)
(* SnapshotVault, provided that no run is failed while its manifest is      *)
(* handled and no manifest is published in the window of a compact.         *)
(***************************************************************************)
EXTENDS BackupLifecycle, TLAPS

\* What the constants allow.
LEMMA Bounds ==
  /\ Local \subseteq Run /\ NoSeg \notin Seg
  /\ FailsWhileServed \in BOOLEAN /\ PublishesInWindow \in BOOLEAN
  BY ConstantsOK DEF ConstantsOK

USE Bounds

-----------------------------------------------------------------------------
(* Types.                                                                  *)

\* TypeOK, by the parts of the state an action changes.
WorkType == [phase : {"idle", "scan", "written", "published"},
             base : SUBSET Ref, todo : SUBSET Hash, refs : SUBSET Ref]
SegMap   == [Hash -> Seg \cup {NoSeg}]
Phases   == {"idle", "expire", "stale", "live", "manifests", "index",
             "relist", "count", "read", "rotate", "rewrite", "segments"}
MaintType == [mode : {"none", "retention", "cleanup", "compact"}, phase : Phases,
              listed : SUBSET Run, live : SUBSET Hash, read : [Run -> SUBSET Ref],
              old : SegMap, new : SegMap]

RunTypes ==
  /\ status \in [Run -> {"none", "active", "completed", "failed"}]
  /\ preBoot \subseteq Run
  /\ worker \in [Run -> WorkType]
  /\ snaps \in [Run -> {"none", "active", "deleted"}]
FileTypes ==
  /\ onFile \subseteq Run /\ freshFile \subseteq Run
  /\ manifests \in [Run -> SUBSET Ref]
StoreTypes ==
  /\ index \in SegMap
  /\ recs \subseteq Ref
  /\ current \in Seg
  /\ freshIndex \subseteq Hash
MaintTypes == maint \in [Maint -> MaintType]
RestoreTypes ==
  /\ restore \in [phase : {"idle", "loaded", "running"}, of : SUBSET Run, refs : SUBSET Ref]
  /\ tasks \subseteq Run
  /\ deleting \subseteq Run

\* TypeOK in parts, for the lemmas below.
LEMMA TypeParts == TypeOK <=> RunTypes /\ FileTypes /\ StoreTypes /\ MaintTypes /\ RestoreTypes
  BY DEF TypeOK, RunTypes, FileTypes, StoreTypes, MaintTypes, RestoreTypes, WorkType, SegMap,
         MaintType, Phases

\* The same for the state after a step.
LEMMA TypesPrimed ==
  RunTypes' /\ FileTypes' /\ StoreTypes' /\ MaintTypes' /\ RestoreTypes' => TypeOK'
  BY DEF TypeOK, RunTypes, FileTypes, StoreTypes, MaintTypes, RestoreTypes, WorkType, SegMap,
         MaintType, Phases

\* Idle workers and processes are of their types.
LEMMA NothingType ==
  /\ NoWork \in WorkType /\ NoMaint \in MaintType /\ NoneOf \in SegMap /\ NoRefs \in [Run -> SUBSET Ref]
  BY DEF NoWork, WorkType, NoMaint, MaintType, SegMap, NoneOf, NoRefs, Phases

\* The initial state is of its types.
LEMMA InitTypes == Init => TypeOK
<1> SUFFICES ASSUME Init PROVE RunTypes /\ FileTypes /\ StoreTypes /\ MaintTypes /\ RestoreTypes
  BY TypeParts
<1>1. RunTypes
  BY NothingType DEF Init, RunTypes
<1>2. FileTypes
  BY NothingType DEF Init, FileTypes
<1>3. StoreTypes
  BY NothingType DEF Init, StoreTypes
<1>4. MaintTypes
  BY NothingType DEF Init, MaintTypes
<1>5. RestoreTypes
  BY DEF Init, RestoreTypes, NoRestore
<1> QED
  BY <1>1, <1>2, <1>3, <1>4, <1>5

-----------------------------------------------------------------------------
(* Which actions change which variables.                                   *)

\* What changes the manifest files.
LEMMA FileSteps ==
  ASSUME [Next]_vars
  PROVE  \/ \E r \in Run : SaveManifest(r)
         \/ \E m \in Maint, R \in SUBSET Run : DropManifests(m, R)
         \/ \E m \in Maint, r \in Run : RewriteManifest(m, r)
         \/ GracePasses
         \/ UNCHANGED fileVars
<1>1. ASSUME NEW r \in Run,
             \/ StartLocal(r) \/ Reuse(r) \/ StartAgent(r) \/ CreateSnapshot(r) \/ CompleteRun(r)
             \/ WorkFails(r) \/ Disconnect(r) \/ FinishFailed(r) \/ FinishCompleted(r)
             \/ RestoreLoad(r) \/ DeleteCheck(r)
             \/ \E h \in Hash : Store(r, h) \/ Upload(r, h) \/ Canonicalize(r, h)
             \/ \E S \in SUBSET Hash : PostBegin(r, S)
      PROVE  UNCHANGED fileVars
  BY <1>1 DEF StartLocal, Reuse, StartAgent, CreateSnapshot, CompleteRun, WorkFails, Disconnect,
     FinishFailed, FinishCompleted, RestoreLoad, DeleteCheck, Store, Upload, Canonicalize, PostBegin
<1>2. ASSUME NEW m \in Maint,
             \/ \E mode \in {"retention", "cleanup", "compact"} : MaintBegin(m, mode)
             \/ \E R \in SUBSET Run : Expire(m, R) \/ MarkStale(m, R)
             \/ ReadLive(m) \/ DropOldIndex(m) \/ Relist(m) \/ CountActiveRuns(m)
             \/ ReadManifests(m) \/ RotateForMaintenance(m)
             \/ \E h \in Hash : Rewrite(m, h)
             \/ DropIndex(m) \/ DeleteSegment(m) \/ MaintFails(m)
      PROVE  UNCHANGED fileVars
  BY <1>2 DEF MaintBegin, Expire, MarkStale, ReadLive, DropOldIndex, Relist, CountActiveRuns,
     ReadManifests, RotateForMaintenance, Rewrite, DropIndex, DeleteSegment, MaintFails
<1>3. ASSUME \/ RestoreStart \/ RestoreRead \/ RestoreAbandoned \/ DeleteUpdate \/ Crash
             \/ UNCHANGED vars
      PROVE  UNCHANGED fileVars
  BY <1>3 DEF RestoreStart, RestoreRead, RestoreAbandoned, DeleteUpdate, Crash, vars
<1> QED
  BY <1>1, <1>2, <1>3 DEF Next

\* What changes the index and the segments.
LEMMA StoreSteps ==
  ASSUME [Next]_vars
  PROVE  \/ \E r \in Run, h \in Hash : Store(r, h) \/ Upload(r, h)
         \/ \E m \in Maint : DropOldIndex(m) \/ RotateForMaintenance(m) \/ DropIndex(m) \/ DeleteSegment(m)
         \/ \E m \in Maint, h \in Hash : Rewrite(m, h)
         \/ GracePasses
         \/ UNCHANGED storeVars
  BY DEF Next, vars, StartLocal, Reuse, StartAgent, SaveManifest, CreateSnapshot, CompleteRun,
     WorkFails, Disconnect, FinishFailed, FinishCompleted, RestoreLoad, DeleteCheck,
     Canonicalize, PostBegin, Expire, MarkStale, DropManifests, MaintBegin, ReadLive, Relist,
     CountActiveRuns, ReadManifests, RewriteManifest, MaintFails, RestoreStart, RestoreRead,
     RestoreAbandoned, DeleteUpdate, Crash

\* What changes the maintenance processes.
LEMMA MaintSteps ==
  ASSUME [Next]_vars
  PROVE  \/ \E m \in Maint :
              \/ \E mode \in {"retention", "cleanup", "compact"} : MaintBegin(m, mode)
              \/ \E R \in SUBSET Run : Expire(m, R) \/ MarkStale(m, R) \/ DropManifests(m, R)
              \/ ReadLive(m) \/ DropOldIndex(m) \/ Relist(m) \/ CountActiveRuns(m)
              \/ ReadManifests(m) \/ RotateForMaintenance(m)
              \/ \E h \in Hash : Rewrite(m, h)
              \/ \E r \in Run : RewriteManifest(m, r)
              \/ DropIndex(m) \/ DeleteSegment(m) \/ MaintFails(m)
         \/ Crash
         \/ UNCHANGED maint
  BY DEF Next, vars, StartLocal, Reuse, StartAgent, SaveManifest, CreateSnapshot, CompleteRun,
     WorkFails, Disconnect, FinishFailed, FinishCompleted, RestoreLoad, DeleteCheck,
     Canonicalize, PostBegin, Store, Upload, RestoreStart, RestoreRead, RestoreAbandoned,
     DeleteUpdate, GracePasses

\* What changes restores and deletions.
LEMMA RestoreSteps ==
  ASSUME [Next]_vars
  PROVE  \/ \E r \in Run : RestoreLoad(r) \/ DeleteCheck(r)
         \/ RestoreStart \/ RestoreRead \/ RestoreAbandoned \/ DeleteUpdate \/ Crash
         \/ UNCHANGED restVars
<1>1. ASSUME NEW r \in Run,
             \/ StartLocal(r) \/ Reuse(r) \/ StartAgent(r) \/ SaveManifest(r) \/ CreateSnapshot(r)
             \/ CompleteRun(r) \/ WorkFails(r) \/ Disconnect(r) \/ FinishFailed(r) \/ FinishCompleted(r)
             \/ \E h \in Hash : Store(r, h) \/ Upload(r, h) \/ Canonicalize(r, h)
             \/ \E S \in SUBSET Hash : PostBegin(r, S)
      PROVE  UNCHANGED restVars
  BY <1>1 DEF StartLocal, Reuse, StartAgent, SaveManifest, CreateSnapshot, CompleteRun, WorkFails,
     Disconnect, FinishFailed, FinishCompleted, Store, Upload, Canonicalize, PostBegin
<1>2. ASSUME NEW m \in Maint,
             \/ \E mode \in {"retention", "cleanup", "compact"} : MaintBegin(m, mode)
             \/ \E R \in SUBSET Run : Expire(m, R) \/ MarkStale(m, R) \/ DropManifests(m, R)
             \/ ReadLive(m) \/ DropOldIndex(m) \/ Relist(m) \/ CountActiveRuns(m)
             \/ ReadManifests(m) \/ RotateForMaintenance(m)
             \/ \E h \in Hash : Rewrite(m, h)
             \/ \E r \in Run : RewriteManifest(m, r)
             \/ DropIndex(m) \/ DeleteSegment(m) \/ MaintFails(m)
      PROVE  UNCHANGED restVars
  BY <1>2 DEF MaintBegin, Expire, MarkStale, DropManifests, ReadLive, DropOldIndex, Relist,
     CountActiveRuns, ReadManifests, RotateForMaintenance, Rewrite, RewriteManifest, DropIndex,
     DeleteSegment, MaintFails
<1>3. ASSUME GracePasses \/ UNCHANGED vars PROVE UNCHANGED restVars
  BY <1>3 DEF GracePasses, restVars, vars
<1> QED
  BY <1>1, <1>2, <1>3 DEF Next

\* What changes the executions of runs.
LEMMA WorkerSteps ==
  ASSUME [Next]_vars
  PROVE  \/ \E r \in Run : \/ StartLocal(r) \/ Reuse(r) \/ SaveManifest(r) \/ CreateSnapshot(r)
                           \/ CompleteRun(r) \/ WorkFails(r) \/ Disconnect(r)
         \/ \E r \in Run, h \in Hash : Store(r, h) \/ Canonicalize(r, h)
         \/ \E r \in Run, S \in SUBSET Hash : PostBegin(r, S)
         \/ Crash
         \/ UNCHANGED worker
<1>1. ASSUME NEW r \in Run,
             \/ StartAgent(r) \/ FinishFailed(r) \/ FinishCompleted(r) \/ RestoreLoad(r)
             \/ DeleteCheck(r) \/ \E h \in Hash : Upload(r, h)
      PROVE  UNCHANGED worker
  BY <1>1 DEF StartAgent, FinishFailed, FinishCompleted, RestoreLoad, DeleteCheck, Upload
<1>2. ASSUME NEW m \in Maint,
             \/ \E mode \in {"retention", "cleanup", "compact"} : MaintBegin(m, mode)
             \/ \E R \in SUBSET Run : Expire(m, R) \/ MarkStale(m, R) \/ DropManifests(m, R)
             \/ ReadLive(m) \/ DropOldIndex(m) \/ Relist(m) \/ CountActiveRuns(m)
             \/ ReadManifests(m) \/ RotateForMaintenance(m)
             \/ \E h \in Hash : Rewrite(m, h)
             \/ \E r \in Run : RewriteManifest(m, r)
             \/ DropIndex(m) \/ DeleteSegment(m) \/ MaintFails(m)
      PROVE  UNCHANGED worker
  BY <1>2 DEF MaintBegin, Expire, MarkStale, DropManifests, ReadLive, DropOldIndex, Relist,
     CountActiveRuns, ReadManifests, RotateForMaintenance, Rewrite, RewriteManifest, DropIndex,
     DeleteSegment, MaintFails
<1>3. ASSUME \/ RestoreStart \/ RestoreRead \/ RestoreAbandoned \/ DeleteUpdate \/ GracePasses
             \/ UNCHANGED vars
      PROVE  UNCHANGED worker
  BY <1>3 DEF RestoreStart, RestoreRead, RestoreAbandoned, DeleteUpdate, GracePasses, vars
<1> QED
  BY <1>1, <1>2, <1>3 DEF Next

\* What changes the snapshots.
LEMMA SnapSteps ==
  ASSUME [Next]_vars
  PROVE  \/ \E r \in Run : CreateSnapshot(r)
         \/ \E m \in Maint, R \in SUBSET Run : Expire(m, R)
         \/ DeleteUpdate
         \/ UNCHANGED snaps
<1>1. ASSUME NEW r \in Run,
             \/ StartLocal(r) \/ Reuse(r) \/ StartAgent(r) \/ SaveManifest(r) \/ CompleteRun(r)
             \/ WorkFails(r) \/ Disconnect(r) \/ FinishFailed(r) \/ FinishCompleted(r)
             \/ RestoreLoad(r) \/ DeleteCheck(r)
             \/ \E h \in Hash : Store(r, h) \/ Upload(r, h) \/ Canonicalize(r, h)
             \/ \E S \in SUBSET Hash : PostBegin(r, S)
      PROVE  UNCHANGED snaps
  BY <1>1 DEF StartLocal, Reuse, StartAgent, SaveManifest, CompleteRun, WorkFails, Disconnect,
     FinishFailed, FinishCompleted, RestoreLoad, DeleteCheck, Store, Upload, Canonicalize, PostBegin
<1>2. ASSUME NEW m \in Maint,
             \/ \E mode \in {"retention", "cleanup", "compact"} : MaintBegin(m, mode)
             \/ \E R \in SUBSET Run : MarkStale(m, R) \/ DropManifests(m, R)
             \/ ReadLive(m) \/ DropOldIndex(m) \/ Relist(m) \/ CountActiveRuns(m)
             \/ ReadManifests(m) \/ RotateForMaintenance(m)
             \/ \E h \in Hash : Rewrite(m, h)
             \/ \E r \in Run : RewriteManifest(m, r)
             \/ DropIndex(m) \/ DeleteSegment(m) \/ MaintFails(m)
      PROVE  UNCHANGED snaps
  BY <1>2 DEF MaintBegin, MarkStale, DropManifests, ReadLive, DropOldIndex, Relist, CountActiveRuns,
     ReadManifests, RotateForMaintenance, Rewrite, RewriteManifest, DropIndex, DeleteSegment,
     MaintFails
<1>3. ASSUME \/ RestoreStart \/ RestoreRead \/ RestoreAbandoned \/ Crash \/ GracePasses
             \/ UNCHANGED vars
      PROVE  UNCHANGED snaps
  BY <1>3 DEF RestoreStart, RestoreRead, RestoreAbandoned, Crash, GracePasses, vars
<1> QED
  BY <1>1, <1>2, <1>3 DEF Next

-----------------------------------------------------------------------------
(* Types are kept.                                                         *)

\* Runs, their executions and snapshots.
LEMMA RunTypesKept ==
  ASSUME TypeOK, [Next]_vars
  PROVE  RunTypes'
<1> USE DEF RunTypes, runVars, storeVars, fileVars, restVars
<1> USE TypeParts, NothingType
<1>1. ASSUME NEW r \in Run, StartLocal(r) PROVE RunTypes'
  <2>1. PICK base \in {{}} \cup {manifests[q] : q \in Local \cap ActiveSnaps \cap onFile} :
          worker' = [worker EXCEPT ![r] = [NoWork EXCEPT !.phase = "scan", !.base = base]]
    BY <1>1 DEF StartLocal
  <2>2. base \in SUBSET Ref
    BY <2>1 DEF FileTypes
  <2>3. [NoWork EXCEPT !.phase = "scan", !.base = base] \in WorkType
    BY <2>2 DEF NoWork, WorkType
  <2> QED
    BY <1>1, <2>1, <2>3 DEF StartLocal, CreateRun
<1>2. ASSUME NEW r \in Run, Reuse(r) PROVE RunTypes'
  BY <1>2 DEF Reuse, WorkType
<1>3. ASSUME NEW r \in Run, StartAgent(r) PROVE RunTypes'
  BY <1>3 DEF StartAgent, CreateRun
<1>4. ASSUME NEW r \in Run, SaveManifest(r) PROVE RunTypes'
  BY <1>4 DEF SaveManifest, WorkType
<1>5. ASSUME NEW r \in Run, CreateSnapshot(r) PROVE RunTypes'
  <2>1. [NoWork EXCEPT !.phase = "published"] \in WorkType
    BY DEF NoWork, WorkType
  <2> QED
    BY <1>5, <2>1 DEF CreateSnapshot
<1>6. ASSUME NEW r \in Run, CompleteRun(r) \/ WorkFails(r) \/ Disconnect(r) PROVE RunTypes'
  BY <1>6 DEF CompleteRun, WorkFails, Disconnect
<1>7. ASSUME NEW r \in Run, FinishFailed(r) \/ FinishCompleted(r) PROVE RunTypes'
  BY <1>7 DEF FinishFailed, FinishCompleted
<1>8. ASSUME NEW r \in Run, RestoreLoad(r) \/ DeleteCheck(r) PROVE RunTypes'
  BY <1>8 DEF RestoreLoad, DeleteCheck
<1>9. ASSUME NEW r \in Run, NEW h \in Hash, Store(r, h) PROVE RunTypes'
  <2>1. index'[h] \in Seg
    BY <1>9 DEF Store, Put, StoreTypes, SegMap
  <2>2. worker[r].refs \cup {[hash |-> h, seg |-> index'[h]]} \in SUBSET Ref
    BY <2>1 DEF WorkType, Ref
  <2> QED
    BY <1>9, <2>2 DEF Store, WorkType
<1>10. ASSUME NEW r \in Run, NEW h \in Hash, Upload(r, h) PROVE RunTypes'
  BY <1>10 DEF Upload
<1>11. ASSUME NEW r \in Run, NEW h \in Hash, Canonicalize(r, h) PROVE RunTypes'
  <2>1. CASE index[h] = NoSeg
    BY <1>11, <2>1 DEF Canonicalize
  <2>2. CASE index[h] # NoSeg
    <3>1. RefOf(h) \in Ref
      BY <2>2 DEF RefOf, Ref, StoreTypes, SegMap
    <3>2. [worker[r] EXCEPT !.todo = @ \ {h}, !.refs = @ \cup {RefOf(h)}] \in WorkType
      BY <3>1 DEF WorkType
    <3> QED
      BY <1>11, <2>2, <3>2 DEF Canonicalize
  <2> QED
    BY <2>1, <2>2
<1>12. ASSUME NEW r \in Run, NEW S \in SUBSET Hash, PostBegin(r, S) PROVE RunTypes'
  <2>1. [NoWork EXCEPT !.phase = "scan", !.todo = S] \in WorkType
    BY DEF NoWork, WorkType
  <2> QED
    BY <1>12, <2>1 DEF PostBegin
<1>13. ASSUME NEW m \in Maint, NEW R \in SUBSET Run, Expire(m, R) PROVE RunTypes'
  BY <1>13 DEF Expire
<1>14. ASSUME NEW m \in Maint, NEW R \in SUBSET Run, MarkStale(m, R) PROVE RunTypes'
  BY <1>14 DEF MarkStale
<1>15. ASSUME NEW m \in Maint, NEW R \in SUBSET Run, DropManifests(m, R) PROVE RunTypes'
  BY <1>15 DEF DropManifests
<1>16. ASSUME NEW m \in Maint,
              \/ \E mode \in {"retention", "cleanup", "compact"} : MaintBegin(m, mode)
              \/ ReadLive(m) \/ DropOldIndex(m) \/ Relist(m) \/ CountActiveRuns(m)
              \/ ReadManifests(m) \/ RotateForMaintenance(m)
              \/ \E h \in Hash : Rewrite(m, h)
              \/ \E r \in Run : RewriteManifest(m, r)
              \/ DropIndex(m) \/ DeleteSegment(m) \/ MaintFails(m)
       PROVE  RunTypes'
  BY <1>16 DEF MaintBegin, ReadLive, DropOldIndex, Relist, CountActiveRuns, ReadManifests,
               RotateForMaintenance, Rewrite, RewriteManifest, DropIndex, DeleteSegment, MaintFails
<1>17. ASSUME RestoreStart \/ RestoreRead \/ RestoreAbandoned PROVE RunTypes'
  BY <1>17 DEF RestoreStart, RestoreRead, RestoreAbandoned
<1>18. ASSUME DeleteUpdate PROVE RunTypes'
  BY <1>18 DEF DeleteUpdate
<1>19. ASSUME Crash PROVE RunTypes'
  BY <1>19 DEF Crash
<1>20. ASSUME GracePasses PROVE RunTypes'
  BY <1>20 DEF GracePasses
<1>21. CASE UNCHANGED vars
  BY <1>21 DEF vars
<1> QED
  BY <1>1, <1>2, <1>3, <1>4, <1>5, <1>6, <1>7, <1>8, <1>9, <1>10, <1>11, <1>12, <1>13, <1>14,
     <1>15, <1>16, <1>17, <1>18, <1>19, <1>20, <1>21 DEF Next

\* Manifests: a rewritten one names the segments the chunks were copied to.
LEMMA FileTypesKept ==
  ASSUME TypeOK, ReadInv, [Next]_vars
  PROVE  FileTypes'
<1> USE TypeParts DEF FileTypes
<1>1. ASSUME NEW r \in Run, SaveManifest(r) PROVE FileTypes'
  BY <1>1 DEF SaveManifest, WriteManifest, RunTypes, WorkType
<1>2. ASSUME NEW m \in Maint, NEW R \in SUBSET Run, DropManifests(m, R) PROVE FileTypes'
  BY <1>2 DEF DropManifests
<1>3. ASSUME NEW m \in Maint, NEW r \in Run, RewriteManifest(m, r) PROVE FileTypes'
  <2>1. ASSUME NEW h \in Hashes(maint[m].read[r])
        PROVE  [hash |-> h, seg |-> maint[m].new[h]] \in Ref
    <3>1. h \in Hash /\ maint[m].new[h] \in Seg \cup {NoSeg}
      BY DEF Hashes, Ref, MaintTypes, MaintType, SegMap
    <3>2. maint[m].new[h] # NoSeg
      BY <1>3, <3>1 DEF RewriteManifest, ToRewrite, ReadInv, In
    <3> QED
      BY <3>1, <3>2 DEF Ref
  <2>2. {[hash |-> h, seg |-> maint[m].new[h]] : h \in Hashes(maint[m].read[r])} \in SUBSET Ref
    BY <2>1
  <2>3. \/ UNCHANGED fileVars
        \/ WriteManifest(r, {[hash |-> h, seg |-> maint[m].new[h]] : h \in Hashes(maint[m].read[r])})
    BY <1>3 DEF RewriteManifest
  <2> QED
    BY <2>2, <2>3 DEF WriteManifest, fileVars
<1>4. CASE GracePasses
  BY <1>4 DEF GracePasses
<1>5. CASE UNCHANGED fileVars
  BY <1>5 DEF fileVars
<1> QED
  BY <1>1, <1>2, <1>3, <1>4, <1>5, FileSteps

\* The index and the segments.
LEMMA StoreTypesKept ==
  ASSUME TypeOK, [Next]_vars
  PROVE  StoreTypes'
<1> USE TypeParts DEF StoreTypes, SegMap
<1>1. ASSUME NEW r \in Run, NEW h \in Hash, Store(r, h) \/ Upload(r, h) PROVE StoreTypes'
  BY <1>1 DEF Store, Upload, Put, Ref
<1>2. ASSUME NEW m \in Maint, DropOldIndex(m) \/ DropIndex(m) PROVE StoreTypes'
  BY <1>2 DEF DropOldIndex, DropIndex, Unindex
<1>3. ASSUME NEW m \in Maint, RotateForMaintenance(m) PROVE StoreTypes'
  BY <1>3 DEF RotateForMaintenance, FreeSegs
<1>4. ASSUME NEW m \in Maint, DeleteSegment(m) PROVE StoreTypes'
  BY <1>4 DEF DeleteSegment
<1>5. ASSUME NEW m \in Maint, NEW h \in Hash, Rewrite(m, h) PROVE StoreTypes'
  BY <1>5 DEF Rewrite, Ref
<1>6. CASE GracePasses
  BY <1>6 DEF GracePasses
<1>7. CASE UNCHANGED storeVars
  BY <1>7 DEF storeVars
<1> QED
  BY <1>1, <1>2, <1>3, <1>4, <1>5, <1>6, <1>7, StoreSteps

\* Restores and deletions.
LEMMA RestoreTypesKept ==
  ASSUME TypeOK, [Next]_vars
  PROVE  RestoreTypes'
<1> USE TypeParts DEF RestoreTypes
<1>1. ASSUME NEW r \in Run, RestoreLoad(r) \/ DeleteCheck(r) PROVE RestoreTypes'
  BY <1>1 DEF RestoreLoad, DeleteCheck, FileTypes
<1>2. CASE RestoreStart
  BY <1>2 DEF RestoreStart
<1>3. CASE RestoreRead
  BY <1>3 DEF RestoreRead, NoRestore
<1>4. CASE RestoreAbandoned
  BY <1>4 DEF RestoreAbandoned, NoRestore
<1>5. CASE DeleteUpdate
  BY <1>5 DEF DeleteUpdate
<1>6. CASE Crash
  BY <1>6 DEF Crash, NoRestore
<1>7. CASE UNCHANGED restVars
  BY <1>7 DEF restVars
<1> QED
  BY <1>1, <1>2, <1>3, <1>4, <1>5, <1>6, <1>7, RestoreSteps

\* A process takes a record of its type.
LEMMA BecomeType ==
  ASSUME MaintTypes, NEW m \in Maint, NEW doing \in MaintType, Become(m, doing)
  PROVE  MaintTypes'
  BY DEF MaintTypes, Become

\* A process takes another phase.
LEMMA GotoType ==
  ASSUME MaintTypes, NEW m \in Maint, NEW phase \in Phases, Goto(m, phase)
  PROVE  MaintTypes'
<1>1. maint[m] \in MaintType
  BY DEF MaintTypes
<1>2. [maint[m] EXCEPT !.phase = phase] \in MaintType
  BY <1>1 DEF MaintType
<1>3. Become(m, [maint[m] EXCEPT !.phase = phase])
  BY DEF Goto, Become
<1> QED
  BY <1>2, <1>3, BecomeType

\* Maintenance processes, one step per action.
LEMMA MaintTypesKept ==
  ASSUME TypeOK, [Next]_vars
  PROVE  MaintTypes'
<1>0. MaintTypes /\ ActiveSnaps \in SUBSET Run /\ NoMaint \in MaintType
  BY TypeParts, NothingType DEF ActiveSnaps
<1>p. /\ "idle" \in Phases /\ "expire" \in Phases /\ "stale" \in Phases /\ "live" \in Phases
      /\ "manifests" \in Phases /\ "index" \in Phases /\ "relist" \in Phases /\ "count" \in Phases
      /\ "read" \in Phases /\ "rotate" \in Phases /\ "rewrite" \in Phases /\ "segments" \in Phases
  BY DEF Phases
<1> HIDE DEF Phases
<1>1. ASSUME NEW m \in Maint, NEW mode \in {"retention", "cleanup", "compact"}, MaintBegin(m, mode)
      PROVE  MaintTypes'
  <2> DEFINE phase == IF mode = "cleanup" THEN "stale" ELSE "expire"
             doing == [NoMaint EXCEPT !.mode = mode, !.listed = ActiveSnaps, !.phase = phase]
  <2>1. phase \in Phases
    BY <1>p
  <2>2. Become(m, doing)
    BY <1>1 DEF MaintBegin
  <2> HIDE DEF phase
  <2>3. doing = [NoMaint EXCEPT !.mode = mode, !.listed = ActiveSnaps, !.phase = phase]
    OBVIOUS
  <2> HIDE DEF doing
  <2>4. doing \in MaintType
    BY <2>1, <2>3, <1>0 DEF MaintType
  <2> QED
    BY <2>2, <2>4, <1>0, BecomeType
<1>2. ASSUME NEW m \in Maint, NEW R \in SUBSET Run, Expire(m, R) PROVE MaintTypes'
  <2> DEFINE left == {r \in Run : snaps'[r] = "active"}
             doing == [maint[m] EXCEPT !.phase = "stale", !.listed = left]
  <2>1. Become(m, NoMaint) \/ Become(m, doing)
    BY <1>2 DEF Expire
  <2>2. left \in SUBSET Run
    OBVIOUS
  <2> HIDE DEF left
  <2>3. doing \in MaintType
    BY <2>2, <1>0, <1>p DEF MaintTypes, MaintType
  <2> HIDE DEF doing
  <2> QED
    BY <2>1, <2>3, <1>0, BecomeType
<1>3. ASSUME NEW m \in Maint, NEW R \in SUBSET Run, MarkStale(m, R) \/ DropManifests(m, R)
      PROVE  MaintTypes'
  BY <1>3, <1>0, <1>p, GotoType DEF MarkStale, DropManifests
<1>4. ASSUME NEW m \in Maint, AfterCleanup(m) \in MaintType, ReadLive(m) PROVE MaintTypes'
  <2> DEFINE live == UNION {Hashes(manifests[r]) : r \in maint[m].listed}
             doing == [maint[m] EXCEPT !.phase = "manifests", !.live = live]
  <2>1. Become(m, AfterCleanup(m)) \/ Become(m, doing)
    BY <1>4 DEF ReadLive
  <2>2. ASSUME NEW r \in Run PROVE Hashes(manifests[r]) \in SUBSET Hash
    BY TypeParts DEF Hashes, FileTypes, Ref
  <2>3. live \in SUBSET Hash
    BY <2>2, <1>0 DEF MaintTypes, MaintType
  <2> HIDE DEF live
  <2>4. doing \in MaintType
    BY <2>3, <1>0, <1>p DEF MaintTypes, MaintType
  <2> HIDE DEF doing
  <2> QED
    BY <1>4, <2>1, <2>4, <1>0, BecomeType
<1>5. ASSUME NEW m \in Maint PROVE AfterCleanup(m) \in MaintType
  BY <1>0, <1>p DEF AfterCleanup, MaintTypes, MaintType
<1>6. ASSUME NEW m \in Maint, DropOldIndex(m) \/ MaintFails(m) \/ DeleteSegment(m) PROVE MaintTypes'
  BY <1>6, <1>5, <1>0, BecomeType DEF DropOldIndex, MaintFails, DeleteSegment, MaintTypes
<1>7. ASSUME NEW m \in Maint, Relist(m) PROVE MaintTypes'
  <2> DEFINE doing == [maint[m] EXCEPT !.phase = "count", !.listed = ActiveSnaps, !.live = {}]
  <2>1. doing \in MaintType
    BY <1>0, <1>p DEF MaintTypes, MaintType
  <2>2. Become(m, doing)
    BY <1>7 DEF Relist
  <2> HIDE DEF doing
  <2> QED
    BY <2>1, <2>2, <1>0, BecomeType
<1>8. ASSUME NEW m \in Maint, CountActiveRuns(m) PROVE MaintTypes'
  <2> DEFINE doing == [maint[m] EXCEPT !.phase = "read"]
  <2>1. doing \in MaintType
    BY <1>0, <1>p DEF MaintTypes, MaintType
  <2>2. Become(m, NoMaint) \/ Become(m, doing)
    BY <1>8 DEF CountActiveRuns
  <2> HIDE DEF doing
  <2> QED
    BY <2>1, <2>2, <1>0, BecomeType
<1>9. ASSUME NEW m \in Maint, ReadManifests(m) PROVE MaintTypes'
  <2> DEFINE read == [r \in Run |-> IF r \in maint[m].listed THEN manifests[r] ELSE {}]
  <2>1. read \in [Run -> SUBSET Ref]
    BY TypeParts DEF FileTypes
  <2>2. \/ Become(m, NoMaint)
        \/ \E old \in SegMap : Become(m, [maint[m] EXCEPT !.phase = "rotate", !.read = read, !.old = old])
    BY <1>9 DEF ReadManifests, SegMap
  <2> HIDE DEF read
  <2>3. ASSUME NEW old \in SegMap
        PROVE  [maint[m] EXCEPT !.phase = "rotate", !.read = read, !.old = old] \in MaintType
    BY <2>1, <1>0, <1>p DEF MaintTypes, MaintType
  <2> QED
    BY <2>2, <2>3, <1>0, BecomeType
<1>10. ASSUME NEW m \in Maint, RotateForMaintenance(m) \/ DropIndex(m) PROVE MaintTypes'
  BY <1>10, <1>0, <1>p, GotoType DEF RotateForMaintenance, DropIndex
<1>11. ASSUME NEW m \in Maint, NEW h \in Hash, Rewrite(m, h) PROVE MaintTypes'
  <2> DEFINE doing == [maint[m] EXCEPT !.new[h] = current]
  <2>1. doing \in MaintType
    BY TypeParts, <1>0 DEF MaintTypes, MaintType, StoreTypes, SegMap
  <2>2. Become(m, NoMaint) \/ Become(m, doing)
    BY <1>11 DEF Rewrite
  <2> HIDE DEF doing
  <2> QED
    BY <2>1, <2>2, <1>0, BecomeType
<1>12. ASSUME NEW m \in Maint, NEW r \in Run, RewriteManifest(m, r) PROVE MaintTypes'
  <2> DEFINE doing == [maint[m] EXCEPT !.listed = @ \ {r}, !.read[r] = {}]
  <2>1. doing \in MaintType
    BY <1>0 DEF MaintTypes, MaintType
  <2>2. Become(m, doing)
    BY <1>12 DEF RewriteManifest
  <2> HIDE DEF doing
  <2> QED
    BY <2>1, <2>2, <1>0, BecomeType
<1>13. CASE Crash
  BY <1>0, <1>13 DEF Crash, MaintTypes
<1>14. CASE UNCHANGED maint
  BY <1>0, <1>14 DEF MaintTypes
<1> QED
  BY <1>1, <1>2, <1>3, <1>4, <1>5, <1>6, <1>7, <1>8, <1>9, <1>10, <1>11, <1>12, <1>13, <1>14, MaintSteps

\* A process that moves leaves the others where they are.
LEMMA BecomeMoves ==
  ASSUME MaintTypes, NEW m \in Maint, NEW doing, Become(m, doing)
  PROVE  maint'[m] = doing /\ \A n \in Maint \ {m} : maint'[n] = maint[n]
  BY DEF MaintTypes, Become

\* A process that only changes its phase keeps what it knows.
LEMMA GotoMoves ==
  ASSUME MaintTypes, NEW m \in Maint, NEW phase, Goto(m, phase)
  PROVE  /\ \A n \in Maint \ {m} : maint'[n] = maint[n]
         /\ maint'[m] = [maint[m] EXCEPT !.phase = phase]
         /\ maint'[m].phase = phase
         /\ maint'[m].mode = maint[m].mode /\ maint'[m].listed = maint[m].listed
         /\ maint'[m].read = maint[m].read
         /\ maint'[m].old = maint[m].old /\ maint'[m].new = maint[m].new
  BY DEF MaintTypes, MaintType, Goto

\* The refs a compact holds are those of the manifests it has read.
LEMMA ReadInvKept ==
  ASSUME TypeOK, ReadInv, [Next]_vars
  PROVE  ReadInv'
<1> DEFINE Holds(doing) ==
             doing.phase \in {"rotate", "rewrite"} =>
               \A r \in Run : \A h \in Hashes(doing.read[r]) : doing.old[h] # NoSeg
<1>t. MaintTypes
  BY TypeParts
<1>0. /\ \A n \in Maint : Holds(maint[n])
      /\ (\A n \in Maint : Holds(maint'[n])) => ReadInv'
  BY DEF ReadInv, Hashes
<1>n. Holds(NoMaint)
  BY DEF NoMaint
<1>a. ASSUME NEW m \in Maint PROVE Holds(AfterCleanup(m))
  BY <1>t, <1>n DEF AfterCleanup, MaintTypes, MaintType
<1>b. ASSUME NEW m \in Maint, NEW doing, Become(m, doing), Holds(doing)
      PROVE  \A n \in Maint : Holds(maint'[n])
  BY <1>b, <1>0, <1>t, BecomeMoves
<1>c. ASSUME NEW m \in Maint, NEW phase, Goto(m, phase),
             phase \notin {"rotate", "rewrite"} \/ maint[m].phase \in {"rotate", "rewrite"}
      PROVE  \A n \in Maint : Holds(maint'[n])
  <2>1. /\ maint'[m].phase = phase
        /\ maint'[m].read = maint[m].read /\ maint'[m].old = maint[m].old
    BY <1>c, <1>t, GotoMoves
  <2>3. Holds(maint'[m])
    BY <1>c, <1>0, <2>1
  <2>2. \A n \in Maint \ {m} : maint'[n] = maint[n]
    BY <1>c, <1>t, GotoMoves
  <2> QED
    BY <1>0, <2>2, <2>3
<1>1. ASSUME NEW m \in Maint, NEW mode \in {"retention", "cleanup", "compact"}, MaintBegin(m, mode)
      PROVE  \A n \in Maint : Holds(maint'[n])
  <2> DEFINE doing == [NoMaint EXCEPT !.mode = mode, !.listed = ActiveSnaps,
                        !.phase = IF mode = "cleanup" THEN "stale" ELSE "expire"]
  <2>1. Holds(doing)
    BY DEF NoMaint
  <2>2. Become(m, doing)
    BY <1>1 DEF MaintBegin
  <2> QED
    BY <2>1, <2>2, <1>b
<1>2. ASSUME NEW m \in Maint, NEW R \in SUBSET Run, Expire(m, R)
      PROVE  \A n \in Maint : Holds(maint'[n])
  <2> DEFINE doing == [maint[m] EXCEPT !.phase = "stale", !.listed = {r \in Run : snaps'[r] = "active"}]
  <2>1. Holds(doing)
    BY <1>t DEF MaintTypes, MaintType
  <2>2. Become(m, NoMaint) \/ Become(m, doing)
    BY <1>2 DEF Expire
  <2> QED
    BY <2>1, <2>2, <1>b, <1>n
<1>3. ASSUME NEW m \in Maint, NEW R \in SUBSET Run, MarkStale(m, R) \/ DropManifests(m, R)
      PROVE  \A n \in Maint : Holds(maint'[n])
  BY <1>3, <1>c DEF MarkStale, DropManifests
<1>4. ASSUME NEW m \in Maint, ReadLive(m) PROVE \A n \in Maint : Holds(maint'[n])
  <2> DEFINE doing == [maint[m] EXCEPT !.phase = "manifests",
                        !.live = UNION {Hashes(manifests[r]) : r \in maint[m].listed}]
  <2>1. Holds(doing)
    BY <1>t DEF MaintTypes, MaintType
  <2>2. Become(m, AfterCleanup(m)) \/ Become(m, doing)
    BY <1>4 DEF ReadLive
  <2> QED
    BY <2>1, <2>2, <1>b, <1>a
<1>5. ASSUME NEW m \in Maint, Relist(m) PROVE \A n \in Maint : Holds(maint'[n])
  <2> DEFINE doing == [maint[m] EXCEPT !.phase = "count", !.listed = ActiveSnaps, !.live = {}]
  <2>1. Holds(doing)
    BY <1>t DEF MaintTypes, MaintType
  <2> QED
    BY <1>5, <2>1, <1>b DEF Relist
<1>6. ASSUME NEW m \in Maint, CountActiveRuns(m) PROVE \A n \in Maint : Holds(maint'[n])
  <2> DEFINE doing == [maint[m] EXCEPT !.phase = "read"]
  <2>1. Holds(doing)
    BY <1>t DEF MaintTypes, MaintType
  <2>2. Become(m, NoMaint) \/ Become(m, doing)
    BY <1>6 DEF CountActiveRuns
  <2> QED
    BY <2>1, <2>2, <1>b, <1>n
<1>7. ASSUME NEW m \in Maint, ReadManifests(m) PROVE \A n \in Maint : Holds(maint'[n])
  <2> DEFINE read == [r \in Run |-> IF r \in maint[m].listed THEN manifests[r] ELSE {}]
             refs == UNION {read[r] : r \in Run}
  <2>1. CASE Become(m, NoMaint)
    BY <2>1, <1>b, <1>n
  <2>2. ASSUME NEW old \in SegMap,
               \A h \in Hash : IF h \in Hashes(refs) THEN [hash |-> h, seg |-> old[h]] \in refs
                                                     ELSE old[h] = NoSeg,
               Become(m, [maint[m] EXCEPT !.phase = "rotate", !.read = read, !.old = old])
        PROVE  \A n \in Maint : Holds(maint'[n])
    <3> DEFINE doing == [maint[m] EXCEPT !.phase = "rotate", !.read = read, !.old = old]
    <3>1. \A r \in Run : read[r] \in SUBSET Ref
      BY TypeParts DEF FileTypes
    <3>2. ASSUME NEW r \in Run, NEW h \in Hashes(read[r]) PROVE old[h] # NoSeg
      <4>1. h \in Hash /\ h \in Hashes(refs)
        BY <3>1 DEF Hashes, Ref
      <4>2. [hash |-> h, seg |-> old[h]] \in Ref
        BY <2>2, <3>1, <4>1
      <4> QED
        BY <4>2 DEF Ref
    <3>3. doing.read = read /\ doing.old = old
      BY <1>t DEF MaintTypes, MaintType
    <3> HIDE DEF read
    <3>4. Holds(doing)
      BY <3>2, <3>3
    <3> HIDE DEF doing, Holds
    <3> QED
      BY <2>2, <3>4, <1>b DEF doing
  <2> QED
    BY <1>7, <2>1, <2>2 DEF ReadManifests, SegMap
<1>8. ASSUME NEW m \in Maint, RotateForMaintenance(m) \/ DropIndex(m)
      PROVE  \A n \in Maint : Holds(maint'[n])
  BY <1>8, <1>c DEF RotateForMaintenance, DropIndex, In
<1>9. ASSUME NEW m \in Maint, NEW h \in Hash, Rewrite(m, h) PROVE \A n \in Maint : Holds(maint'[n])
  <2> DEFINE doing == [maint[m] EXCEPT !.new[h] = current]
  <2>1. Holds(doing)
    BY <1>0, <1>t DEF MaintTypes, MaintType
  <2>2. Become(m, NoMaint) \/ Become(m, doing)
    BY <1>9 DEF Rewrite
  <2> QED
    BY <2>1, <2>2, <1>b, <1>n
<1>10. ASSUME NEW m \in Maint, NEW r \in Run, RewriteManifest(m, r)
       PROVE  \A n \in Maint : Holds(maint'[n])
  <2> DEFINE doing == [maint[m] EXCEPT !.listed = @ \ {r}, !.read[r] = {}]
  <2>1. /\ doing.phase = maint[m].phase /\ doing.old = maint[m].old
        /\ \A q \in Run : doing.read[q] \in {maint[m].read[q], {}}
    BY <1>t DEF MaintTypes, MaintType
  <2>2. \A q \in Run : Hashes(doing.read[q]) \subseteq Hashes(maint[m].read[q])
    BY <2>1 DEF Hashes
  <2>3. Become(m, doing)
    BY <1>10 DEF RewriteManifest
  <2> HIDE DEF doing
  <2>4. Holds(doing)
    BY <2>1, <2>2, <1>0
  <2> QED
    BY <2>3, <2>4, <1>b
<1>11. ASSUME NEW m \in Maint, DropOldIndex(m) \/ MaintFails(m) \/ DeleteSegment(m)
       PROVE  \A n \in Maint : Holds(maint'[n])
  BY <1>11, <1>0, <1>a, <1>b, <1>n DEF DropOldIndex, MaintFails, DeleteSegment
<1>12. ASSUME Crash PROVE \A n \in Maint : Holds(maint'[n])
  <2>1. \A n \in Maint : maint'[n] = NoMaint
    BY <1>12 DEF Crash
  <2> QED
    BY <2>1, <1>n
<1>13. ASSUME UNCHANGED maint PROVE \A n \in Maint : Holds(maint'[n])
  BY <1>13, <1>0
<1> HIDE DEF Holds
<1> QED
  BY <1>0, <1>1, <1>2, <1>3, <1>4, <1>5, <1>6, <1>7, <1>8, <1>9, <1>10, <1>11, <1>12, <1>13, MaintSteps

\* What types need to be kept by every step.
TypesInv == TypeOK /\ ReadInv

\* Types and ReadInv are inductive together, whatever races the server admits.
LEMMA TypesStep == TypesInv /\ [Next]_vars => TypesInv'
  BY TypesPrimed, RunTypesKept, FileTypesKept, StoreTypesKept, MaintTypesKept, RestoreTypesKept,
     ReadInvKept DEF TypesInv

-----------------------------------------------------------------------------
(* How a maintenance process moves.                                        *)

\* What a step of process m makes of its record, the others keeping theirs.
Others(m)  == \A n \in Maint \ {m} : maint'[n] = maint[n]
Moves(m, from, to) ==
  /\ Others(m)
  /\ maint[m].phase = from /\ maint'[m].phase = to
  /\ maint'[m].mode = maint[m].mode
Lists(m, R) == maint'[m].listed = R
KeepsList(m) == Lists(m, maint[m].listed)
KeepsNew(m)  == maint'[m].new = maint[m].new
KeepsRead(m) == maint'[m].read = maint[m].read /\ maint'[m].old = maint[m].old
Leaves(m)    == Others(m) /\ maint'[m] = NoMaint

\* A process begins with the active snapshots listed.
LEMMA BeginMoves ==
  ASSUME MaintTypes, NEW m \in Maint, NEW mode, MaintBegin(m, mode)
  PROVE  /\ Others(m)
         /\ maint'[m].phase \in {"stale", "expire"} /\ maint'[m].mode = mode
         /\ Lists(m, ActiveSnaps) /\ maint'[m].new = NoneOf
<1> DEFINE doing == [NoMaint EXCEPT !.mode = mode, !.listed = ActiveSnaps,
                      !.phase = IF mode = "cleanup" THEN "stale" ELSE "expire"]
<1>1. /\ doing.phase \in {"stale", "expire"} /\ doing.mode = mode
      /\ doing.listed = ActiveSnaps /\ doing.new = NoneOf
  BY DEF NoMaint
<1>2. Become(m, doing)
  BY DEF MaintBegin
<1> HIDE DEF doing
<1> QED
  BY <1>1, <1>2, BecomeMoves DEF Others, Lists

\* After retention the active snapshots are listed again.
LEMMA ExpireMoves ==
  ASSUME MaintTypes, NEW m \in Maint, NEW R, Expire(m, R)
  PROVE  \/ Leaves(m)
         \/ /\ Moves(m, "expire", "stale") /\ KeepsNew(m)
            /\ Lists(m, {r \in Run : snaps'[r] = "active"})
<1> DEFINE left == {r \in Run : snaps'[r] = "active"}
           doing == [maint[m] EXCEPT !.phase = "stale", !.listed = left]
<1>1. Become(m, NoMaint) \/ Become(m, doing)
  BY DEF Expire
<1> HIDE DEF left
<1>2. /\ doing.phase = "stale" /\ doing.mode = maint[m].mode
      /\ doing.listed = left /\ doing.new = maint[m].new
  BY DEF MaintTypes, MaintType
<1>3. In(m, "expire")
  BY DEF Expire
<1> HIDE DEF doing
<1> QED
  BY <1>1, <1>2, <1>3, BecomeMoves DEF Others, Lists, Moves, Leaves, KeepsNew, In, left

\* A phase of its own that changes nothing it knows.
LEMMA GotoKeeps ==
  ASSUME MaintTypes, NEW m \in Maint, NEW from, NEW to, In(m, from), Goto(m, to)
  PROVE  Moves(m, from, to) /\ KeepsList(m) /\ KeepsNew(m) /\ KeepsRead(m)
  BY GotoMoves DEF Moves, Others, KeepsList, Lists, KeepsNew, KeepsRead, In

\* A cleanup ends, or is the first part of a compact.
LEMMA AfterCleanupMoves ==
  ASSUME MaintTypes, NEW m \in Maint, NEW from, In(m, from), Become(m, AfterCleanup(m))
  PROVE  \/ Leaves(m)
         \/ Moves(m, from, "relist") /\ KeepsNew(m) /\ Compacting(m)
<1> DEFINE doing == [maint[m] EXCEPT !.phase = "relist"]
<1>1. /\ doing.phase = "relist" /\ doing.mode = maint[m].mode
      /\ doing.new = maint[m].new
  BY DEF MaintTypes, MaintType
<1>2. \/ Become(m, NoMaint)
      \/ Become(m, doing) /\ Compacting(m)
  BY DEF AfterCleanup
<1> HIDE DEF doing
<1> QED
  BY <1>1, <1>2, BecomeMoves DEF Others, Lists, Moves, Leaves, KeepsNew, In

\* The live chunks were read, or the cleanup is skipped.
LEMMA ReadLiveMoves ==
  ASSUME MaintTypes, NEW m \in Maint, ReadLive(m)
  PROVE  \/ Leaves(m)
         \/ Moves(m, "live", "relist") /\ KeepsNew(m) /\ Compacting(m)
         \/ Moves(m, "live", "manifests") /\ KeepsNew(m) /\ KeepsList(m)
<1> DEFINE live == UNION {Hashes(manifests[r]) : r \in maint[m].listed}
           doing == [maint[m] EXCEPT !.phase = "manifests", !.live = live]
<1>1. Become(m, AfterCleanup(m)) \/ Become(m, doing)
  BY DEF ReadLive
<1> HIDE DEF live
<1>2. /\ doing.phase = "manifests" /\ doing.mode = maint[m].mode
      /\ doing.listed = maint[m].listed /\ doing.new = maint[m].new
  BY DEF MaintTypes, MaintType
<1>3. In(m, "live")
  BY DEF ReadLive
<1> HIDE DEF doing
<1>4. CASE Become(m, AfterCleanup(m))
  BY <1>3, <1>4, AfterCleanupMoves
<1>5. CASE Become(m, doing)
  BY <1>5, <1>2, <1>3, BecomeMoves DEF Others, KeepsList, Lists, Moves, KeepsNew, In
<1> QED
  BY <1>1, <1>4, <1>5

\* A compact lists the active snapshots again.
LEMMA RelistMoves ==
  ASSUME MaintTypes, NEW m \in Maint, Relist(m)
  PROVE  Moves(m, "relist", "count") /\ Lists(m, ActiveSnaps) /\ KeepsNew(m)
<1> DEFINE doing == [maint[m] EXCEPT !.phase = "count", !.listed = ActiveSnaps, !.live = {}]
<1>1. /\ doing.phase = "count" /\ doing.mode = maint[m].mode
      /\ doing.listed = ActiveSnaps /\ doing.new = maint[m].new
  BY DEF MaintTypes, MaintType
<1>2. Become(m, doing) /\ In(m, "relist")
  BY DEF Relist
<1> HIDE DEF doing
<1> QED
  BY <1>1, <1>2, BecomeMoves DEF Others, Lists, Moves, KeepsNew, In

\* A compact goes on only if it counts no active run.
LEMMA CountMoves ==
  ASSUME MaintTypes, NEW m \in Maint, CountActiveRuns(m)
  PROVE  \/ Leaves(m)
         \/ /\ Moves(m, "count", "read") /\ KeepsList(m) /\ KeepsNew(m)
            /\ \A r \in Run : status[r] # "active"
<1> DEFINE doing == [maint[m] EXCEPT !.phase = "read"]
<1>1. /\ doing.phase = "read" /\ doing.mode = maint[m].mode
      /\ doing.listed = maint[m].listed /\ doing.new = maint[m].new
  BY DEF MaintTypes, MaintType
<1>2. /\ In(m, "count")
      /\ \/ Become(m, NoMaint)
         \/ Become(m, doing) /\ \A r \in Run : status[r] # "active"
  BY DEF CountActiveRuns
<1> HIDE DEF doing
<1> QED
  BY <1>1, <1>2, BecomeMoves DEF Others, Leaves, KeepsList, Lists, Moves, KeepsNew, In

\* A compact has read every manifest it listed, or ends.
LEMMA ReadMoves ==
  ASSUME MaintTypes, NEW m \in Maint, ReadManifests(m)
  PROVE  \/ Leaves(m)
         \/ /\ Moves(m, "read", "rotate") /\ KeepsList(m) /\ KeepsNew(m)
            /\ \A r \in maint[m].listed : maint'[m].read[r] = manifests[r]
<1> DEFINE read == [r \in Run |-> IF r \in maint[m].listed THEN manifests[r] ELSE {}]
<1>1. /\ In(m, "read")
      /\ \/ Become(m, NoMaint)
         \/ \E old : Become(m, [maint[m] EXCEPT !.phase = "rotate", !.read = read, !.old = old])
  BY DEF ReadManifests
<1>2. \A r \in maint[m].listed : read[r] = manifests[r]
  BY DEF MaintTypes, MaintType
<1> HIDE DEF read
<1>3. ASSUME NEW old, Become(m, [maint[m] EXCEPT !.phase = "rotate", !.read = read, !.old = old])
      PROVE  /\ Moves(m, "read", "rotate") /\ KeepsList(m) /\ KeepsNew(m)
             /\ maint'[m].read = read
  <2> DEFINE doing == [maint[m] EXCEPT !.phase = "rotate", !.read = read, !.old = old]
  <2>1. /\ doing.phase = "rotate" /\ doing.mode = maint[m].mode /\ doing.read = read
        /\ doing.listed = maint[m].listed /\ doing.new = maint[m].new
    BY DEF MaintTypes, MaintType
  <2> HIDE DEF doing
  <2> QED
    BY <1>1, <1>3, <2>1, BecomeMoves DEF Others, KeepsList, Lists, Moves, KeepsNew, In, doing
<1>4. CASE Become(m, NoMaint)
  BY <1>4, BecomeMoves DEF Leaves, Others
<1> QED
  BY <1>1, <1>2, <1>3, <1>4

\* A chunk was copied to the current segment, or the compact ends.
LEMMA RewriteMoves ==
  ASSUME MaintTypes, NEW m \in Maint, NEW h \in Hash, Rewrite(m, h)
  PROVE  \/ Leaves(m) /\ UNCHANGED <<recs, index, freshIndex>>
         \/ /\ Moves(m, "rewrite", "rewrite") /\ KeepsList(m) /\ KeepsRead(m)
            /\ maint'[m].new = [maint[m].new EXCEPT ![h] = current]
            /\ recs' = recs \cup {[hash |-> h, seg |-> current]}
            /\ index' = [index EXCEPT ![h] = current]
<1> DEFINE doing == [maint[m] EXCEPT !.new[h] = current]
<1>1. /\ doing.phase = maint[m].phase /\ doing.mode = maint[m].mode
      /\ doing.read = maint[m].read /\ doing.old = maint[m].old
      /\ doing.listed = maint[m].listed /\ doing.new = [maint[m].new EXCEPT ![h] = current]
  BY DEF MaintTypes, MaintType
<1>2. /\ In(m, "rewrite")
      /\ \/ Become(m, NoMaint) /\ UNCHANGED <<recs, index, freshIndex>>
         \/ /\ Become(m, doing)
            /\ recs' = recs \cup {[hash |-> h, seg |-> current]}
            /\ index' = [index EXCEPT ![h] = current]
  BY DEF Rewrite
<1> HIDE DEF doing
<1> QED
  BY <1>1, <1>2, BecomeMoves DEF Others, Leaves, KeepsList, Lists, Moves, KeepsRead, In

\* A manifest was rewritten and is off the list.
LEMMA RewriteManifestMoves ==
  ASSUME MaintTypes, NEW m \in Maint, NEW r \in Run, RewriteManifest(m, r)
  PROVE  /\ Moves(m, "rewrite", "rewrite") /\ KeepsNew(m) /\ Lists(m, maint[m].listed \ {r})
         /\ maint'[m].old = maint[m].old
         /\ \A q \in Run \ {r} : maint'[m].read[q] = maint[m].read[q]
<1> DEFINE doing == [maint[m] EXCEPT !.listed = @ \ {r}, !.read[r] = {}]
<1>1. /\ doing.phase = maint[m].phase /\ doing.mode = maint[m].mode
      /\ doing.old = maint[m].old /\ doing.new = maint[m].new
      /\ doing.listed = maint[m].listed \ {r}
      /\ \A q \in Run \ {r} : doing.read[q] = maint[m].read[q]
  BY DEF MaintTypes, MaintType
<1>2. In(m, "rewrite") /\ Become(m, doing)
  BY DEF RewriteManifest
<1> HIDE DEF doing
<1> QED
  BY <1>1, <1>2, BecomeMoves DEF Others, Lists, Moves, KeepsNew, In

-----------------------------------------------------------------------------
(* Runs and the gate.                                                      *)

\* No run is failed while its manifest is handled, and no manifest is
\* published between the two statements a compact starts with.
NoRaces == FailsWhileServed = FALSE /\ PublishesInWindow = FALSE

\* RunsInv, for one run.
RunOK(r) ==
  /\ status[r] = "none" => snaps[r] = "none" /\ worker[r] = NoWork
  /\ worker[r].phase \in {"scan", "written"} => status[r] = "active" /\ snaps[r] = "none"
  /\ worker[r].phase \in {"idle", "published"} => worker[r].refs \cup worker[r].base = {}
  /\ worker[r].phase = "written" => r \in onFile /\ r \in freshFile /\ manifests[r] = worker[r].refs

\* RunsInv, one step per action.
LEMMA RunsInvKept ==
  ASSUME TypesInv, RunsInv, GateInv, ListedInv, NoRaces, [Next]_vars
  PROVE  RunsInv'
<1> USE TypeParts DEF TypesInv, RunTypes, FileTypes, MaintTypes, RunOK, fileVars, runVars
<1> SUFFICES ASSUME NEW q \in Run PROVE RunOK(q)'
  BY DEF RunsInv
<1>0. RunOK(q)
  BY DEF RunsInv
<1>w. NoWork.phase = "idle" /\ NoWork.refs = {} /\ NoWork.base = {}
  BY DEF NoWork
<1>1. ASSUME NEW r \in Run, StartLocal(r) PROVE RunOK(q)'
  <2>1. PICK base \in {{}} \cup {manifests[x] : x \in Local \cap ActiveSnaps \cap onFile} :
          worker' = [worker EXCEPT ![r] = [NoWork EXCEPT !.phase = "scan", !.base = base]]
    BY <1>1 DEF StartLocal
  <2>2. [NoWork EXCEPT !.phase = "scan", !.base = base].phase = "scan"
    BY DEF NoWork
  <2>3. worker'[r].phase = "scan" /\ (q # r => worker'[q] = worker[q])
    BY <2>1, <2>2
  <2> QED
    BY <1>1, <1>0, <2>3 DEF StartLocal, CreateRun
<1>2. ASSUME NEW r \in Run, Reuse(r) PROVE RunOK(q)'
  <2>1. worker'[r].phase = "scan" /\ (q # r => worker'[q] = worker[q])
    BY <1>2 DEF Reuse, WorkType
  <2> QED
    BY <1>0, <1>w, <1>2, <2>1 DEF Reuse
<1>3. ASSUME NEW r \in Run, StartAgent(r) PROVE RunOK(q)'
  BY <1>0, <1>w, <1>3 DEF StartAgent, CreateRun
<1>4. ASSUME NEW r \in Run, SaveManifest(r) PROVE RunOK(q)'
  BY <1>0, <1>w, <1>4 DEF SaveManifest, WriteManifest, WorkType
<1>5. ASSUME NEW r \in Run, CreateSnapshot(r) PROVE RunOK(q)'
  <2> DEFINE done == [NoWork EXCEPT !.phase = "published"]
  <2>1. done.phase = "published" /\ done.refs = {} /\ done.base = {}
    BY DEF NoWork
  <2>3. worker' = [worker EXCEPT ![r] = done]
    BY <1>5 DEF CreateSnapshot
  <2> HIDE DEF done
  <2>2. /\ worker'[r].phase = "published" /\ worker'[r].refs = {} /\ worker'[r].base = {}
        /\ q # r => worker'[q] = worker[q] /\ snaps'[q] = snaps[q]
    BY <1>5, <2>1, <2>3 DEF CreateSnapshot
  <2> QED
    BY <1>0, <1>w, <1>5, <2>2 DEF CreateSnapshot
<1>6. ASSUME NEW r \in Run, CompleteRun(r) \/ WorkFails(r) \/ Disconnect(r) PROVE RunOK(q)'
  BY <1>0, <1>w, <1>6 DEF CompleteRun, WorkFails, Disconnect
<1>7. ASSUME NEW r \in Run, FinishFailed(r) \/ FinishCompleted(r) PROVE RunOK(q)'
  BY <1>0, <1>w, <1>7 DEF FinishFailed, FinishCompleted, MayFail, NoRaces
<1>8. ASSUME NEW r \in Run, RestoreLoad(r) \/ DeleteCheck(r) PROVE RunOK(q)'
  BY <1>0, <1>8 DEF RestoreLoad, DeleteCheck
<1>9. ASSUME NEW r \in Run, NEW h \in Hash, Store(r, h) PROVE RunOK(q)'
  BY <1>0, <1>w, <1>9 DEF Store, WorkType
<1>10. ASSUME NEW r \in Run, NEW h \in Hash, Upload(r, h) PROVE RunOK(q)'
  BY <1>0, <1>10 DEF Upload
<1>11. ASSUME NEW r \in Run, NEW h \in Hash, Canonicalize(r, h) PROVE RunOK(q)'
  <2>1. /\ worker'[r] = NoWork \/ worker'[r].phase = "scan"
        /\ q # r => worker'[q] = worker[q]
    BY <1>11 DEF Canonicalize, WorkType
  <2> QED
    BY <1>0, <1>w, <1>11, <2>1 DEF Canonicalize
<1>12. ASSUME NEW r \in Run, NEW S \in SUBSET Hash, PostBegin(r, S) PROVE RunOK(q)'
  <2>1. [NoWork EXCEPT !.phase = "scan", !.todo = S].phase = "scan"
    BY DEF NoWork
  <2>2. worker'[r].phase = "scan" /\ (q # r => worker'[q] = worker[q])
    BY <1>12, <2>1 DEF PostBegin
  <2> QED
    BY <1>0, <1>12, <2>2 DEF PostBegin
<1>13. ASSUME NEW m \in Maint, NEW R \in SUBSET Run, Expire(m, R) PROVE RunOK(q)'
  BY <1>0, <1>13 DEF Expire
<1>14. ASSUME NEW m \in Maint, NEW R \in SUBSET Run, MarkStale(m, R) PROVE RunOK(q)'
  BY <1>0, <1>w, <1>14 DEF MarkStale, MayFail, NoRaces
<1>15. ASSUME NEW m \in Maint, NEW R \in SUBSET Run, DropManifests(m, R) PROVE RunOK(q)'
  BY <1>0, <1>15 DEF DropManifests
<1>16. ASSUME NEW m \in Maint,
              \/ \E mode \in {"retention", "cleanup", "compact"} : MaintBegin(m, mode)
              \/ ReadLive(m) \/ DropOldIndex(m) \/ Relist(m) \/ CountActiveRuns(m)
              \/ ReadManifests(m) \/ RotateForMaintenance(m)
              \/ \E h \in Hash : Rewrite(m, h)
              \/ DropIndex(m) \/ DeleteSegment(m) \/ MaintFails(m)
       PROVE  RunOK(q)'
  BY <1>0, <1>16 DEF MaintBegin, ReadLive, DropOldIndex, Relist, CountActiveRuns, ReadManifests,
               RotateForMaintenance, Rewrite, DropIndex, DeleteSegment, MaintFails
<1>17. ASSUME NEW m \in Maint, NEW r \in Run, RewriteManifest(m, r) PROVE RunOK(q)'
  <2>1. \A x \in Run : status[x] # "active"
    BY <1>17 DEF RewriteManifest, In, GateInv
  <2> QED
    BY <1>0, <1>17, <2>1 DEF RewriteManifest
<1>18. ASSUME RestoreStart \/ RestoreRead \/ RestoreAbandoned PROVE RunOK(q)'
  BY <1>0, <1>18 DEF RestoreStart, RestoreRead, RestoreAbandoned
<1>19. ASSUME DeleteUpdate PROVE RunOK(q)'
  BY <1>0, <1>19 DEF DeleteUpdate
<1>20. ASSUME Crash PROVE RunOK(q)'
  BY <1>0, <1>w, <1>20 DEF Crash
<1>21. ASSUME GracePasses PROVE RunOK(q)'
  BY <1>0, <1>21 DEF GracePasses
<1>22. ASSUME UNCHANGED vars PROVE RunOK(q)'
  BY <1>0, <1>22 DEF vars
<1> QED
  BY <1>1, <1>2, <1>3, <1>4, <1>5, <1>6, <1>7, <1>8, <1>9, <1>10, <1>11, <1>12, <1>13, <1>14, <1>15,
     <1>16, <1>17, <1>18, <1>19, <1>20, <1>21, <1>22 DEF Next

\* Nobody but a process that begins takes the gate, and then it is free.
LEMMA GateInvKept ==
  ASSUME TypesInv, GateInv, RunsInv, NoRaces, [Next]_vars
  PROVE  GateInv'
<1> USE TypeParts DEF TypesInv, Compacting
<1> DEFINE CompactPhases == {"relist", "count", "read", "rotate", "rewrite", "segments"}
           LatePhases == {"read", "rotate", "rewrite", "segments"}
           Alone(n) == maint[n].mode = "compact" => \A r \in Local : worker[r].phase = "idle"
           Quiet(n) == maint[n].phase \in LatePhases => \A r \in Run : status[r] # "active"
           Named(n) == maint[n].phase \in CompactPhases => maint[n].mode = "compact"
           One == \A m, n \in Maint : maint[m].mode = "compact" /\ maint[n].mode = "compact" => m = n
<1>0. GateInv <=> One /\ \A n \in Maint : Alone(n) /\ Quiet(n) /\ Named(n)
  BY DEF GateInv
<1>00. One' /\ (\A n \in Maint : Alone(n)' /\ Quiet(n)' /\ Named(n)') => GateInv'
  BY DEF GateInv
<1>n. NoMaint.mode = "none" /\ NoMaint.phase = "idle"
  BY DEF NoMaint
\* A run that starts finds the gate open, and one that posts is active.
<1>1. ASSUME maint' = maint,
             \A r \in Run : status'[r] = "active" => status[r] = "active" \/ GateOpen,
             \A r \in Local : worker'[r].phase # "idle" => worker[r].phase # "idle" \/ GateOpen
      PROVE  GateInv'
  <2>1. ASSUME NEW n \in Maint, maint[n].mode = "compact" PROVE ~GateOpen
    BY <2>1 DEF GateOpen
  <2> QED
    BY <1>1, <2>1, <1>0, <1>00
\* A process moves on; past the count no run is active.
<1>2. ASSUME NEW m \in Maint, Others(m), UNCHANGED worker,
             \A r \in Run : status'[r] = "active" => status[r] = "active",
             maint'[m].mode = "compact" => maint[m].mode = "compact" \/ GateFree,
             maint'[m].phase \in CompactPhases => maint'[m].mode = "compact",
             maint'[m].phase \in LatePhases =>
               maint[m].phase \in LatePhases \/ \A r \in Run : status[r] # "active"
      PROVE  GateInv'
  <2>1. One'
    BY <1>2, <1>0 DEF Others, GateFree, GateOpen
  <2>2. ASSUME NEW n \in Maint PROVE Alone(n)' /\ Quiet(n)' /\ Named(n)'
    BY <1>2, <1>0 DEF Others, GateFree
  <2> QED
    BY <2>1, <2>2, <1>00
<1> HIDE DEF Alone, Quiet, Named, One
<1>3. ASSUME NEW m \in Maint, NEW from, NEW to, Moves(m, from, to), UNCHANGED worker,
             \A r \in Run : status'[r] = "active" => status[r] = "active",
             to \in CompactPhases => from \in CompactPhases \/ Compacting(m),
             to \in LatePhases => from \in LatePhases \/ \A r \in Run : status[r] # "active"
      PROVE  GateInv'
  BY <1>3, <1>2, <1>0 DEF Moves, Named
<1>4. ASSUME NEW m \in Maint, Leaves(m), UNCHANGED <<worker, status>> PROVE GateInv'
  BY <1>4, <1>2, <1>n DEF Leaves
<1> USE DEF RunTypes, runVars, storeVars, fileVars, restVars
<1>5. ASSUME NEW r \in Run, StartLocal(r) \/ StartAgent(r) PROVE GateInv'
  BY <1>5, <1>1 DEF StartLocal, StartAgent, CreateRun
<1>6. ASSUME NEW r \in Run,
             \/ CreateSnapshot(r) \/ CompleteRun(r) \/ WorkFails(r) \/ Disconnect(r)
             \/ FinishFailed(r) \/ FinishCompleted(r) \/ RestoreLoad(r) \/ DeleteCheck(r)
      PROVE  GateInv'
  <2>1. maint' = maint /\ \A q \in Run : status'[q] = "active" => status[q] = "active"
    BY <1>6 DEF CreateSnapshot, CompleteRun, WorkFails, Disconnect, FinishFailed, FinishCompleted,
       RestoreLoad, DeleteCheck
  <2>2. \A q \in Run : worker'[q].phase # "idle" => worker[q].phase # "idle"
    BY <1>6 DEF CreateSnapshot, CompleteRun, WorkFails, Disconnect, FinishFailed, FinishCompleted,
       RestoreLoad, DeleteCheck, NoWork
  <2> QED
    BY <1>1, <2>1, <2>2
<1>7. ASSUME NEW r \in Run,
             \/ Reuse(r) \/ SaveManifest(r)
             \/ \E h \in Hash : Store(r, h) \/ Upload(r, h) \/ Canonicalize(r, h)
             \/ \E S \in SUBSET Hash : PostBegin(r, S)
      PROVE  GateInv'
  <2>1. UNCHANGED <<maint, status>>
    BY <1>7 DEF Reuse, SaveManifest, Store, Upload, Canonicalize, PostBegin
  <2>2. \A q \in Local : worker'[q].phase # "idle" => worker[q].phase # "idle"
    BY <1>7 DEF Reuse, SaveManifest, Store, Upload, Canonicalize, PostBegin
  <2> QED
    BY <1>1, <2>1, <2>2
<1>8. ASSUME NEW m \in Maint, NEW mode \in {"retention", "cleanup", "compact"}, MaintBegin(m, mode)
      PROVE  GateInv'
  BY <1>8, <1>2, BeginMoves DEF MaintBegin
<1>9. ASSUME NEW m \in Maint, NEW R \in SUBSET Run, Expire(m, R) PROVE GateInv'
  BY <1>9, <1>3, <1>4, ExpireMoves DEF Expire
<1>10. ASSUME NEW m \in Maint, NEW R \in SUBSET Run, MarkStale(m, R) \/ DropManifests(m, R)
       PROVE  GateInv'
  <2>1. UNCHANGED worker /\ \A q \in Run : status'[q] = "active" => status[q] = "active"
    BY <1>10 DEF MarkStale, DropManifests
  <2>2. Moves(m, "stale", "live") \/ Moves(m, "manifests", "index")
    BY <1>10, GotoKeeps DEF MarkStale, DropManifests
  <2> QED
    BY <2>1, <2>2, <1>3
<1>11. ASSUME NEW m \in Maint, ReadLive(m) PROVE GateInv'
  BY <1>11, <1>3, <1>4, ReadLiveMoves DEF ReadLive
<1>12. ASSUME NEW m \in Maint, DropOldIndex(m) PROVE GateInv'
  BY <1>12, <1>3, <1>4, AfterCleanupMoves DEF DropOldIndex
<1>13. ASSUME NEW m \in Maint, Relist(m) PROVE GateInv'
  BY <1>13, <1>3, RelistMoves DEF Relist
<1>14. ASSUME NEW m \in Maint, CountActiveRuns(m) PROVE GateInv'
  BY <1>14, <1>3, <1>4, CountMoves DEF CountActiveRuns
<1>15. ASSUME NEW m \in Maint, ReadManifests(m) PROVE GateInv'
  BY <1>15, <1>3, <1>4, ReadMoves DEF ReadManifests
<1>16. ASSUME NEW m \in Maint, RotateForMaintenance(m) \/ DropIndex(m) PROVE GateInv'
  <2>1. Moves(m, "rotate", "rewrite") \/ Moves(m, "rewrite", "segments")
    BY <1>16, GotoKeeps DEF RotateForMaintenance, DropIndex
  <2>2. UNCHANGED <<worker, status>>
    BY <1>16 DEF RotateForMaintenance, DropIndex
  <2> QED
    BY <2>1, <2>2, <1>3
<1>17. ASSUME NEW m \in Maint, NEW h \in Hash, Rewrite(m, h) PROVE GateInv'
  BY <1>17, <1>3, <1>4, RewriteMoves DEF Rewrite
<1>18. ASSUME NEW m \in Maint, NEW r \in Run, RewriteManifest(m, r) PROVE GateInv'
  BY <1>18, <1>3, RewriteManifestMoves DEF RewriteManifest
<1>19. ASSUME NEW m \in Maint, DeleteSegment(m) \/ MaintFails(m) PROVE GateInv'
  <2>1. Leaves(m) \/ UNCHANGED maint
    BY <1>19, BecomeMoves DEF DeleteSegment, MaintFails, Leaves, Others
  <2>2. UNCHANGED <<worker, status>>
    BY <1>19 DEF DeleteSegment, MaintFails
  <2> QED
    BY <2>1, <2>2, <1>1, <1>4
<1>20. ASSUME Crash PROVE GateInv'
  <2>1. \A n \in Maint : maint'[n] = NoMaint
    BY <1>20 DEF Crash
  <2> QED
    BY <2>1, <1>n DEF GateInv
<1>21. ASSUME \/ RestoreStart \/ RestoreRead \/ RestoreAbandoned \/ DeleteUpdate \/ GracePasses
              \/ UNCHANGED vars
       PROVE  GateInv'
  <2>1. UNCHANGED <<maint, status, worker>>
    BY <1>21 DEF RestoreStart, RestoreRead, RestoreAbandoned, DeleteUpdate, GracePasses, vars
  <2> QED
    BY <2>1, <1>1
<1> QED
  BY <1>5, <1>6, <1>7, <1>8, <1>9, <1>10, <1>11, <1>12, <1>13, <1>14, <1>15, <1>16, <1>17, <1>18,
     <1>19, <1>20, <1>21 DEF Next

-----------------------------------------------------------------------------
(* What cleanups and compacts have listed.                                 *)

\* A snapshot becomes active only when it is created, with its manifest on file.
LEMMA ActiveSteps ==
  ASSUME TypesInv, RunsInv, [Next]_vars
  PROVE  \/ ActiveSnaps' \subseteq ActiveSnaps
         \/ \E r \in Run : /\ CreateSnapshot(r) /\ ActiveSnaps' = ActiveSnaps \cup {r}
                           /\ status[r] = "active" /\ snaps[r] = "none"
                           /\ r \in onFile /\ r \in freshFile /\ manifests[r] = worker[r].refs
<1> USE TypeParts DEF TypesInv, RunTypes, ActiveSnaps
<1>1. ASSUME NEW r \in Run, CreateSnapshot(r)
      PROVE  /\ ActiveSnaps' = ActiveSnaps \cup {r}
             /\ status[r] = "active" /\ snaps[r] = "none"
             /\ r \in onFile /\ r \in freshFile /\ manifests[r] = worker[r].refs
  BY <1>1 DEF CreateSnapshot, RunsInv
<1>2. ASSUME NEW m \in Maint, NEW R \in SUBSET Run, Expire(m, R) PROVE ActiveSnaps' \subseteq ActiveSnaps
  BY <1>2 DEF Expire
<1>3. ASSUME DeleteUpdate PROVE ActiveSnaps' \subseteq ActiveSnaps
  BY <1>3 DEF DeleteUpdate
<1>4. ASSUME UNCHANGED snaps PROVE ActiveSnaps' \subseteq ActiveSnaps
  BY <1>4
<1> QED
  BY <1>1, <1>2, <1>3, <1>4, SnapSteps

\* A manifest stays recent while a maintenance is under way.
LEMMA FreshKept ==
  ASSUME TypesInv, [Next]_vars
  PROVE  freshFile \subseteq freshFile' \/ \A m \in Maint : In(m, "idle") /\ In(m, "idle")'
<1>1. ASSUME NEW r \in Run, SaveManifest(r) PROVE freshFile \subseteq freshFile'
  BY <1>1 DEF SaveManifest, WriteManifest
<1>2. ASSUME NEW m \in Maint, NEW R \in SUBSET Run, DropManifests(m, R) PROVE freshFile \subseteq freshFile'
  BY <1>2 DEF DropManifests
<1>3. ASSUME NEW m \in Maint, NEW r \in Run, RewriteManifest(m, r) PROVE freshFile \subseteq freshFile'
  BY <1>3 DEF RewriteManifest, WriteManifest, fileVars
<1>4. ASSUME GracePasses PROVE \A m \in Maint : In(m, "idle") /\ In(m, "idle")'
  BY <1>4 DEF GracePasses, In
<1>5. ASSUME UNCHANGED fileVars PROVE freshFile \subseteq freshFile'
  BY <1>5 DEF fileVars
<1> QED
  BY <1>1, <1>2, <1>3, <1>4, <1>5, FileSteps

\* What a process in a phase has listed, if no snapshot is added meanwhile.
LEMMA ListedInvKept ==
  ASSUME TypesInv, RunsInv, GateInv, ListedInv, NoRaces, [Next]_vars
  PROVE  ListedInv'
<1> USE TypeParts DEF TypesInv
<1> DEFINE Cleaning == {"expire", "stale", "live", "manifests"}
           Counted  == {"count", "read", "rotate"}
           Holds(n) == /\ maint[n].phase \in Cleaning => ActiveSnaps \subseteq maint[n].listed \cup freshFile
                       /\ maint[n].phase \in Counted => ActiveSnaps \subseteq maint[n].listed
<1>0. ListedInv <=> \A n \in Maint : Holds(n)
  BY DEF ListedInv
<1>00. (\A n \in Maint : Holds(n)') => ListedInv'
  BY DEF ListedInv
\* A process that keeps its phase, or moves within a group, and its list.
<1>1. ASSUME NEW n \in Maint, maint'[n].listed = maint[n].listed,
             maint'[n].phase \in Cleaning => maint[n].phase \in Cleaning,
             maint'[n].phase \in Counted => maint[n].phase \in Counted
      PROVE  Holds(n)'
  <2>1. CASE maint'[n].phase \notin Cleaning \cup Counted
    BY <2>1
  <2>2. CASE maint'[n].phase \in Cleaning
    <3>1. freshFile \subseteq freshFile'
      BY <1>1, <2>2, FreshKept DEF In
    <3>2. ActiveSnaps' \subseteq ActiveSnaps \cup freshFile
      BY ActiveSteps
    <3> QED
      BY <1>0, <1>1, <2>2, <3>1, <3>2
  <2>3. CASE maint'[n].phase \in Counted
    <3>1. ASSUME NEW r \in Run, CreateSnapshot(r), status[r] = "active" PROVE FALSE
      BY <1>1, <2>3, <3>1 DEF CreateSnapshot, NoRaces, GateInv, In
    <3>2. ActiveSnaps' \subseteq ActiveSnaps
      BY <3>1, ActiveSteps
    <3> QED
      BY <1>0, <1>1, <2>3, <3>2
  <2> QED
    BY <2>1, <2>2, <2>3
<1>2. ASSUME UNCHANGED maint PROVE ListedInv'
  BY <1>1, <1>2, <1>00
<1>n. NoMaint.phase = "idle"
  BY DEF NoMaint
\* One process moves, and its list is as it should be.
<1>3. ASSUME NEW m \in Maint, Others(m), Holds(m)' PROVE ListedInv'
  <2>1. ASSUME NEW n \in Maint \ {m} PROVE Holds(n)'
    BY <1>1, <1>3 DEF Others
  <2> QED
    BY <1>3, <2>1, <1>00
<1>4. ASSUME NEW m \in Maint, Leaves(m) PROVE ListedInv'
  BY <1>3, <1>4, <1>n DEF Leaves
<1>5. ASSUME NEW m \in Maint, NEW from, NEW to, Moves(m, from, to), to \notin Cleaning \cup Counted
      PROVE  ListedInv'
  BY <1>3, <1>5 DEF Moves
<1>6. ASSUME NEW m \in Maint, NEW from, NEW to, Moves(m, from, to), KeepsList(m),
             to \in Cleaning => from \in Cleaning, to \in Counted => from \in Counted
      PROVE  ListedInv'
  BY <1>1, <1>3, <1>6 DEF Moves, KeepsList, Lists
<1>7. ASSUME NEW m \in Maint, Others(m), Lists(m, ActiveSnaps') PROVE ListedInv'
  BY <1>3, <1>7 DEF Lists
<1> HIDE DEF Holds
<1>8. ASSUME NEW m \in Maint, NEW mode \in {"retention", "cleanup", "compact"}, MaintBegin(m, mode)
      PROVE  ListedInv'
  BY <1>8, <1>7, BeginMoves DEF MaintBegin, ActiveSnaps
<1>9. ASSUME NEW m \in Maint, NEW R \in SUBSET Run, Expire(m, R) PROVE ListedInv'
  BY <1>9, <1>4, <1>7, ExpireMoves DEF ActiveSnaps, Moves
<1>10. ASSUME NEW m \in Maint, NEW R \in SUBSET Run, MarkStale(m, R) \/ DropManifests(m, R)
       PROVE  ListedInv'
  <2>1. (Moves(m, "stale", "live") \/ Moves(m, "manifests", "index")) /\ KeepsList(m)
    BY <1>10, GotoKeeps DEF MarkStale, DropManifests
  <2> QED
    BY <2>1, <1>6
<1>11. ASSUME NEW m \in Maint, ReadLive(m) PROVE ListedInv'
  BY <1>11, <1>4, <1>5, <1>6, ReadLiveMoves
<1>12. ASSUME NEW m \in Maint, DropOldIndex(m) PROVE ListedInv'
  BY <1>12, <1>4, <1>5, AfterCleanupMoves DEF DropOldIndex
<1>13. ASSUME NEW m \in Maint, Relist(m) PROVE ListedInv'
  BY <1>13, <1>7, RelistMoves DEF Relist, ActiveSnaps, Moves
<1>14. ASSUME NEW m \in Maint, CountActiveRuns(m) PROVE ListedInv'
  BY <1>14, <1>4, <1>6, CountMoves
<1>15. ASSUME NEW m \in Maint, ReadManifests(m) PROVE ListedInv'
  BY <1>15, <1>4, <1>6, ReadMoves
<1>16. ASSUME NEW m \in Maint, RotateForMaintenance(m) \/ DropIndex(m) PROVE ListedInv'
  <2>1. Moves(m, "rotate", "rewrite") \/ Moves(m, "rewrite", "segments")
    BY <1>16, GotoKeeps DEF RotateForMaintenance, DropIndex
  <2> QED
    BY <2>1, <1>5
<1>17. ASSUME NEW m \in Maint, NEW h \in Hash, Rewrite(m, h) PROVE ListedInv'
  BY <1>17, <1>4, <1>5, RewriteMoves
<1>18. ASSUME NEW m \in Maint, NEW r \in Run, RewriteManifest(m, r) PROVE ListedInv'
  BY <1>18, <1>5, RewriteManifestMoves
<1>19. ASSUME NEW m \in Maint, DeleteSegment(m) \/ MaintFails(m) PROVE ListedInv'
  <2>1. Leaves(m) \/ UNCHANGED maint
    BY <1>19, BecomeMoves DEF DeleteSegment, MaintFails, Leaves, Others
  <2> QED
    BY <2>1, <1>2, <1>4
<1>20. ASSUME Crash PROVE ListedInv'
  <2>1. \A n \in Maint : maint'[n] = NoMaint
    BY <1>20 DEF Crash
  <2> QED
    BY <2>1, <1>n DEF ListedInv
<1> QED
  BY <1>2, <1>8, <1>9, <1>10, <1>11, <1>12, <1>13, <1>14, <1>15, <1>16, <1>17, <1>18, <1>19, <1>20,
     MaintSteps

-----------------------------------------------------------------------------
(* What a compact rewrites.                                                *)

\* The manifest of an active snapshot stays on file, and nobody but a compact

\* that rewrites it changes it.
LEMMA ManifestKept ==
  ASSUME TypesInv, RunsInv, ListedInv, [Next]_vars, NEW r \in ActiveSnaps
  PROVE  /\ r \in onFile => r \in onFile'
         /\ manifests'[r] = manifests[r] \/ \E m \in Maint : RewriteManifest(m, r)
<1> USE TypeParts DEF TypesInv, FileTypes, fileVars
<1>0. r \in Run /\ snaps[r] = "active"
  BY DEF ActiveSnaps
<1>1. ASSUME NEW q \in Run, SaveManifest(q)
      PROVE  (r \in onFile => r \in onFile') /\ manifests'[r] = manifests[r]
  <2>1. q # r
    BY <1>0, <1>1 DEF SaveManifest, RunsInv
  <2> QED
    BY <1>0, <1>1, <2>1 DEF SaveManifest, WriteManifest
<1>2. ASSUME NEW m \in Maint, NEW R \in SUBSET Run, DropManifests(m, R)
      PROVE  (r \in onFile => r \in onFile') /\ manifests'[r] = manifests[r]
  <2>1. r \in maint[m].listed \cup freshFile
    BY <1>2 DEF DropManifests, ListedInv, In
  <2> QED
    BY <1>0, <1>2, <2>1 DEF DropManifests
<1>3. ASSUME NEW m \in Maint, NEW q \in Run, RewriteManifest(m, q)
      PROVE  /\ r \in onFile => r \in onFile'
             /\ manifests'[r] = manifests[r] \/ RewriteManifest(m, r)
  <2>1. PICK new : UNCHANGED fileVars \/ WriteManifest(q, new)
    BY <1>3 DEF RewriteManifest
  <2> QED
    BY <1>0, <1>3, <2>1 DEF WriteManifest
<1>4. ASSUME GracePasses \/ UNCHANGED fileVars
      PROVE  (r \in onFile => r \in onFile') /\ manifests'[r] = manifests[r]
  BY <1>4 DEF GracePasses
<1> QED
  BY <1>1, <1>2, <1>3, <1>4, FileSteps

\* A compact that rewrites a manifest keeps its chunks, and puts them all in

\* the current segment.
LEMMA ManifestRewritten ==
  ASSUME TypesInv, ReadInv, RewriteInv, NEW m \in Maint, NEW r \in ActiveSnaps, RewriteManifest(m, r)
  PROVE  /\ Hashes(manifests'[r]) = Hashes(manifests[r])
         /\ \A ref \in manifests'[r] : ref.seg = current /\ ref \in recs
         /\ r \in onFile => r \in onFile'
<1> USE TypeParts DEF TypesInv, FileTypes, fileVars
<1> DEFINE old == manifests[r]
           H == Hashes(old)
           new == {[hash |-> h, seg |-> maint[m].new[h]] : h \in H}
<1>0. r \in Run /\ maint[m].read[r] = old /\ old \in SUBSET Ref
  BY DEF ActiveSnaps, RewriteManifest, RewriteInv, In
<1>1. IF new = old THEN UNCHANGED fileVars ELSE WriteManifest(r, new)
  BY <1>0 DEF RewriteManifest
<1>2. manifests'[r] = new /\ (r \in onFile => r \in onFile')
  BY <1>0, <1>1 DEF WriteManifest
<1>3. ASSUME NEW h \in Hashes(old)
      PROVE  /\ h \in Hash /\ maint[m].new[h] = current
             /\ [hash |-> h, seg |-> current] \in recs
  <2>1. h \in Hash
    BY <1>0 DEF Hashes, Ref
  <2>2. maint[m].old[h] # NoSeg
    BY <1>0, <1>3 DEF ReadInv, RewriteManifest, In
  <2>3. maint[m].new[h] # NoSeg
    BY <2>1, <2>2 DEF RewriteManifest, ToRewrite
  <2> QED
    BY <2>1, <2>3 DEF RewriteInv, RewriteManifest, In
<1> HIDE DEF H
<1>4. Hashes(new) = H
  <2>1. \A ref \in new : ref.hash \in H
    OBVIOUS
  <2>2. ASSUME NEW h \in H PROVE \E ref \in new : ref.hash = h
    <3>1. [hash |-> h, seg |-> maint[m].new[h]] \in new
      OBVIOUS
    <3>2. [hash |-> h, seg |-> maint[m].new[h]].hash = h
      OBVIOUS
    <3> QED
      BY <3>1, <3>2
  <2> HIDE DEF new
  <2> QED
    BY <2>1, <2>2 DEF Hashes
<1>5. ASSUME NEW ref \in new PROVE ref.seg = current /\ ref \in recs
  <2>1. PICK h \in H : ref = [hash |-> h, seg |-> maint[m].new[h]]
    OBVIOUS
  <2> QED
    BY <1>3, <2>1 DEF H
<1> QED
  BY <1>2, <1>4, <1>5 DEF H

\* Records go with a segment that is not the one being written.
LEMMA RecsStep ==
  ASSUME TypesInv, [Next]_vars
  PROVE  recs \subseteq recs'
         \/ \E m \in Maint : DeleteSegment(m) /\ \A ref \in recs : ref.seg = current => ref \in recs'
<1>1. ASSUME NEW r \in Run, NEW h \in Hash, Store(r, h) \/ Upload(r, h) PROVE recs \subseteq recs'
  BY <1>1 DEF Store, Upload, Put
<1>2. ASSUME NEW m \in Maint, DropOldIndex(m) \/ RotateForMaintenance(m) \/ DropIndex(m)
      PROVE  recs \subseteq recs'
  BY <1>2 DEF DropOldIndex, RotateForMaintenance, DropIndex
<1>3. ASSUME NEW m \in Maint, DeleteSegment(m) PROVE \A ref \in recs : ref.seg = current => ref \in recs'
  BY <1>3 DEF DeleteSegment, Victims
<1>4. ASSUME NEW m \in Maint, NEW h \in Hash, Rewrite(m, h) PROVE recs \subseteq recs'
  BY <1>4 DEF Rewrite
<1>5. ASSUME GracePasses \/ UNCHANGED storeVars PROVE recs \subseteq recs'
  BY <1>5 DEF GracePasses, storeVars
<1> QED
  BY <1>1, <1>2, <1>3, <1>4, <1>5, StoreSteps

\* While a compact is under way nobody else puts chunks or moves the segment.
LEMMA StoreHeld ==
  ASSUME TypesInv, GateInv, [Next]_vars, NEW n \in Maint, Compacting(n)
  PROVE  \/ RotateForMaintenance(n) \/ DropIndex(n) \/ DeleteSegment(n)
         \/ \E h \in Hash : Rewrite(n, h)
         \/ current' = current /\ recs' = recs /\ \A h \in Hash : index'[h] \in {index[h], NoSeg}
<1>1. ASSUME NEW r \in Run, NEW h \in Hash, Store(r, h) \/ Upload(r, h) PROVE FALSE
  BY <1>1 DEF Store, Upload, GateInv, GateOpen, Compacting
<1>2. ASSUME NEW m \in Maint, DropOldIndex(m)
      PROVE  current' = current /\ recs' = recs /\ \A h \in Hash : index'[h] \in {index[h], NoSeg}
  BY <1>2 DEF DropOldIndex, Unindex
<1>3. ASSUME NEW m \in Maint,
             \/ RotateForMaintenance(m) \/ DropIndex(m) \/ DeleteSegment(m)
             \/ \E h \in Hash : Rewrite(m, h)
      PROVE  m = n
  <2>1. maint[m].phase \in {"rotate", "rewrite", "segments"}
    BY <1>3 DEF RotateForMaintenance, DropIndex, DeleteSegment, Rewrite, In
  <2> QED
    BY <2>1 DEF GateInv
<1>4. ASSUME GracePasses \/ UNCHANGED storeVars
      PROVE  current' = current /\ recs' = recs /\ \A h \in Hash : index'[h] \in {index[h], NoSeg}
  BY <1>4 DEF GracePasses, storeVars
<1> QED
  BY <1>1, <1>2, <1>3, <1>4, StoreSteps

\* RewriteInv, for one process.
RewriteOK(n) ==
  /\ maint[n].phase \notin {"rewrite", "segments"} => maint[n].new = NoneOf
  /\ maint[n].phase \in {"rotate", "rewrite"} =>
       \A r \in maint[n].listed \cap ActiveSnaps : maint[n].read[r] = manifests[r]
  /\ maint[n].phase = "rewrite" =>
       /\ \A h \in Hash : maint[n].new[h] # NoSeg =>
            /\ maint[n].new[h] = current
            /\ [hash |-> h, seg |-> current] \in recs
            /\ index[h] \in {NoSeg, current}
       /\ \A r \in ActiveSnaps \ maint[n].listed : \A ref \in manifests[r] : ref.seg = current
  /\ maint[n].phase = "segments" =>
       /\ \A h \in Hash : index[h] \in {NoSeg, current}
       /\ \A r \in ActiveSnaps : \A ref \in manifests[r] : ref.seg = current

\* A compact past its count admits no new active snapshot.
LEMMA NoNewSnapshot ==
  ASSUME TypesInv, RunsInv, GateInv, [Next]_vars, NEW n \in Maint,
         maint[n].phase \in {"read", "rotate", "rewrite", "segments"}
  PROVE  ActiveSnaps' \subseteq ActiveSnaps
  BY ActiveSteps DEF GateInv, ActiveSnaps

\* What a process that stands still has read, written and left stays so.
LEMMA RewriteHeld ==
  ASSUME TypesInv, RunsInv, GateInv, ListedInv, RewriteInv, [Next]_vars,
         NEW n \in Maint, maint'[n] = maint[n]
  PROVE  RewriteOK(n)'
<1> USE TypeParts DEF TypesInv
<1>0. RewriteOK(n)
  BY DEF RewriteInv, RewriteOK, In
<1>1. CASE maint[n].phase \notin {"rotate", "rewrite", "segments"}
  BY <1>0, <1>1 DEF RewriteOK
<1>2. CASE maint[n].phase \in {"rotate", "rewrite", "segments"}
  <2>1. ActiveSnaps' \subseteq ActiveSnaps
    BY <1>2, NoNewSnapshot
  <2>2. ASSUME NEW r \in ActiveSnaps PROVE manifests'[r] = manifests[r]
    <3>1. ASSUME NEW m \in Maint, RewriteManifest(m, r) PROVE FALSE
      <4>1. m = n
        BY <1>2, <3>1 DEF RewriteManifest, In, GateInv
      <4>2. r \in Run /\ r \in maint[m].listed
        BY <3>1 DEF RewriteManifest, ActiveSnaps
      <4>3. maint'[m].listed = maint[m].listed \ {r}
        BY <3>1, <4>2, RewriteManifestMoves DEF Lists
      <4> QED
        BY <4>1, <4>2, <4>3
    <3> QED
      BY <3>1, ManifestKept
  <2>3. Compacting(n)
    BY <1>2 DEF GateInv
  <2>4. ~RotateForMaintenance(n) /\ ~DropIndex(n)
    <3>1. RotateForMaintenance(n) => Moves(n, "rotate", "rewrite")
      BY GotoKeeps DEF RotateForMaintenance
    <3>2. DropIndex(n) => Moves(n, "rewrite", "segments")
      BY GotoKeeps DEF DropIndex
    <3> QED
      BY <3>1, <3>2 DEF Moves
  <2>5. ASSUME NEW h \in Hash, Rewrite(n, h) PROVE FALSE
    <3>1. ~Leaves(n)
      BY <2>5 DEF Leaves, NoMaint, Rewrite, In
    <3>2. maint'[n].new = [maint[n].new EXCEPT ![h] = current] /\ maint[n].new[h] = NoSeg
      BY <2>5, <3>1, RewriteMoves DEF Rewrite, ToRewrite
    <3>3. maint'[n].new[h] = current /\ current # NoSeg
      BY <3>2 DEF MaintTypes, MaintType, SegMap, StoreTypes
    <3> QED
      BY <3>2, <3>3
  <2>6. \/ /\ current' = current
           /\ \A h \in Hash : index'[h] \in {index[h], NoSeg}
           /\ recs' = recs \/ maint[n].phase = "segments"
    BY <2>3, <2>4, <2>5, StoreHeld DEF DeleteSegment, In
  <2> QED
    BY <1>0, <1>2, <2>1, <2>2, <2>6 DEF RewriteOK
<1> QED
  BY <1>1, <1>2

\* RewriteInv, one step per action of a process; RewriteHeld covers the others.
LEMMA RewriteInvKept ==
  ASSUME TypesInv, ReadInv, RunsInv, GateInv, ListedInv, RewriteInv, [Next]_vars
  PROVE  RewriteInv'
<1> USE TypeParts DEF TypesInv
<1>0. \A n \in Maint : RewriteOK(n)
  BY DEF RewriteInv, RewriteOK, In
<1>00. (\A n \in Maint : RewriteOK(n)') => RewriteInv'
  BY DEF RewriteInv, RewriteOK, In
<1>n. NoMaint.phase = "idle" /\ NoMaint.new = NoneOf
  BY DEF NoMaint
\* One process moves, and keeps RewriteInv for itself.
<1>1. ASSUME NEW m \in Maint, Others(m), RewriteOK(m)' PROVE RewriteInv'
  BY <1>1, <1>00, RewriteHeld DEF Others
<1>2. ASSUME UNCHANGED maint PROVE RewriteInv'
  BY <1>2, <1>00, RewriteHeld
<1>3. ASSUME NEW m \in Maint, Leaves(m) PROVE RewriteInv'
  BY <1>3, <1>1, <1>n DEF Leaves, RewriteOK
\* It stays clear of the phases that rewrite.
<1>4. ASSUME NEW m \in Maint, NEW from, NEW to, Moves(m, from, to), KeepsNew(m),
             from \notin {"rewrite", "segments"}, to \notin {"rotate", "rewrite", "segments"}
      PROVE  RewriteInv'
  BY <1>4, <1>0, <1>1 DEF Moves, KeepsNew, RewriteOK
<1>5. ASSUME NEW m \in Maint, NEW mode \in {"retention", "cleanup", "compact"}, MaintBegin(m, mode)
      PROVE  RewriteInv'
  BY <1>5, <1>1, BeginMoves DEF RewriteOK
<1>6. ASSUME NEW m \in Maint, NEW R \in SUBSET Run, Expire(m, R) PROVE RewriteInv'
  BY <1>6, <1>3, <1>4, ExpireMoves
<1>7. ASSUME NEW m \in Maint, NEW R \in SUBSET Run, MarkStale(m, R) \/ DropManifests(m, R)
      PROVE  RewriteInv'
  <2>1. (Moves(m, "stale", "live") \/ Moves(m, "manifests", "index")) /\ KeepsNew(m)
    BY <1>7, GotoKeeps DEF MarkStale, DropManifests
  <2> QED
    BY <2>1, <1>4
<1>8. ASSUME NEW m \in Maint, ReadLive(m) PROVE RewriteInv'
  BY <1>8, <1>3, <1>4, ReadLiveMoves
<1>9. ASSUME NEW m \in Maint, DropOldIndex(m) PROVE RewriteInv'
  <2>1. In(m, "index") /\ Become(m, AfterCleanup(m))
    BY <1>9 DEF DropOldIndex
  <2>t. MaintTypes
    OBVIOUS
  <2>2. Leaves(m) \/ (Moves(m, "index", "relist") /\ KeepsNew(m))
    BY <2>1, <2>t, AfterCleanupMoves
  <2> QED
    BY <2>2, <1>3, <1>4
<1>10. ASSUME NEW m \in Maint, Relist(m) PROVE RewriteInv'
  BY <1>10, <1>4, RelistMoves
<1>11. ASSUME NEW m \in Maint, CountActiveRuns(m) PROVE RewriteInv'
  BY <1>11, <1>3, <1>4, CountMoves
<1>12. ASSUME NEW m \in Maint, ReadManifests(m) PROVE RewriteInv'
  <2>1. UNCHANGED <<manifests, snaps>>
    BY <1>12 DEF ReadManifests, fileVars
  <2>2. CASE Leaves(m)
    BY <2>2, <1>3
  <2>3. CASE /\ Moves(m, "read", "rotate") /\ KeepsList(m) /\ KeepsNew(m)
             /\ \A r \in maint[m].listed : maint'[m].read[r] = manifests[r]
    BY <1>0, <1>1, <2>1, <2>3 DEF Moves, KeepsList, Lists, KeepsNew, RewriteOK
  <2> QED
    BY <1>12, <2>2, <2>3, ReadMoves
<1>13. ASSUME NEW m \in Maint, RotateForMaintenance(m) PROVE RewriteInv'
  <2>1. Moves(m, "rotate", "rewrite") /\ KeepsList(m) /\ KeepsNew(m) /\ KeepsRead(m)
    BY <1>13, GotoKeeps DEF RotateForMaintenance
  <2>2. UNCHANGED <<manifests, ActiveSnaps>>
    BY <1>13 DEF RotateForMaintenance, fileVars, ActiveSnaps
  <2>3. ActiveSnaps \subseteq maint[m].listed
    BY <2>1 DEF Moves, ListedInv
  <2>4. \A h \in Hash : maint'[m].new[h] = NoSeg
    BY <1>0, <2>1 DEF RewriteOK, KeepsNew, Moves, NoneOf
  <2>5. RewriteOK(m)'
    BY <1>0, <2>1, <2>2, <2>3, <2>4 DEF RewriteOK, Moves, KeepsList, Lists, KeepsRead
  <2> QED
    BY <1>1, <2>1, <2>5 DEF Moves
<1>14. ASSUME NEW m \in Maint, NEW h \in Hash, Rewrite(m, h) PROVE RewriteInv'
  <2>1. UNCHANGED <<manifests, ActiveSnaps, current>>
    BY <1>14 DEF Rewrite, fileVars, ActiveSnaps
  <2>2. CASE Leaves(m)
    BY <2>2, <1>3
  <2>3. CASE /\ Moves(m, "rewrite", "rewrite") /\ KeepsList(m) /\ KeepsRead(m)
             /\ maint'[m].new = [maint[m].new EXCEPT ![h] = current]
             /\ recs' = recs \cup {[hash |-> h, seg |-> current]}
             /\ index' = [index EXCEPT ![h] = current]
    <3>1. ASSUME NEW g \in Hash, maint'[m].new[g] # NoSeg
          PROVE  /\ maint'[m].new[g] = current
                 /\ [hash |-> g, seg |-> current] \in recs'
                 /\ index'[g] \in {NoSeg, current}
      <4>1. CASE g = h
        BY <2>3, <4>1 DEF MaintTypes, MaintType, SegMap, StoreTypes
      <4>2. CASE g # h
        BY <1>0, <2>3, <3>1, <4>2 DEF MaintTypes, MaintType, SegMap, StoreTypes, RewriteOK, Moves
      <4> QED
        BY <4>1, <4>2
    <3>2. RewriteOK(m)'
      BY <1>0, <2>1, <2>3, <3>1 DEF RewriteOK, Moves, KeepsList, Lists, KeepsRead
    <3> QED
      BY <1>1, <2>3, <3>2 DEF Moves
  <2> QED
    BY <1>14, <2>2, <2>3, RewriteMoves
<1>15. ASSUME NEW m \in Maint, NEW r \in Run, RewriteManifest(m, r) PROVE RewriteInv'
  <2>1. UNCHANGED <<ActiveSnaps, current, recs, index>>
    BY <1>15 DEF RewriteManifest, storeVars, ActiveSnaps
  <2>2. /\ Moves(m, "rewrite", "rewrite") /\ KeepsNew(m) /\ Lists(m, maint[m].listed \ {r})
        /\ \A q \in Run \ {r} : maint'[m].read[q] = maint[m].read[q]
    BY <1>15, RewriteManifestMoves
  <2>3. ASSUME NEW q \in ActiveSnaps, q # r PROVE manifests'[q] = manifests[q]
    <3>1. PICK new : UNCHANGED fileVars \/ WriteManifest(r, new)
      BY <1>15 DEF RewriteManifest
    <3> QED
      BY <2>3, <3>1 DEF WriteManifest, fileVars, FileTypes, ActiveSnaps
  <2>4. r \in ActiveSnaps => \A ref \in manifests'[r] : ref.seg = current
    BY <1>15, ManifestRewritten
  <2>5. ActiveSnaps \subseteq Run
    BY DEF ActiveSnaps
  <2>6. ASSUME NEW q \in maint'[m].listed \cap ActiveSnaps PROVE maint'[m].read[q] = manifests'[q]
    BY <1>0, <2>2, <2>3, <2>5 DEF RewriteOK, Moves, Lists
  <2>7. ASSUME NEW q \in ActiveSnaps \ maint'[m].listed, NEW ref \in manifests'[q] PROVE ref.seg = current
    BY <1>0, <2>2, <2>3, <2>4 DEF RewriteOK, Moves, Lists
  <2>8. RewriteOK(m)'
    BY <1>0, <2>1, <2>2, <2>6, <2>7 DEF RewriteOK, Moves, KeepsNew
  <2> QED
    BY <1>1, <2>2, <2>8 DEF Moves
<1>16. ASSUME NEW m \in Maint, DropIndex(m) PROVE RewriteInv'
  <2>1. Moves(m, "rewrite", "segments")
    BY <1>16, GotoKeeps DEF DropIndex
  <2>2. UNCHANGED <<manifests, ActiveSnaps, current>> /\ maint[m].listed = {}
    BY <1>16 DEF DropIndex, fileVars, ActiveSnaps
  <2>3. \A h \in Hash : index'[h] = IF maint[m].new[h] = NoSeg THEN NoSeg ELSE index[h]
    BY <1>16 DEF DropIndex, Unindex
  <2>4. RewriteOK(m)'
    BY <1>0, <2>1, <2>2, <2>3 DEF RewriteOK, Moves
  <2> QED
    BY <1>1, <2>1, <2>4 DEF Moves
<1>17. ASSUME NEW m \in Maint, DeleteSegment(m) \/ MaintFails(m) PROVE RewriteInv'
  <2>1. Leaves(m) \/ UNCHANGED maint
    BY <1>17, BecomeMoves DEF DeleteSegment, MaintFails, Leaves, Others
  <2> QED
    BY <2>1, <1>2, <1>3
<1>18. ASSUME Crash PROVE RewriteInv'
  <2>1. \A n \in Maint : maint'[n] = NoMaint
    BY <1>18 DEF Crash
  <2> QED
    BY <2>1, <1>n, <1>00 DEF RewriteOK
<1> QED
  BY <1>2, <1>5, <1>6, <1>7, <1>8, <1>9, <1>10, <1>11, <1>12, <1>13, <1>14, <1>15, <1>16, <1>17, <1>18,
     MaintSteps

-----------------------------------------------------------------------------
(* What a step keeps readable.                                             *)

\* The refs of an active snapshot outlive every step.
LEMMA RestorableKept ==
  ASSUME LifecycleInv, NoRaces, [Next]_vars
  PROVE  ActiveSnapshotsRestorable'
<1> USE DEF LifecycleInv
<1> SUFFICES ASSUME NEW r \in ActiveSnaps' PROVE r \in onFile' /\ manifests'[r] \subseteq recs'
  BY DEF ActiveSnapshotsRestorable
<1>0. TypesInv
  BY DEF TypesInv
<1>1. CASE r \in ActiveSnaps
  <2>1. r \in onFile /\ manifests[r] \subseteq recs
    BY <1>1 DEF ActiveSnapshotsRestorable
  <2>2. ASSUME manifests'[r] = manifests[r] PROVE manifests'[r] \subseteq recs'
    <3>1. ASSUME NEW m \in Maint, DeleteSegment(m) PROVE \A ref \in manifests[r] : ref.seg = current
      BY <1>1, <3>1 DEF DeleteSegment, RewriteInv, In
    <3> QED
      BY <1>0, <2>1, <2>2, <3>1, RecsStep
  <2>3. ASSUME NEW m \in Maint, RewriteManifest(m, r) PROVE r \in onFile' /\ manifests'[r] \subseteq recs'
    <3>1. recs' = recs
      BY <2>3 DEF RewriteManifest, storeVars
    <3> QED
      BY <1>0, <1>1, <2>1, <2>3, <3>1, ManifestRewritten
  <2> QED
    BY <1>0, <1>1, <2>1, <2>2, <2>3, ManifestKept
<1>2. CASE r \notin ActiveSnaps
  <2>1. /\ CreateSnapshot(r)
        /\ r \in onFile /\ manifests[r] = worker[r].refs /\ r \in Run
    BY <1>0, <1>2, ActiveSteps
  <2>2. UNCHANGED <<onFile, manifests, recs>>
    BY <2>1 DEF CreateSnapshot, fileVars, storeVars
  <2>3. manifests[r] \subseteq recs
    BY <2>1 DEF InFlightRefsReadable
  <2> QED
    BY <2>1, <2>2, <2>3
<1> QED
  BY <1>1, <1>2

\* The index is cleared before segments go, and set after records are there.
LEMMA IndexKept ==
  ASSUME LifecycleInv, [Next]_vars
  PROVE  IndexResolves'
<1> USE TypeParts DEF LifecycleInv, StoreTypes, SegMap
<1> SUFFICES ASSUME NEW g \in Hash, index'[g] # NoSeg PROVE [hash |-> g, seg |-> index'[g]] \in recs'
  BY DEF IndexResolves, Indexed, RefOf
<1>0. index[g] # NoSeg => [hash |-> g, seg |-> index[g]] \in recs
  BY DEF IndexResolves, Indexed, RefOf
<1>1. ASSUME NEW r \in Run, NEW h \in Hash, Store(r, h) \/ Upload(r, h)
      PROVE  [hash |-> g, seg |-> index'[g]] \in recs'
  BY <1>0, <1>1 DEF Store, Upload, Put
<1>2. ASSUME NEW m \in Maint, DropOldIndex(m) \/ DropIndex(m)
      PROVE  [hash |-> g, seg |-> index'[g]] \in recs'
  BY <1>0, <1>2 DEF DropOldIndex, DropIndex, Unindex
<1>3. ASSUME NEW m \in Maint, RotateForMaintenance(m)
      PROVE  [hash |-> g, seg |-> index'[g]] \in recs'
  BY <1>0, <1>3 DEF RotateForMaintenance
<1>4. ASSUME NEW m \in Maint, DeleteSegment(m)
      PROVE  [hash |-> g, seg |-> index'[g]] \in recs'
  <2>1. index[g] \in {NoSeg, current} /\ index' = index
    BY <1>4 DEF DeleteSegment, RewriteInv, In
  <2>2. [hash |-> g, seg |-> current] \in recs => [hash |-> g, seg |-> current] \in recs'
    BY <1>4 DEF DeleteSegment, Victims
  <2> QED
    BY <1>0, <2>1, <2>2
<1>5. ASSUME NEW m \in Maint, NEW h \in Hash, Rewrite(m, h)
      PROVE  [hash |-> g, seg |-> index'[g]] \in recs'
  BY <1>0, <1>5 DEF Rewrite
<1>6. ASSUME GracePasses \/ UNCHANGED storeVars
      PROVE  [hash |-> g, seg |-> index'[g]] \in recs'
  BY <1>0, <1>6 DEF GracePasses, storeVars
<1> QED
  BY <1>1, <1>2, <1>3, <1>4, <1>5, <1>6, StoreSteps

\* What a run gathers is readable when it does, and while it has gathered

\* something no segment goes.
LEMMA InFlightKept ==
  ASSUME LifecycleInv, NoRaces, [Next]_vars
  PROVE  InFlightRefsReadable'
<1> USE TypeParts DEF LifecycleInv, RunTypes
<1>0. TypesInv
  BY DEF TypesInv
<1> SUFFICES ASSUME NEW q \in Run PROVE worker'[q].refs \cup worker'[q].base \subseteq recs'
  BY DEF InFlightRefsReadable
<1>1. worker[q].refs \cup worker[q].base \subseteq recs
  BY DEF InFlightRefsReadable
<1>w. NoWork.refs = {} /\ NoWork.base = {}
  BY DEF NoWork
\* Refs and base of before survive.
<1>2. worker[q].refs \cup worker[q].base \subseteq recs'
  <2>1. ASSUME NEW m \in Maint, DeleteSegment(m) PROVE worker[q].refs \cup worker[q].base = {}
    <3>1. status[q] # "active"
      BY <2>1 DEF DeleteSegment, In, GateInv
    <3>2. worker[q].phase \in {"idle", "published"}
      BY <3>1 DEF RunsInv, WorkType
    <3> QED
      BY <3>2 DEF RunsInv
  <2> QED
    BY <1>0, <1>1, <2>1, RecsStep
<1> DEFINE Goal == worker'[q].refs \cup worker'[q].base \subseteq recs'
<1>3. ASSUME NEW r \in Run, StartLocal(r) PROVE Goal
  <2>1. PICK base \in {{}} \cup {manifests[x] : x \in Local \cap ActiveSnaps \cap onFile} :
          worker' = [worker EXCEPT ![r] = [NoWork EXCEPT !.phase = "scan", !.base = base]]
    BY <1>3 DEF StartLocal
  <2>2. base \subseteq recs
    BY <2>1 DEF ActiveSnapshotsRestorable
  <2> DEFINE doing == [NoWork EXCEPT !.phase = "scan", !.base = base]
  <2>3. doing.refs = {} /\ doing.base = base
    BY DEF NoWork
  <2>4. worker' = [worker EXCEPT ![r] = doing]
    BY <2>1
  <2> HIDE DEF doing
  <2>5. recs' = recs
    BY <1>3 DEF StartLocal, storeVars
  <2> QED
    BY <1>1, <2>2, <2>3, <2>4, <2>5
<1>4. ASSUME NEW r \in Run, Reuse(r) PROVE Goal
  BY <1>2, <1>4 DEF Reuse, WorkType
<1>5. ASSUME NEW r \in Run, SaveManifest(r) PROVE Goal
  BY <1>2, <1>5 DEF SaveManifest, WorkType
<1>6. ASSUME NEW r \in Run, CreateSnapshot(r) PROVE Goal
  <2> DEFINE done == [NoWork EXCEPT !.phase = "published"]
  <2>1. done.refs = {} /\ done.base = {}
    BY DEF NoWork
  <2>2. worker' = [worker EXCEPT ![r] = done]
    BY <1>6 DEF CreateSnapshot
  <2> HIDE DEF done
  <2> QED
    BY <1>2, <2>1, <2>2
<1>7. ASSUME NEW r \in Run, CompleteRun(r) \/ WorkFails(r) \/ Disconnect(r) PROVE Goal
  <2>1. worker' = [worker EXCEPT ![r] = NoWork]
    BY <1>7 DEF CompleteRun, WorkFails, Disconnect
  <2> QED
    BY <1>2, <1>w, <2>1
<1>8. ASSUME NEW r \in Run, NEW h \in Hash, Store(r, h) PROVE Goal
  <2>1. IndexResolves' /\ index'[h] # NoSeg
    BY <1>8, IndexKept DEF Store, Put, StoreTypes, SegMap
  <2>2. [hash |-> h, seg |-> index'[h]] \in recs'
    BY <2>1 DEF IndexResolves, Indexed, RefOf
  <2> QED
    BY <1>2, <1>8, <2>2 DEF Store, WorkType
<1>9. ASSUME NEW r \in Run, NEW h \in Hash, Canonicalize(r, h) PROVE Goal
  <2>1. recs' = recs
    BY <1>9 DEF Canonicalize, storeVars
  <2>2. CASE index[h] = NoSeg
    BY <1>2, <1>9, <1>w, <2>2 DEF Canonicalize
  <2>3. CASE index[h] # NoSeg
    <3> DEFINE found == [worker[r] EXCEPT !.todo = @ \ {h}, !.refs = @ \cup {RefOf(h)}]
    <3>1. found.refs = worker[r].refs \cup {RefOf(h)} /\ found.base = worker[r].base
      BY DEF WorkType
    <3>2. worker' = [worker EXCEPT ![r] = found]
      BY <1>9, <2>3 DEF Canonicalize
    <3>3. RefOf(h) \in recs
      BY <2>3 DEF IndexResolves, Indexed
    <3> HIDE DEF found
    <3> QED
      BY <1>2, <2>1, <3>1, <3>2, <3>3
  <2> QED
    BY <2>2, <2>3
<1>10. ASSUME NEW r \in Run, NEW S \in SUBSET Hash, PostBegin(r, S) PROVE Goal
  <2> DEFINE doing == [NoWork EXCEPT !.phase = "scan", !.todo = S]
  <2>1. doing.refs = {} /\ doing.base = {}
    BY DEF NoWork
  <2>2. worker' = [worker EXCEPT ![r] = doing]
    BY <1>10 DEF PostBegin
  <2> HIDE DEF doing
  <2> QED
    BY <1>2, <2>1, <2>2
<1>11. ASSUME Crash PROVE Goal
  BY <1>11, <1>w DEF Crash
<1>12. ASSUME UNCHANGED worker PROVE Goal
  BY <1>2, <1>12
<1> HIDE DEF Goal
<1> QED
  BY <1>3, <1>4, <1>5, <1>6, <1>7, <1>8, <1>9, <1>10, <1>11, <1>12, WorkerSteps DEF Goal

-----------------------------------------------------------------------------
(* Theorems.                                                               *)

\* Every variable keeps its type, whatever races the server admits.
THEOREM TypeCorrect == Spec => []TypeOK
<1>1. Init => TypesInv
  BY InitTypes DEF Init, TypesInv, ReadInv, NoMaint
<1>2. TypesInv => TypeOK
  BY DEF TypesInv
<1> QED
  BY <1>1, <1>2, TypesStep, PTL DEF Spec

\* The invariant holds of an empty server.
LEMMA LifecycleInit == Init => LifecycleInv
<1> SUFFICES ASSUME Init PROVE LifecycleInv
  OBVIOUS
<1>1. NoMaint.phase = "idle" /\ NoMaint.mode = "none" /\ NoMaint.new = NoneOf
  BY DEF NoMaint
<1>2. NoWork.phase = "idle" /\ NoWork.refs = {} /\ NoWork.base = {}
  BY DEF NoWork
<1>3. /\ \A m \in Maint : maint[m] = NoMaint
      /\ \A r \in Run : worker[r] = NoWork /\ snaps[r] = "none" /\ status[r] = "none"
      /\ \A h \in Hash : index[h] = NoSeg
  BY DEF Init, NoneOf
<1>4. RunsInv
  BY <1>2, <1>3 DEF RunsInv
<1>5. GateInv
  BY <1>1, <1>3 DEF GateInv, Compacting
<1>6. ListedInv /\ ReadInv
  BY <1>1, <1>3 DEF ListedInv, ReadInv
<1>7. RewriteInv
  BY <1>1, <1>3 DEF RewriteInv, In
<1>8. ActiveSnapshotsRestorable
  BY <1>3 DEF ActiveSnapshotsRestorable, ActiveSnaps
<1>9. IndexResolves
  BY <1>3 DEF IndexResolves, Indexed
<1>10. InFlightRefsReadable
  BY <1>2, <1>3 DEF InFlightRefsReadable
<1> QED
  BY InitTypes, <1>4, <1>5, <1>6, <1>7, <1>8, <1>9, <1>10 DEF LifecycleInv

\* Every step keeps the invariant.
LEMMA LifecycleStep == LifecycleInv /\ NoRaces /\ [Next]_vars => LifecycleInv'
<1> SUFFICES ASSUME LifecycleInv, NoRaces, [Next]_vars PROVE LifecycleInv'
  OBVIOUS
<1>1. TypesInv /\ ReadInv /\ RunsInv /\ GateInv /\ ListedInv /\ RewriteInv
  BY DEF LifecycleInv, TypesInv
<1>2. TypeOK' /\ ReadInv'
  BY <1>1, TypesStep DEF TypesInv
<1>3. RunsInv' /\ GateInv' /\ ListedInv' /\ RewriteInv'
  BY <1>1, RunsInvKept, GateInvKept, ListedInvKept, RewriteInvKept
<1>4. ActiveSnapshotsRestorable' /\ IndexResolves' /\ InFlightRefsReadable'
  BY RestorableKept, IndexKept, InFlightKept
<1> QED
  BY <1>2, <1>3, <1>4 DEF LifecycleInv

\* Between any two steps the server knows every manifest it has to spare.
THEOREM LifecycleConsistent == NoRaces => (Spec => []LifecycleInv)
<1> SUFFICES ASSUME NoRaces PROVE Spec => []LifecycleInv
  OBVIOUS
<1>1. LifecycleInv /\ [Next]_vars => LifecycleInv'
  BY LifecycleStep
<1> QED
  BY <1>1, LifecycleInit, PTL DEF Spec

\* An active snapshot can be restored at every moment: neither cleanup nor

\* compact, interrupted anywhere, takes its manifest or a chunk of it.
THEOREM SnapshotsStayRestorable == NoRaces => (Spec => []ActiveSnapshotsRestorable)
<1>1. LifecycleInv => ActiveSnapshotsRestorable
  BY DEF LifecycleInv
<1> QED
  BY <1>1, LifecycleConsistent, PTL

\* What the chunk index names reads back, so that deduplication never answers

\* with a chunk a compact removed.
THEOREM IndexNeverLies == NoRaces => (Spec => []IndexResolves)
<1>1. LifecycleInv => IndexResolves
  BY DEF LifecycleInv
<1> QED
  BY <1>1, LifecycleConsistent, PTL

\* A running backup never loses a chunk it has a ref to, nor one of the

\* manifest it clones refs from.
THEOREM RunsKeepTheirChunks == NoRaces => (Spec => []InFlightRefsReadable)
<1>1. LifecycleInv => InFlightRefsReadable
  BY DEF LifecycleInv
<1> QED
  BY <1>1, LifecycleConsistent, PTL

\* ExpireSnapshots takes no snapshot a restore task is using; only a deletion

\* that had found it unused does.
THEOREM RetentionSparesTasks == Spec => RetentionSparesRestores
<1>1. TypeOK /\ [Next]_vars =>
        [\A r \in ActiveSnaps : snaps'[r] = "deleted" /\ InUse(r) => r \in deleting]_vars
  <2> SUFFICES ASSUME TypeOK, [Next]_vars, NEW r \in ActiveSnaps, snaps'[r] = "deleted", InUse(r)
               PROVE  r \in deleting
    OBVIOUS
  <2>0. r \in Run /\ snaps[r] = "active" /\ snaps \in [Run -> {"none", "active", "deleted"}]
    BY TypeParts DEF ActiveSnaps, RunTypes
  <2>1. ASSUME NEW q \in Run, CreateSnapshot(q) PROVE FALSE
    BY <2>0, <2>1 DEF CreateSnapshot
  <2>2. ASSUME NEW m \in Maint, NEW R \in SUBSET Run, Expire(m, R) PROVE FALSE
    BY <2>0, <2>2 DEF Expire
  <2>3. ASSUME DeleteUpdate PROVE r \in deleting
    BY <2>0, <2>3 DEF DeleteUpdate
  <2>4. snaps' # snaps
    BY <2>0
  <2> QED
    BY <2>1, <2>2, <2>3, <2>4, SnapSteps
<1> QED
  BY <1>1, TypeCorrect, PTL DEF Spec, RetentionSparesRestores

-----------------------------------------------------------------------------
(* The vault.                                                              *)

\* The chunks of an active snapshot's manifest never change.
LEMMA ChunksKept ==
  ASSUME LifecycleInv, NoRaces, [Next]_vars, NEW r \in ActiveSnaps
  PROVE  Hashes(manifests'[r]) = Hashes(manifests[r])
<1>1. TypesInv
  BY DEF LifecycleInv, TypesInv
<1> QED
  BY <1>1, ManifestKept, ManifestRewritten DEF LifecycleInv

\* While a snapshot is active, what can be restored is what its manifest names.
LEMMA ShelfActive ==
  ASSUME ActiveSnapshotsRestorable, NEW r \in ActiveSnaps
  PROVE  Restorable(r) = Hashes(manifests[r])
<1>1. manifests[r] \cap recs = manifests[r] /\ r \in onFile
  BY DEF ActiveSnapshotsRestorable
<1> QED
  BY <1>1 DEF Restorable

\* The server implements the vault step by step.
LEMMA VaultStep == LifecycleInv /\ LifecycleInv' /\ NoRaces /\ [Next]_vars => [Vault!Next]_Shelf
<1> SUFFICES ASSUME LifecycleInv, LifecycleInv', NoRaces, [Next]_vars PROVE [Vault!Next]_Shelf
  OBVIOUS
<1> DEFINE On(r)  == [state |-> "active", chunks |-> Hashes(manifests[r])]
           Off(s) == [state |-> s, chunks |-> {}]
<1>0. /\ TypesInv /\ RunsInv
      /\ snaps \in [Run -> {"none", "active", "deleted"}]
      /\ snaps' \in [Run -> {"none", "active", "deleted"}]
  BY DEF LifecycleInv, TypesInv, TypeOK
<1>1. ASSUME NEW r \in Run PROVE Shelf[r] = IF snaps[r] = "active" THEN On(r) ELSE Off(snaps[r])
  <2>1. snaps[r] = "active" => Restorable(r) = Hashes(manifests[r])
    BY ShelfActive DEF LifecycleInv, ActiveSnaps
  <2> QED
    BY <2>1 DEF Shelf
<1>2. ASSUME NEW r \in Run
      PROVE  Shelf'[r] = IF snaps'[r] = "active" THEN [state |-> "active", chunks |-> Hashes(manifests'[r])]
                                                 ELSE Off(snaps'[r])
  <2>1. snaps'[r] = "active" => Restorable(r)' = Hashes(manifests'[r])
    <3>1. ASSUME ActiveSnapshotsRestorable', r \in ActiveSnaps' PROVE Restorable(r)' = Hashes(manifests'[r])
      <4>1. manifests'[r] \cap recs' = manifests'[r] /\ r \in onFile'
        BY <3>1 DEF ActiveSnapshotsRestorable
      <4> QED
        BY <4>1 DEF Restorable, Hashes
    <3> QED
      BY <3>1 DEF LifecycleInv, ActiveSnaps
  <2> QED
    BY <2>1 DEF Shelf
\* A snapshot that stays as it is stays the same in the vault.
<1>3. ASSUME NEW r \in Run, snaps'[r] = snaps[r] PROVE Shelf'[r] = Shelf[r]
  <2>1. snaps[r] = "active" => Hashes(manifests'[r]) = Hashes(manifests[r])
    BY ChunksKept DEF ActiveSnaps
  <2> QED
    BY <1>1, <1>2, <1>3, <2>1
<1>4. Shelf = [r \in Run |-> Shelf[r]] /\ Shelf' = [r \in Run |-> Shelf'[r]]
  BY DEF Shelf
<1> HIDE DEF On, Off
<1>5. ASSUME NEW r \in Run, CreateSnapshot(r) PROVE Vault!Next
  <2> DEFINE S == Hashes(manifests[r])
  <2>1. snaps[r] = "none" /\ snaps' = [snaps EXCEPT ![r] = "active"] /\ UNCHANGED manifests
    BY <1>0, <1>5 DEF CreateSnapshot, RunsInv, fileVars
  <2>2. Shelf[r] = Vault!Absent
    BY <1>1, <2>1 DEF Vault!Absent, Off
  <2>3. Shelf'[r] = Vault!Active(S)
    BY <1>0, <1>2, <2>1 DEF Vault!Active
  <2>4. \A q \in Run \ {r} : Shelf'[q] = Shelf[q]
    BY <1>0, <1>3, <2>1
  <2>5. Shelf' = [Shelf EXCEPT ![r] = Vault!Active(S)]
    BY <1>4, <2>3, <2>4
  <2>6. S \in SUBSET Hash
    BY DEF LifecycleInv, TypeOK, Hashes, Ref
  <2> HIDE DEF S
  <2> QED
    BY <2>2, <2>5, <2>6 DEF Vault!Next, Vault!Publish
<1>6. ASSUME NEW R \in SUBSET ActiveSnaps, snaps' = [r \in Run |-> IF r \in R THEN "deleted" ELSE snaps[r]]
      PROVE  Vault!Next
  <2>1. R \in SUBSET Run
    BY DEF ActiveSnaps
  <2>2. ASSUME NEW r \in R PROVE Shelf[r].state = "active"
    <3>1. r \in Run /\ snaps[r] = "active"
      BY <2>1 DEF ActiveSnaps
    <3>2. Shelf[r] = On(r)
      BY <1>1, <3>1
    <3> QED
      BY <3>2 DEF On
  <2>3. \A r \in R : Shelf'[r] = Vault!Withdrawn
    BY <1>2, <1>6, <2>1 DEF Vault!Withdrawn, Off
  <2>4. \A r \in Run \ R : Shelf'[r] = Shelf[r]
    BY <1>3, <1>6
  <2>5. Shelf' = [r \in Run |-> IF r \in R THEN Vault!Withdrawn ELSE Shelf[r]]
    BY <1>4, <2>3, <2>4
  <2> QED
    BY <2>1, <2>2, <2>5 DEF Vault!Next, Vault!Withdraw
<1>7. ASSUME NEW m \in Maint, NEW R \in SUBSET Run, Expire(m, R) PROVE Vault!Next
  <2> DEFINE E == {r \in R : snaps[r] = "active" /\ ~InUse(r)}
  <2>1. snaps' = [r \in Run |-> IF r \in E THEN "deleted" ELSE snaps[r]]
    BY <1>7 DEF Expire
  <2>2. E \in SUBSET ActiveSnaps
    BY DEF ActiveSnaps
  <2> HIDE DEF E
  <2> QED
    BY <2>1, <2>2, <1>6
<1>8. ASSUME DeleteUpdate PROVE Vault!Next
  <2> DEFINE D == {r \in deleting : snaps[r] = "active"}
  <2>1. snaps' = [r \in Run |-> IF r \in D THEN "deleted" ELSE snaps[r]]
    BY <1>8 DEF DeleteUpdate
  <2>2. D \in SUBSET ActiveSnaps
    BY DEF ActiveSnaps, LifecycleInv, TypeOK
  <2> HIDE DEF D
  <2> QED
    BY <2>1, <2>2, <1>6
<1>9. ASSUME UNCHANGED snaps PROVE Shelf' = Shelf
  BY <1>3, <1>4, <1>9
<1> QED
  BY <1>5, <1>7, <1>8, <1>9, SnapSteps

\* The server implements SnapshotVault: a snapshot is published once, keeps its
\* chunks while it is active, and does not come back.
THEOREM VaultImplemented == NoRaces => (Spec => SnapshotsAreImmutable)
<1> SUFFICES ASSUME NoRaces PROVE Spec => SnapshotsAreImmutable
  OBVIOUS
<1>1. Init => Vault!Init
  BY DEF Init, Shelf, Vault!Init, Vault!Absent
<1>2. LifecycleInv /\ LifecycleInv' /\ [Next]_vars => [Vault!Next]_Shelf
  BY VaultStep
<1> QED
  BY <1>1, <1>2, LifecycleConsistent, PTL DEF Spec, SnapshotsAreImmutable, Vault!Spec

=============================================================================
