------------------------- MODULE CatalogSync_proofs -------------------------
(***************************************************************************)
(* Proofs about CatalogSync, for any chunks, keys, generations,             *)
(* repositories and number of repairs: what the catalog confirms was not    *)
(* dropped since, a run trusts its own repository only, and it gives up     *)
(* only on chunks that are dropped again and again.                         *)
(***************************************************************************)
EXTENDS CatalogSync, TLAPS

\* What the constants allow.
LEMMA Bounds ==
  MaxGen \in Nat /\ MaxRepo \in Nat \ {0} /\ MaxRepair \in Nat /\ 0 \in 0..MaxGen /\ 0 \in 0..MaxRepair
  BY ConstantsOK DEF ConstantsOK

USE Bounds DEF Gen

-----------------------------------------------------------------------------
(* Types.                                                                  *)

\* The later of two generations is one of them.
LEMMA Max2Type ==
  ASSUME NEW a \in Gen, NEW b \in Gen
  PROVE  Max2(a, b) \in Gen /\ Max2(a, b) >= a /\ Max2(a, b) >= b /\ Max2(a, b) \in {a, b}
  BY DEF Max2

\* What the scan of a run starts with.
LEMMA ScanType ==
  ASSUME NEW W \in SUBSET Hash, NEW n \in 0..MaxRepair, NEW T \in SUBSET Hash,
         run' = [NoRun EXCEPT !.wanted = W, !.todo = T, !.attempt = n]
  PROVE  run' \in RunType
<1>1. run' = [wanted |-> W, todo |-> T, asked |-> {}, at |-> 0, exists |-> {}, absent |-> {}, best |-> 0,
              lacks |-> {}, sent |-> {}, wrote |-> {}, attempt |-> n]
  BY DEF NoRun
<1> QED
  BY <1>1 DEF RunType

\* A scan starts with a run record, after a repair too.
LEMMA ScanStepType ==
  ASSUME TypeOK, (\E W \in SUBSET Hash \ {{}} : StartRun(W)) \/ Repair
  PROVE  run' \in RunType
<1>1. CASE \E W \in SUBSET Hash \ {{}} : StartRun(W)
  <2>1. PICK W \in SUBSET Hash : StartRun(W)
    BY <1>1
  <2> DEFINE T == {h \in W : ~Trusted(h)}
  <2>2. T \in SUBSET Hash /\ 0 \in 0..MaxRepair /\ W \in SUBSET Hash
    OBVIOUS
  <2>3. run' = [NoRun EXCEPT !.wanted = W, !.todo = T, !.attempt = 0]
    BY <2>1 DEF StartRun, Scan
  <2> HIDE DEF T
  <2> QED
    BY <2>2, <2>3, ScanType
<1>2. CASE Repair
  <2> DEFINE W == run.wanted
             T == (W \ index) \cup {h \in W : ~Trusted(h)}
             n == run.attempt + 1
  <2>1. W \in SUBSET Hash /\ T \in SUBSET Hash /\ n \in 0..MaxRepair
    BY <1>2 DEF TypeOK, RunType, Repair
  <2>2. run' = [NoRun EXCEPT !.wanted = W, !.todo = T, !.attempt = n]
    BY <1>2 DEF Repair
  <2> HIDE DEF W, T, n
  <2> QED
    BY <2>1, <2>2, ScanType
<1> QED
  BY <1>1, <1>2

\* The steps of a scan.
LEMMA RequestStepType ==
  ASSUME TypeOK,
         \/ \E B \in SUBSET Hash : CheckState(B) \/ UploadState(B)
         \/ CheckIndex \/ MarkChecked \/ UploadWrite \/ MarkUploaded
  PROVE  run' \in RunType
<1> DEFINE best == Max2(run.best, run.at)
           exists == run.exists \cup (run.asked \cap index)
           absent == run.absent \cup (run.asked \ index)
           todo == run.todo \ run.asked
           wrote == run.wrote \cup run.sent
           left == run.lacks \ run.sent
           lacks == run.lacks \cup run.absent
<1>1. /\ run \in RunType /\ gen \in Gen /\ index \subseteq Hash
      /\ best \in Gen
  <2>1. run.best \in Gen /\ run.at \in Gen
    BY DEF TypeOK, RunType
  <2> QED
    BY <2>1, Max2Type DEF TypeOK
<1>a. /\ exists \in SUBSET Hash /\ absent \in SUBSET Hash /\ todo \in SUBSET Hash
      /\ wrote \in SUBSET Hash /\ left \in SUBSET Hash /\ lacks \in SUBSET Hash
  BY DEF TypeOK, RunType
<1>2. CASE \E B \in SUBSET Hash : CheckState(B) \/ UploadState(B)
  <2>1. PICK B \in SUBSET Hash : \/ run' = [run EXCEPT !.asked = B, !.at = gen]
                                \/ run' = [run EXCEPT !.sent = B, !.at = gen]
    BY <1>2 DEF CheckState, UploadState
  <2> HIDE DEF best, exists, absent, todo, wrote, left, lacks
  <2> QED
    BY <1>1, <2>1 DEF RunType
<1>3. CASE CheckIndex
  <2>1. run' = [run EXCEPT !.exists = exists, !.absent = absent, !.best = best, !.todo = todo,
                           !.asked = {}, !.at = 0]
    BY <1>3 DEF CheckIndex
  <2> HIDE DEF best, exists, absent, todo
  <2> QED
    BY <1>1, <1>a, <2>1 DEF RunType
<1>4. CASE MarkChecked
  <2>1. run' = [run EXCEPT !.lacks = lacks, !.exists = {}, !.absent = {}, !.best = 0]
    BY <1>4 DEF MarkChecked
  <2> HIDE DEF lacks
  <2> QED
    BY <1>1, <1>a, <2>1 DEF RunType
<1>5. CASE UploadWrite
  <2>1. run' = [run EXCEPT !.wrote = wrote, !.best = best, !.lacks = left, !.sent = {}, !.at = 0]
    BY <1>5 DEF UploadWrite
  <2> HIDE DEF wrote, best, left
  <2> QED
    BY <1>1, <1>a, <2>1 DEF RunType
<1>6. CASE MarkUploaded
  BY <1>1, <1>6 DEF MarkUploaded, RunType
<1> QED
  BY <1>2, <1>3, <1>4, <1>5, <1>6

\* The types of the fields the steps compare.
LEMMA Fields ==
  ASSUME TypeOK
  PROVE  /\ repo \in 1..MaxRepo /\ gen \in Gen /\ avail \in Gen
         /\ hb.repo \in 0..MaxRepo /\ hb.gen \in Gen /\ hb.avail \in Gen
         /\ answer.since \in Gen /\ answer.to \in Gen
         /\ run.at \in Gen /\ run.best \in Gen /\ run.attempt \in 0..MaxRepair
         /\ drops \in 0..MaxRepair /\ misled \in BOOLEAN
         /\ maint.upTo \in Gen /\ maint.dropped \subseteq Hash
         /\ {run.wanted, run.todo, run.asked, run.exists, run.absent, run.lacks, run.sent, run.wrote}
              \subseteq SUBSET Hash
         /\ \A k \in Key : row[k].repo \in 0..MaxRepo /\ row[k].inv \in Gen
         /\ \A h \in Hash : lastDrop[h] \in Gen
  BY DEF TypeOK, Heard, RunType

\* Confirmations and their end leave a catalog.
LEMMA CatalogTypes ==
  ASSUME TypeOK
  PROVE  /\ \A S \in SUBSET Hash, g \in Gen : ConfirmAt(S, g) \in CatalogType
         /\ \A S \in SUBSET Hash : Forget(S) \in CatalogType
         /\ \A h \in Hash : /\ catalog[h] \in [repo : 0..MaxRepo, gen : -1..MaxGen]
                            /\ catalog[h].repo \in 0..MaxRepo /\ catalog[h].gen \in -1..MaxGen
  BY DEF TypeOK, CatalogType, Heard, ConfirmAt, Forget, Unconfirmed

\* No step leaves the types.
LEMMA TypeKept ==
  ASSUME CatalogInv, Next
  PROVE  TypeOK'
<1> USE DEF CatalogInv, TypeOK, Heard
<1>1. CASE \E H \in SUBSET Hash : Drop(H)
  <2>1. PICK H \in SUBSET Hash : Drop(H)
    BY <1>1
  <2>2. maint' = [phase |-> "dropped", dropped |-> H, upTo |-> 0]
    BY <2>1 DEF Drop, NoMaint
  <2>3. maint' \in [phase : {"idle", "dropped", "pruning"}, dropped : SUBSET Hash, upTo : Gen]
    BY <2>2
  <2>4. drops' \in 0..MaxRepair
    BY <2>1 DEF Drop
  <2> QED
    BY <2>1, <2>3, <2>4 DEF Drop, agentVars
<1>2. CASE BumpChunkGeneration
  BY <1>2 DEF BumpChunkGeneration, NoMaint, agentVars, RoundOK
<1>3. CASE \E g \in Gen : PruneDelete(g)
  <2>1. PICK g \in Gen : PruneDelete(g)
    BY <1>3
  <2>2. maint' \in [phase : {"idle", "dropped", "pruning"}, dropped : SUBSET Hash, upTo : Gen]
    BY <2>1 DEF PruneDelete, NoMaint
  <2> QED
    BY <2>1, <2>2 DEF PruneDelete, agentVars
<1>4. CASE PruneAdvance
  BY <1>4 DEF PruneAdvance, NoMaint, Max2, agentVars, history
<1>5. CASE MaintBreaks
  BY <1>5 DEF MaintBreaks, NoMaint, agentVars
<1>6. CASE ReplaceRepository
  BY <1>6 DEF ReplaceRepository, agentVars
<1>7. CASE Heartbeat
  BY <1>7 DEF Heartbeat, Stay, serverVars
<1>8. CASE SyncNew \/ SyncReset \/ SyncCurrent \/ Upsert \/ SyncFails
  <2> USE CatalogTypes DEF Stay, serverVars, UpsertServerState
  <2>1. CASE SyncNew
    BY <1>8, <2>1 DEF SyncNew
  <2>2. CASE SyncReset
    BY <1>8, <2>2 DEF SyncReset, NoAnswer
  <2>3. CASE SyncCurrent
    BY <1>8, <2>3 DEF SyncCurrent
  <2>4. CASE Upsert
    BY <1>8, <2>4 DEF Upsert, NoAnswer
  <2>5. CASE SyncFails
    BY <1>8, <2>5 DEF SyncFails, NoAnswer
  <2> QED
    BY <1>8, <2>1, <2>2, <2>3, <2>4, <2>5
<1>9. CASE AnswerState
  BY <1>9 DEF AnswerState, Stay, serverVars, UpsertServerState
<1>10. CASE AnswerRows
  <2>1. catalog' \in CatalogType
    BY <1>10 DEF AnswerRows, CatalogType, Unconfirmed
  <2> QED
    BY <1>10, <2>1 DEF AnswerRows, Stay, serverVars
<1>11. CASE \E W \in SUBSET Hash \ {{}} : StartRun(W)
  <2>1. run' \in RunType
    BY <1>11, ScanStepType
  <2> QED
    BY <1>11, <2>1 DEF StartRun, Scan, serverVars
<1>12. CASE Repair
  <2>1. run' \in RunType /\ catalog' \in CatalogType
    BY <1>12, ScanStepType, CatalogTypes DEF Repair, RunType
  <2> QED
    BY <1>12, <2>1 DEF Repair, Stay, serverVars
<1>13. CASE \/ \E B \in SUBSET Hash : CheckState(B) \/ UploadState(B)
            \/ CheckIndex \/ MarkChecked \/ UploadWrite \/ MarkUploaded
  <2>1. run' \in RunType
    BY <1>13, RequestStepType
  <2>2. CASE \E B \in SUBSET Hash : CheckState(B) \/ UploadState(B)
    BY <2>1, <2>2 DEF CheckState, UploadState, Stay, serverVars
  <2>3. CASE CheckIndex
    BY <2>1, <2>3 DEF CheckIndex, Stay, serverVars
  <2>4. CASE MarkChecked
    <3>1. /\ run.exists \in SUBSET Hash /\ run.best \in Gen
          /\ ConfirmAt(run.exists, run.best) \in CatalogType
      BY CatalogTypes DEF RunType
    <3>2. catalog' \in CatalogType
      BY <2>4, <3>1 DEF MarkChecked, CatalogType, Unconfirmed
    <3> QED
      BY <2>1, <2>4, <3>2 DEF MarkChecked, Stay, serverVars
  <2>5. CASE UploadWrite
    <3>1. run.sent \in SUBSET Hash
      BY DEF RunType
    <3> QED
      BY <2>1, <2>5, <3>1 DEF UploadWrite
  <2>6. CASE MarkUploaded
    <3>1. ConfirmAt(run.wrote, run.best) \in CatalogType
      BY CatalogTypes DEF RunType
    <3> QED
      BY <2>1, <2>6, <3>1 DEF MarkUploaded, Stay, serverVars
  <2> QED
    BY <1>13, <2>2, <2>3, <2>4, <2>5, <2>6
<1>14. CASE NothingDue \/ Accepted \/ RunFails \/ AgentCrash
  <2>1. NoRun \in RunType
    BY DEF NoRun, RunType
  <2> USE <2>1 DEF EndRound, NoBeat, NoAnswer, serverVars
  <2>2. CASE AgentCrash
    BY <2>2 DEF AgentCrash
  <2>3. CASE NothingDue \/ Accepted \/ RunFails
    BY <2>3 DEF NothingDue, Accepted, RunFails
  <2> QED
    BY <1>14, <2>2, <2>3
<1>15. CASE GiveUp
  BY <1>15 DEF GiveUp, Stay, serverVars
<1>16. CASE Persist
  BY <1>16 DEF Persist, serverVars, history
<1>17. CASE \E k \in Key : Reconfigure(k)
  BY <1>17 DEF Reconfigure, serverVars, history
<1> QED
  BY <1>1, <1>2, <1>3, <1>4, <1>5, <1>6, <1>7, <1>8, <1>9, <1>10, <1>11, <1>12, <1>13, <1>14, <1>15, <1>16,
     <1>17 DEF Next, ServerStep, SyncStep, RunStep

\* What is not ahead of a generation is not ahead of a later one.
LEMMA RowsSeenMore ==
  ASSUME TypeOK, NEW a \in Gen, NEW b \in Gen, a <= b, RowsSeen(a)
  PROVE  RowsSeen(b)
  BY DEF TypeOK, RowsSeen

-----------------------------------------------------------------------------
(* What agent and server have heard of each other.                         *)

\* No step puts the agent ahead of the server.
LEMMA RoundKept ==
  ASSUME CatalogInv, TypeOK', Next
  PROVE  RoundOK'
<1>a. TypeOK /\ RoundOK
  BY DEF CatalogInv
<1> USE <1>a, Fields DEF RoundOK, RowsSeen, TypeOK
<1>1. CASE \E H \in SUBSET Hash : Drop(H)
  BY <1>1 DEF Drop, NoMaint, agentVars
<1>2. CASE BumpChunkGeneration
  BY <1>2 DEF BumpChunkGeneration, NoMaint, agentVars
<1>3. CASE \E g \in Gen : PruneDelete(g)
  BY <1>3 DEF PruneDelete, NoMaint, agentVars
<1>4. CASE PruneAdvance
  BY <1>4 DEF PruneAdvance, NoMaint, agentVars, history
<1>5. CASE MaintBreaks
  BY <1>5 DEF MaintBreaks, NoMaint, agentVars
<1>6. CASE ReplaceRepository
  BY <1>6 DEF ReplaceRepository, agentVars
<1>7. CASE Heartbeat
  <2>1. /\ hb' = [repo |-> repo, gen |-> gen, avail |-> avail] /\ phase = "idle" /\ phase' = "sync"
        /\ UNCHANGED <<repo, gen, maint, row, key, answer, run, lastDrop>>
    BY <1>7 DEF Heartbeat, Stay, serverVars
  <2>2. run = NoRun
    BY <2>1
  <2>3. hb'.repo = repo /\ hb'.gen = gen
    BY <2>1
  <2>4. answer.to = 0
    BY <2>1 DEF NoAnswer
  <2> QED
    BY <2>1, <2>2, <2>3, <2>4 DEF NoRun
<1>8. CASE SyncNew
  BY <1>8 DEF SyncNew, NoRow, UpsertServerState, Confirmed, Stay, serverVars, NoRun, NoAnswer
<1>9. CASE SyncReset
  BY <1>9 DEF SyncReset, NoRow, Forget, Unconfirmed, NoAnswer, Stay, serverVars
<1>10. CASE SyncCurrent
  BY <1>10 DEF SyncCurrent, SameRepository, NoRow, Behind, UpsertServerState, Stay, serverVars
<1>11. CASE AnswerState
  BY <1>11 DEF AnswerState, SameRepository, NoRow, Behind, UpsertServerState, Stay, serverVars
<1>12. CASE AnswerRows
  BY <1>12 DEF AnswerRows, Unconfirmed, Confirmed, Pruned, Stay, serverVars
<1>13. CASE Upsert
  BY <1>13 DEF Upsert, UpsertServerState, NoAnswer, Stay, serverVars, NoRun, NoRow
<1>14. CASE SyncFails
  BY <1>14 DEF SyncFails, SameRepository, NoRow, Behind, NoAnswer, Stay, serverVars
<1>15. CASE \E W \in SUBSET Hash \ {{}} : StartRun(W)
  BY <1>15 DEF StartRun, Scan, NoRun, Trusted, serverVars
<1>16. CASE NothingDue
  BY <1>16 DEF NothingDue, EndRound, NoBeat, NoAnswer, NoRun, serverVars
<1>17. CASE \E B \in SUBSET Hash : CheckState(B)
  BY <1>17 DEF CheckState, Stay, serverVars
<1>18. CASE \E B \in SUBSET Hash : UploadState(B)
  BY <1>18 DEF UploadState, Stay, serverVars, NoRun, Scan
<1>19. CASE CheckIndex
  <2>1. /\ run'.asked = {} /\ run'.sent = run.sent /\ run'.wrote = run.wrote /\ run'.at = 0
        /\ run'.best = Max2(run.best, run.at)
        /\ run.asked # {} /\ repo = hb.repo
    BY <1>19 DEF CheckIndex, RunType
  <2>2. UNCHANGED <<repo, gen, maint, row, key, phase, hb, answer, lastDrop>>
    BY <1>19 DEF CheckIndex, Stay, serverVars
  <2>3. run.sent = {} /\ run.wrote = {} /\ RowsSeen(run.at)
    BY <2>1
  <2>4. run.best <= run'.best /\ run.at <= run'.best /\ run'.best <= gen
    BY <2>1 DEF Max2
  <2>5. phase \in {"scan", "gaveup"}
    BY <2>1 DEF NoRun
  <2>6. RowsSeen(run'.best)
    <3>1. run'.best \in Gen
      BY DEF RunType
    <3> QED
      BY <2>3, <2>4, <3>1, RowsSeenMore
  <2> QED
    BY <2>1, <2>2, <2>3, <2>4, <2>5, <2>6
<1>20. CASE MarkChecked
  <2>1. /\ run'.asked = {} /\ run'.exists = {} /\ run'.absent = {} /\ run'.best = 0
        /\ run'.wrote = run.wrote /\ run'.sent = run.sent /\ run'.at = run.at
        /\ run.exists \cup run.absent # {}
    BY <1>20 DEF MarkChecked, RunType
  <2>2. UNCHANGED <<repo, gen, maint, row, key, phase, hb, answer, lastDrop>>
    BY <1>20 DEF MarkChecked, Stay, serverVars
  <2> QED
    BY <2>1, <2>2 DEF NoRun
<1>21. CASE UploadWrite
  <2>1. /\ run'.asked = run.asked /\ run'.exists = run.exists /\ run'.absent = run.absent
        /\ run'.sent = {} /\ run'.at = 0 /\ run'.best = Max2(run.best, run.at)
        /\ run.sent # {} /\ repo = hb.repo
    BY <1>21 DEF UploadWrite, RunType
  <2>2. UNCHANGED <<repo, gen, maint, row, key, phase, hb, answer, lastDrop>>
    BY <1>21 DEF UploadWrite
  <2>3. run.asked \cup run.exists \cup run.absent = {} /\ RowsSeen(run.at)
    BY <2>1
  <2>4. run.best <= run'.best /\ run.at <= run'.best /\ run'.best <= gen
    BY <2>1 DEF Max2
  <2>5. phase \in {"scan", "gaveup"}
    BY <2>1 DEF NoRun
  <2>6. RowsSeen(run'.best)
    <3>1. run'.best \in Gen
      BY DEF RunType
    <3> QED
      BY <2>3, <2>4, <3>1, RowsSeenMore
  <2> QED
    BY <2>1, <2>2, <2>3, <2>4, <2>5, <2>6
<1>22. CASE MarkUploaded
  <2>1. /\ run'.asked = run.asked /\ run'.exists = run.exists /\ run'.absent = run.absent
        /\ run'.sent = {} /\ run'.wrote = {} /\ run'.at = run.at /\ run'.best = 0 /\ run.wrote # {}
    BY <1>22 DEF MarkUploaded, RunType
  <2>2. UNCHANGED <<repo, gen, maint, row, key, phase, hb, answer, lastDrop>>
    BY <1>22 DEF MarkUploaded, Stay, serverVars
  <2> QED
    BY <2>1, <2>2 DEF NoRun
<1>23. CASE Accepted
  BY <1>23 DEF Accepted, Scanned, EndRound, NoBeat, NoAnswer, NoRun, serverVars
<1>24. CASE Repair
  BY <1>24 DEF Repair, Scanned, Forget, Unconfirmed, NoRun, Trusted, Stay, serverVars
<1>25. CASE GiveUp
  BY <1>25 DEF GiveUp, Scanned, Stay, serverVars
<1>26. CASE RunFails
  BY <1>26 DEF RunFails, EndRound, NoBeat, NoAnswer, NoRun, serverVars
<1>27. CASE Persist
  BY <1>27 DEF Persist, serverVars, history
<1>28. CASE AgentCrash
  BY <1>28 DEF AgentCrash, EndRound, NoBeat, NoAnswer, NoRun, serverVars
<1>29. CASE \E k \in Key : Reconfigure(k)
  BY <1>29 DEF Reconfigure, serverVars, history
<1> QED
  BY <1>1, <1>2, <1>3, <1>4, <1>5, <1>6, <1>7, <1>8, <1>9, <1>10, <1>11, <1>12, <1>13, <1>14, <1>15,
     <1>16, <1>17, <1>18, <1>19, <1>20, <1>21, <1>22, <1>23, <1>24, <1>25, <1>26, <1>27, <1>28, <1>29
     DEF Next, ServerStep, SyncStep, RunStep

-----------------------------------------------------------------------------
(* Repairs.                                                                *)

\* Every repair but the first answers a chunk dropped during the run: what a
\* run lacks after a repair it is asking for or sending, until it is dropped.
LEMMA RepairsKept ==
  ASSUME CatalogInv, TypeOK', Next
  PROVE  RepairsCost'
<1>a. TypeOK /\ RoundOK
  BY DEF CatalogInv
<1> USE <1>a, Fields DEF CatalogInv, RepairsCost, Lost
<1>1. CASE \E H \in SUBSET Hash : Drop(H)
  BY <1>1 DEF Drop, NoMaint, agentVars
<1>2. CASE BumpChunkGeneration
  BY <1>2 DEF BumpChunkGeneration, NoMaint, agentVars
<1>3. CASE \E g \in Gen : PruneDelete(g)
  BY <1>3 DEF PruneDelete, NoMaint, agentVars
<1>4. CASE PruneAdvance
  BY <1>4 DEF PruneAdvance, NoMaint, agentVars, history
<1>5. CASE MaintBreaks
  BY <1>5 DEF MaintBreaks, NoMaint, agentVars
<1>6. CASE ReplaceRepository
  BY <1>6 DEF ReplaceRepository, agentVars, RoundOK
<1>7. CASE Heartbeat
  BY <1>7 DEF Heartbeat, Stay, serverVars, RoundOK, NoRun
<1>8. CASE SyncNew
  BY <1>8 DEF SyncNew, NoRow, UpsertServerState, Confirmed, Stay, serverVars
<1>9. CASE SyncReset
  BY <1>9 DEF SyncReset, NoRow, Forget, Unconfirmed, NoAnswer, Stay, serverVars
<1>10. CASE SyncCurrent
  BY <1>10 DEF SyncCurrent, SameRepository, NoRow, Behind, UpsertServerState, Stay, serverVars
<1>11. CASE AnswerState
  BY <1>11 DEF AnswerState, SameRepository, NoRow, Behind, UpsertServerState, Stay, serverVars
<1>12. CASE AnswerRows
  BY <1>12 DEF AnswerRows, Unconfirmed, Confirmed, Pruned, Stay, serverVars
<1>13. CASE Upsert
  BY <1>13 DEF Upsert, UpsertServerState, NoAnswer, Stay, serverVars
<1>14. CASE SyncFails
  BY <1>14 DEF SyncFails, SameRepository, NoRow, Behind, NoAnswer, Stay, serverVars
<1>15. CASE \E W \in SUBSET Hash \ {{}} : StartRun(W)
  BY <1>15 DEF StartRun, Scan, NoRun, Trusted, serverVars
<1>16. CASE NothingDue
  BY <1>16 DEF NothingDue, EndRound, NoBeat, NoAnswer, NoRun, serverVars
<1>17. CASE \E B \in SUBSET Hash : CheckState(B)
  BY <1>17 DEF CheckState, Stay, serverVars
<1>18. CASE \E B \in SUBSET Hash : UploadState(B)
  BY <1>18 DEF UploadState, Stay, serverVars
<1>19. CASE CheckIndex
  BY <1>19 DEF CheckIndex, Stay, serverVars
<1>20. CASE MarkChecked
  BY <1>20 DEF MarkChecked, Unconfirmed, ConfirmAt, Stay, serverVars
<1>21. CASE UploadWrite
  BY <1>21 DEF UploadWrite
<1>22. CASE MarkUploaded
  BY <1>22 DEF MarkUploaded, ConfirmAt, Stay, serverVars
<1>23. CASE Accepted
  BY <1>23 DEF Accepted, Scanned, EndRound, NoBeat, NoAnswer, NoRun, serverVars
<1>24. CASE Repair
  BY <1>24 DEF Repair, Scanned, Forget, Unconfirmed, NoRun, Trusted, Stay, serverVars
<1>25. CASE GiveUp
  BY <1>25 DEF GiveUp, Scanned, Stay, serverVars
<1>26. CASE RunFails
  BY <1>26 DEF RunFails, EndRound, NoBeat, NoAnswer, NoRun, serverVars
<1>27. CASE Persist
  BY <1>27 DEF Persist, serverVars, history
<1>28. CASE AgentCrash
  BY <1>28 DEF AgentCrash, EndRound, NoBeat, NoAnswer, NoRun, serverVars
<1>29. CASE \E k \in Key : Reconfigure(k)
  BY <1>29 DEF Reconfigure, serverVars, history
<1> QED
  BY <1>1, <1>2, <1>3, <1>4, <1>5, <1>6, <1>7, <1>8, <1>9, <1>10, <1>11, <1>12, <1>13, <1>14, <1>15,
     <1>16, <1>17, <1>18, <1>19, <1>20, <1>21, <1>22, <1>23, <1>24, <1>25, <1>26, <1>27, <1>28, <1>29
     DEF Next, ServerStep, SyncStep, RunStep

-----------------------------------------------------------------------------
(* The catalog.                                                            *)

\* The journal stays complete after what was pruned: a drop enters it with
\* the generation it makes, and what makes room below moves the mark.
LEMMA JournalKept ==
  ASSUME CatalogInv, TypeOK', Next, JournalComplete, ~misled'
  PROVE  JournalComplete'
<1>a. TypeOK /\ RoundOK
  BY DEF CatalogInv
<1> USE <1>a, Fields DEF JournalComplete, Pruned, Max2, RoundOK, TypeOK
<1>1. CASE \E H \in SUBSET Hash : Drop(H)
  BY <1>1 DEF Drop, NoMaint, agentVars
<1>2. CASE BumpChunkGeneration
  BY <1>2 DEF BumpChunkGeneration, NoMaint, agentVars
<1>3. CASE \E g \in Gen : PruneDelete(g)
  BY <1>3 DEF PruneDelete, NoMaint, agentVars
<1>4. CASE PruneAdvance
  BY <1>4 DEF PruneAdvance, NoMaint, agentVars, history
<1>5. CASE MaintBreaks
  BY <1>5 DEF MaintBreaks, NoMaint, agentVars
<1>6. CASE ReplaceRepository
  BY <1>6 DEF ReplaceRepository, agentVars
<1>7. CASE Heartbeat
  BY <1>7 DEF Heartbeat, Stay, serverVars
<1>8. CASE SyncNew
  BY <1>8 DEF SyncNew, NoRow, UpsertServerState, Confirmed, Stay, serverVars
<1>9. CASE SyncReset
  BY <1>9 DEF SyncReset, NoRow, Forget, Unconfirmed, NoAnswer, Stay, serverVars
<1>10. CASE SyncCurrent
  BY <1>10 DEF SyncCurrent, SameRepository, NoRow, Behind, UpsertServerState, Stay, serverVars
<1>11. CASE AnswerState
  BY <1>11 DEF AnswerState, SameRepository, NoRow, Behind, UpsertServerState, Stay, serverVars
<1>12. CASE AnswerRows
  BY <1>12 DEF AnswerRows, Unconfirmed, Confirmed, Pruned, Stay, serverVars
<1>13. CASE Upsert
  BY <1>13 DEF Upsert, UpsertServerState, NoAnswer, Stay, serverVars
<1>14. CASE SyncFails
  BY <1>14 DEF SyncFails, SameRepository, NoRow, Behind, NoAnswer, Stay, serverVars
<1>15. CASE \E W \in SUBSET Hash \ {{}} : StartRun(W)
  BY <1>15 DEF StartRun, Scan, NoRun, Trusted, serverVars
<1>16. CASE NothingDue
  BY <1>16 DEF NothingDue, EndRound, NoBeat, NoAnswer, NoRun, serverVars
<1>17. CASE \E B \in SUBSET Hash : CheckState(B)
  BY <1>17 DEF CheckState, Stay, serverVars
<1>18. CASE \E B \in SUBSET Hash : UploadState(B)
  BY <1>18 DEF UploadState, Stay, serverVars
<1>19. CASE CheckIndex
  BY <1>19 DEF CheckIndex, Stay, serverVars
<1>20. CASE MarkChecked
  BY <1>20 DEF MarkChecked, Unconfirmed, ConfirmAt, Stay, serverVars
<1>21. CASE UploadWrite
  BY <1>21 DEF UploadWrite
<1>22. CASE MarkUploaded
  BY <1>22 DEF MarkUploaded, ConfirmAt, Stay, serverVars
<1>23. CASE Accepted
  BY <1>23 DEF Accepted, Scanned, EndRound, NoBeat, NoAnswer, NoRun, serverVars
<1>24. CASE Repair
  BY <1>24 DEF Repair, Scanned, Forget, Unconfirmed, NoRun, Trusted, Stay, serverVars
<1>25. CASE GiveUp
  BY <1>25 DEF GiveUp, Scanned, Stay, serverVars
<1>26. CASE RunFails
  BY <1>26 DEF RunFails, EndRound, NoBeat, NoAnswer, NoRun, serverVars
<1>27. CASE Persist
  BY <1>27 DEF Persist, serverVars, history
<1>28. CASE AgentCrash
  BY <1>28 DEF AgentCrash, EndRound, NoBeat, NoAnswer, NoRun, serverVars
<1>29. CASE \E k \in Key : Reconfigure(k)
  BY <1>29 DEF Reconfigure, serverVars, history
<1> QED
  BY <1>1, <1>2, <1>3, <1>4, <1>5, <1>6, <1>7, <1>8, <1>9, <1>10, <1>11, <1>12, <1>13, <1>14, <1>15,
     <1>16, <1>17, <1>18, <1>19, <1>20, <1>21, <1>22, <1>23, <1>24, <1>25, <1>26, <1>27, <1>28, <1>29
     DEF Next, ServerStep, SyncStep, RunStep

\* Once misled, for good.
LEMMA MisledStays ==
  ASSUME Next, misled
  PROVE  misled'
<1>1. CASE \E H \in SUBSET Hash : Drop(H)
  BY <1>1 DEF Drop, agentVars
<1>2. CASE BumpChunkGeneration
  BY <1>2 DEF BumpChunkGeneration, agentVars
<1>3. CASE \E g \in Gen : PruneDelete(g)
  BY <1>3 DEF PruneDelete, agentVars
<1>4. CASE PruneAdvance
  BY <1>4 DEF PruneAdvance, agentVars, history
<1>5. CASE MaintBreaks
  BY <1>5 DEF MaintBreaks, agentVars
<1>6. CASE ReplaceRepository
  BY <1>6 DEF ReplaceRepository, agentVars
<1>7. CASE Heartbeat
  BY <1>7 DEF Heartbeat, Stay, serverVars
<1>8. CASE SyncNew
  BY <1>8 DEF SyncNew, Stay, serverVars
<1>9. CASE SyncReset
  BY <1>9 DEF SyncReset, Stay, serverVars
<1>10. CASE SyncCurrent
  BY <1>10 DEF SyncCurrent, Stay, serverVars
<1>11. CASE AnswerState
  BY <1>11 DEF AnswerState, Stay, serverVars
<1>12. CASE AnswerRows
  BY <1>12 DEF AnswerRows, Stay, serverVars
<1>13. CASE Upsert
  BY <1>13 DEF Upsert, Stay, serverVars
<1>14. CASE SyncFails
  BY <1>14 DEF SyncFails, Stay, serverVars
<1>15. CASE \E W \in SUBSET Hash \ {{}} : StartRun(W)
  BY <1>15 DEF StartRun, serverVars
<1>16. CASE NothingDue
  BY <1>16 DEF NothingDue, EndRound, serverVars
<1>17. CASE \E B \in SUBSET Hash : CheckState(B)
  BY <1>17 DEF CheckState, Stay, serverVars
<1>18. CASE \E B \in SUBSET Hash : UploadState(B)
  BY <1>18 DEF UploadState, Stay, serverVars
<1>19. CASE CheckIndex
  BY <1>19 DEF CheckIndex, Stay, serverVars
<1>20. CASE MarkChecked
  BY <1>20 DEF MarkChecked, Stay, serverVars
<1>21. CASE UploadWrite
  BY <1>21 DEF UploadWrite
<1>22. CASE MarkUploaded
  BY <1>22 DEF MarkUploaded, Stay, serverVars
<1>23. CASE Accepted
  BY <1>23 DEF Accepted, EndRound, serverVars
<1>24. CASE Repair
  BY <1>24 DEF Repair, Stay, serverVars
<1>25. CASE GiveUp
  BY <1>25 DEF GiveUp, Stay, serverVars
<1>26. CASE RunFails
  BY <1>26 DEF RunFails, EndRound, serverVars
<1>27. CASE Persist
  BY <1>27 DEF Persist, serverVars, history
<1>28. CASE AgentCrash
  BY <1>28 DEF AgentCrash, EndRound, serverVars
<1>29. CASE \E k \in Key : Reconfigure(k)
  BY <1>29 DEF Reconfigure, serverVars, history
<1> QED
  BY <1>1, <1>2, <1>3, <1>4, <1>5, <1>6, <1>7, <1>8, <1>9, <1>10, <1>11, <1>12, <1>13, <1>14, <1>15,
     <1>16, <1>17, <1>18, <1>19, <1>20, <1>21, <1>22, <1>23, <1>24, <1>25, <1>26, <1>27, <1>28, <1>29
     DEF Next, ServerStep, SyncStep, RunStep

\* Chunks an answer has named are confirmed, and others may be forgotten.
LEMMA ConfirmKeeps ==
  ASSUME TypeOK, TypeOK', RoundOK, CatalogFresh, phase \in {"scan", "gaveup"},
         NEW S \in SUBSET (run.exists \cup run.wrote), NEW M \in SUBSET Hash,
         catalog' = [h \in Hash |-> IF h \in M THEN Unconfirmed ELSE ConfirmAt(S, run.best)[h]],
         run'.exists = {}, run'.wrote = {},
         UNCHANGED <<repo, gen, index, maint, row, key, phase, hb, answer, lastDrop, misled>>
  PROVE  CatalogFresh'
<1> USE Fields
<1>1. S \subseteq Hash
  OBVIOUS
<1>2. \A h \in Hash : Confirmed(h)' => 
        \/ catalog'[h] = catalog[h] /\ Confirmed(h)
        \/ catalog'[h].repo = hb.repo /\ catalog'[h].gen = run.best /\ h \in S
  BY <1>1 DEF ConfirmAt, Unconfirmed, Confirmed
<1>3. ASSUME NEW h \in Hash, Confirmed(h)'
      PROVE  /\ catalog'[h].repo <= repo /\ catalog'[h].repo <= hb.repo
             /\ \A k \in Key : row[k].repo <= catalog'[h].repo
             /\ catalog'[h].repo = repo => catalog'[h].gen <= gen /\ RowsSeen(catalog'[h].gen)
  <2>1. CASE catalog'[h] = catalog[h] /\ Confirmed(h)
    BY <2>1, <1>3 DEF CatalogFresh
  <2>2. CASE catalog'[h].repo = hb.repo /\ catalog'[h].gen = run.best /\ h \in S
    BY <2>2 DEF RoundOK
  <2> QED
    BY <1>2, <1>3, <2>1, <2>2
<1> QED
  BY <1>3 DEF CatalogFresh, RowsSeen

LEMMA ConfirmBelow ==
  ASSUME TypeOK, RoundOK, CatalogFresh, ConfirmedBelowDrop, ~misled,
         NEW S \in SUBSET (run.exists \cup run.wrote), NEW M \in SUBSET Hash,
         catalog' = [h \in Hash |-> IF h \in M THEN Unconfirmed ELSE ConfirmAt(S, run.best)[h]],
         UNCHANGED <<repo, index, maint, hb, lastDrop, misled>>
  PROVE  ConfirmedBelowDrop'
<1> USE Fields
<1>1. S \subseteq Hash
  OBVIOUS
<1>2. \A h \in Hash : Confirmed(h)' => 
        \/ catalog'[h] = catalog[h] /\ Confirmed(h)
        \/ catalog'[h].repo = hb.repo /\ catalog'[h].gen = run.best /\ h \in S
  BY <1>1 DEF ConfirmAt, Unconfirmed, Confirmed
<1>3. ASSUME NEW h \in Hash, Confirmed(h)', catalog'[h].repo = repo, ~Known(h)
      PROVE  catalog'[h].gen < lastDrop[h]
  <2>1. CASE catalog'[h] = catalog[h] /\ Confirmed(h)
    BY <2>1, <1>3 DEF ConfirmedBelowDrop, Known
  <2>2. CASE catalog'[h].repo = hb.repo /\ catalog'[h].gen = run.best /\ h \in S
    BY <2>2, <1>3 DEF CatalogFresh
  <2> QED
    BY <1>2, <1>3, <2>1, <2>2
<1> QED
  BY <1>3 DEF ConfirmedBelowDrop, Known

\* Confirmations stay of the repository heard of, and below the last drop of
\* their chunk: an answer of the journal forgets the chunks dropped since.
LEMMA FreshKept ==
  ASSUME CatalogInv, TypeOK', Next, RoundOK', JournalComplete, CatalogFresh,
         ConfirmedBelowDrop, ~misled, ~misled'
  PROVE  CatalogFresh' /\ ConfirmedBelowDrop'
<1>a. TypeOK /\ RoundOK
  BY DEF CatalogInv
<1> USE <1>a, Fields DEF CatalogFresh, ConfirmedBelowDrop, Confirmed, Known, RowsSeen, Max2, RoundOK, TypeOK
<1>1. CASE \E H \in SUBSET Hash : Drop(H)
  BY <1>1 DEF Drop, NoMaint, agentVars
<1>2. CASE BumpChunkGeneration
  <2>1. /\ gen' = gen + 1 /\ maint'.dropped = {}
        /\ \A h \in Hash : lastDrop'[h] = IF h \in maint.dropped THEN gen + 1 ELSE lastDrop[h]
        /\ UNCHANGED <<repo, index, row, catalog, key, phase, hb, answer, run>>
    BY <1>2 DEF BumpChunkGeneration, NoMaint, agentVars
  <2>2. ASSUME NEW h \in Hash, Confirmed(h)
        PROVE  /\ catalog[h].repo = repo => catalog[h].gen <= gen + 1 /\ RowsSeen(catalog[h].gen)
               /\ catalog[h].repo = repo /\ h \notin index => catalog[h].gen < lastDrop'[h]
    BY <2>1, <2>2, CatalogTypes
  <2>3. ASSUME NEW h \in run.exists \cup run.wrote, hb.repo = repo, h \notin index
        PROVE  run.best < lastDrop'[h]
    <3>1. h \in Hash
      OBVIOUS
    <3> QED
      BY <2>1, <2>3, <3>1
  <2>4. CatalogFresh'
    BY <2>1, <2>2, <2>3
  <2>5. ConfirmedBelowDrop'
    BY <2>1, <2>2
  <2> QED
    BY <2>4, <2>5
<1>3. CASE \E g \in Gen : PruneDelete(g)
  BY <1>3 DEF PruneDelete, NoMaint, agentVars
<1>4. CASE PruneAdvance
  BY <1>4 DEF PruneAdvance, NoMaint, agentVars, history
<1>5. CASE MaintBreaks
  BY <1>5 DEF MaintBreaks, NoMaint, agentVars
<1>6. CASE ReplaceRepository
  <2>1. /\ repo' = repo + 1 /\ index' = {} /\ lastDrop' = [h \in Hash |-> 0]
        /\ UNCHANGED <<maint, row, catalog, key, phase, hb, answer, run>>
    BY <1>6 DEF ReplaceRepository, agentVars
  <2>2. \A h \in Hash : Confirmed(h) => catalog[h].repo < repo'
    BY <2>1, CatalogTypes
  <2>3. hb.repo < repo'
    BY <2>1
  <2>4. ConfirmedBelowDrop'
    BY <2>1, <2>2, CatalogTypes
  <2>5. CatalogFresh'
    <3>1. ASSUME NEW h \in Hash, Confirmed(h)
          PROVE  /\ catalog[h].repo <= repo' /\ catalog[h].repo # repo'
                 /\ phase # "idle" => catalog[h].repo <= hb.repo
                 /\ \A k \in Key : row[k].repo <= catalog[h].repo
                 /\ phase = "upsert" => catalog[h].repo = hb.repo
      BY <2>1, <2>2, <3>1, CatalogTypes
    <3> QED
      BY <2>1, <2>3, <3>1
  <2> QED
    BY <2>4, <2>5
<1>7. CASE Heartbeat
  <2>1. /\ hb'.repo = repo /\ phase = "idle" /\ phase' = "sync"
        /\ UNCHANGED <<repo, gen, index, maint, row, key, catalog, answer, run, lastDrop>>
    BY <1>7 DEF Heartbeat, Stay, serverVars
  <2>2. run.exists = {} /\ run.wrote = {}
    BY <2>1 DEF NoRun
  <2> QED
    BY <2>1, <2>2
<1>8. CASE SyncNew
  BY <1>8 DEF SyncNew, NoRow, UpsertServerState, Confirmed, Stay, serverVars
<1>9. CASE SyncReset
  <2>1. \A h \in Hash : ~Confirmed(h)'
    BY <1>9 DEF SyncReset, Forget, Unconfirmed
  <2>2. /\ phase = "sync" /\ phase' = "upsert"
        /\ UNCHANGED <<repo, gen, index, maint, row, key, hb, run, lastDrop>>
    BY <1>9 DEF SyncReset, Stay, serverVars
  <2>3. run.exists = {} /\ run.wrote = {}
    BY <2>2 DEF NoRun
  <2> QED
    BY <2>1, <2>2, <2>3
<1>10. CASE SyncCurrent
  BY <1>10 DEF SyncCurrent, SameRepository, NoRow, Behind, UpsertServerState, Stay, serverVars
<1>11. CASE AnswerState
  BY <1>11 DEF AnswerState, SameRepository, NoRow, Behind, UpsertServerState, Stay, serverVars
<1>12. CASE AnswerRows
  <2>1. /\ phase = "answering" /\ phase' = "upsert" /\ repo = hb.repo
        /\ UNCHANGED <<repo, gen, journal, index, maint, row, key, hb, answer, run, lastDrop>>
        /\ row[key].repo = repo /\ row[key].inv = answer.since
    BY <1>12 DEF AnswerRows, Stay, serverVars
  <2>a. ~(Pruned > answer.since)
    BY <1>12 DEF AnswerRows
  <2> DEFINE listed(h) == \E e \in journal : e.hash = h /\ answer.since < e.gen /\ e.gen <= answer.to
  <2>2. ASSUME NEW h \in Hash, Confirmed(h)'
        PROVE  /\ Confirmed(h) /\ ~listed(h)
               /\ catalog'[h].repo = catalog[h].repo /\ catalog'[h].gen = answer.to
    BY <1>12, <2>2 DEF AnswerRows, Listed, Unconfirmed, CatalogType
  <2>3. ASSUME NEW h \in Hash, Confirmed(h)
        PROVE  /\ catalog[h].repo = repo /\ catalog[h].gen >= answer.since
               /\ catalog[h].gen \in Int
    <3>1. /\ catalog[h].repo \in 0..MaxRepo /\ catalog[h].gen \in -1..MaxGen
          /\ catalog[h].repo <= repo /\ row[key].repo <= catalog[h].repo
      BY <2>3, CatalogTypes
    <3>2. catalog[h].repo = repo
      BY <2>1, <3>1
    <3> QED
      BY <2>1, <2>3, <3>1, <3>2
  <2>4. ASSUME NEW h \in Hash, Confirmed(h)', h \notin index \cup maint.dropped
        PROVE  answer.to < lastDrop[h]
    <3>1. lastDrop[h] > answer.since
      BY <2>2, <2>3, <2>4
    <3>2. [gen |-> lastDrop[h], hash |-> h] \in journal
      <4>1. Pruned \in Int
        BY DEF Pruned
      <4>2. lastDrop[h] > Pruned
        BY <2>a, <3>1, <4>1
      <4> QED
        BY <4>2 DEF JournalComplete
    <3>3. ~listed(h)
      BY <2>2, <2>4
    <3> QED
      BY <3>1, <3>2, <3>3
  <2>5. run.exists = {} /\ run.wrote = {}
    BY <2>1 DEF NoRun
  <2>6. CatalogFresh'
    <3>1. RowsSeen(answer.to)
      BY <2>1
    <3>2. ASSUME NEW h \in Hash, Confirmed(h)'
          PROVE  /\ catalog'[h].repo = repo /\ catalog'[h].gen = answer.to
                 /\ \A k \in Key : row[k].repo <= catalog'[h].repo
      BY <2>2, <2>3, <3>2
    <3> QED
      BY <2>1, <2>5, <3>1, <3>2
  <2>7. ConfirmedBelowDrop'
    <3>1. ASSUME NEW h \in Hash, Confirmed(h)', h \notin index \cup maint.dropped
          PROVE  catalog'[h].gen < lastDrop[h]
      BY <2>2, <2>4, <3>1
    <3> QED
      BY <2>1, <3>1
  <2> QED
    BY <2>6, <2>7
<1>13. CASE Upsert
  BY <1>13 DEF Upsert, UpsertServerState, NoAnswer, Stay, serverVars
<1>14. CASE SyncFails
  BY <1>14 DEF SyncFails, SameRepository, NoRow, Behind, NoAnswer, Stay, serverVars
<1>15. CASE \E W \in SUBSET Hash \ {{}} : StartRun(W)
  BY <1>15 DEF StartRun, Scan, NoRun, Trusted, serverVars
<1>16. CASE NothingDue
  BY <1>16 DEF NothingDue, EndRound, NoBeat, NoAnswer, NoRun, serverVars
<1>17. CASE \E B \in SUBSET Hash : CheckState(B)
  <2>1. PICK B \in SUBSET Hash : CheckState(B)
    BY <1>17
  <2>2. run' = [run EXCEPT !.asked = B, !.at = gen]
    BY <2>1 DEF CheckState
  <2>3. run'.exists = run.exists /\ run'.wrote = run.wrote /\ run'.best = run.best
    BY <2>2 DEF RunType
  <2>4. UNCHANGED <<repo, gen, index, maint, row, catalog, key, phase, hb, answer, lastDrop>>
    BY <2>1 DEF CheckState, Stay, serverVars
  <2> QED
    BY <2>3, <2>4
<1>18. CASE \E B \in SUBSET Hash : UploadState(B)
  <2>1. PICK B \in SUBSET Hash : UploadState(B)
    BY <1>18
  <2>2. run' = [run EXCEPT !.sent = B, !.at = gen]
    BY <2>1 DEF UploadState
  <2>3. run'.exists = run.exists /\ run'.wrote = run.wrote /\ run'.best = run.best
    BY <2>2 DEF RunType
  <2>4. UNCHANGED <<repo, gen, index, maint, row, catalog, key, phase, hb, answer, lastDrop>>
    BY <2>1 DEF UploadState, Stay, serverVars
  <2> QED
    BY <2>3, <2>4
<1>19. CASE CheckIndex
  <2>1. /\ run'.exists = run.exists \cup (run.asked \cap index) /\ run'.wrote = run.wrote
        /\ run'.best = Max2(run.best, run.at) /\ run.asked # {}
        /\ UNCHANGED <<repo, gen, index, maint, row, catalog, key, phase, hb, answer, lastDrop>>
    <3>1. run'.exists = run.exists \cup (run.asked \cap index) /\ run'.wrote = run.wrote
      BY <1>19 DEF CheckIndex, RunType
    <3>2. run'.best = Max2(run.best, run.at) /\ run.asked # {}
      BY <1>19 DEF CheckIndex, RunType
    <3>3. UNCHANGED <<repo, gen, index, maint, row, catalog, key, phase, hb, answer, lastDrop>>
      BY <1>19 DEF CheckIndex, Stay, serverVars
    <3> QED
      BY <3>1, <3>2, <3>3
  <2>2. run.wrote = {} /\ (run.exists # {} => run.best = run.at)
    BY <1>19 DEF CheckIndex
  <2> QED
    BY <2>1, <2>2
<1>20. CASE MarkChecked
  <2>1. /\ run'.exists = {} /\ run'.wrote = run.wrote /\ run.exists \cup run.absent # {}
        /\ UNCHANGED <<repo, gen, index, maint, row, key, phase, hb, answer, lastDrop, misled>>
    BY <1>20 DEF MarkChecked, Stay, serverVars, RunType
  <2>2. run.wrote = {} /\ phase \in {"scan", "gaveup"}
    BY <2>1 DEF NoRun
  <2>3. PICK M \in {{}, run.absent} :
          catalog' = [h \in Hash |-> IF h \in M THEN Unconfirmed ELSE ConfirmAt(run.exists, run.best)[h]]
    BY <1>20 DEF MarkChecked
  <2>4. M \in SUBSET Hash /\ run.exists \in SUBSET (run.exists \cup run.wrote)
    BY DEF RunType
  <2> HIDE DEF CatalogFresh, ConfirmedBelowDrop, RoundOK, TypeOK
  <2>5. CatalogFresh'
    BY <2>1, <2>2, <2>3, <2>4, ConfirmKeeps
  <2>6. ConfirmedBelowDrop'
    BY <2>1, <2>3, <2>4, ConfirmBelow
  <2> QED
    BY <2>5, <2>6
<1>21. CASE UploadWrite
  <2>1. /\ run'.exists = run.exists /\ run'.wrote = run.wrote \cup run.sent
        /\ run'.best = Max2(run.best, run.at) /\ run.sent # {}
        /\ index' = index \cup run.sent
        /\ UNCHANGED <<repo, gen, maint, row, catalog, key, phase, hb, answer, lastDrop>>
    BY <1>21 DEF UploadWrite, RunType
  <2>2. run.exists = {} /\ (run.wrote # {} => run.best = run.at)
    BY <1>21 DEF UploadWrite
  <2> QED
    BY <2>1, <2>2
<1>22. CASE MarkUploaded
  <2>1. /\ run'.exists = run.exists /\ run'.wrote = {} /\ run.wrote # {}
        /\ UNCHANGED <<repo, gen, index, maint, row, key, phase, hb, answer, lastDrop, misled>>
    BY <1>22 DEF MarkUploaded, Stay, serverVars, RunType
  <2>2. run.exists = {} /\ phase \in {"scan", "gaveup"}
    BY <2>1 DEF NoRun
  <2>3. catalog' = [h \in Hash |-> IF h \in {} THEN Unconfirmed ELSE ConfirmAt(run.wrote, run.best)[h]]
    BY <1>22 DEF MarkUploaded, ConfirmAt
  <2>4. run.wrote \in SUBSET (run.exists \cup run.wrote) /\ {} \in SUBSET Hash
    OBVIOUS
  <2> HIDE DEF CatalogFresh, ConfirmedBelowDrop, RoundOK, TypeOK
  <2>5. CatalogFresh'
    BY <2>1, <2>2, <2>3, <2>4, ConfirmKeeps
  <2>6. ConfirmedBelowDrop'
    BY <2>1, <2>3, <2>4, ConfirmBelow
  <2> QED
    BY <2>5, <2>6
<1>23. CASE Accepted
  BY <1>23 DEF Accepted, Scanned, EndRound, NoBeat, NoAnswer, NoRun, serverVars
<1>24. CASE Repair
  BY <1>24 DEF Repair, Scanned, Forget, Unconfirmed, NoRun, Trusted, Stay, serverVars
<1>25. CASE GiveUp
  BY <1>25 DEF GiveUp, Scanned, Stay, serverVars
<1>26. CASE RunFails
  BY <1>26 DEF RunFails, EndRound, NoBeat, NoAnswer, NoRun, serverVars
<1>27. CASE Persist
  BY <1>27 DEF Persist, serverVars, history
<1>28. CASE AgentCrash
  BY <1>28 DEF AgentCrash, EndRound, NoBeat, NoAnswer, NoRun, serverVars
<1>29. CASE \E k \in Key : Reconfigure(k)
  BY <1>29 DEF Reconfigure, serverVars, history
<1> QED
  BY <1>1, <1>2, <1>3, <1>4, <1>5, <1>6, <1>7, <1>8, <1>9, <1>10, <1>11, <1>12, <1>13, <1>14, <1>15,
     <1>16, <1>17, <1>18, <1>19, <1>20, <1>21, <1>22, <1>23, <1>24, <1>25, <1>26, <1>27, <1>28, <1>29
     DEF Next, ServerStep, SyncStep, RunStep

-----------------------------------------------------------------------------
(* The theorems.                                                           *)

LEMMA InitCatalogInv ==
  Init => CatalogInv
<1> SUFFICES ASSUME Init PROVE CatalogInv
  OBVIOUS
<1> USE DEF Init, NoMaint, NoRow, NoBeat, NoAnswer, NoRun, Unconfirmed
<1>1. TypeOK
  <2>1. row \in [Key -> [repo : 0..MaxRepo, inv : Gen]] /\ catalog \in CatalogType /\ saved \in CatalogType
    BY DEF CatalogType
  <2>2. /\ maint \in [phase : {"idle", "dropped", "pruning"}, dropped : SUBSET Hash, upTo : Gen]
        /\ hb \in Heard /\ answer \in [since : Gen, to : Gen] /\ run \in RunType
    BY DEF Heard, RunType
  <2>3. lastDrop \in [Hash -> Gen]
    OBVIOUS
  <2>4. /\ repo \in 1..MaxRepo /\ gen \in Gen /\ avail \in Gen /\ drops \in 0..MaxRepair
        /\ journal = {} /\ index = {} /\ key \in Key /\ phase = "idle"
    OBVIOUS
  <2>5. misled \in BOOLEAN
    BY Zenon
  <2> HIDE DEF Init
  <2> QED
    BY <2>1, <2>2, <2>3, <2>4, <2>5 DEF TypeOK
<1>2. RoundOK
  BY DEF RoundOK, RowsSeen
<1>3. RepairsCost
  BY DEF RepairsCost
<1>4. JournalComplete /\ CatalogFresh /\ ConfirmedBelowDrop
  BY DEF JournalComplete, Pruned, CatalogFresh, ConfirmedBelowDrop, Confirmed
<1> QED
  BY <1>1, <1>2, <1>3, <1>4 DEF CatalogInv

LEMMA CatalogInvKept ==
  CatalogInv /\ [Next]_vars => CatalogInv'
<1> SUFFICES ASSUME CatalogInv, [Next]_vars PROVE CatalogInv'
  OBVIOUS
<1>1. CASE Next
  <2>1. TypeOK'
    BY <1>1, TypeKept
  <2>2. RoundOK' /\ RepairsCost'
    BY <1>1, <2>1, RoundKept, RepairsKept
  <2>3. ASSUME ~misled'
        PROVE  (JournalComplete /\ CatalogFresh /\ ConfirmedBelowDrop)'
    <3>1. ~misled
      BY <1>1, <2>3, MisledStays
    <3>2. JournalComplete /\ CatalogFresh /\ ConfirmedBelowDrop
      BY <3>1 DEF CatalogInv
    <3> QED
      BY <1>1, <2>1, <2>2, <2>3, <3>1, <3>2, JournalKept, FreshKept
  <2> QED
    BY <2>1, <2>2, <2>3 DEF CatalogInv
<1>2. CASE UNCHANGED vars
  BY <1>2 DEF vars, serverVars, agentVars, history, CatalogInv, TypeOK, RoundOK, RowsSeen, RepairsCost, Lost,
       JournalComplete, Pruned, CatalogFresh, ConfirmedBelowDrop, Confirmed, Known
<1> QED
  BY <1>1, <1>2

\* For any chunks, keys, generations and repositories: between any two steps
\* of server and agent, what they know of each other is in order, and so is
\* the agent's catalog while nothing the code leaves open has misled it.
THEOREM CatalogConsistent == Spec => []CatalogInv
<1>1. Init => CatalogInv
  BY InitCatalogInv
<1>2. CatalogInv /\ [Next]_vars => CatalogInv'
  BY CatalogInvKept
<1> QED
  BY <1>1, <1>2, PTL DEF Spec

\* catalog.go's confirmations and the server's journal together: a chunk the
\* server has dropped is never confirmed at the generation of its drop or
\* later, however drops, answers, uploads and runs interleave.
THEOREM NothingConfirmedPastItsDrop == Spec => []ConfirmedBelowDrop
<1>1. CatalogInv => ConfirmedBelowDrop
  BY DEF CatalogInv, ConfirmedBelowDrop
<1> QED
  BY <1>1, CatalogConsistent, PTL

\* A run references without asking only what the repository behind the
\* server's address now confirmed: syncCatalogWithServer forgets the rest
\* before it remembers the new repository.
THEOREM OwnRepositoryOnly == Spec => []TrustsThisRepository
<1>1. CatalogInv => TrustsThisRepository
  <2> SUFFICES ASSUME CatalogInv, phase = "scan", ~misled, NEW h \in Hash, Trusted(h)
               PROVE  catalog[h].repo = hb.repo
    BY DEF TrustsThisRepository
  <2>1. /\ row[key].repo = hb.repo /\ key \in Key
        /\ catalog[h].repo \in 0..MaxRepo /\ catalog[h].gen \in -1..MaxGen
        /\ hb.repo \in 0..MaxRepo /\ hb.gen \in Gen
    BY Fields, CatalogTypes DEF CatalogInv, TypeOK, RoundOK
  <2>2. Confirmed(h)
    BY <2>1 DEF Trusted, Confirmed
  <2>3. row[key].repo <= catalog[h].repo /\ catalog[h].repo <= hb.repo
    BY <2>1, <2>2 DEF CatalogInv, CatalogFresh
  <2> QED
    BY <2>1, <2>3
<1> QED
  BY <1>1, CatalogConsistent, PTL

\* runBackupWithOptions gives up only after the server has dropped chunks of
\* the run as often as it allows repairs, misled or not.
THEOREM GivesUpForDropsOnly == Spec => []GivesUpOnlyWhileDropping
<1>1. CatalogInv => GivesUpOnlyWhileDropping
  BY DEF CatalogInv, RepairsCost, GivesUpOnlyWhileDropping
<1> QED
  BY <1>1, CatalogConsistent, PTL
=============================================================================
