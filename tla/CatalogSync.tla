----------------------------- MODULE CatalogSync ----------------------------
(***************************************************************************)
(* Chunk generations and the agent's catalog.  The server drops chunks from *)
(* its index and afterwards records them in a journal under a new           *)
(* generation (internal/state/agent_daemon.go); the daemon agent keeps a    *)
(* catalog of chunks the server confirmed, brings it up to date after each  *)
(* heartbeat, and references a chunk without asking while its confirmation  *)
(* is no older than the run (cmd/turbk-agent: catalog.go, backup.go,        *)
(* scan.go, chunk_batch.go).  Requests are not atomic on the server, the    *)
(* chunk catalog is written without fsync, and the table of server states   *)
(* is another database than the chunk catalog.                              *)
(***************************************************************************)
EXTENDS Integers, FiniteSets

CONSTANTS
  Hash,       \* chunk hashes
  Key,        \* (server URL, client id) pairs the agent is configured with
  MaxGen,     \* bound on chunk generations
  MaxRepo,    \* bound on repositories behind the server's address
  MaxRepair,  \* MaxManifestRepairAttempts
  Crashes     \* may the server and the agent's host crash?

ASSUME ConstantsOK ==
  /\ MaxGen \in Nat /\ MaxRepo \in Nat \ {0} /\ MaxRepair \in Nat
  /\ Crashes \in BOOLEAN

VARIABLES
  repo,     \* repository_meta: the repository id ...
  gen,      \* ... the chunk generation ...
  avail,    \* ... and the generation the journal is complete from
  journal,  \* chunk_invalidations: (generation, hash)
  index,    \* hashes in the server's chunk index
  maint,    \* the maintenance run: what it has dropped or is pruning
  row,      \* server_state of the agent, one row per key
  catalog,  \* chunk catalog: the generation a hash was confirmed at
  saved,    \* the catalog as the disk has it
  key,      \* the key the agent runs with
  phase,    \* where the agent's loop is
  hb,       \* the heartbeat response of this round
  answer,   \* invalidations being answered
  run,      \* the backup run of this round
  lastDrop, \* history: the generation a hash was last dropped in
  drops,    \* history: times a chunk of this run was dropped during it
  misled    \* history: has anything made the catalog trust too much?

serverVars == <<repo, gen, avail, journal, index, maint>>
agentVars  == <<row, catalog, saved, key, phase, hb, answer, run>>
history    == <<lastDrop, drops, misled>>
vars == <<serverVars, agentVars, history>>

Gen == 0..MaxGen
NoRow       == [repo |-> 0, inv |-> 0]
Unconfirmed == [repo |-> 0, gen |-> -1]  \* none, 'unknown' or 'missing'
NoMaint     == [phase |-> "idle", dropped |-> {}, upTo |-> 0]
NoBeat      == [repo |-> 0, gen |-> 0, avail |-> 0]
NoAnswer    == [since |-> 0, to |-> 0]
NoRun       == [wanted |-> {}, todo |-> {}, asked |-> {}, at |-> 0,
                exists |-> {}, absent |-> {}, best |-> 0, lacks |-> {},
                sent |-> {}, wrote |-> {}, attempt |-> 0]

Max2(a, b) == IF a > b THEN a ELSE b

Confirmed(h) == catalog[h].gen >= 0
\* scan.go and chunk_batch.go: the chunk is referenced without asking.
Trusted(h)   == catalog[h].gen >= hb.gen

\* The highest generation deleted from the journal.
Pruned == IF maint.phase = "pruning" THEN Max2(avail, maint.upTo) ELSE avail

ConfirmAt(H, g) ==
  [h \in Hash |-> IF h \in H THEN [repo |-> hb.repo, gen |-> g] ELSE catalog[h]]
Forget(H) == [h \in Hash |-> IF h \in H THEN Unconfirmed ELSE catalog[h]]

Init ==
  /\ repo = 1 /\ gen = 0 /\ avail = 0 /\ journal = {} /\ index = {}
  /\ maint = NoMaint
  /\ row = [k \in Key |-> NoRow]
  /\ catalog = [h \in Hash |-> Unconfirmed]
  /\ saved = catalog
  /\ key \in Key
  /\ phase = "idle" /\ hb = NoBeat
  /\ answer = NoAnswer /\ run = NoRun
  /\ lastDrop = [h \in Hash |-> 0] /\ drops = 0 /\ misled = FALSE

-----------------------------------------------------------------------------
(* The server's maintenance.                                               *)

\* cleanupErrorBackupData, compactRepository: hashes no snapshot references
\* leave the index in one batch, ...
Drop(H) ==
  /\ maint.phase = "idle" /\ gen < MaxGen
  /\ H # {} /\ H \subseteq index
  /\ index' = index \ H
  /\ maint' = [NoMaint EXCEPT !.phase = "dropped", !.dropped = H]
  /\ drops' = IF H \cap run.wanted # {} /\ drops < MaxRepair THEN drops + 1 ELSE drops
  /\ UNCHANGED <<repo, gen, avail, journal, agentVars, lastDrop, misled>>

\* Mutated: the generation moves but the hashes are not recorded.
BumpWithoutJournal ==
  /\ maint.phase = "dropped"
  /\ gen' = gen + 1
  /\ lastDrop' = [h \in Hash |-> IF h \in maint.dropped THEN gen' ELSE lastDrop[h]]
  /\ maint' = NoMaint
  /\ UNCHANGED <<repo, avail, journal, index, agentVars, drops, misled>>

\* ... and BumpChunkGeneration, one transaction, makes that known.
BumpChunkGeneration ==
  /\ maint.phase = "dropped"
  /\ gen' = gen + 1
  /\ journal' = journal \cup {[gen |-> gen', hash |-> h] : h \in maint.dropped}
  /\ lastDrop' = [h \in Hash |-> IF h \in maint.dropped THEN gen' ELSE lastDrop[h]]
  /\ maint' = NoMaint
  /\ UNCHANGED <<repo, avail, index, agentVars, drops, misled>>

\* Mutated: only the entries are deleted.
PruneSilently(g) ==
  /\ maint.phase = "idle"
  /\ \E e \in journal : e.gen = g
  /\ journal' = {e \in journal : e.gen > g}
  /\ UNCHANGED <<repo, gen, avail, index, maint, agentVars, history>>

\* PruneChunkInvalidations, three statements: entries up to g are older than
\* the retention; they are deleted, ...
PruneDelete(g) ==
  /\ maint.phase = "idle"
  /\ \E e \in journal : e.gen = g
  /\ journal' = {e \in journal : e.gen > g}
  /\ maint' = [NoMaint EXCEPT !.phase = "pruning", !.upTo = g]
  /\ UNCHANGED <<repo, gen, avail, index, agentVars, lastDrop, drops, misled>>

\* ... then the generation the journal is complete from moves.
PruneAdvance ==
  /\ maint.phase = "pruning"
  /\ avail' = Max2(avail, maint.upTo)
  /\ maint' = NoMaint
  /\ UNCHANGED <<repo, gen, journal, index, agentVars, history>>

\* A crash, or a statement that fails, ends the maintenance run where it is.
MaintBreaks ==
  /\ Crashes /\ maint.phase # "idle"
  /\ misled' = TRUE
  /\ maint' = NoMaint
  /\ UNCHANGED <<repo, gen, avail, journal, index, agentVars, lastDrop, drops>>

\* ensureRepositoryState on an empty data directory: a new repository.
ReplaceRepository ==
  /\ maint.phase = "idle" /\ repo < MaxRepo
  /\ repo' = repo + 1
  /\ gen' = 0 /\ avail' = 0 /\ journal' = {} /\ index' = {}
  /\ lastDrop' = [h \in Hash |-> 0]
  /\ UNCHANGED <<maint, agentVars, drops, misled>>

-----------------------------------------------------------------------------
(* The agent: heartbeat and syncCatalogWithServer.                         *)

Stay == UNCHANGED <<serverVars, key, lastDrop, drops>>
EndRound ==
  /\ phase' = "idle" /\ hb' = NoBeat /\ answer' = NoAnswer /\ run' = NoRun
  /\ drops' = 0
  /\ UNCHANGED <<serverVars, key, lastDrop>>

\* sendHeartbeatWithState; the response carries RepositoryState.
Heartbeat ==
  /\ phase = "idle"
  /\ hb' = [repo |-> repo, gen |-> gen, avail |-> avail]
  /\ phase' = "sync"
  /\ UNCHANGED <<row, catalog, saved, answer, run, misled>> /\ Stay

UpsertServerState(inv) == row' = [row EXCEPT ![key] = [repo |-> hb.repo, inv |-> inv]]

\* The server is new to this key: its generation is taken as known, whatever
\* the chunk catalog holds from other keys.
SyncNew ==
  /\ phase = "sync" /\ row[key] = NoRow
  /\ UpsertServerState(hb.gen)
  /\ phase' = "ready"
  /\ misled' = (misled \/ \E h \in Hash : Confirmed(h))
  /\ UNCHANGED <<catalog, saved, hb, answer, run>> /\ Stay

\* Mutated: only the row learns of the new repository.
SyncKeep ==
  /\ phase = "sync" /\ row[key] # NoRow /\ row[key].repo # hb.repo
  /\ answer' = [NoAnswer EXCEPT !.to = hb.gen]
  /\ phase' = "upsert"
  /\ UNCHANGED <<row, catalog, saved, hb, run, misled>> /\ Stay

\* Another repository: resetServerChunks first, the row afterwards.
SyncReset ==
  /\ phase = "sync" /\ row[key] # NoRow /\ row[key].repo # hb.repo
  /\ catalog' = Forget(Hash)
  /\ answer' = [NoAnswer EXCEPT !.to = hb.gen]
  /\ phase' = "upsert"
  /\ UNCHANGED <<row, saved, hb, run, misled>> /\ Stay

SameRepository == phase = "sync" /\ row[key] # NoRow /\ row[key].repo = hb.repo
Behind         == hb.gen > row[key].inv /\ row[key].inv >= hb.avail

\* Mutated: a compacted journal is no reason to stay behind.
SyncCurrentAdvancing ==
  /\ SameRepository /\ ~Behind
  /\ catalog' = [h \in Hash |-> IF Confirmed(h) THEN [catalog[h] EXCEPT !.gen = hb.gen]
                                ELSE catalog[h]]
  /\ UpsertServerState(hb.gen)
  /\ phase' = "ready"
  /\ UNCHANGED <<saved, hb, answer, run, misled>> /\ Stay

\* Nothing new, or a journal that no longer reaches back: the mark stays.
SyncCurrent ==
  /\ SameRepository /\ ~Behind
  /\ UpsertServerState(row[key].inv)
  /\ phase' = "ready"
  /\ UNCHANGED <<catalog, saved, hb, answer, run, misled>> /\ Stay

\* ChunkInvalidationsSince reads the state first; a journal compacted by
\* then is answered as incomplete, ...
AnswerState ==
  /\ SameRepository /\ Behind /\ repo = hb.repo
  /\ IF row[key].inv < avail
     THEN phase' = "ready" /\ UpsertServerState(row[key].inv) /\ UNCHANGED answer
     ELSE /\ answer' = [since |-> row[key].inv, to |-> gen]
          /\ phase' = "answering" /\ UNCHANGED row
  /\ UNCHANGED <<catalog, saved, hb, run, misled>> /\ Stay

\* Mutated: confirmations advance, the listed hashes keep theirs.
AnswerAdvancingAll ==
  /\ phase = "answering"
  /\ catalog' = [h \in Hash |->
                   IF Confirmed(h) THEN [catalog[h] EXCEPT !.gen = answer.to] ELSE catalog[h]]
  /\ phase' = "upsert"
  /\ UNCHANGED <<row, saved, hb, answer, run, misled>> /\ Stay

\* The rows of the generations asked for.
Listed == {e.hash : e \in {x \in journal : answer.since < x.gen /\ x.gen <= answer.to}}

\* ... then the rows; applyInvalidations forgets them and advances every
\* other confirmation to the generation of the state.
AnswerRows ==
  /\ phase = "answering" /\ repo = hb.repo
  /\ catalog' = [h \in Hash |->
       IF h \in Listed THEN Unconfirmed
       ELSE IF Confirmed(h) THEN [catalog[h] EXCEPT !.gen = answer.to] ELSE catalog[h]]
  /\ phase' = "upsert"
  /\ misled' = (misled \/ Pruned > answer.since)
  /\ UNCHANGED <<row, saved, hb, answer, run>> /\ Stay

Upsert ==
  /\ phase = "upsert"
  /\ UpsertServerState(answer.to)
  /\ answer' = NoAnswer
  /\ phase' = "ready"
  /\ UNCHANGED <<catalog, saved, hb, run, misled>> /\ Stay

\* The journal request fails, or finds more rows than it may answer: the
\* round goes on without it.
SyncFails ==
  /\ phase = "answering" \/ (SameRepository /\ Behind)
  /\ answer' = NoAnswer
  /\ phase' = "ready"
  /\ UNCHANGED <<row, catalog, saved, hb, run, misled>> /\ Stay

-----------------------------------------------------------------------------
(* The agent: runBackupWithOptions.                                        *)

\* The chunks to ask for: those no valid confirmation covers.
Scan(W, attempt) ==
  /\ run' = [NoRun EXCEPT !.wanted = W, !.todo = {h \in W : ~Trusted(h)},
                          !.attempt = attempt]
  /\ phase' = "scan"

\* This round finds a backup due, of files with the chunks W, or none.
StartRun(W) ==
  /\ phase = "ready" /\ repo = hb.repo
  /\ Scan(W, 0)
  /\ drops' = 0
  /\ UNCHANGED <<serverVars, row, catalog, saved, key, hb, answer, lastDrop, misled>>

NothingDue ==
  /\ phase = "ready"
  /\ EndRound
  /\ UNCHANGED <<row, catalog, saved, misled>>

\* handleAgentCheckChunks reads the generation, ...
CheckState(B) ==
  /\ phase = "scan" /\ run.asked = {} /\ run.sent \cup run.wrote = {} /\ repo = hb.repo
  /\ B # {} /\ B \subseteq run.todo
  /\ run' = [run EXCEPT !.asked = B, !.at = gen]
  /\ UNCHANGED <<row, catalog, saved, phase, hb, answer, misled>> /\ Stay

\* Mutated: the generation is read after the index.
CheckIndexFirst ==
  /\ run.asked # {} /\ repo = hb.repo
  /\ run' = [run EXCEPT !.exists = @ \cup run.asked, !.best = gen,
                        !.todo = @ \ run.asked, !.asked = {}, !.at = 0]
  /\ UNCHANGED <<row, catalog, saved, phase, hb, answer, misled>> /\ Stay

\* ... then the index.  checkChunksBatched adds the answer to those of the
\* earlier requests of the call, under the highest generation of them all.
CheckIndex ==
  /\ run.asked # {} /\ repo = hb.repo
  /\ run' = [run EXCEPT !.exists = @ \cup (run.asked \cap index),
                        !.absent = @ \cup (run.asked \ index),
                        !.best = Max2(@, run.at),
                        !.todo = @ \ run.asked, !.asked = {}, !.at = 0]
  /\ misled' = (misled \/ (run.exists # {} /\ run.best # run.at))
  /\ UNCHANGED <<row, catalog, saved, phase, hb, answer>> /\ Stay

\* The call ends: what exists is confirmed; what does not is marked missing
\* when a file was to be reused, and left as it is by a batch to upload.
MarkChecked ==
  /\ run.asked = {} /\ run.exists \cup run.absent # {}
  /\ \E marked \in {{}, run.absent} :
       catalog' = [h \in Hash |-> IF h \in marked THEN Unconfirmed
                                  ELSE ConfirmAt(run.exists, run.best)[h]]
  /\ run' = [run EXCEPT !.lacks = @ \cup run.absent,
                        !.exists = {}, !.absent = {}, !.best = 0]
  /\ UNCHANGED <<row, saved, phase, hb, answer, misled>> /\ Stay

\* handleAgentUploadChunks reads the generation, ...
UploadState(B) ==
  /\ run.asked = {} /\ run.exists \cup run.absent = {} /\ run.sent = {} /\ repo = hb.repo
  /\ B # {} /\ B \subseteq run.lacks
  /\ run' = [run EXCEPT !.sent = B, !.at = gen]
  /\ UNCHANGED <<row, catalog, saved, phase, hb, answer, misled>> /\ Stay

\* ... then writes.  A batch that was split gets the answers of all its
\* parts under the highest generation among them, ...
UploadWrite ==
  /\ run.sent # {} /\ repo = hb.repo
  /\ index' = index \cup run.sent
  /\ run' = [run EXCEPT !.wrote = @ \cup run.sent, !.best = Max2(@, run.at),
                        !.lacks = @ \ run.sent, !.sent = {}, !.at = 0]
  /\ misled' = (misled \/ (run.wrote # {} /\ run.best # run.at))
  /\ UNCHANGED <<repo, gen, avail, journal, maint, row, catalog, saved, key, phase, hb, answer,
                 lastDrop, drops>>

\* ... and its chunks are confirmed at that.
MarkUploaded ==
  /\ run.sent = {} /\ run.wrote # {}
  /\ catalog' = ConfirmAt(run.wrote, run.best)
  /\ run' = [run EXCEPT !.wrote = {}, !.best = 0]
  /\ UNCHANGED <<row, saved, phase, hb, answer, misled>> /\ Stay

Scanned ==
  /\ phase = "scan"
  /\ UNION {run.todo, run.asked, run.exists, run.absent, run.lacks, run.sent, run.wrote} = {}

\* handleAgentPostManifest: every chunk of the manifest is in the index.
Accepted ==
  /\ Scanned /\ repo = hb.repo /\ run.wanted \subseteq index
  /\ EndRound
  /\ UNCHANGED <<row, catalog, saved, misled>>

\* Mutated: the missing chunks keep their confirmation.
RepairUnmarked ==
  /\ Scanned /\ repo = hb.repo /\ run.attempt < MaxRepair
  /\ ~(run.wanted \subseteq index)
  /\ Scan(run.wanted, run.attempt + 1)
  /\ UNCHANGED <<row, catalog, saved, hb, answer, misled>> /\ Stay

\* Mutated: one repair more than the limit.
RepairOnceMore ==
  /\ Scanned /\ repo = hb.repo /\ run.attempt <= MaxRepair
  /\ ~(run.wanted \subseteq index)
  /\ Scan(run.wanted, run.attempt + 1)
  /\ UNCHANGED <<row, catalog, saved, hb, answer, misled>> /\ Stay

\* 409 missing_chunks: they are marked missing and the files read again.
Repair ==
  /\ Scanned /\ repo = hb.repo /\ run.attempt < MaxRepair
  /\ ~(run.wanted \subseteq index)
  /\ LET lost == run.wanted \ index IN
       /\ catalog' = Forget(lost)
       /\ run' = [NoRun EXCEPT !.wanted = run.wanted, !.attempt = run.attempt + 1,
                    !.todo = lost \cup {h \in run.wanted : ~Trusted(h)}]
  /\ phase' = "scan"
  /\ UNCHANGED <<row, saved, hb, answer, misled>> /\ Stay

\* The last repair did not help: failRun.
GiveUp ==
  /\ Scanned /\ repo = hb.repo /\ run.attempt = MaxRepair
  /\ ~(run.wanted \subseteq index)
  /\ phase' = "gaveup"
  /\ UNCHANGED <<row, catalog, saved, hb, answer, run, misled>> /\ Stay

\* Any other error ends the run, 409 for another repository's id included.
RunFails ==
  /\ phase \in {"scan", "gaveup"}
  /\ EndRound
  /\ UNCHANGED <<row, catalog, saved, misled>>

-----------------------------------------------------------------------------
(* The agent's disk and configuration.                                     *)

\* Pebble writes its log some time after a NoSync commit; flush forces it.
Persist ==
  /\ saved # catalog
  /\ saved' = catalog
  /\ UNCHANGED <<serverVars, row, catalog, key, phase, hb, answer, run, history>>

\* The agent's host goes down: what Pebble had not written is lost, the rows
\* of server_state, in SQLite, are not.
AgentCrash ==
  /\ Crashes
  /\ catalog' = saved
  /\ misled' = (misled \/ saved # catalog)
  /\ EndRound
  /\ UNCHANGED <<row, saved>>

\* The agent is restarted with another server URL or client id.
Reconfigure(k) ==
  /\ phase = "idle" /\ k # key
  /\ key' = k
  /\ UNCHANGED <<serverVars, row, catalog, saved, phase, hb, answer, run, history>>

ServerStep ==
  \/ \E H \in SUBSET Hash : Drop(H)
  \/ BumpChunkGeneration
  \/ \E g \in Gen : PruneDelete(g)
  \/ PruneAdvance
  \/ MaintBreaks
  \/ ReplaceRepository

SyncStep ==
  \/ Heartbeat \/ SyncNew \/ SyncReset \/ SyncCurrent
  \/ AnswerState \/ AnswerRows \/ Upsert \/ SyncFails

RunStep ==
  \/ \E W \in SUBSET Hash \ {{}} : StartRun(W)
  \/ NothingDue
  \/ \E B \in SUBSET Hash : CheckState(B) \/ UploadState(B)
  \/ CheckIndex \/ MarkChecked \/ UploadWrite \/ MarkUploaded
  \/ Accepted \/ Repair \/ GiveUp \/ RunFails

Next ==
  \/ ServerStep \/ SyncStep \/ RunStep
  \/ Persist \/ AgentCrash
  \/ \E k \in Key : Reconfigure(k)

Spec == Init /\ [][Next]_vars

-----------------------------------------------------------------------------
(* Properties.                                                             *)

Heard == [repo : 0..MaxRepo, gen : Gen, avail : Gen]
RunType ==
  [wanted : SUBSET Hash, todo : SUBSET Hash, asked : SUBSET Hash, at : Gen, exists : SUBSET Hash,
   absent : SUBSET Hash, best : Gen, lacks : SUBSET Hash, sent : SUBSET Hash, wrote : SUBSET Hash,
   attempt : 0..MaxRepair]
CatalogType == [Hash -> [repo : 0..MaxRepo, gen : -1..MaxGen]]

\* Type invariant of the server's tables and of the agent's catalog.
TypeOK ==
  /\ repo \in 1..MaxRepo /\ gen \in Gen /\ avail \in Gen
  /\ journal \subseteq [gen : Gen, hash : Hash] /\ index \subseteq Hash
  /\ maint \in [phase : {"idle", "dropped", "pruning"}, dropped : SUBSET Hash, upTo : Gen]
  /\ row \in [Key -> [repo : 0..MaxRepo, inv : Gen]]
  /\ catalog \in CatalogType /\ saved \in CatalogType
  /\ key \in Key
  /\ phase \in {"idle", "sync", "answering", "upsert", "ready", "scan", "gaveup"}
  /\ hb \in Heard /\ answer \in [since : Gen, to : Gen] /\ run \in RunType
  /\ lastDrop \in [Hash -> Gen] /\ drops \in 0..MaxRepair /\ misled \in BOOLEAN

\* Nothing the agent has heard is ahead of the server, and what a key has
\* seen is not ahead of what the agent heard last.
RowsSeen(g) == \A k \in Key : row[k].repo = repo => row[k].inv <= g
RoundOK ==
  /\ maint.phase = "dropped" => gen < MaxGen
  /\ maint.phase # "dropped" => maint.dropped = {}
  /\ \A h \in Hash : lastDrop[h] <= gen
  /\ hb.repo <= repo
  /\ \A k \in Key : row[k].repo <= repo /\ (phase # "idle" => row[k].repo <= hb.repo)
  /\ RowsSeen(gen)
  /\ hb.repo = repo =>
       /\ hb.gen <= gen /\ answer.to <= gen /\ run.at <= gen /\ run.best <= gen
       /\ phase = "sync" => RowsSeen(hb.gen)
       /\ phase \in {"answering", "upsert"} => RowsSeen(answer.to)
       /\ run.asked \cup run.sent # {} => RowsSeen(run.at)
       /\ run.exists \cup run.absent \cup run.wrote # {} => RowsSeen(run.best)
  /\ run.sent \cup run.wrote = {} \/ run.asked \cup run.exists \cup run.absent = {}
  /\ phase \in {"answering", "ready", "scan", "gaveup"} => row[key].repo = hb.repo
  /\ phase = "idle" => hb = NoBeat
  /\ phase = "answering" => answer.since = row[key].inv
  /\ phase \notin {"answering", "upsert"} => answer = NoAnswer
  /\ phase \notin {"scan", "gaveup"} => run = NoRun

\* From the first repair on, what a run lacks it is asking for or sending,
\* unless it was dropped since: each attempt that fails has cost a drop.
Lost == run.wanted \ UNION {index, run.todo, run.asked, run.absent, run.lacks, run.sent}
RepairsCost ==
  /\ run.attempt > 0 => run.attempt <= drops + 1
  /\ run.attempt > 0 /\ hb.repo = repo /\ Lost # {} => run.attempt <= drops
  /\ phase = "gaveup" => drops >= MaxRepair

\* Unless misled: the journal is complete after what was pruned, ...
JournalComplete ==
  \A h \in Hash : lastDrop[h] > Pruned => [gen |-> lastDrop[h], hash |-> h] \in journal

\* ... and confirmations are of the last repository heard of, no older than
\* what any key has seen of it, and older than the last drop.
Known(h)   == h \in index \cup maint.dropped
CatalogFresh ==
  /\ \A h \in Hash : Confirmed(h) =>
       /\ catalog[h].repo <= repo
       /\ phase # "idle" => catalog[h].repo <= hb.repo
       /\ \A k \in Key : row[k].repo <= catalog[h].repo
       /\ catalog[h].repo = repo => catalog[h].gen <= gen /\ RowsSeen(catalog[h].gen)
       /\ phase = "upsert" =>
            catalog[h].repo = hb.repo /\ (hb.repo = repo => answer.to <= catalog[h].gen)
  /\ hb.repo = repo => \A h \in run.exists \cup run.wrote : ~Known(h) => run.best < lastDrop[h]

\* A confirmation never covers the generation in which its chunk was dropped:
\* the next run sees it is too old.  Generations are read before the index,
\* the journal is applied before confirmations advance; the only ways around
\* it are the five the history names.
ConfirmedBelowDrop ==
  ~misled =>
    \A h \in Hash : /\ Confirmed(h) /\ catalog[h].repo = repo
                    /\ h \notin index \cup maint.dropped
                    => catalog[h].gen < lastDrop[h]

\* Between any two steps of server and agent, what they know of each other
\* is in order; and as long as nothing has misled it, the catalog is too.
CatalogInv ==
  /\ TypeOK /\ RoundOK /\ RepairsCost
  /\ ~misled => JournalComplete /\ CatalogFresh /\ ConfirmedBelowDrop

\* What a run trusts was confirmed by the repository it backs up to: the
\* catalog is emptied when the server's repository changes.
TrustsThisRepository ==
  phase = "scan" /\ ~misled =>
    \A h \in Hash : Trusted(h) => catalog[h].repo = hb.repo

\* However the catalog was misled, a run that gives up after its repairs had
\* chunks dropped again during the run, once per repair.
GivesUpOnlyWhileDropping ==
  phase = "gaveup" => drops >= MaxRepair
=============================================================================
