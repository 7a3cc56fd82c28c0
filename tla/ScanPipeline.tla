---------------------------- MODULE ScanPipeline ----------------------------
(***************************************************************************)
(* The parallel part of an agent's scan (cmd/turbk-agent/scan.go): one      *)
(* goroutine receives whole files from the readers of FileReaders, gives    *)
(* their chunks to the uploader of ChunkPipeline and turns an entry into a  *)
(* line of the manifest as soon as all of its refs are known.  It may be    *)
(* stopped by a failed batch, a failed progress report or a fatal error of  *)
(* a reader.                                                                *)
(***************************************************************************)
EXTENDS FileReaders, ChunkPipeline

CONSTANT RequestsFail  \* may requests to the server fail for good?

VARIABLES
  pc,       \* where the scanner is
  after,    \* where it goes on after submitPending
  file,     \* the file it received last
  todo,     \* the chunks of that file it has yet to add
  ver,      \* ver[f]: the version the metadata of f's entry describes
  outcome,  \* outcome[f]: what has become of f
  returned  \* what scan returns

scannerVars == <<pc, after, file, todo, ver, outcome, returned>>
vars == <<readerVars, pipeVars, scannerVars>>

Init ==
  /\ InitReaders /\ InitPipeline
  /\ pc = "receive" /\ after = "flush"
  /\ file = Jobs[1] /\ todo = <<>>
  /\ ver = disk
  /\ outcome = [f \in File |-> "queued"]
  /\ returned = "nothing"

Goto(p) == pc' = p /\ UNCHANGED <<after, file, todo, ver, outcome, returned>>

\* The scan fails; processParallelJobs releases what it has not added.
Fail ==
  /\ pc' = "stop" /\ returned' = "error"
  /\ todo' = <<>> /\ Release(Bytes(todo))
  /\ UNCHANGED <<disk, next, reader, after, file, ver, outcome>>

\* A file arrives.
Receive(w) ==
  /\ pc = "receive" /\ reader[w].phase = "ready"
  /\ Deliver(w)
  /\ file' = reader[w].file /\ todo' = reader[w].chunks
  /\ ver' = [ver EXCEPT ![reader[w].file] = reader[w].ver]
  /\ pc' = IF reader[w].chunks = <<>> THEN "queue" ELSE "drain"
  /\ UNCHANGED <<pipeVars, after, outcome, returned>>

\* An error arrives: the path is skipped ...
Skip(w) ==
  /\ pc = "receive" /\ reader[w].phase = "failed"
  /\ Deliver(w)
  /\ outcome' = [outcome EXCEPT ![reader[w].file] = "skipped"]
  /\ UNCHANGED <<pipeVars, pc, after, file, todo, ver, returned>>

\* ... unless it is not one of a path: processParallelJobs returns it.
ReceiveFatal(w) ==
  /\ pc = "receive" /\ reader[w].phase = "failed"
  /\ Deliver(w)
  /\ pc' = "stop" /\ returned' = "error"
  /\ UNCHANGED <<pipeVars, after, file, todo, ver, outcome>>

\* drainResults: in Add, in EntryPending, which drops the error, and in Flush;
\* also where Add and Flush wait for a result.
Drain ==
  /\ \/ pc \in {"drain", "flush"}
     \/ pc = "queue" /\ ~failure
     \/ pc = "submit" /\ batch # {}
     \/ pc = "reserve" /\ batch = {} /\ ~Fits(Head(todo))
  /\ Apply
  /\ IF Head(results).ok \/ pc = "queue"
     THEN Goto(pc) /\ UNCHANGED readerVars
     ELSE Fail

\* drainResults returns an error it met before.
DrainFails ==
  /\ pc \in {"drain", "flush", "submit"} /\ failure
  /\ Fail
  /\ UNCHANGED pipeVars

\* Add of a chunk that needs no request of its own.
Add ==
  /\ pc = "drain" /\ results = <<>> /\ ~failure
  /\ AddKnown(file, Head(todo)) \/ AddInFlight(file, Head(todo))
  /\ Goto("next")
  /\ UNCHANGED <<readerVars, queue, results, stopped, workerVars>>

\* Add of a new chunk: the batch may have to go first.
AddBegin ==
  /\ pc = "drain" /\ results = <<>> /\ ~failure
  /\ IsNew(Head(todo))
  /\ IF ShouldFlushBeforeAdding(Head(todo))
     THEN /\ pc' = "submit" /\ after' = "reserve"
          /\ UNCHANGED <<file, todo, ver, outcome, returned>>
     ELSE Goto("reserve")
  /\ UNCHANGED <<readerVars, pipeVars>>

\* The window has room: the chunk joins the batch, which may be full then ...
AddEnd ==
  /\ pc = "reserve"
  /\ AddNew(file, Head(todo))
  /\ IF Sum(batch') >= BatchBytes
     THEN pc' = "submit" /\ after' = "next"
     ELSE pc' = "next" /\ UNCHANGED after
  /\ UNCHANGED <<readerVars, file, todo, ver, outcome, returned, queue, results, stopped, workerVars>>

\* ... and else what has been collected must go, to come back as results.
AddMustWait ==
  /\ pc = "reserve" /\ ~Fits(Head(todo)) /\ batch # {}
  /\ pc' = "submit" /\ after' = "reserve"
  /\ UNCHANGED <<readerVars, pipeVars, file, todo, ver, outcome, returned>>

\* submitPending.
Submit ==
  /\ pc = "submit" /\ Enqueue
  /\ Goto(after) /\ UNCHANGED readerVars

NothingToSubmit ==
  /\ pc = "submit" /\ batch = {} /\ ~failure
  /\ Goto(after)
  /\ UNCHANGED <<readerVars, pipeVars>>

\* Add has returned.
ChunkAdded ==
  /\ pc = "next"
  /\ Release(Size[Head(todo)])
  /\ todo' = Tail(todo)
  /\ pc' = IF Len(todo) = 1 THEN "queue" ELSE "drain"
  /\ UNCHANGED <<disk, next, reader, pipeVars, after, file, ver, outcome, returned>>

\* A progress report fails.
ProgressFails ==
  /\ RequestsFail /\ pc = "next"
  /\ Fail
  /\ UNCHANGED pipeVars

\* Mutated: a file whose refs are awaited is finalized.
QueueFileAtOnce ==
  /\ pc = "queue" /\ (results = <<>> \/ failure)
  /\ outcome' = [outcome EXCEPT ![file] = "entry"]
  /\ pc' = "receive"
  /\ UNCHANGED <<readerVars, pipeVars, after, file, todo, ver, returned>>

\* queuePendingManifestFile.
QueueFile ==
  /\ pc = "queue" /\ (results = <<>> \/ failure)
  /\ outcome' = [outcome EXCEPT ![file] = IF awaiting[file] > 0 THEN "pending" ELSE "entry"]
  /\ pc' = "receive"
  /\ UNCHANGED <<readerVars, pipeVars, after, file, todo, ver, returned>>

\* All results of the readers are received: flushPendingFiles.
AllReceived ==
  /\ pc = "receive" /\ AllRead
  /\ pc' = "submit" /\ after' = "flush"
  /\ UNCHANGED <<readerVars, pipeVars, file, todo, ver, outcome, returned>>

\* Mutated: Flush returns when its own batch has gone.
FlushEndsEarly ==
  /\ pc = "flush" /\ results = <<>> /\ ~failure /\ batch = {}
  /\ outcome' = [f \in File |->
       IF outcome[f] = "pending" /\ awaiting[f] = 0 THEN "entry" ELSE outcome[f]]
  /\ pc' = "stop" /\ returned' = "manifest"
  /\ UNCHANGED <<readerVars, pipeVars, after, file, todo, ver>>

\* Flush returns when no chunk is under way, and the files are finalized.
FlushEnds ==
  /\ pc = "flush" /\ results = <<>> /\ ~failure /\ batch = {} /\ InFlight = {}
  /\ outcome' = [f \in File |->
       IF outcome[f] = "pending" /\ awaiting[f] = 0 THEN "entry" ELSE outcome[f]]
  /\ pc' = "stop" /\ returned' = "manifest"
  /\ UNCHANGED <<readerVars, pipeVars, after, file, todo, ver>>

\* The deferred Stop: done is closed and the workers are waited for.
StopWorkers ==
  /\ pc = "stop" /\ Stop
  /\ Goto("wait") /\ UNCHANGED readerVars

ScanReturns ==
  /\ pc = "wait" /\ \A k \in Worker : worker[k].phase = "done"
  /\ Goto("ended")
  /\ UNCHANGED <<readerVars, pipeVars>>

Scanner ==
  \/ \E w \in Reader : Receive(w) \/ Skip(w)
  \/ Drain \/ DrainFails \/ Add \/ AddBegin \/ AddEnd \/ AddMustWait
  \/ Submit \/ NothingToSubmit \/ ChunkAdded \/ QueueFile \/ AllReceived
  \/ FlushEnds \/ StopWorkers \/ ScanReturns

Readers(w) ==
  /\ TakeJob(w, [f \in File |-> 1]) \/ ReadStep(w)
  /\ UNCHANGED <<pipeVars, scannerVars>>

Workers(k) == WorkerStep(k) /\ UNCHANGED <<readerVars, scannerVars>>

\* The scan may be over before its readers are: they block on resultCh.
Ended == pc = "ended" /\ UNCHANGED vars

Next ==
  \/ Scanner
  \/ \E w \in Reader : ReceiveFatal(w)
  \/ ProgressFails
  \/ \E w \in Reader : Readers(w)
  \/ \E w \in Reader : ReadBreaks(w) /\ UNCHANGED <<pipeVars, scannerVars>>
  \/ \E f \in File : Modify(f) /\ UNCHANGED <<pipeVars, scannerVars>>
  \/ \E k \in Worker : Workers(k)
  \/ \E k \in Worker : RequestsFail /\ RequestFails(k) /\ UNCHANGED <<readerVars, scannerVars>>
  \/ Ended

\* Goroutines run, and requests are answered; nothing has to fail or change.
Spec ==
  /\ Init /\ [][Next]_vars
  /\ WF_vars(Scanner)
  /\ \A w \in Reader : WF_vars(Readers(w))
  /\ \A k \in Worker : WF_vars(Workers(k))

-----------------------------------------------------------------------------
(* Properties.                                                             *)

\* Type invariant.
ReaderType == [phase : {"idle", "read", "ready", "failed", "done"}, file : File, ver : Nat,
               chunks : Seq(Hash), tries : Nat]
WorkerType == [phase : {"idle", "check", "slot", "upload", "publish", "done"},
               batch : SUBSET Hash, missing : SUBSET Hash, ok : BOOLEAN]
TypeOK ==
  /\ disk \in [File -> Nat] /\ next \in Nat \ {0} /\ window \in Nat
  /\ \A f \in File : disk[f] \in DOMAIN Content[f]
  /\ reader \in [Reader -> ReaderType] /\ worker \in [Worker -> WorkerType]
  /\ refs \in [File -> Seq(Hash \cup {NoRef})] /\ awaiting \in [File -> Nat]
  /\ waiters \in [Hash -> SUBSET (File \X Nat)]
  /\ batch \subseteq Hash /\ used \in Nat /\ slots \in 0..UploadSlots
  /\ queue \in Seq(SUBSET Hash) /\ Len(queue) <= QueueSize
  /\ results \in Seq([batch : SUBSET Hash, ok : BOOLEAN]) /\ Len(results) <= QueueSize
  /\ failure \in BOOLEAN /\ stopped \in BOOLEAN
  /\ known \subseteq Hash /\ server \subseteq Hash
  /\ pc \in {"receive", "drain", "reserve", "submit", "next", "queue", "flush", "stop", "wait", "ended"}
  /\ after \in {"flush", "reserve", "next"} /\ file \in File /\ todo \in Seq(Hash)
  /\ ver \in [File -> Nat] /\ outcome \in [File -> {"queued", "pending", "entry", "skipped"}]
  /\ returned \in {"nothing", "manifest", "error"}

\* The read window holds what the readers hold and the scanner has not added
\* yet, and no more than its limit, or one chunk: a failed or changed file
\* gives its bytes back.
ReadWindowExact ==
  /\ window = BytesRead + Bytes(todo)
  /\ window <= ReadLimit \/ \E h \in Hash : window = Size[h]

\* The pipeline's window holds exactly the chunks on their way, each of them
\* in one batch, and the slots are taken by the uploads alone.
Batches   == [i \in DOMAIN results |-> results[i].batch]
InQueue   == UNION ToSet(queue)
AtWorkers == UNION {worker[k].batch : k \in Worker}
InResults == UNION ToSet(Batches)
Disjoint(b) == \A i, j \in DOMAIN b : i # j => b[i] \cap b[j] = {}
PipelineWindowExact ==
  /\ used = Sum(InFlight) /\ used <= PipelineBytes
  /\ Disjoint(queue) /\ Disjoint(Batches) /\ Disjoint([k \in Worker |-> worker[k].batch])
  /\ batch \cap (InQueue \cup AtWorkers \cup InResults) = {}
  /\ InQueue \cap (AtWorkers \cup InResults) = {} /\ AtWorkers \cap InResults = {}
  /\ ~failure /\ ~stopped => InFlight = batch \cup InQueue \cup AtWorkers \cup InResults
  /\ slots = Cardinality({k \in Worker : worker[k].phase = "upload"})

\* Well typed, with both windows exact, between any two steps.
WindowsExact == TypeOK /\ ReadWindowExact /\ PipelineWindowExact

\* Every ref of an entry is the chunk at its place, or is awaited from the
\* chunk at its place; the count that decides when an entry is ready says how
\* many are.
RefsInOrder ==
  \A f \in File :
    LET content == Content[f][ver[f]] IN
    /\ Len(refs[f]) <= Len(content)
    /\ \A i \in DOMAIN refs[f] :
         /\ refs[f][i] \in {content[i], NoRef}
         /\ \A h \in Hash : <<f, i>> \in waiters[h] <=> refs[f][i] = NoRef /\ h = content[i]
    /\ awaiting[f] = Cardinality({i \in DOMAIN refs[f] : refs[f][i] = NoRef})

\* A file's line of the manifest has all chunks of one version, the one its
\* metadata describes, and the server has them.
EntriesComplete ==
  \A f \in File : outcome[f] = "entry" =>
    refs[f] = Content[f][ver[f]] /\ ToSet(refs[f]) \subseteq server

\* A scan that returns a manifest has dealt with every job, and has left
\* neither a reader nor a chunk behind.
ManifestAccountsForAll ==
  returned = "manifest" =>
    /\ \A f \in ToSet(Jobs) : outcome[f] \in {"entry", "skipped"}
    /\ AllRead /\ window = 0 /\ used = 0 /\ queue = <<>>

\* The scan comes to its end.
ScanEnds == <>(pc = "ended")
-----------------------------------------------------------------------------
(* Why they hold.                                                          *)

\* A chunk that did not fit into the read window is alone in it.
OneHeld ==
  \/ todo = <<>> /\ \E w \in Reader : /\ Len(reader[w].chunks) = 1
                                     /\ \A v \in Reader \ {w} : reader[v].chunks = <<>>
  \/ Len(todo) = 1 /\ \A w \in Reader : reader[w].chunks = <<>>
WindowInv == window = BytesRead + Bytes(todo) /\ (window <= ReadLimit \/ OneHeld)

\* A file is with one reader, or not yet with any, until the scanner has it;
\* what is read of it is of the version it is read under.
Busy(w)  == reader[w].phase \in {"read", "ready", "failed"}
Ahead    == {Jobs[i] : i \in {j \in DOMAIN Jobs : j >= next}}
AtReaders == {reader[w].file : w \in {v \in Reader : Busy(v)}}
Adding   == pc \in {"drain", "reserve", "next", "queue"} \/ (pc = "submit" /\ after # "flush")
ReadersInv ==
  /\ \A w \in Reader :
       /\ reader[w].phase \in {"idle", "failed", "done"} => reader[w].chunks = <<>>
       /\ reader[w].phase = "done" => next > Len(Jobs)
       /\ reader[w].phase \in {"read", "ready"} =>
            LET data == Content[reader[w].file][reader[w].ver] IN
            /\ reader[w].ver \in 1..disk[reader[w].file]
            /\ Len(reader[w].chunks) <= Len(data)
            /\ \A i \in DOMAIN reader[w].chunks : reader[w].chunks[i] = data[i]
            /\ reader[w].phase = "ready" => Len(reader[w].chunks) = Len(data)
       /\ Busy(w) => /\ reader[w].file \in ToSet(Jobs) \ Ahead
                     /\ \A v \in Reader : Busy(v) /\ reader[v].file = reader[w].file => v = w
  /\ \A f \in Ahead \cup AtReaders :
       outcome[f] = "queued" /\ refs[f] = <<>> /\ ~(Adding /\ f = file)

\* Every chunk under way is in the window once, in batches that are not empty.
BatchesInv ==
  /\ PipelineWindowExact
  /\ batch \cup InQueue \cup AtWorkers \cup InResults \subseteq InFlight
  /\ \A i \in DOMAIN queue : queue[i] # {}
  /\ \A i \in DOMAIN results : results[i].batch # {}
  /\ \A k \in Worker : worker[k].phase \in {"idle", "done"} <=> worker[k].batch = {}

\* What is confirmed, answered or filled is stored.
StoredInv ==
  /\ known \subseteq server
  /\ \A k \in Worker :
       /\ worker[k].phase \in {"slot", "upload"} => worker[k].batch \subseteq server \cup worker[k].missing
       /\ worker[k].phase = "publish" /\ worker[k].ok => worker[k].batch \subseteq server
  /\ \A i \in DOMAIN results : results[i].ok => results[i].batch \subseteq server
  /\ \A f \in File : \A i \in DOMAIN refs[f] : refs[f][i] # NoRef => refs[f][i] \in server

\* No ref is awaited that the file does not have.
RefsInv ==
  /\ RefsInOrder
  /\ \A f \in File : ver[f] \in DOMAIN Content[f]
  /\ \A h \in Hash : \A x \in waiters[h] : x[1] \in File /\ x[2] \in DOMAIN refs[x[1]]

\* The scanner adds the chunks of a file to its refs in their order, all of
\* them before the file is queued.
ScannerInv ==
  /\ Adding =>
       LET content == Content[file][ver[file]]
           done == IF pc = "next" \/ (pc = "submit" /\ after = "next") THEN Len(refs[file]) - 1
                                                                    ELSE Len(refs[file])
       IN /\ outcome[file] = "queued" /\ file \in ToSet(Jobs)
          /\ done >= 0 /\ done + Len(todo) = Len(content)
          /\ \A i \in DOMAIN todo : todo[i] = content[done + i]
          /\ pc # "queue" <=> todo # <<>>
  /\ ~Adding => todo = <<>>
  /\ pc = "reserve" \/ (pc = "submit" /\ after = "reserve") => IsNew(Head(todo))
  /\ (pc \in {"submit", "flush"} /\ ~Adding) \/ returned = "manifest" => AllRead
  /\ pc = "flush" => after = "flush"
  /\ \A f \in File :
       /\ outcome[f] \in {"pending", "entry"} => Len(refs[f]) = Len(Content[f][ver[f]])
       /\ outcome[f] = "entry" => awaiting[f] = 0
  /\ returned = "nothing" <=> pc \notin {"stop", "wait", "ended"}
  /\ returned # "error" =>
       \A f \in ToSet(Jobs) : f \in Ahead \cup AtReaders \/ (Adding /\ f = file)
                               \/ outcome[f] \in {"pending", "entry", "skipped"}
  /\ returned = "manifest" =>
       InFlight = {} /\ \A f \in ToSet(Jobs) : outcome[f] \in {"entry", "skipped"}

ScanInv == TypeOK /\ WindowInv /\ ReadersInv /\ BatchesInv /\ StoredInv /\ RefsInv /\ ScannerInv
=============================================================================
