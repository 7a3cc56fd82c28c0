---------------------------- MODULE ChunkPipeline ---------------------------
(***************************************************************************)
(* The chunk uploader of an agent's scan (cmd/turbk-agent/                  *)
(* chunk_pipeline.go): the scanner's goroutine collects the chunks no ref   *)
(* of which is known into batches and fills the refs when results come      *)
(* back; workers ask the server which chunks of a batch it has and upload   *)
(* the others, as many at a time as there are upload slots.                 *)
(*                                                                         *)
(* The operators Append..., Fill... are what the scanner's goroutine does   *)
(* between two points where it may block; ScanPipeline puts them in order.  *)
(***************************************************************************)
EXTENDS ScanData

CONSTANTS
  Stored,        \* chunks the server has before the scan
  Worker,        \* worker goroutines, max_chunk_check_inflight
  UploadSlots,   \* max_chunk_upload_inflight
  QueueSize,     \* capacity of checkQueue and results
  BatchBytes,    \* max_chunk_upload_batch_bytes
  PipelineBytes  \* max_chunk_pipeline_bytes

NoRef == "awaited"

ASSUME PipelineOK ==
  /\ Stored \subseteq Hash /\ NoRef \notin Hash
  /\ IsFiniteSet(Worker) /\ PipelineBytes \in Nat
  /\ UploadSlots \in Nat \ {0} /\ QueueSize \in Nat \ {0} 
  /\ \A h \in Hash : Size[h] <= PipelineBytes /\ Size[h] <= BatchBytes

VARIABLES
  refs,     \* refs[f]: the chunk refs of f's entry, NoRef where one is awaited
  waiters,  \* waiters[h]: the refs chunk h will fill, <<file, index>>
  awaiting, \* awaiting[f]: how many refs of f are awaited (pendingByEntry)
  batch,    \* chunks of the batch being collected (pending)
  used,     \* bytes of the byte window in use
  queue,    \* batches for the workers
  results,  \* batches the workers are done with
  worker,   \* what each worker does
  slots,    \* upload slots taken
  failure,  \* a result has failed (err)
  stopped,  \* done is closed
  known,    \* chunks the catalog has as confirmed
  server    \* chunks of the server

scanVars   == <<refs, waiters, awaiting, batch, used, failure, known>>
workerVars == <<worker, slots, server>>
pipeVars   == <<scanVars, queue, results, stopped, workerVars>>

InFlight == {h \in Hash : waiters[h] # {}}
IdleWorker == [phase |-> "idle", batch |-> {}, missing |-> {}, ok |-> TRUE]

InitPipeline ==
  /\ refs = [f \in File |-> <<>>]
  /\ waiters = [h \in Hash |-> {}]
  /\ awaiting = [f \in File |-> 0]
  /\ batch = {} /\ used = 0
  /\ queue = <<>> /\ results = <<>>
  /\ worker = [k \in Worker |-> IdleWorker]
  /\ slots = 0 /\ failure = FALSE /\ stopped = FALSE
  /\ server = Stored /\ known \in SUBSET Stored

-----------------------------------------------------------------------------
(* The scanner's side.                                                     *)

\* Add, a chunk the catalog has.
AddKnown(f, h) ==
  /\ h \in known
  /\ refs' = [refs EXCEPT ![f] = Append(@, h)]
  /\ UNCHANGED <<waiters, awaiting, batch, used, failure, known>>

\* A ref that chunk h will fill.
Await(f, h) ==
  /\ refs' = [refs EXCEPT ![f] = Append(@, NoRef)]
  /\ waiters' = [waiters EXCEPT ![h] = @ \cup {<<f, Len(refs[f]) + 1>>}]
  /\ awaiting' = [awaiting EXCEPT ![f] = @ + 1]

\* Add, a chunk that is on its way already.
AddInFlight(f, h) ==
  /\ h \in InFlight \ known
  /\ Await(f, h)
  /\ UNCHANGED <<batch, used, failure, known>>

IsNew(h) == h \notin known \cup InFlight

\* chunkPipelineByteWindow.tryAcquire.
Fits(h) == used + Size[h] <= PipelineBytes

\* Add, a chunk that joins the batch being collected.
AddNew(f, h) ==
  /\ Fits(h)
  /\ Await(f, h)
  /\ used' = used + Size[h]
  /\ batch' = batch \cup {h}
  /\ UNCHANGED <<failure, known>>

ShouldFlushBeforeAdding(h) == batch # {} /\ Sum(batch \cup {h}) > BatchBytes

\* submitPending: the batch goes to the workers.
Enqueue ==
  /\ batch # {} /\ ~failure
  /\ Len(queue) < QueueSize
  /\ queue' = Append(queue, batch)
  /\ batch' = {}
  /\ UNCHANGED <<refs, waiters, awaiting, used, failure, known, results, stopped, workerVars>>

\* Mutated: a chunk fills its last ref only.
FillLast(done) ==
  LET Of(f) == (UNION {waiters[h] : h \in done}) \cap ({f} \X Nat) IN
  /\ refs' = [f \in File |-> [i \in DOMAIN refs[f] |->
       IF \E h \in done : <<f, i>> \in waiters[h] /\ \A x \in waiters[h] : x[1] = f => x[2] <= i
       THEN CHOOSE h \in done : <<f, i>> \in waiters[h] ELSE refs[f][i]]]
  /\ awaiting' = [f \in File |-> awaiting[f] - Cardinality(Of(f))]
  /\ waiters' = [h \in Hash |-> IF h \in done THEN {} ELSE waiters[h]]
  /\ used' = used - Sum(done)

\* resolveChunk, for each chunk of a batch.
Fill(done) ==
  LET Of(f) == (UNION {waiters[h] : h \in done}) \cap ({f} \X Nat) IN
  /\ refs' = [f \in File |-> [i \in DOMAIN refs[f] |->
       IF \E h \in done : <<f, i>> \in waiters[h]
       THEN CHOOSE h \in done : <<f, i>> \in waiters[h] ELSE refs[f][i]]]
  /\ awaiting' = [f \in File |-> awaiting[f] - Cardinality(Of(f))]
  /\ waiters' = [h \in Hash |-> IF h \in done THEN {} ELSE waiters[h]]
  /\ used' = used - Sum(done)

\* applyResult: the refs are filled and the catalog is told; a failed batch
\* fails the scan.
Apply ==
  /\ results # <<>>
  /\ results' = Tail(results)
  /\ LET r == Head(results) IN
     IF r.ok
     THEN /\ Fill(r.batch)
          /\ known' = known \cup r.batch
          /\ UNCHANGED failure
     ELSE /\ failure' = TRUE
          /\ UNCHANGED <<refs, awaiting, waiters, used, known>>
  /\ UNCHANGED <<batch, queue, stopped, workerVars>>

\* Stop closes done.
Stop ==
  /\ stopped' = TRUE
  /\ UNCHANGED <<scanVars, queue, results, workerVars>>

-----------------------------------------------------------------------------
(* The workers' side.                                                      *)

TakeBatch(k) ==
  /\ worker[k].phase = "idle" /\ queue # <<>>
  /\ worker' = [worker EXCEPT ![k] = [IdleWorker EXCEPT !.phase = "check", !.batch = Head(queue)]]
  /\ queue' = Tail(queue)
  /\ UNCHANGED <<scanVars, results, stopped, slots, server>>

Finished(k, ok) == worker' = [worker EXCEPT ![k].phase = "publish", ![k].ok = ok]

\* checkChunks, and what the server lacks.
Check(k) ==
  /\ worker[k].phase = "check"
  /\ LET missing == worker[k].batch \ server IN
     IF missing = {} THEN Finished(k, TRUE)
     ELSE worker' = [worker EXCEPT ![k].phase = "slot", ![k].missing = missing]
  /\ UNCHANGED <<scanVars, queue, results, stopped, slots, server>>

AcquireSlot(k) ==
  /\ worker[k].phase = "slot" /\ slots < UploadSlots
  /\ slots' = slots + 1
  /\ worker' = [worker EXCEPT ![k].phase = "upload"]
  /\ UNCHANGED <<scanVars, queue, results, stopped, server>>

\* acquireUploadSlot gives up when done is closed.
SlotRefused(k) ==
  /\ worker[k].phase = "slot" /\ stopped
  /\ Finished(k, FALSE)
  /\ UNCHANGED <<scanVars, queue, results, stopped, slots, server>>

Upload(k) ==
  /\ worker[k].phase = "upload"
  /\ server' = server \cup worker[k].missing
  /\ slots' = slots - 1
  /\ Finished(k, TRUE)
  /\ UNCHANGED <<scanVars, queue, results, stopped>>

\* Mutated: a failed upload keeps its slot.
RequestFailsKeeping(k) ==
  /\ worker[k].phase \in {"check", "upload"}
  /\ Finished(k, FALSE)
  /\ \E sent \in SUBSET worker[k].missing :
       server' = IF worker[k].phase = "upload" THEN server \cup sent ELSE server
  /\ UNCHANGED <<scanVars, queue, results, stopped, slots>>

\* A check or an upload fails for good, after its retries, or its answer does
\* not validate; some of the chunks may have arrived.
RequestFails(k) ==
  /\ worker[k].phase \in {"check", "upload"}
  /\ slots' = IF worker[k].phase = "upload" THEN slots - 1 ELSE slots
  /\ Finished(k, FALSE)
  /\ \E sent \in SUBSET worker[k].missing :
       server' = IF worker[k].phase = "upload" THEN server \cup sent ELSE server
  /\ UNCHANGED <<scanVars, queue, results, stopped>>

Publish(k) ==
  /\ worker[k].phase = "publish" /\ Len(results) < QueueSize
  /\ results' = Append(results, [batch |-> worker[k].batch, ok |-> worker[k].ok])
  /\ worker' = [worker EXCEPT ![k] = IdleWorker]
  /\ UNCHANGED <<scanVars, queue, stopped, slots, server>>

\* Mutated: publishResult waits for room only.
DiscardNever(k) == worker[k].phase = "publish" /\ FALSE /\ UNCHANGED pipeVars

\* publishResult drops the result when done is closed.
Discard(k) ==
  /\ worker[k].phase = "publish" /\ stopped
  /\ worker' = [worker EXCEPT ![k] = IdleWorker]
  /\ UNCHANGED <<scanVars, queue, results, stopped, slots, server>>

WorkerReturns(k) ==
  /\ worker[k].phase = "idle" /\ stopped
  /\ worker' = [worker EXCEPT ![k].phase = "done"]
  /\ UNCHANGED <<scanVars, queue, results, stopped, slots, server>>

WorkerStep(k) ==
  TakeBatch(k) \/ Check(k) \/ AcquireSlot(k) \/ SlotRefused(k) \/ Upload(k)
    \/ Publish(k) \/ Discard(k) \/ WorkerReturns(k)
=============================================================================
