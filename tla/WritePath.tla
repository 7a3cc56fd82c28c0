------------------------------ MODULE WritePath -----------------------------
(***************************************************************************)
(* How the chunks of an upload request reach the repository                *)
(* (internal/httpapi/server.go): the admission that bounds the uploads in  *)
(* flight, the handler that splits a request into sub-batches, the bounded *)
(* write queue whose one goroutine coalesces the sub-batches of several    *)
(* requests into one PutChunks and hands its results out again, request by *)
(* request, and the run gate a compact takes exclusively.  A client may go *)
(* away at any time, the queue may be closed under its submitters, and     *)
(* PutChunks may fail.  The legacy upload of one chunk goes past admission *)
(* and queue but not past the gate.                                        *)
(***************************************************************************)
EXTENDS Integers, Sequences, FiniteSets, SequencesExt, Functions

CONSTANTS
  Req, Agent, Hash,
  Direct,               \* chunks that legacy uploads carry
  AgentOf,              \* the agent a request comes from
  ChunksOf,             \* the chunks of a request, in order
  Size,                 \* bytes of a chunk
  MaxRequestsPerAgent, MaxBytesPerAgent, MaxBytesGlobal,    \* admission
  MaxRequests, MaxBytes, CoalesceMaxBytes, SubBatchBytes    \* queue

ASSUME ConstantsOK ==
  /\ AgentOf \in [Req -> Agent]
  /\ ChunksOf \in [Req -> Seq(Hash)] /\ \A r \in Req : ChunksOf[r] # <<>>
  /\ Direct \subseteq Hash
  /\ Size \in [Hash -> Nat \ {0}]
  /\ IsFiniteSet(Req)
  /\ {MaxRequestsPerAgent, MaxBytesPerAgent, MaxBytesGlobal, MaxRequests, MaxBytes} \subseteq Nat

VARIABLES
  phase,    \* phase[r]: where the handler of request r is
  gone,     \* requests whose context is cancelled: the client went away, or
            \* the handler has returned
  done,     \* done[r]: results of the sub-batches written so far
  item,     \* item[r]: the chunks of the sub-batch handed to the queue
  reply,    \* reply[r]: the result channel of that sub-batch
  admitted, \* per agent: requests and bytes in flight
  global,   \* bytes in flight over all agents
  channel,  \* the queue's channel
  queued,   \* the queue's counters: requests and bytes
  close,    \* the queue is "open", "closing" or "closed"
  stage,    \* where the queue's goroutine is
  batch,    \* the requests it took from the channel and has not looked at
  active,   \* those it writes together, as long as they are not answered
  offsets,  \* offsets[r]: where the chunks of r begin in combined
  combined, \* the chunks it writes
  direct,   \* chunks legacy uploads are writing
  gate,     \* does a compact hold the run gate?
  index     \* chunks of the repository

handlerVars == <<phase, gone, done, item>>
admitVars   == <<admitted, global>>
queueVars   == <<channel, queued, close>>
writeVars   == <<stage, batch, active, offsets, combined>>
repoVars    == <<direct, gate, index>>
vars == <<handlerVars, reply, admitVars, queueVars, writeVars, repoVars>>

Bytes(s) == SumFunction([i \in DOMAIN s |-> Size[s[i]]])
BytesOf(what, S) == SumFunctionOnSet([r \in Req |-> Bytes(what[r])], S)

NoCount == [requests |-> 0, bytes |-> 0]
NoReply == [sent |-> FALSE, ok |-> FALSE, results |-> <<>>]
Err     == [sent |-> TRUE, ok |-> FALSE, results |-> <<>>]
Ok(results) == [sent |-> TRUE, ok |-> TRUE, results |-> results]
isClosed == close # "open"
InFlight(r) == phase[r] \in {"put", "waiting"}

Init ==
  /\ phase = [r \in Req |-> "idle"]
  /\ gone = {}
  /\ done = [r \in Req |-> <<>>]
  /\ item = [r \in Req |-> <<>>]
  /\ reply = [r \in Req |-> NoReply]
  /\ admitted = [a \in Agent |-> NoCount] /\ global = 0
  /\ channel = <<>> /\ queued = NoCount /\ close = "open"
  /\ stage = "idle" /\ batch = <<>> /\ active = <<>>
  /\ offsets = [r \in Req |-> 0] /\ combined = <<>>
  /\ direct = {} /\ gate = FALSE /\ index = {}

-----------------------------------------------------------------------------
(* agentUploadAdmission and the handlers.                                  *)

Fits(r) ==
  LET a == admitted[AgentOf[r]]  b == Bytes(ChunksOf[r]) IN
  /\ a.requests < MaxRequestsPerAgent
  /\ a.bytes + b <= MaxBytesPerAgent
  /\ global + b <= MaxBytesGlobal

\* acquire, then the body is read.
Acquire(r) ==
  /\ phase[r] = "idle" /\ Fits(r)
  /\ phase' = [phase EXCEPT ![r] = "put"]
  /\ admitted' = [admitted EXCEPT ![AgentOf[r]].requests = @ + 1,
                                  ![AgentOf[r]].bytes = @ + Bytes(ChunksOf[r])]
  /\ global' = global + Bytes(ChunksOf[r])
  /\ UNCHANGED <<gone, done, item, reply, queueVars, writeVars, repoVars>>

\* acquire refuses: 413 or 429.
Refuse(r) ==
  /\ phase[r] = "idle" /\ ~Fits(r)
  /\ phase' = [phase EXCEPT ![r] = "refused"]
  /\ UNCHANGED <<gone, done, item, reply, admitVars, queueVars, writeVars, repoVars>>

\* Mutated: a failed upload stays admitted.
EndKeeping(r, outcome) ==
  /\ phase' = [phase EXCEPT ![r] = outcome]
  /\ admitted' = IF outcome = "failed" THEN admitted
                 ELSE [admitted EXCEPT ![AgentOf[r]].requests = @ - 1,
                                       ![AgentOf[r]].bytes = @ - Bytes(ChunksOf[r])]
  /\ global' = global - Bytes(ChunksOf[r])
  /\ gone' = gone \cup {r}

\* The handler returns: its deferred releaseUpload runs, its context ends.
End(r, outcome) ==
  /\ phase' = [phase EXCEPT ![r] = outcome]
  /\ admitted' = [admitted EXCEPT ![AgentOf[r]].requests = @ - 1,
                                  ![AgentOf[r]].bytes = @ - Bytes(ChunksOf[r])]
  /\ global' = global - Bytes(ChunksOf[r])
  /\ gone' = gone \cup {r}

\* readAgentChunkBatch fails: a malformed body, or one cut short.
BadBody(r) ==
  /\ phase[r] = "put" /\ done[r] = <<>>
  /\ End(r, "failed")
  /\ UNCHANGED <<done, item, reply, queueVars, writeVars, repoVars>>

\* nextChunkSubBatchEnd: one chunk at least, then as many as fit.
SubBatch(r) ==
  LET from == Len(done[r]) + 1
      Upto(n) == SubSeq(ChunksOf[r], from, n)
      fitting == {n \in from..Len(ChunksOf[r]) : n = from \/ Bytes(Upto(n)) <= SubBatchBytes}
  IN Upto(CHOOSE n \in fitting : \A k \in fitting : k <= n)

QueueFits(b) == queued.requests < MaxRequests /\ queued.bytes + b <= MaxBytes

\* Mutated: enqueue does not look at closed.
EnqueueUnchecked(r, s) == r \notin gone /\ QueueFits(Bytes(s))

\* enqueue, under the queue's mutex.
MayEnqueue(r, s) == r \notin gone /\ ~isClosed /\ QueueFits(Bytes(s))

\* submit of the next sub-batch ...
Submit(r) ==
  /\ phase[r] = "put" /\ MayEnqueue(r, SubBatch(r))
  /\ item' = [item EXCEPT ![r] = SubBatch(r)]
  /\ channel' = Append(channel, r)
  /\ queued' = [requests |-> queued.requests + 1, bytes |-> queued.bytes + Bytes(SubBatch(r))]
  /\ phase' = [phase EXCEPT ![r] = "waiting"]
  /\ UNCHANGED <<gone, done, reply, admitVars, close, writeVars, repoVars>>

\* ... or an error: cancelled, closed, or full (429).
SubmitFails(r) ==
  /\ phase[r] = "put" /\ ~MayEnqueue(r, SubBatch(r))
  /\ End(r, "failed")
  /\ UNCHANGED <<done, item, reply, queueVars, writeVars, repoVars>>

\* submit returns the result.  A failed sub-batch fails the request; after
\* the last the handler compares the refs with the request and responds.
Answered(r) ==
  /\ phase[r] = "waiting" /\ reply[r].sent
  /\ reply' = [reply EXCEPT ![r] = NoReply]
  /\ IF ~reply[r].ok
     THEN End(r, "failed") /\ UNCHANGED done
     ELSE LET all == done[r] \o reply[r].results IN
          /\ done' = [done EXCEPT ![r] = all]
          /\ IF Len(all) < Len(ChunksOf[r])
             THEN phase' = [phase EXCEPT ![r] = "put"] /\ UNCHANGED <<admitVars, gone>>
             ELSE End(r, IF all = ChunksOf[r] THEN "accepted" ELSE "mismatch")
  /\ UNCHANGED <<item, queueVars, writeVars, repoVars>>

\* Mutated: it takes the item off the counters, which the queue does as well.
AbandonedReleasing(r) ==
  /\ phase[r] = "waiting" /\ r \in gone
  /\ End(r, "failed")
  /\ queued' = [requests |-> queued.requests - 1, bytes |-> queued.bytes - Bytes(item[r])]
  /\ UNCHANGED <<done, item, reply, channel, close, writeVars, repoVars>>

\* submit returns with the context; the item stays with the queue.
Abandoned(r) ==
  /\ phase[r] = "waiting" /\ r \in gone
  /\ End(r, "failed")
  /\ UNCHANGED <<done, item, reply, queueVars, writeVars, repoVars>>

ClientGone(r) ==
  /\ InFlight(r) /\ r \notin gone
  /\ gone' = gone \cup {r}
  /\ UNCHANGED <<phase, done, item, reply, admitVars, queueVars, writeVars, repoVars>>

-----------------------------------------------------------------------------
(* agentRepoWriteQueue.                                                    *)

\* Mutated: the counters of a request that failed are not released.
FinishUncounted(r, answer) ==
  /\ reply' = [reply EXCEPT ![r] = answer]
  /\ queued' = IF answer.ok THEN [requests |-> queued.requests - 1,
                                  bytes |-> queued.bytes - Bytes(item[r])]
               ELSE queued

\* finish: the counters are released and the result sent.
Finish(r, answer) ==
  /\ reply' = [reply EXCEPT ![r] = answer]
  /\ queued' = [requests |-> queued.requests - 1, bytes |-> queued.bytes - Bytes(item[r])]

\* run: a request starts a batch; with done closed too, either may be chosen.
Take ==
  /\ stage = "idle" /\ channel # <<>>
  /\ stage' = "collect"
  /\ batch' = <<Head(channel)>>
  /\ channel' = Tail(channel)
  /\ UNCHANGED <<handlerVars, reply, admitVars, queued, close, active, offsets,
                 combined, repoVars>>

\* collect, collectReady.
Collect ==
  /\ stage = "collect" /\ channel # <<>>
  /\ BytesOf(item, ToSet(batch)) < CoalesceMaxBytes
  /\ batch' = Append(batch, Head(channel))
  /\ channel' = Tail(channel)
  /\ UNCHANGED <<handlerVars, reply, admitVars, queued, close, stage, active,
                 offsets, combined, repoVars>>

\* write: the window has passed.  One request after the other: a cancelled one
\* is answered ...
SiftCancelled ==
  /\ stage \in {"collect", "sift"} /\ batch # <<>> /\ Head(batch) \in gone
  /\ stage' = "sift"
  /\ batch' = Tail(batch)
  /\ Finish(Head(batch), Err)
  /\ UNCHANGED <<handlerVars, admitVars, channel, close, active, offsets,
                 combined, repoVars>>

\* Mutated: the offsets count requests.
SiftByRequest ==
  /\ stage \in {"collect", "sift"} /\ batch # <<>> /\ Head(batch) \notin gone
  /\ stage' = "sift"
  /\ batch' = Tail(batch)
  /\ active' = Append(active, Head(batch))
  /\ offsets' = [offsets EXCEPT ![Head(batch)] = Len(active)]
  /\ combined' = combined \o item[Head(batch)]
  /\ UNCHANGED <<handlerVars, reply, admitVars, queueVars, repoVars>>

\* ... the chunks of any other come after those of the requests before it.
Sift ==
  /\ stage \in {"collect", "sift"} /\ batch # <<>> /\ Head(batch) \notin gone
  /\ stage' = "sift"
  /\ batch' = Tail(batch)
  /\ active' = Append(active, Head(batch))
  /\ offsets' = [offsets EXCEPT ![Head(batch)] = Len(combined)]
  /\ combined' = combined \o item[Head(batch)]
  /\ UNCHANGED <<handlerVars, reply, admitVars, queueVars, repoVars>>

\* All seen: unless none is left or the queue is closed, ...
Sifted ==
  /\ stage = "sift" /\ batch = <<>> /\ active # <<>>
  /\ stage' = IF isClosed THEN "fail" ELSE "enter"
  /\ UNCHANGED <<handlerVars, reply, admitVars, queueVars, batch, active, offsets,
                 combined, repoVars>>

\* Mutated: the gate is not asked for.
EnterUngated ==
  /\ stage = "enter"
  /\ stage' = "write"
  /\ UNCHANGED <<handlerVars, reply, admitVars, queueVars, batch, active, offsets,
                 combined, repoVars>>

\* ... they are written under the shared gate, which a compact refuses.
EnterWrite ==
  /\ stage = "enter"
  /\ stage' = IF gate THEN "fail" ELSE "write"
  /\ UNCHANGED <<handlerVars, reply, admitVars, queueVars, batch, active, offsets,
                 combined, repoVars>>

\* PutChunks returns a result for each chunk, in order ...
Written ==
  /\ stage = "write"
  /\ stage' = "answer"
  /\ index' = index \cup ToSet(combined)
  /\ UNCHANGED <<handlerVars, reply, admitVars, queueVars, batch, active, offsets,
                 combined, direct, gate>>

\* ... or fails, for every request of the batch.
WriteFails ==
  /\ stage = "write"
  /\ stage' = "putFailed"
  /\ UNCHANGED <<handlerVars, reply, admitVars, queueVars, batch, active, offsets,
                 combined, repoVars>>

ResultsOf(r) == SubSeq(combined, offsets[r] + 1, offsets[r] + Len(item[r]))

\* The requests are answered one by one: each gets its part of the results.
Answer ==
  /\ stage = "answer" /\ active # <<>>
  /\ Finish(Head(active), Ok(ResultsOf(Head(active))))
  /\ active' = Tail(active)
  /\ UNCHANGED <<handlerVars, admitVars, channel, close, stage, batch, offsets, combined, repoVars>>

\* Mutated: the requests of a batch that was not written get their results.
AnswerUnwritten ==
  /\ stage \in {"fail", "putFailed"} /\ active # <<>>
  /\ Finish(Head(active), Ok(ResultsOf(Head(active))))
  /\ active' = Tail(active)
  /\ UNCHANGED <<handlerVars, admitVars, channel, close, stage, batch, offsets, combined, repoVars>>

\* All of them get the error, of the gate or of PutChunks.
AnswerFailure ==
  /\ stage \in {"fail", "putFailed"} /\ active # <<>>
  /\ Finish(Head(active), Err)
  /\ active' = Tail(active)
  /\ UNCHANGED <<handlerVars, admitVars, channel, close, stage, batch, offsets, combined, repoVars>>

\* write returns, and the deferred releaseRunGate runs.
WriteReturns ==
  /\ stage \in {"sift", "answer", "fail", "putFailed"} /\ batch = <<>> /\ active = <<>>
  /\ stage' = "idle"
  /\ offsets' = [r \in Req |-> 0] /\ combined' = <<>>
  /\ UNCHANGED <<handlerVars, reply, admitVars, queueVars, batch, active, repoVars>>

\* The stages in which the goroutine holds the gate.
UnderGate == stage \in {"write", "answer", "putFailed"}

\* close: no request enters any more, ...
Close ==
  /\ close = "open"
  /\ close' = "closing"
  /\ UNCHANGED <<handlerVars, reply, admitVars, channel, queued, writeVars, repoVars>>

\* ... and failQueued, which the closer runs once and the goroutine once,
\* before it ends.
FailQueued ==
  /\ close = "closing" \/ (close = "closed" /\ stage = "idle")
  /\ channel # <<>>
  /\ Finish(Head(channel), Err)
  /\ channel' = Tail(channel)
  /\ UNCHANGED <<handlerVars, admitVars, close, writeVars, repoVars>>

CloserReturns ==
  /\ close = "closing" /\ channel = <<>>
  /\ close' = "closed"
  /\ UNCHANGED <<handlerVars, reply, admitVars, channel, queued, writeVars, repoVars>>

WriterStops ==
  /\ isClosed /\ stage = "idle" /\ channel = <<>>
  /\ stage' = "stopped"
  /\ UNCHANGED <<handlerVars, reply, admitVars, queueVars, batch, active, offsets,
                 combined, repoVars>>

-----------------------------------------------------------------------------
(* The legacy upload and the compact.                                      *)

\* handleAgentPutChunk: under the gate, past admission and queue.
DirectBegin(h) ==
  /\ ~gate /\ h \notin direct \cup index
  /\ direct' = direct \cup {h}
  /\ UNCHANGED <<handlerVars, reply, admitVars, queueVars, writeVars, gate, index>>

DirectEnd(h) ==
  /\ h \in direct
  /\ direct' = direct \ {h}
  /\ index' = index \cup {h}
  /\ UNCHANGED <<handlerVars, reply, admitVars, queueVars, writeVars, gate>>

\* tryEnterCompactMaintenance.
CompactBegin ==
  /\ ~gate /\ ~UnderGate /\ direct = {}
  /\ gate' = TRUE
  /\ UNCHANGED <<handlerVars, reply, admitVars, queueVars, writeVars, direct, index>>

CompactEnd ==
  /\ gate
  /\ gate' = FALSE
  /\ UNCHANGED <<handlerVars, reply, admitVars, queueVars, writeVars, direct, index>>

HandlerStep(r) == Submit(r) \/ SubmitFails(r) \/ Answered(r) \/ Abandoned(r)
WriterStep ==
  \/ Take \/ Collect \/ SiftCancelled \/ Sift \/ Sifted \/ EnterWrite
  \/ Written \/ WriteFails \/ Answer \/ AnswerFailure \/ WriteReturns \/ WriterStops

Next ==
  \/ \E r \in Req : Acquire(r) \/ Refuse(r) \/ BadBody(r) \/ ClientGone(r) \/ HandlerStep(r)
  \/ WriterStep \/ Close \/ FailQueued \/ CloserReturns
  \/ \E h \in Direct : DirectBegin(h) \/ DirectEnd(h)
  \/ CompactBegin \/ CompactEnd

\* Goroutines run; clients, closers, compacts and legacy uploads may not.
Spec ==
  /\ Init /\ [][Next]_vars
  /\ \A r \in Req : WF_vars(HandlerStep(r))
  /\ WF_vars(WriterStep) /\ WF_vars(FailQueued \/ CloserReturns)

-----------------------------------------------------------------------------
(* Properties.                                                             *)

\* Type invariant.
TypeOK ==
  /\ phase \in [Req -> {"idle", "put", "waiting", "refused", "failed", "accepted", "mismatch"}]
  /\ gone \subseteq Req
  /\ done \in [Req -> Seq(Hash)] /\ item \in [Req -> Seq(Hash)]
  /\ reply \in [Req -> [sent : BOOLEAN, ok : BOOLEAN, results : Seq(Hash)]]
  /\ admitted \in [Agent -> [requests : Nat, bytes : Nat]] /\ global \in Nat
  /\ queued \in [requests : Nat, bytes : Nat]
  /\ channel \in Seq(Req) /\ close \in {"open", "closing", "closed"}
  /\ stage \in {"idle", "collect", "sift", "enter", "write", "answer", "fail", "putFailed",
                "stopped"}
  /\ batch \in Seq(Req) /\ active \in Seq(Req)
  /\ offsets \in [Req -> Nat] /\ combined \in Seq(Hash)
  /\ direct \subseteq Hash /\ gate \in BOOLEAN /\ index \subseteq Hash

\* The requests the queue and its goroutine hold.
Held == ToSet(channel) \cup ToSet(batch) \cup ToSet(active)

\* The queue's counters are what the queue and its goroutine hold, cancelled
\* submitters included, and stay within the limits: neither a leak that makes
\* the queue refuse for ever nor a double release.
QueueAccounting ==
  /\ queued.requests = Len(channel) + Len(batch) + Len(active)
  /\ queued.bytes = BytesOf(item, Held)
  /\ queued.requests <= MaxRequests /\ queued.bytes <= MaxBytes

\* The handlers under way, of one agent or of all.
UnderWay(agents) == {r \in Req : AgentOf[r] \in agents /\ InFlight(r)}

\* Admission counts exactly the handlers under way, whichever way the others
\* ended, and stays within the limits.
AdmissionAccounting ==
  /\ \A a \in Agent :
       /\ admitted[a].requests = Cardinality(UnderWay({a}))
       /\ admitted[a].bytes = BytesOf(ChunksOf, UnderWay({a}))
       /\ admitted[a].requests <= MaxRequestsPerAgent /\ admitted[a].bytes <= MaxBytesPerAgent
  /\ global = BytesOf(ChunksOf, UnderWay(Agent)) /\ global <= MaxBytesGlobal

\* Well typed, with all counters exact, between any two steps.
CountersExact == TypeOK /\ QueueAccounting /\ AdmissionAccounting

\* A request that is accepted got its own results, all of them, in order, and
\* its chunks are in the repository, whatever it was coalesced with.
AcceptedIsStored ==
  \A r \in Req :
    /\ phase[r] # "mismatch"
    /\ phase[r] = "accepted" => done[r] = ChunksOf[r] /\ ToSet(ChunksOf[r]) \subseteq index

\* What the agents see of it all.
Outcome == [r \in Req |-> IF phase[r] = "idle" THEN "none"
                          ELSE IF InFlight(r) THEN "open" ELSE phase[r]]
Uploads == INSTANCE UploadService WITH
             Wants <- [r \in Req |-> ToSet(ChunksOf[r])], outcome <- Outcome, stored <- index

\* Splitting, queueing, coalescing with the chunks of other agents,
\* cancellation and closing do not show: each upload ends once, as if it were
\* alone, and no chunk is written that no admitted upload has.
QueueIsTransparent == Uploads!Spec

\* No PutChunks, coalesced or direct, runs under a compact.
WritesExcludeCompact == gate => ~UnderGate /\ direct = {}

\* Every upload that was admitted ends, also when the queue is closed, the
\* client goes away or the write fails.
EveryUploadEnds == [](\A r \in Req : InFlight(r) => <>~InFlight(r))

-----------------------------------------------------------------------------
(* What the proofs rest on.                                                *)

\* No request is held twice, and none gets an answer while it is held.  A
\* request without a sub-batch under way has no answer either.
HeldInv ==
  /\ IsInjective(channel) /\ IsInjective(batch) /\ IsInjective(active)
  /\ ToSet(channel) \cap ToSet(batch) = {}
  /\ ToSet(channel) \cap ToSet(active) = {}
  /\ ToSet(batch) \cap ToSet(active) = {}
  /\ \A r \in Held : phase[r] \in {"waiting", "failed"} /\ reply[r] = NoReply
  /\ \A r \in Req : phase[r] \notin {"waiting", "failed"} => reply[r] = NoReply
  /\ stage \notin {"collect", "sift"} => batch = <<>>
  /\ stage \in {"idle", "stopped"} => active = <<>>

\* s is what full has after its first n elements.
PartOf(s, full, n) ==
  n + Len(s) <= Len(full) /\ \A i \in 1..Len(s) : s[i] = full[n + i]

\* What a request was answered so far, and the sub-batch under way, are the
\* chunks it sent, in order; what it was answered is stored.
ProgressInv ==
  \A r \in Req :
    /\ PartOf(done[r], ChunksOf[r], 0) /\ ToSet(done[r]) \subseteq index
    /\ phase[r] = "idle" => done[r] = <<>>
    /\ phase[r] = "put" => Len(done[r]) < Len(ChunksOf[r])
    /\ phase[r] = "waiting" => PartOf(item[r], ChunksOf[r], Len(done[r]))
    /\ reply[r].ok => reply[r].results = item[r] /\ ToSet(item[r]) \subseteq index

\* The chunks of each request are where its offset says, and stored once the
\* results are handed out.
OffsetsInv ==
  /\ \A r \in ToSet(active) : PartOf(item[r], combined, offsets[r])
  /\ stage = "answer" => ToSet(combined) \subseteq index

\* The inductive invariant.
WriteInv ==
  /\ CountersExact /\ HeldInv /\ ProgressInv /\ OffsetsInv
  /\ AcceptedIsStored /\ WritesExcludeCompact

\* What the queue holds and what it writes together are chunks of uploads
\* that were admitted, the abandoned ones included.
AskedInv ==
  LET Admitted == {r \in Req : phase[r] \notin {"idle", "refused"}} IN
  /\ \A r \in Req : /\ ToSet(item[r]) \subseteq ToSet(ChunksOf[r])
                    /\ item[r] # <<>> => r \in Admitted
  /\ ToSet(combined) \subseteq UNION {ToSet(ChunksOf[r]) : r \in Admitted}
=============================================================================
