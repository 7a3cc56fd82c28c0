--------------------------- MODULE WritePath_proofs ---------------------------
(***************************************************************************)
(* The admission and the write queue, for any requests, agents, chunks and *)
(* limits: the counters stay exact, what is answered is stored, and no     *)
(* write runs under a compact.                                             *)
(***************************************************************************)
EXTENDS WritePath, DataTheorems

-----------------------------------------------------------------------------
(* Bytes of chunks and of requests.                                        *)

\* A chunk list has a number of bytes.
LEMMA BytesNat == ASSUME NEW s \in Seq(Hash) PROVE Bytes(s) \in Nat
<1> DEFINE w == [i \in DOMAIN s |-> Size[s[i]]]
<1>1. IsFiniteSet(DOMAIN s)
  BY FS_Interval, DOMAIN s = 1..Len(s), Len(s) \in Nat
<1>2. \A i \in DOMAIN s : w[i] \in Nat
  BY ConstantsOK DEF ConstantsOK
<1>3. Bytes(s) = SumFunctionOnSet(w, DOMAIN s)
  BY DEF Bytes, SumFunction, SumFunctionOnSet, FoldFunction
<1> HIDE DEF w
<1> QED
  BY <1>1, <1>2, <1>3, SumNat

\* Sets of requests are finite.
LEMMA RequestsFinite == ASSUME NEW S \in SUBSET Req PROVE IsFiniteSet(S) /\ Cardinality(S) \in Nat
BY ConstantsOK, FS_Subset, FS_CardinalityType DEF ConstantsOK

\* The bytes of several requests are a number too, ...
LEMMA BytesOfNat ==
  ASSUME NEW what \in [Req -> Seq(Hash)], NEW S \in SUBSET Req
  PROVE  BytesOf(what, S) \in Nat
<1>1. \A r \in S : [q \in Req |-> Bytes(what[q])][r] \in Nat
  BY BytesNat
<1> QED
  BY <1>1, RequestsFinite, SumNat DEF BytesOf

\* ... one more request adds its own, ...
LEMMA BytesOfMore ==
  ASSUME NEW what \in [Req -> Seq(Hash)], NEW S \in SUBSET Req, NEW r \in Req, r \notin S
  PROVE  BytesOf(what, S \cup {r}) = BytesOf(what, S) + Bytes(what[r])
<1> DEFINE w == [q \in Req |-> Bytes(what[q])]
<1>1. \A q \in Req : w[q] \in Int
  BY BytesNat
<1>2. w[r] = Bytes(what[r])
  OBVIOUS
<1>3. BytesOf(what, S \cup {r}) = SumFunctionOnSet(w, S \cup {r}) /\ BytesOf(what, S) = SumFunctionOnSet(w, S)
  BY DEF BytesOf
<1> HIDE DEF w
<1>4. IsFiniteSet(S) /\ \A q \in S \cup {r} : w[q] \in Int
  BY <1>1, RequestsFinite
<1>5. SumFunctionOnSet(w, S \cup {r}) = SumFunctionOnSet(w, S) + w[r]
  BY <1>4, SumAdds
<1> QED
  BY <1>2, <1>3, <1>5

\* ... one less takes them away, ...
LEMMA BytesOfLess ==
  ASSUME NEW what \in [Req -> Seq(Hash)], NEW S \in SUBSET Req, NEW r \in S
  PROVE  BytesOf(what, S \ {r}) = BytesOf(what, S) - Bytes(what[r])
<1>1. (S \ {r}) \cup {r} = S /\ r \notin S \ {r}
  OBVIOUS
<1>2. BytesOf(what, S) = BytesOf(what, S \ {r}) + Bytes(what[r])
  BY <1>1, BytesOfMore
<1>3. BytesOf(what, S \ {r}) \in Nat
  BY BytesOfNat
<1>4. Bytes(what[r]) \in Nat
  BY BytesNat
<1> QED
  BY <1>2, <1>3, <1>4

\* ... and other requests do not matter.
LEMMA BytesOfSame ==
  ASSUME NEW what \in [Req -> Seq(Hash)], NEW other \in [Req -> Seq(Hash)],
         NEW S \in SUBSET Req, \A r \in S : other[r] = what[r]
  PROVE  BytesOf(other, S) = BytesOf(what, S)
<1> DEFINE w == [q \in Req |-> Bytes(what[q])]
           v == [q \in Req |-> Bytes(other[q])]
<1>1. \A q \in S : v[q] \in Int /\ v[q] = w[q]
  BY BytesNat
<1>2. BytesOf(what, S) = SumFunctionOnSet(w, S) /\ BytesOf(other, S) = SumFunctionOnSet(v, S)
  BY DEF BytesOf
<1> HIDE DEF w, v
<1> QED
  BY <1>1, <1>2, RequestsFinite, SumSame

\* No request, no bytes.
LEMMA BytesOfNone == ASSUME NEW what PROVE BytesOf(what, {}) = 0
BY SumEmpty DEF BytesOf

\* A piece of a sequence.
LEMMA PieceOf ==
  ASSUME NEW c \in Seq(Hash), NEW a \in 1..Len(c), NEW b \in a..Len(c)
  PROVE  /\ SubSeq(c, a, b) \in Seq(Hash) /\ Len(SubSeq(c, a, b)) = b - (a - 1)
         /\ \A i \in 1..(b - (a - 1)) : SubSeq(c, a, b)[i] = c[(a - 1) + i]
<1>1. Len(c) \in Nat /\ c \in [1..Len(c) -> Hash] /\ a \in Nat /\ b \in Nat
  OBVIOUS
<1>2. \A i \in a..b : i \in 1..Len(c) /\ c[i] \in Hash
  BY <1>1
<1> QED
  BY <1>1, <1>2

\* A handler that is not done takes a next part of its chunks.
LEMMA SubBatchIs ==
  ASSUME TypeOK, NEW r \in Req, Len(done[r]) < Len(ChunksOf[r])
  PROVE  SubBatch(r) \in Seq(Hash) /\ PartOf(SubBatch(r), ChunksOf[r], Len(done[r]))
<1> DEFINE from == Len(done[r]) + 1
           fitting == {n \in from..Len(ChunksOf[r]) :
                         n = from \/ Bytes(SubSeq(ChunksOf[r], from, n)) <= SubBatchBytes}
           last == CHOOSE n \in fitting : \A k \in fitting : k <= n
<1>1. ChunksOf[r] \in Seq(Hash) /\ done[r] \in Seq(Hash) /\ Len(done[r]) \in Nat /\ Len(ChunksOf[r]) \in Nat
  <2>1. ChunksOf[r] \in Seq(Hash)
    BY ConstantsOK DEF ConstantsOK
  <2>2. done[r] \in Seq(Hash)
    BY DEF TypeOK
  <2> QED
    BY <2>1, <2>2
<1>2. from \in fitting /\ fitting \in SUBSET (0..Len(ChunksOf[r]))
  BY <1>1
<1>3. last \in fitting
  <2> HIDE DEF fitting
  <2>1. \E n \in fitting : \A k \in fitting : k <= n
    BY <1>1, <1>2, Largest
  <2> QED
    BY <2>1
<1>4. SubBatch(r) = SubSeq(ChunksOf[r], from, last)
  BY DEF SubBatch
<1> HIDE DEF last
<1>5. last \in from..Len(ChunksOf[r]) /\ from \in 1..Len(ChunksOf[r])
  BY <1>1, <1>3
<1> DEFINE s == SubSeq(ChunksOf[r], from, last)
<1>6. /\ s \in Seq(Hash) /\ Len(s) = last - (from - 1)
      /\ \A i \in 1..(last - (from - 1)) : s[i] = ChunksOf[r][(from - 1) + i]
  BY <1>1, <1>5, PieceOf
<1> HIDE DEF s
<1>7. from - 1 = Len(done[r]) /\ last - (from - 1) = last - Len(done[r]) /\ last \in Nat
  BY <1>1, <1>5
<1>8. Len(done[r]) + Len(s) <= Len(ChunksOf[r])
  BY <1>1, <1>5, <1>6, <1>7
<1>9. \A i \in 1..Len(s) : s[i] = ChunksOf[r][Len(done[r]) + i]
  BY <1>6, <1>7
<1> QED
  BY <1>4, <1>6, <1>8, <1>9 DEF PartOf, s

-----------------------------------------------------------------------------
(* What the queue holds.                                                   *)

Length == Len(channel) + Len(batch) + Len(active)

\* A step moves requests about, ...
Moves == Held' = Held /\ Length' = Length /\ item' = item /\ queued' = queued

\* ... lets one in, ...
Enters(r) ==
  /\ r \notin Held /\ Held' = Held \cup {r} /\ Length' = Length + 1
  /\ phase[r] = "put" /\ r \notin gone /\ QueueFits(Bytes(SubBatch(r)))
  /\ item' = [item EXCEPT ![r] = SubBatch(r)]
  /\ queued' = [requests |-> queued.requests + 1, bytes |-> queued.bytes + Bytes(SubBatch(r))]

\* ... or answers one.
Leaves(r) ==
  /\ r \in Held /\ Held' = Held \ {r} /\ Length' = Length - 1
  /\ item' = item
  /\ queued' = [requests |-> queued.requests - 1, bytes |-> queued.bytes - Bytes(item[r])]

\* What the queue holds are requests.
LEMMA HeldAre ==
  ASSUME TypeOK
  PROVE  /\ Held \in SUBSET Req /\ ToSet(channel) \subseteq Req /\ ToSet(batch) \subseteq Req
         /\ ToSet(active) \subseteq Req
         /\ Len(channel) \in Nat /\ Len(batch) \in Nat /\ Len(active) \in Nat /\ Length \in Nat
BY ElementsOf DEF TypeOK, Held, Length

\* The other steps change neither the queue nor what it holds.
LEMMA QueueFrame ==
  ASSUME [Next]_vars
  PROVE  \/ \E r \in Req : Submit(r)
         \/ Take \/ Collect \/ SiftCancelled \/ Sift \/ Answer \/ AnswerFailure \/ FailQueued
         \/ UNCHANGED <<channel, batch, active, item, queued>>
<1>1. ASSUME NEW r \in Req, \/ Acquire(r) \/ Refuse(r) \/ BadBody(r) \/ ClientGone(r)
                            \/ SubmitFails(r) \/ Answered(r) \/ Abandoned(r)
      PROVE  UNCHANGED <<channel, batch, active, item, queued>>
  BY <1>1 DEF Acquire, Refuse, BadBody, ClientGone, SubmitFails, Answered, Abandoned,
    handlerVars, queueVars, writeVars
<1>2. ASSUME \/ Sifted \/ EnterWrite \/ Written \/ WriteFails \/ WriteReturns \/ WriterStops
             \/ Close \/ CloserReturns \/ CompactBegin \/ CompactEnd \/ UNCHANGED vars
             \/ \E h \in Direct : DirectBegin(h) \/ DirectEnd(h)
      PROVE  UNCHANGED <<channel, batch, active, item, queued>>
  BY <1>2 DEF Sifted, EnterWrite, Written, WriteFails, WriteReturns, WriterStops, Close,
    CloserReturns, CompactBegin, CompactEnd, DirectBegin, DirectEnd, vars, handlerVars,
    queueVars, writeVars
<1> QED
  BY <1>1, <1>2 DEF Next, HandlerStep, WriterStep

\* Every step does one of the three.
LEMMA QueueSteps ==
  ASSUME TypeOK, HeldInv, [Next]_vars
  PROVE  Moves \/ (\E r \in Req : Enters(r)) \/ (\E r \in Req : Leaves(r))
<1>0. /\ channel \in Seq(Req) /\ batch \in Seq(Req) /\ active \in Seq(Req)
      /\ Len(channel) \in Nat /\ Len(batch) \in Nat /\ Len(active) \in Nat
      /\ IsInjective(channel) /\ IsInjective(batch) /\ IsInjective(active)
      /\ ToSet(channel) \cap ToSet(batch) = {} /\ ToSet(channel) \cap ToSet(active) = {}
      /\ ToSet(batch) \cap ToSet(active) = {}
  BY HeldAre DEF TypeOK, HeldInv
<1>1. ASSUME NEW r \in Req, Submit(r) PROVE Enters(r)
  <2>1. phase[r] = "put" /\ r \notin gone /\ QueueFits(Bytes(SubBatch(r))) /\ channel' = Append(channel, r)
    BY <1>1 DEF Submit, MayEnqueue
  <2>2. r \notin Held
    BY <2>1 DEF HeldInv
  <2>3. UNCHANGED <<batch, active>>
    BY <1>1 DEF Submit, writeVars
  <2>4. Held' = Held \cup {r}
    BY <1>0, <2>1, <2>3, AppendOf DEF Held
  <2>5. Length' = Length + 1
    BY <1>0, <2>1, <2>3, AppendOf DEF Length
  <2> QED
    BY <1>1, <2>1, <2>2, <2>4, <2>5 DEF Submit, Enters
<1>2. ASSUME Take PROVE Moves
  <2>1. /\ channel # <<>> /\ batch = <<>> /\ batch' = <<Head(channel)>> /\ channel' = Tail(channel)
        /\ UNCHANGED <<active, item, queued>>
    BY <1>2 DEF Take, HeldInv, handlerVars
  <2>2. Head(channel) \in Req /\ Head(channel) \in ToSet(channel)
    BY <1>0, <2>1, TailOf
  <2>3. ToSet(batch') = {Head(channel)} /\ Len(batch') = 1 /\ ToSet(batch) = {} /\ Len(batch) = 0
    BY <2>1, <2>2, EmptyOf DEF ToSet
  <2>4. Held' = Held
    BY <1>0, <2>1, <2>2, <2>3, TailOf DEF Held
  <2>5. Length' = Length
    BY <1>0, <2>1, <2>3, TailOf DEF Length
  <2> QED
    BY <2>1, <2>4, <2>5 DEF Moves
<1>3. ASSUME Collect PROVE Moves
  <2>1. /\ channel # <<>> /\ batch' = Append(batch, Head(channel)) /\ channel' = Tail(channel)
        /\ UNCHANGED <<active, item, queued>>
    BY <1>3 DEF Collect, handlerVars
  <2>2. Head(channel) \in Req /\ Head(channel) \in ToSet(channel)
    BY <1>0, <2>1, TailOf
  <2>4. Held' = Held
    BY <1>0, <2>1, <2>2, TailOf, AppendOf DEF Held
  <2>5. Length' = Length
    BY <1>0, <2>1, <2>2, TailOf, AppendOf DEF Length
  <2> QED
    BY <2>1, <2>4, <2>5 DEF Moves
<1>4. ASSUME Sift PROVE Moves
  <2>1. /\ batch # <<>> /\ active' = Append(active, Head(batch)) /\ batch' = Tail(batch)
        /\ UNCHANGED <<channel, item, queued>>
    BY <1>4 DEF Sift, handlerVars, queueVars
  <2>2. Head(batch) \in Req /\ Head(batch) \in ToSet(batch)
    BY <1>0, <2>1, TailOf
  <2>4. Held' = Held
    BY <1>0, <2>1, <2>2, TailOf, AppendOf DEF Held
  <2>5. Length' = Length
    BY <1>0, <2>1, <2>2, TailOf, AppendOf DEF Length
  <2> QED
    BY <2>1, <2>4, <2>5 DEF Moves
<1>5. ASSUME SiftCancelled PROVE Leaves(Head(batch)) /\ Head(batch) \in Req
  <2>1. /\ batch # <<>> /\ batch' = Tail(batch) /\ UNCHANGED <<channel, active, item>>
        /\ queued' = [requests |-> queued.requests - 1, bytes |-> queued.bytes - Bytes(item[Head(batch)])]
    BY <1>5 DEF SiftCancelled, handlerVars, Finish
  <2>2. Head(batch) \in Req /\ Head(batch) \in ToSet(batch)
    BY <1>0, <2>1, TailOf
  <2>4. Held' = Held \ {Head(batch)} /\ Head(batch) \in Held
    BY <1>0, <2>1, <2>2, TailOf DEF Held
  <2>5. Length' = Length - 1
    BY <1>0, <2>1, TailOf DEF Length
  <2> QED
    BY <2>1, <2>2, <2>4, <2>5 DEF Leaves
<1>6. ASSUME Answer \/ AnswerFailure PROVE Leaves(Head(active)) /\ Head(active) \in Req
  <2>1. /\ active # <<>> /\ active' = Tail(active) /\ UNCHANGED <<channel, batch, item>>
        /\ queued' = [requests |-> queued.requests - 1, bytes |-> queued.bytes - Bytes(item[Head(active)])]
    BY <1>6 DEF Answer, AnswerFailure, handlerVars, Finish
  <2>2. Head(active) \in Req /\ Head(active) \in ToSet(active)
    BY <1>0, <2>1, TailOf
  <2>4. Held' = Held \ {Head(active)} /\ Head(active) \in Held
    BY <1>0, <2>1, <2>2, TailOf DEF Held
  <2>5. Length' = Length - 1
    BY <1>0, <2>1, TailOf DEF Length
  <2> QED
    BY <2>1, <2>2, <2>4, <2>5 DEF Leaves
<1>7. ASSUME FailQueued PROVE Leaves(Head(channel)) /\ Head(channel) \in Req
  <2>1. /\ channel # <<>> /\ channel' = Tail(channel) /\ UNCHANGED <<batch, active, item>>
        /\ queued' = [requests |-> queued.requests - 1, bytes |-> queued.bytes - Bytes(item[Head(channel)])]
    BY <1>7 DEF FailQueued, handlerVars, writeVars, Finish
  <2>2. Head(channel) \in Req /\ Head(channel) \in ToSet(channel)
    BY <1>0, <2>1, TailOf
  <2>4. Held' = Held \ {Head(channel)} /\ Head(channel) \in Held
    BY <1>0, <2>1, <2>2, TailOf DEF Held
  <2>5. Length' = Length - 1
    BY <1>0, <2>1, TailOf DEF Length
  <2> QED
    BY <2>1, <2>2, <2>4, <2>5 DEF Leaves
<1>8. ASSUME UNCHANGED <<channel, batch, active, item, queued>> PROVE Moves
  BY <1>8 DEF Moves, Held, Length
<1> QED
  BY <1>1, <1>2, <1>3, <1>4, <1>5, <1>6, <1>7, <1>8, QueueFrame

\* The counters of the queue stay exact and within their limits.
LEMMA QueueStaysExact ==
  ASSUME TypeOK, HeldInv, ProgressInv, QueueAccounting, [Next]_vars
  PROVE  QueueAccounting' /\ queued' \in [requests : Nat, bytes : Nat]
<1>0. /\ Held \in SUBSET Req /\ Length \in Nat /\ item \in [Req -> Seq(Hash)]
      /\ queued \in [requests : Nat, bytes : Nat] /\ queued.requests \in Nat /\ queued.bytes \in Nat
      /\ queued.requests = Length /\ queued.bytes = BytesOf(item, Held)
      /\ queued.requests <= MaxRequests /\ queued.bytes <= MaxBytes
      /\ MaxRequests \in Nat /\ MaxBytes \in Nat
  BY HeldAre, ConstantsOK DEF TypeOK, QueueAccounting, Length, ConstantsOK
<1>1. SUFFICES /\ queued' \in [requests : Nat, bytes : Nat]
               /\ queued'.requests = Length' /\ queued'.bytes = BytesOf(item', Held')
               /\ queued'.requests <= MaxRequests /\ queued'.bytes <= MaxBytes
  BY DEF QueueAccounting, Length, BytesOf, Held, Bytes
<1>2. CASE Moves
  BY <1>0, <1>2 DEF Moves
<1>3. ASSUME NEW r \in Req, Enters(r) PROVE <1>1!1
  <2>1. SubBatch(r) \in Seq(Hash)
    BY <1>3, SubBatchIs DEF Enters, ProgressInv
  <2>2. Bytes(SubBatch(r)) \in Nat
    BY <2>1, BytesNat
  <2>3. item' \in [Req -> Seq(Hash)] /\ item'[r] = SubBatch(r) /\ \A q \in Held : item'[q] = item[q]
    BY <1>0, <1>3, <2>1 DEF Enters
  <2>4. BytesOf(item', Held) = BytesOf(item, Held)
    BY <1>0, <2>3, BytesOfSame
  <2>5. BytesOf(item', Held \cup {r}) = BytesOf(item', Held) + Bytes(item'[r])
    BY <1>0, <1>3, <2>3, BytesOfMore DEF Enters
  <2>6. queued.requests < MaxRequests /\ queued.bytes + Bytes(SubBatch(r)) <= MaxBytes
    BY <1>3 DEF Enters, QueueFits
  <2>7. queued'.requests = queued.requests + 1 /\ queued'.bytes = queued.bytes + Bytes(SubBatch(r))
        /\ queued' = [requests |-> queued'.requests, bytes |-> queued'.bytes]
        /\ Held' = Held \cup {r} /\ Length' = Length + 1
    BY <1>3 DEF Enters
  <2>8. queued'.requests \in Nat /\ queued'.bytes \in Nat
    BY <1>0, <2>2, <2>7
  <2>9. queued'.bytes = BytesOf(item', Held')
    BY <1>0, <2>3, <2>4, <2>5, <2>7
  <2> QED
    BY <1>0, <2>2, <2>6, <2>7, <2>8, <2>9
<1>4. ASSUME NEW r \in Req, Leaves(r) PROVE <1>1!1
  <2>1. Bytes(item[r]) \in Nat
    BY <1>0, BytesNat
  <2>2. r \in Held /\ Held' = Held \ {r} /\ Length' = Length - 1 /\ item' = item
        /\ queued'.requests = queued.requests - 1 /\ queued'.bytes = queued.bytes - Bytes(item[r])
        /\ queued' = [requests |-> queued'.requests, bytes |-> queued'.bytes]
    BY <1>4 DEF Leaves
  <2>3. BytesOf(item, Held \ {r}) = BytesOf(item, Held) - Bytes(item[r])
    BY <1>0, <2>2, BytesOfLess
  <2>4. BytesOf(item, Held \ {r}) \in Nat
    BY <1>0, BytesOfNat
  <2>5. Length # 0
    <3>1. channel # <<>> \/ batch # <<>> \/ active # <<>>
      BY <2>2, EmptyOf DEF Held
    <3> QED
      BY <3>1, HeldAre, ElementsOf DEF Length, TypeOK
  <2>6. queued'.bytes = BytesOf(item', Held') /\ queued'.bytes \in Nat /\ queued'.requests \in Nat
    BY <1>0, <2>2, <2>3, <2>4, <2>5
  <2> QED
    BY <1>0, <2>1, <2>2, <2>6
<1> QED
  BY <1>2, <1>3, <1>4, QueueSteps

-----------------------------------------------------------------------------
(* The handlers under way.                                                 *)

\* A step admits a request, ...
Admits(r) ==
  /\ ~InFlight(r) /\ Fits(r)
  /\ UnderWay({AgentOf[r]})' = UnderWay({AgentOf[r]}) \cup {r}
  /\ \A a \in Agent \ {AgentOf[r]} : UnderWay({a})' = UnderWay({a})
  /\ UnderWay(Agent)' = UnderWay(Agent) \cup {r}
  /\ admitted' = [admitted EXCEPT ![AgentOf[r]].requests = @ + 1,
                                  ![AgentOf[r]].bytes = @ + Bytes(ChunksOf[r])]
  /\ global' = global + Bytes(ChunksOf[r])

\* ... ends its handler, ...
Ends(r) ==
  /\ InFlight(r)
  /\ UnderWay({AgentOf[r]})' = UnderWay({AgentOf[r]}) \ {r}
  /\ \A a \in Agent \ {AgentOf[r]} : UnderWay({a})' = UnderWay({a})
  /\ UnderWay(Agent)' = UnderWay(Agent) \ {r}
  /\ admitted' = [admitted EXCEPT ![AgentOf[r]].requests = @ - 1,
                                  ![AgentOf[r]].bytes = @ - Bytes(ChunksOf[r])]
  /\ global' = global - Bytes(ChunksOf[r])

\* ... or neither.
Goes == (\A S : UnderWay(S)' = UnderWay(S)) /\ UNCHANGED admitVars

\* The other steps leave the handlers where they are.
LEMMA HandlerFrame ==
  ASSUME [Next]_vars
  PROVE  \/ \E r \in Req : Acquire(r) \/ Refuse(r) \/ BadBody(r) \/ HandlerStep(r)
         \/ UNCHANGED <<phase, done, item, admitted, global>>
BY DEF Next, vars, handlerVars, admitVars, queueVars, writeVars, repoVars, ClientGone,
  WriterStep, Take, Collect, SiftCancelled, Sift, Sifted, EnterWrite, Written, WriteFails, Answer,
  AnswerFailure, WriteReturns, WriterStops, FailQueued, Close, CloserReturns, DirectBegin,
  DirectEnd, CompactBegin, CompactEnd

\* A handler that returns.
LEMMA EndEnds ==
  ASSUME TypeOK, NEW r \in Req, InFlight(r),
         NEW outcome \in {"failed", "accepted", "mismatch"}, End(r, outcome)
  PROVE  Ends(r)
<1>1. /\ phase' = [phase EXCEPT ![r] = outcome]
      /\ admitted' = [admitted EXCEPT ![AgentOf[r]].requests = @ - 1,
                                      ![AgentOf[r]].bytes = @ - Bytes(ChunksOf[r])]
      /\ global' = global - Bytes(ChunksOf[r])
  BY DEF End
<1>2. AgentOf[r] \in Agent
  BY ConstantsOK DEF ConstantsOK
<1>3. \A q \in Req : InFlight(q)' <=> InFlight(q) /\ q # r
  BY <1>1 DEF InFlight, TypeOK
<1>4. \A S : UnderWay(S)' = UnderWay(S) \ {r}
  BY <1>3 DEF UnderWay
<1>5. \A a \in Agent \ {AgentOf[r]} : r \notin UnderWay({a})
  BY DEF UnderWay
<1> QED
  BY <1>1, <1>2, <1>4, <1>5 DEF Ends

\* Every step does one of the three.
LEMMA HandlerSteps ==
  ASSUME TypeOK, [Next]_vars
  PROVE  Goes \/ (\E r \in Req : Admits(r)) \/ (\E r \in Req : Ends(r))
<1>1. ASSUME NEW r \in Req, Acquire(r) PROVE Admits(r)
  <2>1. /\ phase[r] = "idle" /\ phase' = [phase EXCEPT ![r] = "put"] /\ Fits(r)
        /\ admitted' = [admitted EXCEPT ![AgentOf[r]].requests = @ + 1,
                                        ![AgentOf[r]].bytes = @ + Bytes(ChunksOf[r])]
        /\ global' = global + Bytes(ChunksOf[r])
    BY <1>1 DEF Acquire
  <2>2. AgentOf[r] \in Agent
    BY ConstantsOK DEF ConstantsOK
  <2>3. ~InFlight(r) /\ \A q \in Req : InFlight(q)' <=> InFlight(q) \/ q = r
    BY <2>1 DEF InFlight, TypeOK
  <2>4. \A S : AgentOf[r] \in S => UnderWay(S)' = UnderWay(S) \cup {r}
    BY <2>3 DEF UnderWay
  <2>5. \A S : AgentOf[r] \notin S => UnderWay(S)' = UnderWay(S)
    BY <2>3 DEF UnderWay
  <2> QED
    BY <2>1, <2>2, <2>3, <2>4, <2>5 DEF Admits
<1>2. ASSUME NEW r \in Req, Refuse(r) PROVE Goes
  <2>1. phase[r] = "idle" /\ phase' = [phase EXCEPT ![r] = "refused"] /\ UNCHANGED admitVars
    BY <1>2 DEF Refuse
  <2>2. \A q \in Req : InFlight(q)' <=> InFlight(q)
    BY <2>1 DEF InFlight, TypeOK
  <2> QED
    BY <2>1, <2>2 DEF Goes, UnderWay
<1>3. ASSUME NEW r \in Req, BadBody(r) \/ SubmitFails(r) \/ Abandoned(r) PROVE Ends(r)
  BY <1>3, EndEnds DEF BadBody, SubmitFails, Abandoned, InFlight
<1>4. ASSUME NEW r \in Req, Submit(r) PROVE Goes
  <2>1. phase[r] = "put" /\ phase' = [phase EXCEPT ![r] = "waiting"] /\ UNCHANGED admitVars
    BY <1>4 DEF Submit
  <2>2. \A q \in Req : InFlight(q)' <=> InFlight(q)
    BY <2>1 DEF InFlight, TypeOK
  <2> QED
    BY <2>1, <2>2 DEF Goes, UnderWay
<1>5. ASSUME NEW r \in Req, Answered(r) PROVE Goes \/ Ends(r)
  <2>1. phase[r] = "waiting" /\ InFlight(r)
    BY <1>5 DEF Answered, InFlight
  <2>2. \/ phase' = [phase EXCEPT ![r] = "put"] /\ UNCHANGED admitVars
        \/ \E outcome \in {"failed", "accepted", "mismatch"} : End(r, outcome)
    BY <1>5 DEF Answered
  <2>3. CASE phase' = [phase EXCEPT ![r] = "put"] /\ UNCHANGED admitVars
    <3>1. \A q \in Req : InFlight(q)' <=> InFlight(q)
      BY <2>1, <2>3 DEF InFlight, TypeOK
    <3> QED
      BY <2>3, <3>1 DEF Goes, UnderWay
  <2> QED
    BY <2>1, <2>2, <2>3, EndEnds
<1>6. ASSUME UNCHANGED <<phase, done, item, admitted, global>> PROVE Goes
  BY <1>6 DEF Goes, UnderWay, InFlight, admitVars
<1> QED
  BY <1>1, <1>2, <1>3, <1>4, <1>5, <1>6, HandlerFrame DEF HandlerStep

\* The counters of the admission stay exact and within their limits.
LEMMA AdmissionStaysExact ==
  ASSUME TypeOK, AdmissionAccounting, [Next]_vars
  PROVE  /\ AdmissionAccounting'
         /\ admitted' \in [Agent -> [requests : Nat, bytes : Nat]] /\ global' \in Nat
<1> DEFINE Exact(a) ==
             /\ admitted'[a] \in [requests : Nat, bytes : Nat]
             /\ admitted'[a].requests = Cardinality(UnderWay({a})')
             /\ admitted'[a].bytes = BytesOf(ChunksOf, UnderWay({a})')
             /\ admitted'[a].requests <= MaxRequestsPerAgent /\ admitted'[a].bytes <= MaxBytesPerAgent
           ExactInAll ==
             /\ global' \in Nat
             /\ global' = BytesOf(ChunksOf, UnderWay(Agent)') /\ global' <= MaxBytesGlobal
<1>0. /\ ChunksOf \in [Req -> Seq(Hash)] /\ \A S : UnderWay(S) \in SUBSET Req
      /\ {MaxRequestsPerAgent, MaxBytesPerAgent, MaxBytesGlobal} \subseteq Nat
  BY ConstantsOK DEF ConstantsOK, UnderWay
<1>1. /\ \A a \in Agent :
           /\ admitted[a] \in [requests : Nat, bytes : Nat]
           /\ admitted[a].requests \in Nat /\ admitted[a].bytes \in Nat
           /\ admitted[a].requests = Cardinality(UnderWay({a}))
           /\ admitted[a].bytes = BytesOf(ChunksOf, UnderWay({a}))
           /\ admitted[a].requests <= MaxRequestsPerAgent /\ admitted[a].bytes <= MaxBytesPerAgent
      /\ global \in Nat /\ global = BytesOf(ChunksOf, UnderWay(Agent)) /\ global <= MaxBytesGlobal
  BY DEF TypeOK, AdmissionAccounting
<1>2. SUFFICES (\A a \in Agent : Exact(a)) /\ ExactInAll /\ DOMAIN admitted' = Agent
                /\ admitted' = [a \in Agent |-> admitted'[a]]
  BY DEF AdmissionAccounting, BytesOf, Bytes
<1>3. CASE Goes
  BY <1>1, <1>3 DEF Goes, admitVars, TypeOK
<1>4. ASSUME NEW r \in Req, Admits(r) PROVE <1>2!1
  <2> DEFINE a == AgentOf[r]  b == Bytes(ChunksOf[r])
  <2>1. a \in Agent /\ b \in Nat /\ r \notin UnderWay({a}) /\ r \notin UnderWay(Agent)
    BY <1>0, <1>4, ConstantsOK, BytesNat DEF ConstantsOK, Admits, UnderWay
  <2>2. Cardinality(UnderWay({a}) \cup {r}) = Cardinality(UnderWay({a})) + 1
    BY <1>0, <2>1, RequestsFinite, FS_AddElement
  <2>3. /\ BytesOf(ChunksOf, UnderWay({a}) \cup {r}) = BytesOf(ChunksOf, UnderWay({a})) + b
        /\ BytesOf(ChunksOf, UnderWay(Agent) \cup {r}) = BytesOf(ChunksOf, UnderWay(Agent)) + b
    BY <1>0, <2>1, BytesOfMore
  <2>4. /\ admitted[a].requests < MaxRequestsPerAgent
        /\ admitted[a].bytes + b <= MaxBytesPerAgent
        /\ global + b <= MaxBytesGlobal
    BY <1>4 DEF Admits, Fits
  <2>5. /\ admitted'[a] = [requests |-> admitted[a].requests + 1, bytes |-> admitted[a].bytes + b]
        /\ \A c \in Agent \ {a} : admitted'[c] = admitted[c]
        /\ DOMAIN admitted' = Agent /\ admitted' = [c \in Agent |-> admitted'[c]]
    BY <1>4, <2>1 DEF Admits, TypeOK
  <2>6. /\ UnderWay({a})' = UnderWay({a}) \cup {r}
        /\ \A c \in Agent \ {a} : UnderWay({c})' = UnderWay({c})
        /\ UnderWay(Agent)' = UnderWay(Agent) \cup {r} /\ global' = global + b
    BY <1>4 DEF Admits
  <2> HIDE DEF a, b
  <2>7. Exact(a)
    <3>1. /\ admitted[a].requests \in Nat /\ admitted[a].bytes \in Nat
          /\ admitted[a].requests <= MaxRequestsPerAgent /\ admitted[a].bytes <= MaxBytesPerAgent
          /\ admitted'[a].requests = admitted[a].requests + 1
          /\ admitted'[a].bytes = admitted[a].bytes + b
          /\ MaxRequestsPerAgent \in Nat /\ MaxBytesPerAgent \in Nat
      BY <1>0, <1>1, <2>1, <2>5
    <3>2. /\ admitted'[a].requests = Cardinality(UnderWay({a})')
          /\ admitted'[a].bytes = BytesOf(ChunksOf, UnderWay({a})')
      BY <1>1, <2>1, <2>2, <2>3, <2>6, <3>1
    <3>3. admitted'[a].requests \in Nat /\ admitted'[a].bytes \in Nat
      BY <2>1, <3>1
    <3>4. admitted'[a] \in [requests : Nat, bytes : Nat]
      BY <2>5, <3>1, <3>3
    <3> QED
      BY <2>1, <2>4, <3>1, <3>2, <3>3, <3>4
  <2>8. ASSUME NEW c \in Agent \ {a} PROVE Exact(c)
    <3>1. admitted'[c] = admitted[c] /\ UnderWay({c})' = UnderWay({c})
      BY <2>5, <2>6
    <3> QED
      BY <1>1, <3>1
  <2>9. ExactInAll
    BY <1>0, <1>1, <2>1, <2>3, <2>4, <2>6
  <2> QED
    BY <2>5, <2>7, <2>8, <2>9
<1>5. ASSUME NEW r \in Req, Ends(r) PROVE <1>2!1
  <2> DEFINE a == AgentOf[r]  b == Bytes(ChunksOf[r])
  <2>1. a \in Agent /\ b \in Nat /\ r \in UnderWay({a}) /\ r \in UnderWay(Agent)
    BY <1>0, <1>5, ConstantsOK, BytesNat DEF ConstantsOK, Ends, UnderWay
  <2>2. Cardinality(UnderWay({a}) \ {r}) = Cardinality(UnderWay({a})) - 1
        /\ Cardinality(UnderWay({a}) \ {r}) \in Nat
    <3>1. IsFiniteSet(UnderWay({a})) /\ IsFiniteSet(UnderWay({a}) \ {r})
          /\ Cardinality(UnderWay({a}) \ {r}) \in Nat
      BY <1>0, RequestsFinite
    <3> QED
      BY <2>1, <3>1, FS_RemoveElement
  <2>3. /\ BytesOf(ChunksOf, UnderWay({a}) \ {r}) = BytesOf(ChunksOf, UnderWay({a})) - b
        /\ BytesOf(ChunksOf, UnderWay(Agent) \ {r}) = BytesOf(ChunksOf, UnderWay(Agent)) - b
        /\ BytesOf(ChunksOf, UnderWay({a}) \ {r}) \in Nat
        /\ BytesOf(ChunksOf, UnderWay(Agent) \ {r}) \in Nat
    BY <1>0, <2>1, BytesOfLess, BytesOfNat
  <2>5. /\ admitted'[a] = [requests |-> admitted[a].requests - 1, bytes |-> admitted[a].bytes - b]
        /\ \A c \in Agent \ {a} : admitted'[c] = admitted[c]
        /\ DOMAIN admitted' = Agent /\ admitted' = [c \in Agent |-> admitted'[c]]
    BY <1>5, <2>1 DEF Ends, TypeOK
  <2>6. /\ UnderWay({a})' = UnderWay({a}) \ {r}
        /\ \A c \in Agent \ {a} : UnderWay({c})' = UnderWay({c})
        /\ UnderWay(Agent)' = UnderWay(Agent) \ {r} /\ global' = global - b
    BY <1>5 DEF Ends
  <2> HIDE DEF a, b
  <2>7. Exact(a)
    <3>1. /\ admitted[a].requests \in Nat /\ admitted[a].bytes \in Nat
          /\ admitted[a].requests <= MaxRequestsPerAgent /\ admitted[a].bytes <= MaxBytesPerAgent
          /\ admitted'[a].requests = admitted[a].requests - 1
          /\ admitted'[a].bytes = admitted[a].bytes - b
          /\ MaxRequestsPerAgent \in Nat /\ MaxBytesPerAgent \in Nat
      BY <1>0, <1>1, <2>1, <2>5
    <3>2. /\ admitted'[a].requests = Cardinality(UnderWay({a})')
          /\ admitted'[a].bytes = BytesOf(ChunksOf, UnderWay({a})')
      BY <1>1, <2>1, <2>2, <2>3, <2>6, <3>1
    <3>3. admitted'[a].requests \in Nat /\ admitted'[a].bytes \in Nat
      BY <2>2, <2>3, <2>6, <3>2
    <3>4. admitted'[a] \in [requests : Nat, bytes : Nat]
      BY <2>5, <3>1, <3>3
    <3> QED
      BY <2>1, <3>1, <3>2, <3>3, <3>4
  <2>8. ASSUME NEW c \in Agent \ {a} PROVE Exact(c)
    <3>1. admitted'[c] = admitted[c] /\ UnderWay({c})' = UnderWay({c})
      BY <2>5, <2>6
    <3> QED
      BY <1>1, <3>1
  <2>9. ExactInAll
    <3>1. global' = BytesOf(ChunksOf, UnderWay(Agent)')
      BY <1>1, <2>3, <2>6
    <3>2. global' \in Nat
      BY <2>3, <2>6, <3>1
    <3>3. global' <= global /\ MaxBytesGlobal \in Nat
      BY <1>0, <1>1, <2>1, <2>6
    <3> QED
      BY <1>1, <3>1, <3>2, <3>3
  <2> QED
    BY <2>5, <2>7, <2>8, <2>9
<1> QED
  BY <1>3, <1>4, <1>5, HandlerSteps

-----------------------------------------------------------------------------
(* Parts of sequences.                                                     *)

\* A part cut out of a sequence is the part.
LEMMA PartIs ==
  ASSUME NEW s \in Seq(Hash), NEW full \in Seq(Hash), NEW n \in Nat, PartOf(s, full, n)
  PROVE  SubSeq(full, n + 1, n + Len(s)) = s
<1>1. /\ Len(s) \in Nat /\ Len(full) \in Nat /\ n + Len(s) <= Len(full)
      /\ \A i \in 1..Len(s) : s[i] = full[n + i]
      /\ s \in [1..Len(s) -> Hash] /\ full \in [1..Len(full) -> Hash]
  BY DEF PartOf
<1>2. SubSeq(full, n + 1, n + Len(s)) = [i \in 1..Len(s) |-> full[n + i]]
  <2>1. (n + Len(s)) - (n + 1) + 1 = Len(s)
    BY <1>1
  <2>2. SubSeq(full, n + 1, n + Len(s)) = [i \in 1..((n + Len(s)) - (n + 1) + 1) |-> full[(n + 1) + i - 1]]
    BY <1>1
  <2>3. \A i \in 1..Len(s) : (n + 1) + i - 1 = n + i
    BY <1>1
  <2> QED
    BY <2>1, <2>2, <2>3
<1> QED
  BY <1>1, <1>2

\* Its elements are elements of the whole.
LEMMA PartIn ==
  ASSUME NEW s \in Seq(Hash), NEW full \in Seq(Hash), NEW n \in Nat, PartOf(s, full, n)
  PROVE  ToSet(s) \subseteq ToSet(full)
<1>1. \A i \in 1..Len(s) : s[i] = full[n + i] /\ n + i \in 1..Len(full)
  BY DEF PartOf
<1>2. DOMAIN s = 1..Len(s) /\ DOMAIN full = 1..Len(full)
  OBVIOUS
<1> QED
  BY <1>1, <1>2 DEF ToSet

\* It stays a part when the whole gets longer, ...
LEMMA PartStays ==
  ASSUME NEW s \in Seq(Hash), NEW full \in Seq(Hash), NEW more \in Seq(Hash), NEW n \in Nat,
         PartOf(s, full, n)
  PROVE  PartOf(s, full \o more, n)
<1>1. /\ Len(full \o more) = Len(full) + Len(more) /\ Len(more) \in Nat /\ Len(full) \in Nat
      /\ \A i \in 1..Len(full) : (full \o more)[i] = full[i]
  OBVIOUS
<1>2. \A i \in 1..Len(s) : s[i] = full[n + i] /\ n + i \in 1..Len(full)
  BY DEF PartOf
<1> QED
  BY <1>1, <1>2 DEF PartOf

\* ... as is what makes it longer.
LEMMA PartAdded ==
  ASSUME NEW s \in Seq(Hash), NEW full \in Seq(Hash)
  PROVE  /\ PartOf(s, full \o s, Len(full)) /\ full \o s \in Seq(Hash)
         /\ ToSet(full \o s) = ToSet(full) \cup ToSet(s)
<1> DEFINE t == full \o s
<1>1. /\ t \in Seq(Hash) /\ Len(t) = Len(full) + Len(s) /\ Len(s) \in Nat /\ Len(full) \in Nat
      /\ \A i \in 1..Len(full) : t[i] = full[i]
      /\ \A i \in 1..Len(s) : t[Len(full) + i] = s[i]
      /\ DOMAIN t = 1..(Len(full) + Len(s)) /\ DOMAIN s = 1..Len(s) /\ DOMAIN full = 1..Len(full)
  OBVIOUS
<1> HIDE DEF t
<1>2. PartOf(s, t, Len(full))
  BY <1>1 DEF PartOf
<1>3. ASSUME NEW i \in DOMAIN t PROVE t[i] \in ToSet(full) \cup ToSet(s)
  <2>1. CASE i \in 1..Len(full)
    BY <1>1, <2>1 DEF ToSet
  <2>2. CASE i \notin 1..Len(full)
    <3>1. i - Len(full) \in 1..Len(s) /\ Len(full) + (i - Len(full)) = i
      BY <1>1, <2>2
    <3> QED
      BY <1>1, <3>1 DEF ToSet
  <2> QED
    BY <2>1, <2>2
<1>4. \A i \in 1..Len(full) : i \in DOMAIN t /\ t[i] = full[i]
  BY <1>1
<1>5. \A i \in 1..Len(s) : Len(full) + i \in DOMAIN t /\ t[Len(full) + i] = s[i]
  BY <1>1
<1>6. ToSet(t) = ToSet(full) \cup ToSet(s)
  <2>1. ToSet(t) \subseteq ToSet(full) \cup ToSet(s)
    BY <1>3 DEF ToSet
  <2>2. ToSet(full) \subseteq ToSet(t)
    BY <1>1, <1>4 DEF ToSet
  <2>3. ASSUME NEW i \in DOMAIN s PROVE s[i] \in ToSet(t)
    BY <1>1, <1>5 DEF ToSet
  <2>4. ToSet(s) \subseteq ToSet(t)
    BY <2>3 DEF ToSet
  <2> QED
    BY <2>1, <2>2, <2>4
<1> QED
  BY <1>1, <1>2, <1>6 DEF t

\* Two parts that follow one another are one, ...
LEMMA PartsJoin ==
  ASSUME NEW s \in Seq(Hash), NEW t \in Seq(Hash), NEW full \in Seq(Hash),
         PartOf(s, full, 0), PartOf(t, full, Len(s))
  PROVE  PartOf(s \o t, full, 0) /\ Len(s \o t) = Len(s) + Len(t)
<1>1. /\ Len(s \o t) = Len(s) + Len(t) /\ Len(s) \in Nat /\ Len(t) \in Nat
      /\ \A i \in 1..Len(s) : (s \o t)[i] = s[i]
      /\ \A i \in (Len(s) + 1)..(Len(s) + Len(t)) : (s \o t)[i] = t[i - Len(s)]
  OBVIOUS
<1>2. /\ \A i \in 1..Len(s) : s[i] = full[0 + i]
      /\ Len(s) + Len(t) <= Len(full) /\ \A i \in 1..Len(t) : t[i] = full[Len(s) + i]
  BY DEF PartOf
<1>3. ASSUME NEW i \in 1..(Len(s) + Len(t)) PROVE (s \o t)[i] = full[0 + i]
  <2>1. CASE i <= Len(s)
    BY <1>1, <1>2, <2>1
  <2>2. CASE i > Len(s)
    <3>1. i - Len(s) \in 1..Len(t) /\ Len(s) + (i - Len(s)) = i /\ 0 + i = i
          /\ i \in (Len(s) + 1)..(Len(s) + Len(t))
      BY <1>1, <2>2
    <3>2. t[i - Len(s)] = full[Len(s) + (i - Len(s))]
      BY <1>2, <3>1
    <3> QED
      BY <1>1, <3>1, <3>2
  <2> QED
    BY <1>1, <2>1, <2>2
<1> QED
  BY <1>1, <1>2, <1>3 DEF PartOf

\* ... and one as long as the whole is the whole.
LEMMA PartIsWhole ==
  ASSUME NEW s \in Seq(Hash), NEW full \in Seq(Hash), PartOf(s, full, 0), ~(Len(s) < Len(full))
  PROVE  s = full
<1>1. /\ Len(s) = Len(full) /\ Len(s) \in Nat /\ \A i \in 1..Len(s) : s[i] = full[i]
      /\ s \in [1..Len(s) -> Hash] /\ full \in [1..Len(full) -> Hash]
  BY DEF PartOf
<1> QED
  BY <1>1

-----------------------------------------------------------------------------
(* The parts of the inductive invariant.                                   *)

\* The model starts in it.
LEMMA StartsInWriteInv == Init => WriteInv
<1> SUFFICES ASSUME Init PROVE WriteInv
  OBVIOUS
<1>1. /\ phase = [r \in Req |-> "idle"] /\ gone = {} /\ done = [r \in Req |-> <<>>]
      /\ item = [r \in Req |-> <<>>] /\ reply = [r \in Req |-> NoReply]
      /\ admitted = [a \in Agent |-> NoCount] /\ global = 0
      /\ channel = <<>> /\ queued = NoCount /\ close = "open"
      /\ stage = "idle" /\ batch = <<>> /\ active = <<>>
      /\ offsets = [r \in Req |-> 0] /\ combined = <<>>
      /\ direct = {} /\ gate = FALSE /\ index = {}
  BY DEF Init
<1>2. <<>> \in Seq(Hash) /\ <<>> \in Seq(Req) /\ Len(<<>>) = 0
  OBVIOUS
<1>3. TypeOK
  BY <1>1, <1>2 DEF TypeOK, NoReply, NoCount
<1>4. Held = {} /\ \A S : UnderWay(S) = {}
  BY <1>1, EmptyOf DEF Held, UnderWay, InFlight
<1>5. {MaxRequestsPerAgent, MaxBytesPerAgent, MaxBytesGlobal, MaxRequests, MaxBytes} \subseteq Nat
  BY ConstantsOK DEF ConstantsOK
<1>6. QueueAccounting
  BY <1>1, <1>2, <1>4, <1>5, BytesOfNone DEF QueueAccounting, NoCount
<1>7. AdmissionAccounting
  <2>1. \A a \in Agent : admitted[a].requests = 0 /\ admitted[a].bytes = 0
    BY <1>1 DEF NoCount
  <2>2. Cardinality({}) = 0 /\ BytesOf(ChunksOf, {}) = 0
    BY BytesOfNone, FS_EmptySet
  <2>3. 0 <= MaxRequestsPerAgent /\ 0 <= MaxBytesPerAgent /\ 0 <= MaxBytesGlobal
    BY <1>5
  <2>4. UnderWay(Agent) = {} /\ \A a \in Agent : UnderWay({a}) = {}
    BY <1>4
  <2> QED
    BY <1>1, <2>1, <2>2, <2>3, <2>4 DEF AdmissionAccounting
<1>8. HeldInv
  BY <1>1, <1>4, EmptyOf DEF HeldInv
<1>9. ProgressInv /\ AcceptedIsStored
  BY <1>1, <1>2, EmptyOf, ConstantsOK DEF ProgressInv, AcceptedIsStored, PartOf, NoReply, ConstantsOK
<1>10. OffsetsInv /\ WritesExcludeCompact
  BY <1>1, EmptyOf DEF OffsetsInv, WritesExcludeCompact
<1> QED
  BY <1>3, <1>6, <1>7, <1>8, <1>9, <1>10 DEF WriteInv, CountersExact

\* No write runs under a compact: both look at the other first.
LEMMA WritesStayOut ==
  ASSUME TypeOK, WritesExcludeCompact, [Next]_vars
  PROVE  WritesExcludeCompact'
<1>1. ASSUME EnterWrite PROVE WritesExcludeCompact'
  BY <1>1 DEF EnterWrite, WritesExcludeCompact, UnderGate, repoVars
<1>2. ASSUME NEW h \in Direct, DirectBegin(h) \/ DirectEnd(h) PROVE WritesExcludeCompact'
  BY <1>2 DEF DirectBegin, DirectEnd, WritesExcludeCompact, UnderGate, writeVars
<1>3. ASSUME CompactBegin \/ CompactEnd PROVE WritesExcludeCompact'
  BY <1>3 DEF CompactBegin, CompactEnd, WritesExcludeCompact, UnderGate, writeVars
<1>4. ASSUME Take \/ Collect \/ SiftCancelled \/ Sift \/ Sifted \/ WriterStops PROVE WritesExcludeCompact'
  BY <1>4 DEF Take, Collect, SiftCancelled, Sift, Sifted, WriterStops, WritesExcludeCompact,
    UnderGate, repoVars
<1>5. ASSUME Written \/ WriteFails \/ Answer \/ AnswerFailure \/ WriteReturns PROVE WritesExcludeCompact'
  BY <1>5 DEF Written, WriteFails, Answer, AnswerFailure, WriteReturns, WritesExcludeCompact,
    UnderGate, repoVars
<1>6. ASSUME UNCHANGED <<stage, direct, gate>> PROVE WritesExcludeCompact'
  BY <1>6 DEF WritesExcludeCompact, UnderGate
<1>7. ASSUME NEW r \in Req, Acquire(r) \/ Refuse(r) \/ BadBody(r) \/ ClientGone(r) \/ HandlerStep(r)
      PROVE  UNCHANGED <<stage, direct, gate>>
  BY <1>7 DEF Acquire, Refuse, BadBody, ClientGone, HandlerStep, Submit, SubmitFails, Answered,
    Abandoned, writeVars, repoVars
<1>8. ASSUME Close \/ FailQueued \/ CloserReturns \/ UNCHANGED vars PROVE UNCHANGED <<stage, direct, gate>>
  BY <1>8 DEF Close, FailQueued, CloserReturns, writeVars, repoVars, vars
<1> QED
  BY <1>1, <1>2, <1>3, <1>4, <1>5, <1>6, <1>7, <1>8 DEF Next, WriterStep

\* The results cut out for a request are its own.
LEMMA ResultsAre ==
  ASSUME TypeOK, OffsetsInv, NEW r \in ToSet(active)
  PROVE  ResultsOf(r) = item[r] /\ ToSet(item[r]) \subseteq ToSet(combined) /\ r \in Req
<1>1. r \in Req
  BY HeldAre
<1>2. item[r] \in Seq(Hash) /\ combined \in Seq(Hash) /\ offsets[r] \in Nat
  BY <1>1 DEF TypeOK
<1>3. PartOf(item[r], combined, offsets[r])
  BY DEF OffsetsInv
<1> QED
  BY <1>1, <1>2, <1>3, PartIs, PartIn DEF ResultsOf

\* The state is well typed after a step, the counters apart.
LEMMA TypesStay ==
  ASSUME TypeOK, ProgressInv, OffsetsInv, [Next]_vars,
         queued' \in [requests : Nat, bytes : Nat],
         admitted' \in [Agent -> [requests : Nat, bytes : Nat]], global' \in Nat
  PROVE  TypeOK'
<1>1. ASSUME NEW r \in Req, Acquire(r) \/ Refuse(r) \/ BadBody(r) \/ ClientGone(r) \/ Abandoned(r)
                            \/ SubmitFails(r)
      PROVE  TypeOK'
  <2>1. /\ phase' \in [Req -> {"idle", "put", "waiting", "refused", "failed", "accepted", "mismatch"}]
        /\ gone' \subseteq Req
    BY <1>1 DEF Acquire, Refuse, BadBody, ClientGone, Abandoned, SubmitFails, End, TypeOK
  <2>2. UNCHANGED <<done, item, reply, channel, close, writeVars, repoVars>>
    BY <1>1 DEF Acquire, Refuse, BadBody, ClientGone, Abandoned, SubmitFails, queueVars
  <2> QED
    BY <2>1, <2>2 DEF TypeOK, writeVars, repoVars
<1>2. ASSUME NEW r \in Req, Submit(r) PROVE TypeOK'
  <2>1. SubBatch(r) \in Seq(Hash)
    BY <1>2, SubBatchIs DEF Submit, ProgressInv
  <2>2. channel' \in Seq(Req)
    BY <1>2, AppendOf DEF Submit, TypeOK
  <2> QED
    BY <1>2, <2>1, <2>2 DEF Submit, TypeOK, writeVars, repoVars
<1>3. ASSUME NEW r \in Req, Answered(r) PROVE TypeOK'
  <2>1. NoReply \in [sent : BOOLEAN, ok : BOOLEAN, results : Seq(Hash)]
    BY DEF NoReply
  <2>2. done[r] \in Seq(Hash) /\ reply[r].results \in Seq(Hash)
    BY DEF TypeOK
  <2>3. done[r] \o reply[r].results \in Seq(Hash)
    BY <2>2
  <2>4. UNCHANGED <<item, queueVars, writeVars, repoVars>> /\ reply' = [reply EXCEPT ![r] = NoReply]
    BY <1>3 DEF Answered
  <2>5. done' \in [Req -> Seq(Hash)]
    BY <1>3, <2>3 DEF Answered, TypeOK
  <2>6. /\ phase' \in [Req -> {"idle", "put", "waiting", "refused", "failed", "accepted", "mismatch"}]
        /\ gone' \subseteq Req
    <3>1. PICK p \in {"put", "failed", "accepted", "mismatch"} :
            phase' = [phase EXCEPT ![r] = p] /\ gone' \in {gone, gone \cup {r}}
      BY <1>3 DEF Answered, End
    <3> QED
      BY <3>1 DEF TypeOK
  <2>7. reply' \in [Req -> [sent : BOOLEAN, ok : BOOLEAN, results : Seq(Hash)]]
    BY <2>1, <2>4 DEF TypeOK
  <2> QED
    BY <2>4, <2>5, <2>6, <2>7 DEF TypeOK, queueVars, writeVars, repoVars
<1>4. ASSUME NEW r \in Req, NEW answer, Finish(r, answer),
             answer \in [sent : BOOLEAN, ok : BOOLEAN, results : Seq(Hash)]
      PROVE  reply' \in [Req -> [sent : BOOLEAN, ok : BOOLEAN, results : Seq(Hash)]]
  BY <1>4 DEF Finish, TypeOK
<1>5. Err \in [sent : BOOLEAN, ok : BOOLEAN, results : Seq(Hash)]
  <2>1. <<>> \in Seq(Hash)
    OBVIOUS
  <2> QED
    BY <2>1 DEF Err
<1>6. ASSUME Take \/ Collect PROVE TypeOK'
  <2>0. /\ channel # <<>> /\ channel' = Tail(channel) /\ channel \in Seq(Req) /\ batch \in Seq(Req)
        /\ batch' = <<Head(channel)>> \/ batch' = Append(batch, Head(channel))
    BY <1>6 DEF Take, Collect, TypeOK
  <2>1. channel' \in Seq(Req) /\ Head(channel) \in Req
    BY <2>0, TailOf
  <2>2. batch' \in Seq(Req)
    <3>1. <<Head(channel)>> \in Seq(Req) /\ Append(batch, Head(channel)) \in Seq(Req)
      BY <2>0, <2>1
    <3> QED
      BY <2>0, <3>1
  <2> QED
    BY <1>6, <2>1, <2>2 DEF Take, Collect, TypeOK, handlerVars, repoVars
<1>7. ASSUME SiftCancelled PROVE TypeOK'
  <2>1. batch' \in Seq(Req) /\ Head(batch) \in Req
    BY <1>7, TailOf DEF SiftCancelled, TypeOK
  <2>2. reply' \in [Req -> [sent : BOOLEAN, ok : BOOLEAN, results : Seq(Hash)]]
    BY <1>4, <1>5, <1>7, <2>1 DEF SiftCancelled
  <2> QED
    BY <1>7, <2>1, <2>2 DEF SiftCancelled, TypeOK, handlerVars, repoVars
<1>8. ASSUME Sift PROVE TypeOK'
  <2>1. batch' \in Seq(Req) /\ Head(batch) \in Req
    BY <1>8, TailOf DEF Sift, TypeOK
  <2>2. active' \in Seq(Req)
    BY <1>8, <2>1, AppendOf DEF Sift, TypeOK
  <2>3. combined' \in Seq(Hash) /\ offsets' \in [Req -> Nat]
    <3>1. combined \in Seq(Hash) /\ item[Head(batch)] \in Seq(Hash) /\ Len(combined) \in Nat
      BY <2>1 DEF TypeOK
    <3> QED
      BY <1>8, <2>1, <3>1, PartAdded DEF Sift, TypeOK
  <2> QED
    BY <1>8, <2>1, <2>2, <2>3 DEF Sift, TypeOK, handlerVars, queueVars, repoVars
<1>9. ASSUME Sifted \/ EnterWrite \/ WriteFails \/ WriteReturns \/ WriterStops PROVE TypeOK'
  <2>1. CASE Sifted \/ EnterWrite \/ WriteFails \/ WriterStops
    BY <2>1 DEF Sifted, EnterWrite, WriteFails, WriterStops, TypeOK, handlerVars, queueVars, repoVars
  <2>2. CASE WriteReturns
    BY <2>2 DEF WriteReturns, TypeOK, handlerVars, queueVars, repoVars
  <2> QED
    BY <1>9, <2>1, <2>2
<1>10. ASSUME Written PROVE TypeOK'
  <2>1. index' \subseteq Hash
    BY <1>10, ElementsOf DEF Written, TypeOK
  <2> QED
    BY <1>10, <2>1 DEF Written, TypeOK, handlerVars, queueVars
<1>11. ASSUME Answer \/ AnswerFailure PROVE TypeOK'
  <2>0. active # <<>> /\ active' = Tail(active) /\ active \in Seq(Req)
    BY <1>11 DEF Answer, AnswerFailure, TypeOK
  <2>1. active' \in Seq(Req) /\ Head(active) \in Req /\ Head(active) \in ToSet(active)
    BY <2>0, TailOf
  <2>2. Ok(ResultsOf(Head(active))) \in [sent : BOOLEAN, ok : BOOLEAN, results : Seq(Hash)]
    <3>1. ResultsOf(Head(active)) \in Seq(Hash)
      BY <2>1, ResultsAre DEF TypeOK
    <3> QED
      BY <3>1 DEF Ok
  <2>3. reply' \in [Req -> [sent : BOOLEAN, ok : BOOLEAN, results : Seq(Hash)]]
    BY <1>4, <1>5, <1>11, <2>1, <2>2 DEF Answer, AnswerFailure
  <2> QED
    BY <1>11, <2>1, <2>3 DEF Answer, AnswerFailure, TypeOK, handlerVars, repoVars
<1>12. ASSUME FailQueued PROVE TypeOK'
  <2>1. channel' \in Seq(Req) /\ Head(channel) \in Req
    BY <1>12, TailOf DEF FailQueued, TypeOK
  <2>2. reply' \in [Req -> [sent : BOOLEAN, ok : BOOLEAN, results : Seq(Hash)]]
    BY <1>4, <1>5, <1>12, <2>1 DEF FailQueued
  <2> QED
    BY <1>12, <2>1, <2>2 DEF FailQueued, TypeOK, handlerVars, writeVars, repoVars
<1>13. ASSUME Close \/ CloserReturns \/ CompactBegin \/ CompactEnd PROVE TypeOK'
  BY <1>13 DEF Close, CloserReturns, CompactBegin, CompactEnd, TypeOK, handlerVars, queueVars,
    writeVars, repoVars
<1>14. ASSUME NEW h \in Direct, DirectBegin(h) \/ DirectEnd(h) PROVE TypeOK'
  BY <1>14, ConstantsOK DEF DirectBegin, DirectEnd, ConstantsOK, TypeOK, handlerVars, queueVars,
    writeVars
<1>15. ASSUME UNCHANGED vars PROVE TypeOK'
  BY <1>15 DEF vars, TypeOK, handlerVars, admitVars, queueVars, writeVars, repoVars
<1> QED
  BY <1>1, <1>2, <1>3, <1>6, <1>7, <1>8, <1>9, <1>10, <1>11, <1>12, <1>13, <1>14, <1>15
  DEF Next, HandlerStep, WriterStep

\* No request is held twice or answered while it is held.
LEMMA HeldStays ==
  ASSUME TypeOK, HeldInv, [Next]_vars
  PROVE  HeldInv'
<1> DEFINE Apart ==
             /\ IsInjective(channel) /\ IsInjective(batch) /\ IsInjective(active)
             /\ ToSet(channel) \cap ToSet(batch) = {}
             /\ ToSet(channel) \cap ToSet(active) = {}
             /\ ToSet(batch) \cap ToSet(active) = {}
           Unanswered ==
             /\ \A r \in Held : phase[r] \in {"waiting", "failed"} /\ reply[r] = NoReply
             /\ \A r \in Req : phase[r] \notin {"waiting", "failed"} => reply[r] = NoReply
           Staged ==
             /\ stage \notin {"collect", "sift"} => batch = <<>>
             /\ stage \in {"idle", "stopped"} => active = <<>>
<1>0. Apart /\ Unanswered /\ Staged
  BY DEF HeldInv
<1>1. SUFFICES Apart' /\ Unanswered' /\ Staged'
  BY DEF HeldInv
<1>2. /\ channel \in Seq(Req) /\ batch \in Seq(Req) /\ active \in Seq(Req) /\ Held \in SUBSET Req
      /\ ToSet(channel) \subseteq Held /\ ToSet(batch) \subseteq Held /\ ToSet(active) \subseteq Held
      /\ Held = ToSet(channel) \cup ToSet(batch) \cup ToSet(active)
  BY HeldAre DEF TypeOK, Held
<1>3. ASSUME NEW r \in Req, Acquire(r) \/ Refuse(r) \/ BadBody(r) \/ ClientGone(r)
                            \/ SubmitFails(r) \/ Abandoned(r)
      PROVE  <1>1!1
  <2>1. UNCHANGED <<reply, channel, batch, active, stage>>
    BY <1>3 DEF Acquire, Refuse, BadBody, ClientGone, SubmitFails, Abandoned, queueVars, writeVars
  <2>2. \/ phase[r] \notin {"waiting", "failed"} /\ \A q \in Req \ {r} : phase'[q] = phase[q]
        \/ phase' = phase
        \/ phase' = [phase EXCEPT ![r] = "failed"]
    BY <1>3 DEF Acquire, Refuse, BadBody, ClientGone, SubmitFails, Abandoned, End, TypeOK
  <2>3. ASSUME NEW q \in Held PROVE phase'[q] \in {"waiting", "failed"} /\ reply'[q] = NoReply
    BY <1>0, <1>2, <2>1, <2>2 DEF TypeOK
  <2>4. ASSUME NEW q \in Req, phase'[q] \notin {"waiting", "failed"} PROVE reply'[q] = NoReply
    BY <1>0, <2>1, <2>2, <2>4 DEF TypeOK
  <2>5. Held' = Held
    BY <2>1 DEF Held
  <2> QED
    BY <1>0, <2>1, <2>3, <2>4, <2>5
<1>4. ASSUME NEW r \in Req, Submit(r) PROVE <1>1!1
  <2>1. /\ phase[r] = "put" /\ phase' = [phase EXCEPT ![r] = "waiting"] /\ channel' = Append(channel, r)
        /\ UNCHANGED <<reply, batch, active, stage>>
    BY <1>4 DEF Submit, writeVars
  <2>2. r \notin Held /\ reply[r] = NoReply
    BY <1>0, <2>1
  <2>3. ToSet(channel') = ToSet(channel) \cup {r} /\ IsInjective(channel')
    BY <1>0, <1>2, <2>1, <2>2, AppendOf
  <2>4. Apart'
    BY <1>0, <1>2, <2>1, <2>2, <2>3
  <2>5. Held' = Held \cup {r}
    BY <2>1, <2>3 DEF Held
  <2>6. phase'[r] = "waiting" /\ \A q \in Req \ {r} : phase'[q] = phase[q]
    BY <2>1 DEF TypeOK
  <2>7. ASSUME NEW q \in Held' PROVE phase'[q] \in {"waiting", "failed"} /\ reply'[q] = NoReply
    <3>1. CASE q = r
      BY <2>1, <2>2, <2>6, <3>1
    <3>2. CASE q # r
      BY <1>0, <1>2, <2>1, <2>5, <2>6, <3>2
    <3> QED
      BY <3>1, <3>2
  <2>8. ASSUME NEW q \in Req, phase'[q] \notin {"waiting", "failed"} PROVE reply'[q] = NoReply
    BY <1>0, <2>1, <2>6, <2>8
  <2> QED
    BY <1>0, <2>1, <2>4, <2>7, <2>8
<1>5. ASSUME NEW r \in Req, Answered(r) PROVE <1>1!1
  <2>1. /\ phase[r] = "waiting" /\ reply[r].sent /\ reply' = [reply EXCEPT ![r] = NoReply]
        /\ UNCHANGED <<channel, batch, active, stage>>
    BY <1>5 DEF Answered, queueVars, writeVars
  <2>2. \A q \in Req \ {r} : phase'[q] = phase[q]
    BY <1>5 DEF Answered, End, TypeOK
  <2>3. r \notin Held
    BY <1>0, <2>1 DEF NoReply
  <2>4. Held' = Held
    BY <2>1 DEF Held
  <2>5. reply'[r] = NoReply /\ \A q \in Req \ {r} : reply'[q] = reply[q]
    BY <2>1 DEF TypeOK
  <2>6. \A q \in Held' : q \in Req \ {r} /\ q \in Held
    BY <1>2, <2>3, <2>4
  <2>7. Unanswered'
    BY <1>0, <2>2, <2>5, <2>6
  <2> QED
    BY <1>0, <2>1, <2>7
<1>6. ASSUME Take \/ Collect PROVE <1>1!1
  <2>1. /\ channel # <<>> /\ channel' = Tail(channel)
        /\ \/ batch = <<>> /\ batch' = <<Head(channel)>> /\ stage = "idle"
           \/ batch' = Append(batch, Head(channel)) /\ stage = "collect"
        /\ stage' = "collect" /\ UNCHANGED <<active, phase, reply>>
    BY <1>0, <1>6 DEF Take, Collect, handlerVars
  <2> DEFINE x == Head(channel)
  <2>2. /\ x \in Req /\ x \in ToSet(channel) /\ ToSet(channel') = ToSet(channel) \ {x}
        /\ IsInjective(channel')
    BY <1>0, <1>2, <2>1, TailOf
  <2>3. ToSet(batch') = ToSet(batch) \cup {x} /\ IsInjective(batch')
    <3>1. CASE batch = <<>> /\ batch' = <<x>>
      <4>1. ToSet(<<x>>) = {x} /\ IsInjective(<<x>>)
        BY DEF ToSet, IsInjective
      <4> QED
        BY <3>1, <4>1, EmptyOf
    <3>2. CASE batch' = Append(batch, x)
      <4>1. x \notin ToSet(batch)
        BY <1>0, <2>2
      <4> QED
        BY <1>0, <1>2, <2>2, <3>2, <4>1, AppendOf
    <3> QED
      BY <2>1, <3>1, <3>2
  <2> HIDE DEF x
  <2>4. Apart'
    BY <1>0, <2>1, <2>2, <2>3
  <2>5. Held' = Held
    BY <2>1, <2>2, <2>3 DEF Held
  <2>6. Unanswered'
    BY <1>0, <2>1, <2>5
  <2>7. Staged'
    BY <2>1
  <2> QED
    BY <2>4, <2>6, <2>7
<1>7. ASSUME Sift PROVE <1>1!1
  <2>1. /\ batch # <<>> /\ batch' = Tail(batch) /\ active' = Append(active, Head(batch))
        /\ stage' = "sift" /\ UNCHANGED <<channel, phase, reply>>
    BY <1>7 DEF Sift, handlerVars, queueVars
  <2> DEFINE x == Head(batch)
  <2>2. /\ x \in Req /\ x \in ToSet(batch) /\ ToSet(batch') = ToSet(batch) \ {x}
        /\ IsInjective(batch')
    BY <1>0, <1>2, <2>1, TailOf
  <2>3. ToSet(active') = ToSet(active) \cup {x} /\ IsInjective(active')
    <3>1. x \notin ToSet(active)
      BY <1>0, <2>2
    <3> QED
      BY <1>0, <1>2, <2>1, <2>2, <3>1, AppendOf
  <2> HIDE DEF x
  <2>4. Apart'
    BY <1>0, <2>1, <2>2, <2>3
  <2>5. Held' = Held
    BY <2>1, <2>2, <2>3 DEF Held
  <2> QED
    BY <1>0, <2>1, <2>4, <2>5
<1>8. ASSUME NEW r \in Held, NEW answer, Finish(r, answer), Held' = Held \ {r}, UNCHANGED phase
      PROVE  Unanswered'
  <2>1. reply' = [reply EXCEPT ![r] = answer]
    BY <1>8 DEF Finish
  <2> QED
    BY <1>0, <1>2, <1>8, <2>1 DEF TypeOK
<1>9. ASSUME SiftCancelled PROVE <1>1!1
  <2>1. /\ batch # <<>> /\ batch' = Tail(batch) /\ Finish(Head(batch), Err)
        /\ stage' = "sift" /\ UNCHANGED <<channel, active, phase>>
    BY <1>9 DEF SiftCancelled, handlerVars
  <2> DEFINE x == Head(batch)
  <2>2. /\ x \in Req /\ x \in ToSet(batch) /\ ToSet(batch') = ToSet(batch) \ {x}
        /\ IsInjective(batch')
    BY <1>0, <1>2, <2>1, TailOf
  <2>3. Finish(x, Err)
    BY <2>1
  <2> HIDE DEF x
  <2>4. Apart'
    BY <1>0, <2>1, <2>2
  <2>5. Held' = Held \ {x} /\ x \in Held
    BY <1>0, <2>1, <2>2 DEF Held
  <2>6. Unanswered'
    BY <1>8, <2>1, <2>3, <2>5
  <2> QED
    BY <2>1, <2>4, <2>6
<1>10. ASSUME Answer \/ AnswerFailure PROVE <1>1!1
  <2>1. /\ active # <<>> /\ active' = Tail(active) /\ (\E answer : Finish(Head(active), answer))
        /\ stage \notin {"idle", "stopped"} /\ UNCHANGED <<channel, batch, phase, stage>>
    BY <1>10 DEF Answer, AnswerFailure, handlerVars
  <2> DEFINE x == Head(active)
  <2>2. /\ x \in Req /\ x \in ToSet(active) /\ ToSet(active') = ToSet(active) \ {x}
        /\ IsInjective(active')
    BY <1>0, <1>2, <2>1, TailOf
  <2>3. \E answer : Finish(x, answer)
    BY <2>1
  <2> HIDE DEF x
  <2>4. Apart'
    BY <1>0, <2>1, <2>2
  <2>5. Held' = Held \ {x} /\ x \in Held
    BY <1>0, <2>1, <2>2 DEF Held
  <2>6. Unanswered'
    BY <1>8, <2>1, <2>3, <2>5
  <2> QED
    BY <1>0, <2>1, <2>4, <2>6
<1>11. ASSUME FailQueued PROVE <1>1!1
  <2>1. /\ channel # <<>> /\ channel' = Tail(channel) /\ Finish(Head(channel), Err)
        /\ UNCHANGED <<batch, active, phase, stage>>
    BY <1>11 DEF FailQueued, handlerVars, writeVars
  <2> DEFINE x == Head(channel)
  <2>2. /\ x \in Req /\ x \in ToSet(channel) /\ ToSet(channel') = ToSet(channel) \ {x}
        /\ IsInjective(channel')
    BY <1>0, <1>2, <2>1, TailOf
  <2>3. Finish(x, Err)
    BY <2>1
  <2> HIDE DEF x
  <2>4. Apart'
    BY <1>0, <2>1, <2>2
  <2>5. Held' = Held \ {x} /\ x \in Held
    BY <1>0, <2>1, <2>2 DEF Held
  <2>6. Unanswered'
    BY <1>8, <2>1, <2>3, <2>5
  <2> QED
    BY <1>0, <2>1, <2>4, <2>6
<1>12. ASSUME Sifted \/ EnterWrite \/ Written \/ WriteFails \/ WriteReturns \/ WriterStops PROVE <1>1!1
  <2>1. UNCHANGED <<channel, batch, active, phase, reply>>
    BY <1>12 DEF Sifted, EnterWrite, Written, WriteFails, WriteReturns, WriterStops, handlerVars,
      queueVars
  <2>2. Staged'
    BY <1>0, <1>12, <2>1 DEF Sifted, EnterWrite, Written, WriteFails, WriteReturns, WriterStops
  <2> QED
    BY <1>0, <2>1, <2>2 DEF Held
<1>13. ASSUME UNCHANGED <<channel, batch, active, phase, reply, stage>> PROVE <1>1!1
  BY <1>0, <1>13 DEF Held
<1>14. ASSUME \/ Close \/ CloserReturns \/ CompactBegin \/ CompactEnd \/ UNCHANGED vars
              \/ \E h \in Direct : DirectBegin(h) \/ DirectEnd(h)
       PROVE  UNCHANGED <<channel, batch, active, phase, reply, stage>>
  BY <1>14 DEF Close, CloserReturns, CompactBegin, CompactEnd, vars, DirectBegin, DirectEnd,
    handlerVars, queueVars, writeVars
<1> HIDE DEF Apart, Unanswered, Staged
<1> QED
  BY <1>3, <1>4, <1>5, <1>6, <1>7, <1>9, <1>10, <1>11, <1>12, <1>13, <1>14
  DEF Next, HandlerStep, WriterStep

\* What a request was answered is what it sent, and stored.
LEMMA ProgressStays ==
  ASSUME TypeOK, HeldInv, ProgressInv, OffsetsInv, AcceptedIsStored, [Next]_vars
  PROVE  ProgressInv' /\ AcceptedIsStored'
<1> DEFINE Progress(r) ==
             /\ PartOf(done[r], ChunksOf[r], 0) /\ ToSet(done[r]) \subseteq index
             /\ phase[r] = "idle" => done[r] = <<>>
             /\ phase[r] = "put" => Len(done[r]) < Len(ChunksOf[r])
             /\ phase[r] = "waiting" => PartOf(item[r], ChunksOf[r], Len(done[r]))
             /\ reply[r].ok => reply[r].results = item[r] /\ ToSet(item[r]) \subseteq index
           Accepted(r) ==
             /\ phase[r] # "mismatch"
             /\ phase[r] = "accepted" => done[r] = ChunksOf[r] /\ ToSet(ChunksOf[r]) \subseteq index
<1>0. \A r \in Req : Progress(r) /\ Accepted(r)
  BY DEF ProgressInv, AcceptedIsStored
<1>1. SUFFICES ASSUME NEW r \in Req PROVE Progress(r)' /\ Accepted(r)'
  BY DEF ProgressInv, AcceptedIsStored
<1>2. index \subseteq index'
  BY DEF Next, vars, handlerVars, admitVars, queueVars, writeVars, repoVars, Acquire, Refuse,
    BadBody, ClientGone, HandlerStep, Submit, SubmitFails, Answered, Abandoned, WriterStep, Take,
    Collect, SiftCancelled, Sift, Sifted, EnterWrite, Written, WriteFails, Answer, AnswerFailure,
    WriteReturns, WriterStops, Close, FailQueued, CloserReturns, DirectBegin, DirectEnd,
    CompactBegin, CompactEnd
<1>3. /\ ChunksOf[r] \in Seq(Hash) /\ ChunksOf[r] # <<>> /\ done[r] \in Seq(Hash) /\ item[r] \in Seq(Hash)
      /\ Progress(r) /\ Accepted(r)
  BY <1>0, ConstantsOK DEF TypeOK, ConstantsOK
\* The step does not touch r, or only ends it.
<1>4. ASSUME done'[r] = done[r], item'[r] = item[r], reply'[r] = reply[r],
             phase'[r] \in {phase[r], "refused", "failed"}
      PROVE  Progress(r)' /\ Accepted(r)'
  BY <1>2, <1>3, <1>4 DEF PartOf
<1>5. ASSUME NEW q \in Req, Acquire(q) \/ Refuse(q) \/ BadBody(q) \/ ClientGone(q) \/ SubmitFails(q)
                            \/ Abandoned(q)
      PROVE  Progress(r)' /\ Accepted(r)'
  <2>1. UNCHANGED <<done, item, reply>>
    BY <1>5 DEF Acquire, Refuse, BadBody, ClientGone, SubmitFails, Abandoned
  <2>2. CASE q = r /\ Acquire(q)
    <3>1. phase[r] = "idle" /\ phase'[r] = "put"
      BY <2>2 DEF Acquire, TypeOK
    <3>2. Len(done[r]) = 0 /\ Len(ChunksOf[r]) \in Nat \ {0}
      BY <1>3, <3>1
    <3> QED
      BY <1>2, <1>3, <2>1, <3>1, <3>2 DEF PartOf
  <2>3. CASE q # r \/ ~Acquire(q)
    <3>1. phase'[r] \in {phase[r], "refused", "failed"}
      BY <1>5, <2>3 DEF Acquire, Refuse, BadBody, ClientGone, SubmitFails, Abandoned, End, TypeOK
    <3> QED
      BY <1>4, <2>1, <3>1
  <2> QED
    BY <2>2, <2>3
<1>6. ASSUME NEW q \in Req, Submit(q) PROVE Progress(r)' /\ Accepted(r)'
  <2>1. /\ phase[q] = "put" /\ phase' = [phase EXCEPT ![q] = "waiting"]
        /\ item' = [item EXCEPT ![q] = SubBatch(q)] /\ UNCHANGED <<done, reply>>
    BY <1>6 DEF Submit
  <2>2. CASE q = r
    <3>1. PartOf(SubBatch(r), ChunksOf[r], Len(done[r]))
      BY <1>3, <2>1, <2>2, SubBatchIs
    <3>2. reply[r] = NoReply
      BY <2>1, <2>2 DEF HeldInv
    <3>3. /\ phase'[r] = "waiting" /\ item'[r] = SubBatch(r)
          /\ done'[r] = done[r] /\ reply'[r].ok = FALSE
      BY <2>1, <2>2, <3>2 DEF TypeOK, NoReply
    <3> QED
      BY <1>2, <1>3, <3>1, <3>3 DEF PartOf
  <2>3. CASE q # r
    <3>1. phase'[r] = phase[r] /\ item'[r] = item[r]
      BY <2>1, <2>3 DEF TypeOK
    <3> QED
      BY <1>4, <2>1, <3>1
  <2> QED
    BY <2>2, <2>3
<1>7. ASSUME NEW q \in Req, Answered(q) PROVE Progress(r)' /\ Accepted(r)'
  <2>1. phase[q] = "waiting" /\ reply' = [reply EXCEPT ![q] = NoReply] /\ UNCHANGED item
    BY <1>7 DEF Answered
  <2>2. CASE q # r
    <3>1. phase'[r] = phase[r] /\ done'[r] = done[r] /\ reply'[r] = reply[r]
      BY <1>7, <2>1, <2>2 DEF Answered, End, TypeOK
    <3> QED
      BY <1>4, <2>1, <3>1
  <2>3. CASE q = r
    <3>1. reply'[r].ok = FALSE
      BY <2>1, <2>3 DEF TypeOK, NoReply
    <3>2. CASE ~reply[r].ok
      <4>1. phase'[r] = "failed" /\ done'[r] = done[r]
        BY <1>7, <2>3, <3>2 DEF Answered, End, TypeOK
      <4> QED
        BY <1>2, <1>3, <2>1, <3>1, <4>1 DEF PartOf
    <3>3. CASE reply[r].ok
      <4> DEFINE all == done[r] \o item[r]
      <4>1. reply[r].results = item[r] /\ ToSet(item[r]) \subseteq index
        BY <1>3, <3>3
      <4>2. PartOf(item[r], ChunksOf[r], Len(done[r]))
        BY <1>3, <2>1, <2>3
      <4>3. PartOf(all, ChunksOf[r], 0)
        BY <1>3, <4>2, PartsJoin
      <4>a. item[r] \in Seq(Hash) /\ done[r] \in Seq(Hash)
        BY <1>3
      <4>4. all \in Seq(Hash) /\ ToSet(all) = ToSet(done[r]) \cup ToSet(item[r])
        BY <4>a, PartAdded
      <4>5. done'[r] = all
        <5>1. done' = [done EXCEPT ![r] = done[r] \o reply[r].results]
          BY <1>7, <2>3, <3>3 DEF Answered
        <5> QED
          BY <4>1, <5>1 DEF TypeOK
      <4>6. \/ phase'[r] = "put" /\ Len(all) < Len(ChunksOf[r])
            \/ /\ phase'[r] = IF all = ChunksOf[r] THEN "accepted" ELSE "mismatch"
               /\ ~(Len(all) < Len(ChunksOf[r]))
        BY <1>7, <2>3, <3>3, <4>1 DEF Answered, End, TypeOK
      <4>7. ~(Len(all) < Len(ChunksOf[r])) => all = ChunksOf[r]
        BY <1>3, <4>3, <4>4, PartIsWhole
      <4>8. ToSet(all) \subseteq index'
        BY <1>2, <1>3, <4>1, <4>4
      <4> HIDE DEF all
      <4> QED
        BY <1>3, <3>1, <4>3, <4>5, <4>6, <4>7, <4>8
    <3> QED
      BY <3>2, <3>3
  <2> QED
    BY <2>2, <2>3
\* An answer from the queue: an error, or the chunks of the request.
<1>8. ASSUME NEW q \in Req, NEW answer, Finish(q, answer), UNCHANGED handlerVars,
             answer = Err \/ (answer = Ok(item[q]) /\ ToSet(item[q]) \subseteq index)
      PROVE  Progress(r)' /\ Accepted(r)'
  <2>1. reply' = [reply EXCEPT ![q] = answer] /\ UNCHANGED <<phase, done, item>>
    BY <1>8 DEF Finish, handlerVars
  <2>2. CASE q # r
    <3>1. reply'[r] = reply[r]
      BY <2>1, <2>2 DEF TypeOK
    <3> QED
      BY <1>4, <2>1, <3>1
  <2>3. CASE q = r
    <3>1. reply'[r] = answer
      BY <2>1, <2>3 DEF TypeOK
    <3>2. answer.ok => answer.results = item[r] /\ ToSet(item[r]) \subseteq index
      BY <1>8, <2>3 DEF Err, Ok
    <3> QED
      BY <1>2, <1>3, <2>1, <3>1, <3>2 DEF PartOf
  <2> QED
    BY <2>2, <2>3
<1>9. ASSUME SiftCancelled \/ AnswerFailure \/ FailQueued PROVE Progress(r)' /\ Accepted(r)'
  <2>1. UNCHANGED handlerVars /\ \E q \in Req : Finish(q, Err)
    BY <1>9, TailOf DEF SiftCancelled, AnswerFailure, FailQueued, TypeOK
  <2> QED
    BY <1>8, <2>1
<1>10. ASSUME Answer PROVE Progress(r)' /\ Accepted(r)'
  <2>1. /\ stage = "answer" /\ active # <<>> /\ active \in Seq(Req) /\ UNCHANGED handlerVars
        /\ Finish(Head(active), Ok(ResultsOf(Head(active))))
    BY <1>10 DEF Answer, TypeOK
  <2>2. Head(active) \in ToSet(active)
    BY <2>1, TailOf
  <2>3. /\ ResultsOf(Head(active)) = item[Head(active)] /\ Head(active) \in Req
        /\ ToSet(item[Head(active)]) \subseteq index
    BY <2>1, <2>2, ResultsAre DEF OffsetsInv
  <2> QED
    BY <1>8, <2>1, <2>3
<1>11. ASSUME UNCHANGED <<phase, done, item, reply>> PROVE Progress(r)' /\ Accepted(r)'
  BY <1>4, <1>11
<1>12. ASSUME \/ Take \/ Collect \/ Sift \/ Sifted \/ EnterWrite \/ Written \/ WriteFails
              \/ WriteReturns \/ WriterStops \/ Close \/ CloserReturns \/ CompactBegin \/ CompactEnd
              \/ (\E h \in Direct : DirectBegin(h) \/ DirectEnd(h)) \/ UNCHANGED vars
       PROVE  UNCHANGED <<phase, done, item, reply>>
  BY <1>12 DEF Take, Collect, Sift, Sifted, EnterWrite, Written, WriteFails, WriteReturns,
    WriterStops, Close, CloserReturns, CompactBegin, CompactEnd, DirectBegin, DirectEnd, vars,
    handlerVars
<1> HIDE DEF Progress, Accepted
<1> QED
  BY <1>5, <1>6, <1>7, <1>9, <1>10, <1>11, <1>12 DEF Next, HandlerStep, WriterStep

\* The chunks of a request stay where its offset says.
LEMMA OffsetsStay ==
  ASSUME TypeOK, HeldInv, OffsetsInv, [Next]_vars
  PROVE  OffsetsInv'
<1>0. /\ \A r \in ToSet(active) : /\ PartOf(item[r], combined, offsets[r]) /\ r \in Req
                                  /\ item[r] \in Seq(Hash) /\ offsets[r] \in Nat
      /\ combined \in Seq(Hash) /\ batch \in Seq(Req) /\ active \in Seq(Req)
  BY HeldAre DEF OffsetsInv, TypeOK
<1>1. ASSUME Sift PROVE OffsetsInv'
  <2> DEFINE x == Head(batch)
  <2>1. /\ batch # <<>> /\ active' = Append(active, x) /\ combined' = combined \o item[x]
        /\ offsets' = [offsets EXCEPT ![x] = Len(combined)] /\ item' = item /\ stage' = "sift"
    BY <1>1 DEF Sift, handlerVars
  <2>2. x \in Req /\ x \in ToSet(batch) /\ item[x] \in Seq(Hash)
    BY <1>0, <2>1, TailOf DEF TypeOK
  <2>3. x \notin ToSet(active) /\ ToSet(active') = ToSet(active) \cup {x}
    BY <1>0, <2>1, <2>2, AppendOf DEF HeldInv
  <2>4. offsets'[x] = Len(combined) /\ \A r \in Req \ {x} : offsets'[r] = offsets[r]
    BY <2>1, <2>2 DEF TypeOK
  <2>5. PartOf(item[x], combined', offsets'[x])
    BY <1>0, <2>1, <2>2, <2>4, PartAdded
  <2>6. ASSUME NEW r \in ToSet(active) PROVE PartOf(item[r], combined', offsets'[r])
    BY <1>0, <2>1, <2>2, <2>3, <2>4, PartStays
  <2> HIDE DEF x
  <2>7. \A r \in ToSet(active') : PartOf(item'[r], combined', offsets'[r])
    BY <2>1, <2>3, <2>5, <2>6
  <2> QED
    BY <2>1, <2>7 DEF OffsetsInv, PartOf
<1>2. ASSUME NEW q \in Req, Submit(q) PROVE OffsetsInv'
  <2>1. /\ phase[q] = "put" /\ item' = [item EXCEPT ![q] = SubBatch(q)]
        /\ UNCHANGED <<active, offsets, combined, stage, index>>
    BY <1>2 DEF Submit, writeVars, repoVars
  <2>2. q \notin ToSet(active)
    BY <2>1 DEF HeldInv, Held
  <2>3. \A r \in ToSet(active) : item'[r] = item[r]
    BY <1>0, <2>1, <2>2 DEF TypeOK
  <2> QED
    BY <2>1, <2>3 DEF OffsetsInv, PartOf
<1>3. ASSUME Answer \/ AnswerFailure PROVE OffsetsInv'
  <2>1. active # <<>> /\ active' = Tail(active) /\ UNCHANGED <<item, offsets, combined, stage, index>>
    BY <1>3 DEF Answer, AnswerFailure, handlerVars, repoVars
  <2>2. ToSet(active') \subseteq ToSet(active)
    BY <1>0, <2>1, TailOf DEF HeldInv
  <2> QED
    BY <2>1, <2>2 DEF OffsetsInv, PartOf
<1>4. ASSUME Written PROVE OffsetsInv'
  BY <1>4 DEF Written, OffsetsInv, PartOf, handlerVars
<1>5. ASSUME WriteReturns PROVE OffsetsInv'
  <2>1. active' = <<>> /\ stage' = "idle"
    BY <1>5 DEF WriteReturns
  <2> QED
    BY <2>1, EmptyOf DEF OffsetsInv
<1>6. ASSUME UNCHANGED <<active, item, offsets, combined>>, stage' = "answer" => stage = "answer",
             index \subseteq index'
      PROVE  OffsetsInv'
  BY <1>6 DEF OffsetsInv, PartOf
<1>7. ASSUME NEW r \in Req, Acquire(r) \/ Refuse(r) \/ BadBody(r) \/ ClientGone(r) \/ SubmitFails(r)
                            \/ Answered(r) \/ Abandoned(r)
      PROVE  UNCHANGED <<active, item, offsets, combined, stage, index>>
  BY <1>7 DEF Acquire, Refuse, BadBody, ClientGone, SubmitFails, Answered, Abandoned, writeVars,
    repoVars
<1>8. ASSUME \/ Take \/ Collect \/ SiftCancelled \/ Sifted \/ EnterWrite \/ WriteFails \/ WriterStops
             \/ Close \/ FailQueued \/ CloserReturns \/ CompactBegin \/ CompactEnd
             \/ (\E h \in Direct : DirectBegin(h) \/ DirectEnd(h)) \/ UNCHANGED vars
      PROVE  /\ UNCHANGED <<active, item, offsets, combined>>
             /\ stage' = "answer" => stage = "answer"
             /\ index \subseteq index'
  BY <1>8 DEF Take, Collect, SiftCancelled, Sifted, EnterWrite, WriteFails, WriterStops, Close,
    FailQueued, CloserReturns, CompactBegin, CompactEnd, DirectBegin, DirectEnd, vars, handlerVars,
    writeVars, repoVars
<1> QED
  BY <1>1, <1>2, <1>3, <1>4, <1>5, <1>6, <1>7, <1>8 DEF Next, HandlerStep, WriterStep

-----------------------------------------------------------------------------
(* The theorems.                                                           *)

\* The inductive invariant holds in every reachable state.
LEMMA WriteInvHolds == Spec => []WriteInv
<1>1. ASSUME WriteInv, [Next]_vars PROVE WriteInv'
  <2>1. TypeOK /\ QueueAccounting /\ AdmissionAccounting /\ HeldInv /\ ProgressInv /\ OffsetsInv
        /\ AcceptedIsStored /\ WritesExcludeCompact
    BY <1>1 DEF WriteInv, CountersExact
  <2>2. QueueAccounting' /\ queued' \in [requests : Nat, bytes : Nat]
    BY <1>1, <2>1, QueueStaysExact
  <2>3. AdmissionAccounting' /\ admitted' \in [Agent -> [requests : Nat, bytes : Nat]] /\ global' \in Nat
    BY <1>1, <2>1, AdmissionStaysExact
  <2>4. TypeOK'
    BY <1>1, <2>1, <2>2, <2>3, TypesStay
  <2>5. HeldInv' /\ ProgressInv' /\ AcceptedIsStored' /\ OffsetsInv' /\ WritesExcludeCompact'
    BY <1>1, <2>1, HeldStays, ProgressStays, OffsetsStay, WritesStayOut
  <2> QED
    BY <2>2, <2>3, <2>4, <2>5 DEF WriteInv, CountersExact
<1> QED
  BY <1>1, StartsInWriteInv, PTL DEF Spec

\* releaseUpload, release and the early returns between them: whichever way
\* uploads and sub-batches end, what admission and the write queue count is
\* what they hold, and stays within their limits.
THEOREM CountersStayExact == Spec => []CountersExact
BY WriteInvHolds, PTL DEF WriteInv

\* write takes the results of a coalesced PutChunks apart by offsets: a
\* request that is accepted got those of its own chunks, all of them, and they
\* are stored.
THEOREM AcceptedStaysStored == Spec => []AcceptedIsStored
BY WriteInvHolds, PTL DEF WriteInv

\* enterWrite and tryEnterCompactMaintenance: no PutChunks runs while a compact
\* holds the gate.
THEOREM WritesKeepOutOfCompacts == Spec => []WritesExcludeCompact
BY WriteInvHolds, PTL DEF WriteInv

-----------------------------------------------------------------------------
(* The write path as the agents see it.                                    *)

AdmittedReqs == {r \in Req : phase[r] \notin {"idle", "refused"}}

\* Which steps change what the agents see, or the chunks on their way.
LEMMA PhaseSteps ==
  ASSUME [Next]_vars
  PROVE  \/ \E r \in Req : Acquire(r) \/ Refuse(r)
         \/ \E r \in Req : BadBody(r) \/ SubmitFails(r) \/ Abandoned(r)
         \/ \E r \in Req : Submit(r) \/ Answered(r)
         \/ Sift \/ Written
         \/ \E h \in Direct : DirectEnd(h)
         \/ WriteReturns
         \/ UNCHANGED <<phase, item, combined, index>>
  BY DEF Next, vars, HandlerStep, WriterStep, ClientGone, Take, Collect, SiftCancelled, Sifted,
         EnterWrite, WriteFails, Answer, AnswerFailure, WriterStops, Close, FailQueued,
         CloserReturns, DirectBegin, CompactBegin, CompactEnd, handlerVars, queueVars, writeVars,
         repoVars

\* A request that was admitted stays admitted.
LEMMA AdmittedStay ==
  ASSUME TypeOK, [Next]_vars
  PROVE  AdmittedReqs \subseteq AdmittedReqs'
<1>1. ASSUME NEW r \in Req, NEW to \in {"put", "failed", "waiting", "accepted", "mismatch"},
             phase' = [phase EXCEPT ![r] = to]
      PROVE  AdmittedReqs \subseteq AdmittedReqs'
  BY <1>1 DEF AdmittedReqs, TypeOK
<1>2. ASSUME NEW r \in Req, Refuse(r) PROVE AdmittedReqs \subseteq AdmittedReqs'
  BY <1>2 DEF Refuse, AdmittedReqs, TypeOK
<1>3. ASSUME NEW r \in Req, Acquire(r) PROVE AdmittedReqs \subseteq AdmittedReqs'
  BY <1>1, <1>3 DEF Acquire
<1>4. ASSUME NEW r \in Req, BadBody(r) \/ SubmitFails(r) \/ Abandoned(r)
      PROVE  AdmittedReqs \subseteq AdmittedReqs'
  BY <1>1, <1>4 DEF BadBody, SubmitFails, Abandoned, End
<1>5. ASSUME NEW r \in Req, Submit(r) PROVE AdmittedReqs \subseteq AdmittedReqs'
  BY <1>1, <1>5 DEF Submit
<1>6. ASSUME NEW r \in Req, Answered(r) PROVE AdmittedReqs \subseteq AdmittedReqs'
  <2>1. \E to \in {"put", "failed", "accepted", "mismatch"} : phase' = [phase EXCEPT ![r] = to]
    BY <1>6 DEF Answered, End
  <2> QED
    BY <1>1, <2>1
<1>7. phase' = phase => AdmittedReqs \subseteq AdmittedReqs'
  BY DEF AdmittedReqs
<1>8. Sift \/ Written \/ WriteReturns \/ (\E h \in Direct : DirectEnd(h)) => phase' = phase
  BY DEF Sift, Written, WriteReturns, DirectEnd, handlerVars
<1> QED
  BY <1>2, <1>3, <1>4, <1>5, <1>6, <1>7, <1>8, PhaseSteps

\* The queue is only given chunks of admitted requests.
LEMMA AskedStays ==
  ASSUME WriteInv, AskedInv, [Next]_vars
  PROVE  AskedInv'
<1> DEFINE Asked == UNION {ToSet(ChunksOf[r]) : r \in AdmittedReqs}
           ItemOK(r) == /\ ToSet(item[r]) \subseteq ToSet(ChunksOf[r])
                        /\ item[r] # <<>> => r \in AdmittedReqs
<1>0. /\ TypeOK /\ ProgressInv /\ HeldInv
      /\ \A r \in Req : ItemOK(r)
      /\ ToSet(combined) \subseteq Asked
  BY DEF WriteInv, CountersExact, AskedInv, AdmittedReqs
<1>1. AdmittedReqs \subseteq AdmittedReqs' /\ Asked \subseteq Asked'
  BY <1>0, AdmittedStay
<1>2. SUFFICES (\A r \in Req : ItemOK(r)') /\ ToSet(combined') \subseteq Asked'
  BY DEF AskedInv, AdmittedReqs
<1>3. ASSUME UNCHANGED <<item, combined>> PROVE <1>2!1
  BY <1>0, <1>1, <1>3
<1>4. ASSUME NEW r \in Req, Submit(r) PROVE <1>2!1
  <2>1. /\ phase[r] = "put" /\ item' = [item EXCEPT ![r] = SubBatch(r)] /\ combined' = combined
        /\ phase' = [phase EXCEPT ![r] = "waiting"]
    BY <1>4 DEF Submit, writeVars
  <2>2. Len(done[r]) < Len(ChunksOf[r])
    BY <1>0, <2>1 DEF ProgressInv
  <2>3. SubBatch(r) \in Seq(Hash) /\ PartOf(SubBatch(r), ChunksOf[r], Len(done[r]))
    BY <1>0, <2>2, SubBatchIs
  <2>4. ToSet(SubBatch(r)) \subseteq ToSet(ChunksOf[r])
    <3>1. ChunksOf[r] \in Seq(Hash) /\ Len(done[r]) \in Nat
      BY <1>0, ConstantsOK DEF ConstantsOK, TypeOK
    <3> QED
      BY <2>3, <3>1, PartIn
  <2>5. item'[r] = SubBatch(r) /\ \A q \in Req \ {r} : item'[q] = item[q]
    BY <1>0, <2>1 DEF TypeOK
  <2>6. r \in AdmittedReqs'
    BY <1>0, <2>1 DEF AdmittedReqs, TypeOK
  <2>7. ItemOK(r)'
    BY <2>4, <2>5, <2>6
  <2>8. ASSUME NEW q \in Req \ {r} PROVE ItemOK(q)'
    BY <1>0, <1>1, <2>5
  <2>9. ToSet(combined') \subseteq Asked'
    BY <1>0, <1>1, <2>1
  <2> QED
    BY <2>7, <2>8, <2>9
<1>5. ASSUME Sift PROVE <1>2!1
  <2> DEFINE r == Head(batch)
  <2>1. /\ batch # <<>> /\ combined' = combined \o item[r] /\ UNCHANGED item
    BY <1>5 DEF Sift, handlerVars
  <2>2. r \in Req /\ item[r] \in Seq(Hash) /\ combined \in Seq(Hash)
    BY <1>0, <2>1 DEF TypeOK
  <2> HIDE DEF r
  <2>3. ToSet(combined') = ToSet(combined) \cup ToSet(item[r])
    BY <2>1, <2>2, PartAdded
  <2>4. ToSet(item[r]) \subseteq Asked
    <3>1. CASE item[r] = <<>>
      BY <3>1 DEF ToSet
    <3>2. CASE item[r] # <<>>
      BY <1>0, <2>2, <3>2
    <3> QED
      BY <3>1, <3>2
  <2>5. ToSet(combined') \subseteq Asked'
    BY <1>0, <1>1, <2>3, <2>4
  <2>6. \A q \in Req : ItemOK(q)'
    BY <1>0, <1>1, <2>1
  <2> QED
    BY <2>5, <2>6
<1>6. ASSUME WriteReturns PROVE <1>2!1
  <2>1. combined' = <<>> /\ item' = item
    BY <1>6 DEF WriteReturns, handlerVars
  <2>2. ToSet(combined') = {}
    BY <2>1 DEF ToSet
  <2> QED
    BY <1>0, <1>1, <2>1, <2>2
<1>7. ASSUME \/ \E r \in Req : Acquire(r) \/ Refuse(r)
             \/ \E r \in Req : BadBody(r) \/ SubmitFails(r) \/ Abandoned(r)
             \/ \E r \in Req : Answered(r)
             \/ Written \/ \E h \in Direct : DirectEnd(h)
      PROVE  UNCHANGED <<item, combined>>
  BY <1>7 DEF Acquire, Refuse, BadBody, SubmitFails, Abandoned, Answered, Written, DirectEnd,
              writeVars, handlerVars
<1> QED
  BY <1>3, <1>4, <1>5, <1>6, <1>7, PhaseSteps

LEMMA AskedInvHolds == Spec => []AskedInv
<1>1. Init => AskedInv
  BY DEF Init, AskedInv, ToSet
<1>2. WriteInv /\ AskedInv /\ [Next]_vars => AskedInv'
  BY AskedStays
<1> QED
  BY <1>1, <1>2, WriteInvHolds, PTL DEF Spec

\* Every step is one of UploadService, or one the agents do not see.
LEMMA UploadStep ==
  ASSUME WriteInv, WriteInv', AskedInv, [Next]_vars
  PROVE  Uploads!Next \/ UNCHANGED <<Outcome, index>>
<1>0. /\ TypeOK /\ TypeOK' /\ AcceptedIsStored'
      /\ index \subseteq Hash /\ combined \in Seq(Hash)
  BY DEF WriteInv, CountersExact, TypeOK
<1>1. /\ Outcome = [r \in Req |-> Outcome[r]] /\ Outcome' = [r \in Req |-> Outcome'[r]]
      /\ \A r \in Req : phase'[r] = phase[r] => Outcome'[r] = Outcome[r]
  BY DEF Outcome, InFlight
<1>2. /\ \A r \in Req : phase[r] = "idle" => Outcome[r] = "none"
      /\ \A r \in Req : phase[r] \in {"put", "waiting"} => Outcome[r] = "open"
      /\ \A r \in Req : phase'[r] \in {"put", "waiting"} => Outcome'[r] = "open"
      /\ \A r \in Req : phase'[r] \in {"refused", "failed", "accepted"} => Outcome'[r] = phase'[r]
  BY DEF Outcome, InFlight
\* A request whose handler moves on turns as its phase does.
<1>3. ASSUME NEW r \in Req, NEW from, NEW to, Outcome[r] = from, Outcome'[r] = to, index' = index,
             \A q \in Req \ {r} : phase'[q] = phase[q]
      PROVE  Uploads!Turns(r, from, to)
  <2>1. Outcome' = [Outcome EXCEPT ![r] = to]
    BY <1>1, <1>3
  <2> QED
    BY <1>3, <2>1 DEF Uploads!Turns
<1>4. ASSUME NEW r \in Req, Acquire(r) PROVE Uploads!Next
  <2>1. /\ phase[r] = "idle" /\ phase'[r] = "put" /\ index' = index
        /\ \A q \in Req \ {r} : phase'[q] = phase[q]
    BY <1>0, <1>4 DEF Acquire, TypeOK, repoVars
  <2>2. Uploads!Admit(r)
    BY <1>2, <1>3, <2>1 DEF Uploads!Admit
  <2> QED
    BY <2>2 DEF Uploads!Next
<1>5. ASSUME NEW r \in Req, Refuse(r) PROVE Uploads!Next
  <2>1. /\ phase[r] = "idle" /\ phase'[r] = "refused" /\ index' = index
        /\ \A q \in Req \ {r} : phase'[q] = phase[q]
    BY <1>0, <1>5 DEF Refuse, TypeOK, repoVars
  <2>2. Uploads!Refuse(r)
    BY <1>2, <1>3, <2>1 DEF Uploads!Refuse
  <2> QED
    BY <2>2 DEF Uploads!Next
<1>6. ASSUME NEW r \in Req, phase[r] \in {"put", "waiting"}, phase'[r] = "failed", index' = index,
             \A q \in Req \ {r} : phase'[q] = phase[q]
      PROVE  Uploads!Next
  <2>1. Uploads!Fail(r)
    BY <1>2, <1>3, <1>6 DEF Uploads!Fail
  <2> QED
    BY <2>1 DEF Uploads!Next
<1>7. ASSUME NEW r \in Req, BadBody(r) \/ SubmitFails(r) \/ Abandoned(r) PROVE Uploads!Next
  <2>1. /\ phase[r] \in {"put", "waiting"} /\ phase'[r] = "failed" /\ index' = index
        /\ \A q \in Req \ {r} : phase'[q] = phase[q]
    BY <1>0, <1>7 DEF BadBody, SubmitFails, Abandoned, End, TypeOK, repoVars
  <2> QED
    BY <1>6, <2>1
<1>8. ASSUME NEW r \in Req, Submit(r) PROVE UNCHANGED <<Outcome, index>>
  <2>1. /\ phase[r] = "put" /\ phase'[r] = "waiting" /\ index' = index
        /\ \A q \in Req \ {r} : phase'[q] = phase[q]
    BY <1>0, <1>8 DEF Submit, TypeOK, repoVars
  <2> QED
    BY <1>1, <1>2, <2>1
<1>9. ASSUME NEW r \in Req, Answered(r) PROVE Uploads!Next \/ UNCHANGED <<Outcome, index>>
  <2>1. /\ phase[r] = "waiting" /\ index' = index
        /\ phase'[r] \in {"put", "failed", "accepted", "mismatch"}
        /\ \A q \in Req \ {r} : phase'[q] = phase[q]
    <3>1. phase[r] = "waiting" /\ index' = index
      BY <1>9 DEF Answered, repoVars
    <3>2. \E to \in {"put", "failed", "accepted", "mismatch"} : phase' = [phase EXCEPT ![r] = to]
      BY <1>9 DEF Answered, End
    <3> QED
      BY <1>0, <3>1, <3>2 DEF TypeOK
  <2>2. CASE phase'[r] = "put"
    BY <1>1, <1>2, <2>1, <2>2
  <2>3. CASE phase'[r] = "failed"
    BY <1>6, <2>1, <2>3
  <2>4. CASE phase'[r] = "accepted"
    <3>1. ToSet(ChunksOf[r]) \subseteq index
      BY <1>0, <2>1, <2>4 DEF AcceptedIsStored
    <3>2. Uploads!Turns(r, "open", "accepted")
      BY <1>2, <1>3, <2>1, <2>4
    <3>3. Uploads!Accept(r)
      BY <3>1, <3>2 DEF Uploads!Accept
    <3> QED
      BY <3>3 DEF Uploads!Next
  <2>5. phase'[r] # "mismatch"
    BY <1>0 DEF AcceptedIsStored
  <2> QED
    BY <2>1, <2>2, <2>3, <2>4, <2>5
\* Chunks are written that were asked for.
<1>10. ASSUME NEW H \in SUBSET Hash, index' = index \cup H, phase' = phase,
              H \subseteq Direct \/ H \subseteq UNION {ToSet(ChunksOf[r]) : r \in AdmittedReqs}
       PROVE  Uploads!Next
  <2>1. Outcome' = Outcome
    BY <1>1, <1>10
  <2>2. AdmittedReqs = {q \in Req : Outcome[q] \notin {"none", "refused"}}
    <3>1. \A q \in Req : Outcome[q] \in {"none", "refused"} <=> phase[q] \in {"idle", "refused"}
      BY <1>0 DEF Outcome, InFlight, TypeOK
    <3> QED
      BY <3>1 DEF AdmittedReqs
  <2>3. Uploads!Asked = UNION {ToSet(ChunksOf[r]) : r \in AdmittedReqs}
    <3>1. AdmittedReqs \subseteq Req
      BY DEF AdmittedReqs
    <3> QED
      BY <2>2, <3>1 DEF Uploads!Asked
  <2>4. Uploads!Store(H)
    BY <1>10, <2>1, <2>3 DEF Uploads!Store
  <2> QED
    BY <2>4 DEF Uploads!Next
<1>11. CASE Written
  <2>1. index' = index \cup ToSet(combined) /\ phase' = phase
    BY <1>11 DEF Written, handlerVars
  <2>2. ToSet(combined) \subseteq Hash
    BY <1>0 DEF ToSet
  <2>3. ToSet(combined) \subseteq UNION {ToSet(ChunksOf[r]) : r \in AdmittedReqs}
    BY DEF AskedInv, AdmittedReqs
  <2> QED
    BY <1>10, <2>1, <2>2, <2>3
<1>12. ASSUME NEW h \in Direct, DirectEnd(h) PROVE Uploads!Next
  <2>1. index' = index \cup {h} /\ phase' = phase /\ {h} \subseteq Direct
    BY <1>12 DEF DirectEnd, handlerVars
  <2>2. {h} \in SUBSET Hash
    BY ConstantsOK DEF ConstantsOK
  <2> QED
    BY <1>10, <2>1, <2>2
<1>13. ASSUME UNCHANGED <<phase, index>> PROVE UNCHANGED <<Outcome, index>>
  BY <1>1, <1>13
<1>14. Sift \/ WriteReturns => UNCHANGED <<phase, index>>
  BY DEF Sift, WriteReturns, handlerVars, repoVars
<1> QED
  BY <1>4, <1>5, <1>7, <1>8, <1>9, <1>11, <1>12, <1>13, <1>14, PhaseSteps

\* agentRepoWriteQueue and its handlers implement UploadService: splitting,
\* queueing, coalescing, cancellation and closing do not show in the outcomes.
THEOREM QueueImplementsUploads == Spec => QueueIsTransparent
<1>1. Init => Uploads!Init
  BY DEF Init, Outcome, Uploads!Init
<1>2. WriteInv /\ WriteInv' /\ AskedInv /\ [Next]_vars => [Uploads!Next]_<<Outcome, index>>
  BY UploadStep
<1> QED
  BY <1>1, <1>2, WriteInvHolds, AskedInvHolds, PTL DEF Spec, QueueIsTransparent, Uploads!Spec

=============================================================================
