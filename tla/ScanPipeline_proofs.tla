------------------------- MODULE ScanPipeline_proofs -------------------------
(***************************************************************************)
(* Proofs about ScanPipeline, for any number of readers and workers, any    *)
(* files and any limits: the two byte windows are exact, every ref stands   *)
(* at the place of its chunk, an entry of the manifest has all chunks of    *)
(* one version of its file, and a manifest accounts for every job.  That a  *)
(* scan ends (ScanEnds) is checked by TLC.                                  *)
(***************************************************************************)
EXTENDS ScanPipeline, DataTheorems, SequenceTheorems

-----------------------------------------------------------------------------
(* The bytes of chunks.                                                    *)

\* A sum over the places of a sequence.
LEMMA BytesAre ==
  ASSUME NEW s \in Seq(Hash)
  PROVE  /\ Bytes(s) = SumFunctionOnSet([i \in DOMAIN s |-> Size[s[i]]], DOMAIN s)
         /\ DOMAIN s = 1..Len(s) /\ IsFiniteSet(DOMAIN s)
         /\ \A i \in DOMAIN s : Size[s[i]] \in Nat \ {0}
<1>1. DOMAIN s = 1..Len(s) /\ Len(s) \in Nat
  OBVIOUS
<1>2. IsFiniteSet(1..Len(s))
  BY <1>1, FS_Interval
<1>3. \A i \in DOMAIN s : Size[s[i]] \in Nat \ {0}
  BY SizesOK
<1>4. Bytes(s) = SumFunctionOnSet([i \in DOMAIN s |-> Size[s[i]]], DOMAIN s)
  BY DEF Bytes, SumFunction, SumFunctionOnSet, FoldFunction
<1> QED
  BY <1>1, <1>2, <1>3, <1>4

\* A chunk is not empty: no bytes, no chunks.
LEMMA BytesNat ==
  ASSUME NEW s \in Seq(Hash)
  PROVE  Bytes(s) \in Nat /\ (Bytes(s) = 0 <=> s = <<>>)
<1> DEFINE w == [i \in DOMAIN s |-> Size[s[i]]]
<1>0. \A i \in DOMAIN s : w[i] \in Nat \ {0}
  BY BytesAre
<1>1. Bytes(s) = SumFunctionOnSet(w, DOMAIN s) /\ IsFiniteSet(DOMAIN s)
  BY BytesAre
<1> HIDE DEF w
<1>5. (\A i \in DOMAIN s : w[i] \in Nat) /\ \A i \in DOMAIN s : w[i] \in Int
  BY <1>0
<1>2. Bytes(s) \in Nat
  BY <1>1, <1>5, SumNat
<1>3. ASSUME s = <<>> PROVE Bytes(s) = 0
  <2>1. DOMAIN s = {}
    BY <1>3
  <2> QED
    BY <1>1, <2>1, SumEmpty
<1>4. ASSUME s # <<>> PROVE Bytes(s) # 0
  <2>1. 1 \in DOMAIN s
    BY <1>4
  <2>2. IsFiniteSet(DOMAIN s \ {1})
    BY <1>1, FS_RemoveElement
  <2>3. SumFunctionOnSet(w, DOMAIN s \ {1}) \in Nat
    BY <1>5, <2>2, SumNat
  <2>4. SumFunctionOnSet(w, DOMAIN s) = w[1] + SumFunctionOnSet(w, DOMAIN s \ {1})
    BY <1>1, <1>5, <2>1, SumTakes
  <2>5. w[1] \in Nat /\ w[1] # 0
    BY <1>0, <2>1
  <2> QED
    BY <1>1, <2>3, <2>4, <2>5
<1> QED
  BY <1>2, <1>3, <1>4

\* One more chunk at the end.
LEMMA BytesAppend ==
  ASSUME NEW s \in Seq(Hash), NEW h \in Hash
  PROVE  Bytes(Append(s, h)) = Bytes(s) + Size[h]
<1> DEFINE t == Append(s, h)
           n == Len(s)
           w == [i \in DOMAIN s |-> Size[s[i]]]
           v == [i \in DOMAIN t |-> Size[t[i]]]
<1>1. t \in Seq(Hash) /\ n \in Nat /\ DOMAIN s = 1..n /\ DOMAIN t = (1..n) \cup {n + 1}
      /\ n + 1 \notin 1..n /\ t[n + 1] = h /\ \A i \in 1..n : t[i] = s[i]
  OBVIOUS
<1>2. Bytes(s) = SumFunctionOnSet(w, 1..n) /\ IsFiniteSet(1..n)
  BY <1>1, BytesAre
<1> HIDE DEF t
<1>3. Bytes(t) = SumFunctionOnSet(v, (1..n) \cup {n + 1}) /\ \A i \in DOMAIN t : Size[t[i]] \in Nat \ {0}
  BY <1>1, BytesAre
<1>4. v[n + 1] = Size[h] /\ \A i \in 1..n : v[i] = w[i]
  BY <1>1
<1>5. \A i \in (1..n) \cup {n + 1} : v[i] \in Int
  BY <1>1, <1>3
<1> HIDE DEF n, w, v
<1>6. SumFunctionOnSet(v, (1..n) \cup {n + 1}) = SumFunctionOnSet(v, 1..n) + v[n + 1]
  BY <1>1, <1>2, <1>5, SumAdds
<1>7. \A i \in 1..n : v[i] \in Int /\ v[i] = w[i]
  BY <1>4, <1>5
<1>8. SumFunctionOnSet(v, 1..n) = SumFunctionOnSet(w, 1..n)
  BY <1>2, <1>7, SumSame
<1> QED
  BY <1>2, <1>3, <1>4, <1>6, <1>8 DEF t

\* One chunk.
LEMMA BytesOne ==
  ASSUME NEW s \in Seq(Hash), Len(s) = 1
  PROVE  Head(s) \in Hash /\ Bytes(s) = Size[Head(s)]
<1>1. <<>> \in Seq(Hash) /\ Len(<<>>) = 0
  BY EmptySeq
<1>2. s[1] \in Hash /\ Head(s) = s[1]
  OBVIOUS
<1>3. Append(<<>>, s[1]) = s
  <2> DEFINE t == Append(<<>>, s[1])
  <2>1. t \in Seq(Hash) /\ Len(t) = 1 /\ t[1] = s[1]
    BY <1>1, <1>2, AppendProperties
  <2>2. \A i \in 1..Len(t) : i = 1
    BY <2>1
  <2> HIDE DEF t
  <2>3. t = s
    BY <2>1, <2>2, SeqEqual
  <2> QED
    BY <2>3 DEF t
<1>4. Bytes(<<>>) = 0
  BY <1>1, BytesNat
<1>5. Bytes(Append(<<>>, s[1])) = Bytes(<<>>) + Size[s[1]]
  BY <1>1, <1>2, BytesAppend
<1>6. Size[s[1]] \in Nat
  BY <1>2, SizesOK
<1>7. Bytes(s) = 0 + Size[s[1]]
  BY <1>3, <1>4, <1>5
<1> QED
  BY <1>2, <1>6, <1>7

\* Without the first chunk.
LEMMA BytesTail ==
  ASSUME NEW s \in Seq(Hash), s # <<>>
  PROVE  Bytes(Tail(s)) = Bytes(s) - Size[Head(s)]
<1> DEFINE G == {n \in Nat : \A t \in Seq(Hash) : Len(t) = n + 1 => Bytes(t) = Size[Head(t)] + Bytes(Tail(t))}
<1>1. 0 \in G
  <2> SUFFICES ASSUME NEW t \in Seq(Hash), Len(t) = 1 PROVE Bytes(t) = Size[Head(t)] + Bytes(Tail(t))
    OBVIOUS
  <2>1. Tail(t) = <<>> /\ <<>> \in Seq(Hash) /\ Head(t) \in Hash
    <3>0. t = <<>> <=> Len(t) = 0
      BY ElementsOf
    <3>1. t # <<>>
      BY <3>0
    <3>2. Tail(t) \in Seq(Hash) /\ Len(Tail(t)) = 0 /\ Head(t) \in Hash
      BY <3>1, HeadTailProperties
    <3> QED
      BY <3>2, EmptySeq
  <2>2. Bytes(<<>>) = 0
    BY <2>1, BytesNat
  <2>3. Bytes(t) = Size[Head(t)]
    BY BytesOne
  <2>4. Size[Head(t)] \in Nat
    BY <2>1, SizesOK
  <2>5. Bytes(Tail(t)) = 0
    BY <2>1, <2>2
  <2> QED
    BY <2>3, <2>4, <2>5
<1>2. ASSUME NEW n \in Nat, n \in G PROVE n + 1 \in G
  <2> SUFFICES ASSUME NEW t \in Seq(Hash), Len(t) = (n + 1) + 1
               PROVE  Bytes(t) = Size[Head(t)] + Bytes(Tail(t))
    OBVIOUS
  <2> DEFINE u == SubSeq(t, 1, n + 1)
             x == t[n + 2]
  <2>1. u \in Seq(Hash) /\ Len(u) = n + 1 /\ x \in Hash /\ t = Append(u, x)
    <3>1. u \in Seq(Hash) /\ Len(u) = n + 1 /\ x \in Hash /\ \A i \in 1..(n + 1) : u[i] = t[i]
      OBVIOUS
    <3> HIDE DEF u
    <3>2. /\ Append(u, x) \in Seq(Hash) /\ Len(Append(u, x)) = n + 2
          /\ \A i \in 1..(n + 1) : Append(u, x)[i] = t[i]
          /\ Append(u, x)[n + 2] = t[n + 2]
      BY <3>1, AppendProperties
    <3>3. \A i \in 1..Len(t) : t[i] = Append(u, x)[i]
      BY <3>2
    <3> QED
      BY <3>1, <3>2, <3>3, SeqEqual
  <2> HIDE DEF u, x
  <2>2. u # <<>>
    BY <2>1, EmptySeq
  <2>3. Head(t) = Head(u) /\ Tail(t) = Append(Tail(u), x)
    BY <2>1, <2>2, HeadTailAppend
  <2>4. Tail(u) \in Seq(Hash) /\ Head(u) \in Hash
    BY <2>1, <2>2, HeadTailProperties
  <2>5. Bytes(u) = Size[Head(u)] + Bytes(Tail(u))
    BY <1>2, <2>1
  <2>6. Bytes(t) = Bytes(u) + Size[x] /\ Bytes(Tail(t)) = Bytes(Tail(u)) + Size[x]
    BY <2>1, <2>3, <2>4, BytesAppend
  <2>7. Size[x] \in Nat /\ Size[Head(u)] \in Nat /\ Bytes(Tail(u)) \in Nat
    BY <2>1, <2>4, BytesNat, SizesOK
  <2> QED
    BY <2>3, <2>5, <2>6, <2>7
<1> HIDE DEF G
<1>3. \A n \in Nat : n \in G
  BY <1>1, <1>2, SetInduction
<1>4. Len(s) - 1 \in Nat /\ Len(s) = (Len(s) - 1) + 1
  BY EmptySeq
<1>5. Tail(s) \in Seq(Hash) /\ Head(s) \in Hash
  BY HeadTailProperties
<1>6. Bytes(s) = Size[Head(s)] + Bytes(Tail(s))
  BY <1>3, <1>4 DEF G
<1>7. Bytes(Tail(s)) \in Nat /\ Size[Head(s)] \in Nat
  BY <1>5, BytesNat, SizesOK
<1> QED
  BY <1>6, <1>7

-----------------------------------------------------------------------------
(* What the constants and the types give.                                  *)

\* The versions of a file.
LEMMA ContentOf ==
  ASSUME NEW f \in File
  PROVE  /\ DOMAIN Content[f] = 1..Len(Content[f]) /\ Len(Content[f]) \in Nat /\ 1 \in DOMAIN Content[f]
         /\ \A v \in DOMAIN Content[f] : v \in Nat \ {0} /\ Content[f][v] \in Seq(Hash)
<1>1. Content[f] \in Seq(Seq(Hash)) /\ Content[f] # <<>>
  BY ReadersOK
<1>2. \A v \in DOMAIN Content[f] : v \in Nat \ {0} /\ Content[f][v] \in Seq(Hash)
  BY <1>1, ElementsOf
<1> QED
  BY <1>1, <1>2

\* The jobs.
LEMMA JobsOf ==
  /\ Jobs \in Seq(File) /\ Len(Jobs) \in Nat \ {0} /\ DOMAIN Jobs = 1..Len(Jobs)
  /\ \A i \in DOMAIN Jobs : Jobs[i] \in File /\ Jobs[i] \in ToSet(Jobs)
  /\ \A i, j \in DOMAIN Jobs : Jobs[i] = Jobs[j] => i = j
<1>1. Jobs \in Seq(File) /\ Jobs # <<>> /\ IsInjective(Jobs)
  BY ReadersOK
<1>2. Len(Jobs) \in Nat \ {0} /\ DOMAIN Jobs = 1..Len(Jobs)
  BY <1>1, EmptySeq, LenProperties
<1>3. \A i \in DOMAIN Jobs : Jobs[i] \in File /\ Jobs[i] \in ToSet(Jobs)
  BY <1>1, ElementsOf DEF ToSet
<1> QED
  BY <1>1, <1>2, <1>3 DEF IsInjective

\* The bytes the readers hold, of a state of them.
HeldBy(rd) == SumFunctionOnSet([w \in Reader |-> Bytes(rd[w].chunks)], Reader)

\* They are a number, and zero when no reader holds a chunk.
LEMMA HeldNat ==
  ASSUME NEW rd, \A w \in Reader : rd[w].chunks \in Seq(Hash)
  PROVE  /\ HeldBy(rd) \in Nat
         /\ \A w \in Reader : Bytes(rd[w].chunks) <= HeldBy(rd)
         /\ (\A w \in Reader : rd[w].chunks = <<>>) <=> HeldBy(rd) = 0
         /\ \A w \in Reader : (\A v \in Reader \ {w} : rd[v].chunks = <<>>)
                                => HeldBy(rd) = Bytes(rd[w].chunks)
<1> DEFINE b == [w \in Reader |-> Bytes(rd[w].chunks)]
<1>1. \A w \in Reader : b[w] = Bytes(rd[w].chunks) /\ b[w] \in Nat /\ (b[w] = 0 <=> rd[w].chunks = <<>>)
  BY BytesNat
<1>2. IsFiniteSet(Reader) /\ Reader # {}
  BY ReadersOK
<1>3. HeldBy(rd) = SumFunctionOnSet(b, Reader)
  BY DEF HeldBy
<1> HIDE DEF b
<1>4. SumFunctionOnSet(b, Reader) \in Nat
  BY <1>1, <1>2, SumNat
<1>5. ASSUME NEW w \in Reader
      PROVE  /\ SumFunctionOnSet(b, Reader \ {w}) \in Nat
             /\ SumFunctionOnSet(b, Reader) = b[w] + SumFunctionOnSet(b, Reader \ {w})
  <2>1. IsFiniteSet(Reader \ {w}) /\ (\A v \in Reader \ {w} : b[v] \in Nat) /\ \A v \in Reader : b[v] \in Int
    BY <1>1, <1>2, FS_RemoveElement
  <2>2. SumFunctionOnSet(b, Reader \ {w}) \in Nat
    BY <2>1, SumNat
  <2> QED
    BY <1>2, <2>1, <2>2, SumTakes
<1>6. \A w \in Reader : b[w] <= HeldBy(rd)
  <2> SUFFICES ASSUME NEW w \in Reader PROVE b[w] <= HeldBy(rd)
    OBVIOUS
  <2>1. b[w] \in Nat /\ SumFunctionOnSet(b, Reader \ {w}) \in Nat
    BY <1>1, <1>5
  <2> QED
    BY <1>3, <1>5, <2>1
<1>7. ASSUME HeldBy(rd) = 0, NEW w \in Reader PROVE rd[w].chunks = <<>>
  <2>1. b[w] \in Nat /\ b[w] <= 0
    BY <1>1, <1>6, <1>7
  <2>2. b[w] = 0
    BY <2>1
  <2> QED
    BY <1>1, <2>2
<1>8. ASSUME NEW w \in Reader, \A v \in Reader \ {w} : rd[v].chunks = <<>>
      PROVE  HeldBy(rd) = b[w]
  <2> DEFINE z == [v \in Reader |-> 0]
  <2>1. IsFiniteSet(Reader \ {w})
    BY <1>2, FS_RemoveElement
  <2>2. \A v \in Reader \ {w} : b[v] \in Int /\ b[v] = 0
    BY <1>1, <1>8
  <2>3. SumFunctionOnSet(b, Reader \ {w}) = 0
    BY <2>1, <2>2, SumZero
  <2> QED
    BY <1>1, <1>3, <1>5, <2>3
<1>9. ASSUME \A w \in Reader : rd[w].chunks = <<>> PROVE HeldBy(rd) = 0
  <2>1. PICK w \in Reader : TRUE
    BY <1>2
  <2>2. HeldBy(rd) = b[w] /\ b[w] = 0
    BY <1>1, <1>8, <1>9
  <2> QED
    BY <2>2
<1> QED
  BY <1>1, <1>3, <1>4, <1>6, <1>7, <1>8, <1>9

\* One reader's step.
LEMMA HeldChanges ==
  ASSUME NEW rd, NEW rx, NEW w \in Reader,
         \A v \in Reader : rd[v].chunks \in Seq(Hash) /\ rx[v].chunks \in Seq(Hash),
         \A v \in Reader \ {w} : rx[v].chunks = rd[v].chunks
  PROVE  HeldBy(rx) = HeldBy(rd) + (Bytes(rx[w].chunks) - Bytes(rd[w].chunks))
<1> DEFINE b == [v \in Reader |-> Bytes(rd[v].chunks)]
           c == [v \in Reader |-> Bytes(rx[v].chunks)]
<1>1. /\ \A v \in Reader : b[v] = Bytes(rd[v].chunks) /\ c[v] = Bytes(rx[v].chunks)
      /\ \A v \in Reader \ {w} : c[v] = b[v]
  OBVIOUS
<1>2. \A v \in Reader : b[v] \in Int /\ c[v] \in Int
  BY BytesNat
<1>3. IsFiniteSet(Reader)
  BY ReadersOK
<1>4. HeldBy(rd) = SumFunctionOnSet(b, Reader) /\ HeldBy(rx) = SumFunctionOnSet(c, Reader)
  BY DEF HeldBy
<1> HIDE DEF b, c
<1>5. SumFunctionOnSet(c, Reader) = SumFunctionOnSet(b, Reader) + (c[w] - b[w])
  BY <1>1, <1>2, <1>3, SumChanges
<1> QED
  BY <1>1, <1>4, <1>5

-----------------------------------------------------------------------------
(* What a step changes, and the types.                                     *)

\* Types of the readers' side, the uploader's and the scanner's, but for the
\* counts of bytes, refs and slots.
ReadersShape ==
  /\ disk \in [File -> Nat] /\ next \in Nat \ {0}
  /\ \A f \in File : disk[f] \in DOMAIN Content[f]
  /\ reader \in [Reader -> ReaderType]
PipeShape ==
  /\ worker \in [Worker -> WorkerType]
  /\ refs \in [File -> Seq(Hash \cup {NoRef})]
  /\ waiters \in [Hash -> SUBSET (File \X Nat)] /\ batch \subseteq Hash
  /\ queue \in Seq(SUBSET Hash) /\ Len(queue) <= QueueSize
  /\ results \in Seq([batch : SUBSET Hash, ok : BOOLEAN]) /\ Len(results) <= QueueSize
  /\ failure \in BOOLEAN /\ stopped \in BOOLEAN
  /\ known \subseteq Hash /\ server \subseteq Hash
ScannerShape ==
  /\ pc \in {"receive", "drain", "reserve", "submit", "next", "queue", "flush", "stop", "wait", "ended"}
  /\ after \in {"flush", "reserve", "next"} /\ file \in File /\ todo \in Seq(Hash)
  /\ ver \in [File -> Nat] /\ outcome \in [File -> {"queued", "pending", "entry", "skipped"}]
  /\ returned \in {"nothing", "manifest", "error"}
Counts ==
  /\ window \in Nat /\ used \in Nat /\ awaiting \in [File -> Nat] /\ slots \in 0..UploadSlots

\* The types, in these parts.
LEMMA TypeParts == TypeOK <=> ReadersShape /\ PipeShape /\ ScannerShape /\ Counts
BY DEF TypeOK, ReadersShape, PipeShape, ScannerShape, Counts

FirstVersions == [f \in File |-> 1]

\* The steps of the readers' side ...
LEMMA ReaderFrame ==
  ASSUME [Next]_vars
  PROVE  \/ \E w \in Reader : TakeJob(w, FirstVersions) \/ ReadStep(w) \/ ReadBreaks(w) \/ Deliver(w)
         \/ \E f \in File : Modify(f)
         \/ UNCHANGED <<disk, next, reader>>
BY DEF FirstVersions, Next, vars, readerVars, Scanner, Receive, Skip, Drain, DrainFails, Add, AddBegin, AddEnd,
  AddMustWait, Submit, NothingToSubmit, ChunkAdded, QueueFile, AllReceived, FlushEnds, StopWorkers,
  ScanReturns, ReceiveFatal, ProgressFails, Readers, Workers, Ended, Fail, Goto

\* ... of the uploader's ...
LEMMA PipeFrame ==
  ASSUME [Next]_vars
  PROVE  \/ Apply \/ Add \/ AddEnd \/ Enqueue \/ Stop
         \/ \E k \in Worker : WorkerStep(k) \/ RequestFails(k)
         \/ UNCHANGED pipeVars
BY DEF Next, vars, Scanner, Receive, Skip, Drain, DrainFails, AddBegin,
  AddMustWait, Submit, NothingToSubmit, ChunkAdded, QueueFile, AllReceived, FlushEnds, StopWorkers,
  ScanReturns, ReceiveFatal, ProgressFails, Readers, Workers, Ended, Fail, Goto

\* ... and of the scanner's.
LEMMA ScannerFrame ==
  ASSUME [Next]_vars
  PROVE  Scanner \/ (\E w \in Reader : ReceiveFatal(w)) \/ ProgressFails \/ UNCHANGED scannerVars
BY DEF Next, vars, Readers, Workers, Ended

\* A chunk to add.
LEMMA TodoHead ==
  ASSUME ScannerShape, ScannerInv,
         pc \in {"drain", "reserve", "next"} \/ (pc = "submit" /\ after # "flush")
  PROVE  /\ todo # <<>> /\ Head(todo) \in Hash /\ Tail(todo) \in Seq(Hash)
         /\ Len(todo) \in Nat \ {0} /\ Len(Tail(todo)) = Len(todo) - 1
<1>1. Adding /\ pc # "queue"
  BY DEF Adding
<1>2. todo # <<>>
  BY <1>1 DEF ScannerInv
<1>3. todo \in Seq(Hash)
  BY DEF ScannerShape
<1> QED
  BY <1>2, <1>3, HeadTailProperties, EmptySeq

\* The readers' side stays well typed ...
LEMMA ReadersShapeStep == ASSUME ReadersShape, [Next]_vars PROVE ReadersShape'
<1>0. \A w \in Reader : /\ reader[w] \in ReaderType /\ reader[w].file \in File
                        /\ reader[w].chunks \in Seq(Hash) /\ reader[w].tries \in Nat
  BY DEF ReadersShape, ReaderType
<1>1. \A f \in File : disk[f] \in Nat
  BY DEF ReadersShape
<1>e. <<>> \in Seq(Hash)
  BY EmptySeq
<1>2. IdleReader \in ReaderType
  <2>1. Jobs[1] \in File
    BY JobsOf
  <2> QED
    BY <1>e, <2>1 DEF IdleReader, ReaderType
<1>3. ASSUME NEW f \in File, Modify(f) PROVE ReadersShape'
  <2>1. disk[f] \in Nat /\ disk[f] < Len(Content[f]) /\ disk' = [disk EXCEPT ![f] = disk[f] + 1]
    BY <1>1, <1>3 DEF Modify
  <2>2. disk[f] + 1 \in DOMAIN Content[f] /\ disk[f] + 1 \in Nat
    BY <2>1, ContentOf
  <2>3. \A g \in File : disk'[g] = IF g = f THEN disk[f] + 1 ELSE disk[g]
    BY <2>1 DEF ReadersShape
  <2> QED
    BY <1>3, <2>1, <2>2, <2>3 DEF ReadersShape, Modify
<1>4. ASSUME NEW w \in Reader, NEW r \in ReaderType, reader' = [reader EXCEPT ![w] = r],
             disk' = disk, next' = next \/ next' = next + 1
      PROVE  ReadersShape'
  BY <1>4 DEF ReadersShape
<1>5. ASSUME NEW w \in Reader, TakeJob(w, FirstVersions) PROVE ReadersShape'
  <2>1. next \in 1..Len(Jobs)
    BY <1>5, JobsOf DEF TakeJob, ReadersShape
  <2>2. Jobs[next] \in File /\ FirstVersions[Jobs[next]] = 1
    BY <2>1, JobsOf DEF FirstVersions
  <2> DEFINE r == [IdleReader EXCEPT !.phase = "read", !.file = Jobs[next], !.ver = FirstVersions[Jobs[next]]]
  <2>3. r \in ReaderType
    <3>1. FirstVersions[Jobs[next]] \in Nat
      BY <2>2
    <3> QED
      BY <1>2, <2>2, <3>1 DEF ReaderType
  <2>4. reader' = [reader EXCEPT ![w] = r] /\ disk' = disk /\ next' = next + 1
    BY <1>5 DEF TakeJob
  <2> HIDE DEF r
  <2> QED
    BY <1>4, <2>3, <2>4
<1>6. ASSUME NEW w \in Reader, ReadChunk(w) PROVE ReadersShape'
  <2> DEFINE f == reader[w].file
             data == Content[f][disk[f]]
             i == Len(reader[w].chunks) + 1
             r == [reader[w] EXCEPT !.chunks = Append(@, data[i])]
  <2>1. f \in File /\ disk[f] \in DOMAIN Content[f] /\ Len(reader[w].chunks) \in Nat
    BY <1>0 DEF ReadersShape
  <2>2. data \in Seq(Hash)
    BY <2>1, ContentOf
  <2>3. i \in 1..Len(data)
    <3>1. i \in Nat \ {0}
      BY <2>1
    <3>3. i <= Len(data)
      BY <1>6 DEF ReadChunk
    <3>2. Len(data) \in Nat
      BY <2>2, LenProperties
    <3> HIDE DEF i, data
    <3> QED
      BY <3>1, <3>2, <3>3
  <2>4. data[i] \in Hash
    BY <2>2, <2>3, ElementOfSeq
  <2>5. Append(reader[w].chunks, data[i]) \in Seq(Hash)
    <3> HIDE DEF data, i
    <3> QED
      BY <1>0, <2>4
  <2>6. r \in ReaderType
    <3> HIDE DEF data, i
    <3> QED
      BY <1>0, <2>5 DEF ReaderType
  <2>7. reader' = [reader EXCEPT ![w] = r] /\ disk' = disk /\ next' = next
    <3>1. reader' = [reader EXCEPT ![w].chunks = Append(@, data[i])] /\ disk' = disk /\ next' = next
      BY <1>6 DEF ReadChunk
    <3> HIDE DEF data, i
    <3> QED
      BY <3>1 DEF ReadersShape
  <2> HIDE DEF r
  <2> QED
    BY <1>4, <2>6, <2>7
<1>7. ASSUME NEW w \in Reader, ReadEnds(w) \/ ReaderReturns(w) PROVE ReadersShape'
  <2>1. PICK p \in {"ready", "done"} : reader' = [reader EXCEPT ![w].phase = p] /\ disk' = disk /\ next' = next
    BY <1>7 DEF ReadEnds, ReaderReturns
  <2>2. [reader[w] EXCEPT !.phase = p] \in ReaderType
    BY <1>0 DEF ReaderType
  <2>3. reader' = [reader EXCEPT ![w] = [reader[w] EXCEPT !.phase = p]]
    BY <2>1 DEF ReadersShape
  <2> QED
    BY <1>4, <2>1, <2>2, <2>3
<1>8. ASSUME NEW w \in Reader, ReadChanged(w) PROVE ReadersShape'
  <2> DEFINE again == [reader[w] EXCEPT !.ver = disk[reader[w].file], !.chunks = <<>>, !.tries = @ + 1]
             failed == [reader[w] EXCEPT !.phase = "failed", !.chunks = <<>>]
  <2>1. disk[reader[w].file] \in Nat
    BY <1>0, <1>1
  <2>2. \A r \in ReaderType, v \in Nat, n \in Nat :
          /\ [r EXCEPT !.phase = "failed", !.chunks = <<>>] \in ReaderType
          /\ [r EXCEPT !.ver = v, !.chunks = <<>>, !.tries = n] \in ReaderType
    BY <1>e DEF ReaderType
  <2>5. reader[w].tries + 1 \in Nat
    BY <1>0
  <2>4. again \in ReaderType /\ failed \in ReaderType
    BY <1>0, <2>1, <2>2, <2>5
  <2>3. disk' = disk /\ next' = next
        /\ (reader' = [reader EXCEPT ![w] = again] \/ reader' = [reader EXCEPT ![w] = failed])
    BY <1>8 DEF ReadChanged
  <2> HIDE DEF again, failed
  <2> QED
    BY <1>4, <2>3, <2>4
<1>9. ASSUME NEW w \in Reader, ReadBreaks(w) PROVE ReadersShape'
  <2>1. [reader[w] EXCEPT !.phase = "failed", !.chunks = <<>>] \in ReaderType
    BY <1>0, <1>e DEF ReaderType
  <2>2. reader' = [reader EXCEPT ![w] = [reader[w] EXCEPT !.phase = "failed", !.chunks = <<>>]]
        /\ disk' = disk /\ next' = next
    BY <1>9 DEF ReadBreaks, ReadersShape
  <2> QED
    BY <1>4, <2>1, <2>2
<1>10. ASSUME NEW w \in Reader, Deliver(w) PROVE ReadersShape'
  BY <1>2, <1>4, <1>10 DEF Deliver
<1>11. CASE UNCHANGED <<disk, next, reader>>
  BY <1>11 DEF ReadersShape
<1> QED
  BY <1>3, <1>5, <1>6, <1>7, <1>8, <1>9, <1>10, <1>11, ReaderFrame DEF ReadStep

\* ... and so does the scanner's ...
LEMMA ScannerShapeStep == ASSUME ReadersShape, ScannerShape, ScannerInv, [Next]_vars PROVE ScannerShape'
<1>0. \A w \in Reader : /\ reader[w].file \in File /\ reader[w].chunks \in Seq(Hash) /\ reader[w].ver \in Nat
  BY DEF ReadersShape, ReaderType
<1>e. <<>> \in Seq(Hash)
  BY EmptySeq
<1>1. ASSUME NEW w \in Reader, Receive(w) \/ Skip(w) \/ ReceiveFatal(w) PROVE ScannerShape'
  BY <1>0, <1>1 DEF ScannerShape, Receive, Skip, ReceiveFatal
<1>2. CASE Fail
  BY <1>e, <1>2 DEF ScannerShape, Fail
<1>3. CASE Goto(pc)
  BY <1>3 DEF ScannerShape, Goto
<1>4. CASE ChunkAdded
  <2>1. Tail(todo) \in Seq(Hash)
    BY <1>4, TodoHead DEF ChunkAdded
  <2> QED
    BY <1>4, <2>1 DEF ScannerShape, ChunkAdded
<1>5. CASE QueueFile \/ FlushEnds
  <2>1. outcome' \in [File -> {"queued", "pending", "entry", "skipped"}]
    BY <1>5 DEF ScannerShape, QueueFile, FlushEnds
  <2> QED
    BY <1>5, <2>1 DEF ScannerShape, QueueFile, FlushEnds
<1>6. CASE Add \/ AddBegin \/ AddEnd \/ AddMustWait
  BY <1>6 DEF ScannerShape, Add, AddBegin, AddEnd, AddMustWait, Goto
<1>7. CASE Submit \/ NothingToSubmit \/ AllReceived \/ StopWorkers \/ ScanReturns
  BY <1>7 DEF ScannerShape, Submit, NothingToSubmit, AllReceived, StopWorkers, ScanReturns, Goto
<1>8. CASE UNCHANGED scannerVars
  BY <1>8 DEF ScannerShape, scannerVars
<1> QED
  BY <1>1, <1>2, <1>3, <1>4, <1>5, <1>6, <1>7, <1>8, ScannerFrame
  DEF Scanner, Drain, DrainFails, ProgressFails

\* The refs of a file.
LEMMA RefsOf ==
  ASSUME PipeShape, NEW f \in File
  PROVE  /\ refs[f] \in Seq(Hash \cup {NoRef}) /\ Len(refs[f]) \in Nat /\ DOMAIN refs[f] = 1..Len(refs[f])
         /\ \A i \in DOMAIN refs[f] : i \in Nat \ {0} /\ refs[f][i] \in Hash \cup {NoRef}
<1>1. refs[f] \in Seq(Hash \cup {NoRef})
  BY DEF PipeShape
<1>2. Len(refs[f]) \in Nat /\ DOMAIN refs[f] = 1..Len(refs[f])
  BY <1>1, LenProperties
<1> QED
  BY <1>1, <1>2, ElementOfSeq

\* The result that comes next.
LEMMA ResultHead ==
  ASSUME PipeShape, results # <<>>
  PROVE  /\ Head(results).batch \subseteq Hash /\ Head(results).ok \in BOOLEAN /\ Head(results) = results[1]
         /\ Tail(results) \in Seq([batch : SUBSET Hash, ok : BOOLEAN]) /\ Len(results) \in Nat \ {0}
         /\ Len(Tail(results)) = Len(results) - 1 /\ 1 \in DOMAIN results
<1>1. results \in Seq([batch : SUBSET Hash, ok : BOOLEAN])
  BY DEF PipeShape
<1>2. Head(results) \in [batch : SUBSET Hash, ok : BOOLEAN]
  BY <1>1, HeadTailProperties
<1> QED
  BY <1>1, <1>2, HeadTailProperties, EmptySeq

\* The chunks of a batch are filled in where they are awaited.
LEMMA FillRefs ==
  ASSUME PipeShape, NEW done \in SUBSET Hash, Fill(done)
  PROVE  /\ refs' \in [File -> Seq(Hash \cup {NoRef})]
         /\ \A f \in File :
              /\ DOMAIN refs'[f] = DOMAIN refs[f] /\ Len(refs'[f]) = Len(refs[f])
              /\ \A i \in DOMAIN refs[f] :
                   \/ \E h \in done : <<f, i>> \in waiters[h] /\ refs'[f][i] = h
                   \/ (\A h \in done : <<f, i>> \notin waiters[h]) /\ refs'[f][i] = refs[f][i]
<1>1. refs' = [f \in File |-> [i \in DOMAIN refs[f] |->
                 IF \E h \in done : <<f, i>> \in waiters[h]
                 THEN CHOOSE h \in done : <<f, i>> \in waiters[h] ELSE refs[f][i]]]
  BY DEF Fill
<1>2. ASSUME NEW f \in File
      PROVE  /\ refs'[f] \in Seq(Hash \cup {NoRef})
             /\ DOMAIN refs'[f] = DOMAIN refs[f] /\ Len(refs'[f]) = Len(refs[f])
             /\ \A i \in DOMAIN refs[f] :
                  \/ \E h \in done : <<f, i>> \in waiters[h] /\ refs'[f][i] = h
                  \/ (\A h \in done : <<f, i>> \notin waiters[h]) /\ refs'[f][i] = refs[f][i]
  <2>1. refs'[f] = [i \in DOMAIN refs[f] |->
                      IF \E h \in done : <<f, i>> \in waiters[h]
                      THEN CHOOSE h \in done : <<f, i>> \in waiters[h] ELSE refs[f][i]]
    BY <1>1
  <2>2. \A i \in DOMAIN refs[f] :
          \/ \E h \in done : <<f, i>> \in waiters[h] /\ refs'[f][i] = h
          \/ (\A h \in done : <<f, i>> \notin waiters[h]) /\ refs'[f][i] = refs[f][i]
    BY <2>1
  <2>3. DOMAIN refs'[f] = 1..Len(refs[f]) /\ Len(refs[f]) \in Nat
    BY <2>1, RefsOf
  <2>4. \A i \in 1..Len(refs[f]) : refs'[f][i] \in Hash \cup {NoRef}
    BY <2>2, RefsOf
  <2>5. refs'[f] \in [1..Len(refs[f]) -> Hash \cup {NoRef}]
    BY <2>1, <2>3, <2>4
  <2>6. refs'[f] \in Seq(Hash \cup {NoRef}) /\ Len(refs'[f]) = Len(refs[f])
    BY <2>3, <2>5, SequenceOf
  <2> QED
    BY <2>2, <2>3, <2>6, RefsOf
<1> QED
  BY <1>1, <1>2

\* ... and the uploader's.
LEMMA PipeShapeStep == ASSUME PipeShape, ScannerShape, ScannerInv, [Next]_vars PROVE PipeShape'
<1>e. IdleWorker \in WorkerType /\ QueueSize \in Nat \ {0}
  BY PipelineOK DEF IdleWorker, WorkerType
<1>w. \A k \in Worker : worker[k] \in WorkerType /\ worker[k].batch \subseteq Hash
                        /\ worker[k].missing \subseteq Hash /\ worker[k].ok \in BOOLEAN
  BY DEF PipeShape, WorkerType
<1>q. Len(queue) \in Nat /\ Len(results) \in Nat
  BY DEF PipeShape
<1>1. CASE Apply
  <2>1. results # <<>> /\ results' = Tail(results)
    BY <1>1 DEF Apply
  <2>2. results' \in Seq([batch : SUBSET Hash, ok : BOOLEAN]) /\ Len(results') <= QueueSize
    <3>1. Len(results) <= QueueSize
      BY DEF PipeShape
    <3> QED
      BY <1>e, <2>1, <3>1, ResultHead
  <2>3. CASE Head(results).ok
    <3> DEFINE done == Head(results).batch
    <3>1. Fill(done) /\ known' = known \cup done /\ UNCHANGED <<failure, batch, queue, stopped, workerVars>>
      BY <1>1, <2>3 DEF Apply
    <3>2. done \subseteq Hash
      BY <2>1, ResultHead
    <3> HIDE DEF done
    <3>3. refs' \in [File -> Seq(Hash \cup {NoRef})]
      BY <3>1, <3>2, FillRefs
    <3>4. waiters' \in [Hash -> SUBSET (File \X Nat)]
      BY <3>1 DEF PipeShape, Fill
    <3> QED
      BY <2>2, <3>1, <3>2, <3>3, <3>4 DEF PipeShape, workerVars
  <2>4. CASE ~Head(results).ok
    <3>1. failure' = TRUE /\ UNCHANGED <<refs, awaiting, waiters, used, known, batch, queue, stopped, workerVars>>
      BY <1>1, <2>4 DEF Apply
    <3> QED
      BY <2>2, <3>1 DEF PipeShape, workerVars
  <2> QED
    BY <2>3, <2>4
<1>2. ASSUME NEW h \in Hash, Await(file, h) \/ AddKnown(file, h)
      PROVE  refs' \in [File -> Seq(Hash \cup {NoRef})] /\ waiters' \in [Hash -> SUBSET (File \X Nat)]
  <2>1. file \in File
    BY DEF ScannerShape
  <2>2. PICK x \in Hash \cup {NoRef} : refs' = [refs EXCEPT ![file] = Append(refs[file], x)]
    BY <1>2 DEF Await, AddKnown
  <2>3. Append(refs[file], x) \in Seq(Hash \cup {NoRef})
    BY <2>1, RefsOf, AppendProperties
  <2>4. refs' \in [File -> Seq(Hash \cup {NoRef})]
    BY <2>2, <2>3 DEF PipeShape
  <2>5. <<file, Len(refs[file]) + 1>> \in File \X Nat
    BY <2>1, RefsOf
  <2>6. waiters' \in [Hash -> SUBSET (File \X Nat)]
    <3> DEFINE x1 == <<file, Len(refs[file]) + 1>>
    <3>1. waiters' = waiters \/ waiters' = [waiters EXCEPT ![h] = waiters[h] \cup {x1}]
      BY <1>2 DEF Await, AddKnown
    <3>2. waiters \in [Hash -> SUBSET (File \X Nat)]
      BY DEF PipeShape
    <3> HIDE DEF x1
    <3>3. waiters[h] \cup {x1} \in SUBSET (File \X Nat)
      BY <2>5, <3>2 DEF x1
    <3> QED
      BY <3>1, <3>2, <3>3
  <2> QED
    BY <2>4, <2>6
<1>3. CASE Add
  <2>1. Head(todo) \in Hash
    BY <1>3, TodoHead DEF Add
  <2>2. Await(file, Head(todo)) \/ AddKnown(file, Head(todo))
    BY <1>3 DEF Add, AddInFlight
  <2>3. UNCHANGED <<batch, failure, known, queue, results, stopped, workerVars>>
    BY <1>3 DEF Add, AddKnown, AddInFlight
  <2> QED
    BY <1>2, <2>1, <2>2, <2>3 DEF PipeShape, workerVars
<1>4. CASE AddEnd
  <2>1. Head(todo) \in Hash
    BY <1>4, TodoHead DEF AddEnd
  <2>2. Await(file, Head(todo)) /\ batch' = batch \cup {Head(todo)}
        /\ UNCHANGED <<failure, known, queue, results, stopped, workerVars>>
    BY <1>4 DEF AddEnd, AddNew
  <2> QED
    BY <1>2, <2>1, <2>2 DEF PipeShape, workerVars
<1>5. CASE Enqueue
  <2>1. queue' = Append(queue, batch) /\ batch \in SUBSET Hash /\ queue \in Seq(SUBSET Hash)
        /\ Len(queue) < QueueSize
    BY <1>5 DEF Enqueue, PipeShape
  <2>2. queue' \in Seq(SUBSET Hash) /\ Len(queue') = Len(queue) + 1
    BY <2>1, AppendProperties
  <2>3. Len(queue') <= QueueSize
    BY <1>e, <1>q, <2>1, <2>2
  <2> QED
    BY <1>5, <2>2, <2>3 DEF Enqueue, PipeShape, workerVars
<1>6. CASE Stop
  BY <1>6 DEF Stop, PipeShape, scanVars, workerVars
<1>7. ASSUME NEW k \in Worker, TakeBatch(k) PROVE PipeShape'
  <2>1. queue # <<>> /\ queue \in Seq(SUBSET Hash) /\ Len(queue) <= QueueSize
    BY <1>7 DEF TakeBatch, PipeShape
  <2>2. Head(queue) \in SUBSET Hash /\ Tail(queue) \in Seq(SUBSET Hash) /\ Len(Tail(queue)) = Len(queue) - 1
    BY <2>1, HeadTailProperties
  <2>3. Len(Tail(queue)) <= QueueSize
    BY <1>e, <1>q, <2>1, <2>2
  <2>4. [IdleWorker EXCEPT !.phase = "check", !.batch = Head(queue)] \in WorkerType
    BY <2>2 DEF IdleWorker, WorkerType
  <2>5. worker' \in [Worker -> WorkerType]
    BY <1>7, <2>4 DEF TakeBatch, PipeShape
  <2> QED
    BY <1>7, <2>2, <2>3, <2>5 DEF TakeBatch, PipeShape, scanVars
<1>8. ASSUME NEW k \in Worker, NEW r \in WorkerType, worker' = [worker EXCEPT ![k] = r]
      PROVE  worker' \in [Worker -> WorkerType]
  BY <1>8 DEF PipeShape
<1>9. ASSUME NEW k \in Worker, NEW p \in {"check", "slot", "upload", "publish", "done"},
             NEW m \in SUBSET Hash, NEW ok \in BOOLEAN,
             \/ worker' = [worker EXCEPT ![k].phase = p]
             \/ worker' = [worker EXCEPT ![k].phase = p, ![k].ok = ok]
             \/ worker' = [worker EXCEPT ![k].phase = p, ![k].missing = m]
      PROVE  worker' \in [Worker -> WorkerType]
  <2>1. /\ [worker[k] EXCEPT !.phase = p] \in WorkerType
        /\ [worker[k] EXCEPT !.phase = p, !.ok = ok] \in WorkerType
        /\ [worker[k] EXCEPT !.phase = p, !.missing = m] \in WorkerType
    BY <1>w DEF WorkerType
  <2>2. \/ worker' = [worker EXCEPT ![k] = [worker[k] EXCEPT !.phase = p]]
        \/ worker' = [worker EXCEPT ![k] = [worker[k] EXCEPT !.phase = p, !.ok = ok]]
        \/ worker' = [worker EXCEPT ![k] = [worker[k] EXCEPT !.phase = p, !.missing = m]]
    BY <1>9 DEF PipeShape
  <2> QED
    BY <1>8, <2>1, <2>2
<1>10. ASSUME NEW k \in Worker, Check(k) PROVE PipeShape'
  <2>1. worker[k].batch \ server \in SUBSET Hash
    BY <1>w
  <2>2. worker' = [worker EXCEPT ![k].phase = "publish", ![k].ok = TRUE]
        \/ worker' = [worker EXCEPT ![k].phase = "slot", ![k].missing = worker[k].batch \ server]
    BY <1>10 DEF Check, Finished
  <2>3. worker' \in [Worker -> WorkerType]
    BY <1>9, <2>1, <2>2
  <2> QED
    BY <1>10, <2>3 DEF Check, PipeShape, scanVars
<1>11. ASSUME NEW k \in Worker, AcquireSlot(k) \/ SlotRefused(k) \/ WorkerReturns(k) PROVE PipeShape'
  <2>1. worker' = [worker EXCEPT ![k].phase = "upload"] \/ worker' = [worker EXCEPT ![k].phase = "done"]
        \/ worker' = [worker EXCEPT ![k].phase = "publish", ![k].ok = FALSE]
    BY <1>11 DEF AcquireSlot, SlotRefused, WorkerReturns, Finished
  <2>2. worker' \in [Worker -> WorkerType]
    BY <1>9, <2>1
  <2> QED
    BY <1>11, <2>2 DEF AcquireSlot, SlotRefused, WorkerReturns, PipeShape, scanVars
<1>12. ASSUME NEW k \in Worker, Upload(k) \/ RequestFails(k) PROVE PipeShape'
  <2>1. PICK ok \in BOOLEAN : worker' = [worker EXCEPT ![k].phase = "publish", ![k].ok = ok]
    BY <1>12 DEF Upload, RequestFails, Finished
  <2>2. worker' \in [Worker -> WorkerType]
    BY <1>9, <2>1
  <2>3. server' \subseteq Hash
    BY <1>12, <1>w DEF Upload, RequestFails, PipeShape
  <2> QED
    BY <1>12, <2>2, <2>3 DEF Upload, RequestFails, PipeShape, scanVars
<1>13. ASSUME NEW k \in Worker, Publish(k) PROVE PipeShape'
  <2>1. [batch |-> worker[k].batch, ok |-> worker[k].ok] \in [batch : SUBSET Hash, ok : BOOLEAN]
    BY <1>w
  <2>2. results \in Seq([batch : SUBSET Hash, ok : BOOLEAN])
    BY DEF PipeShape
  <2>3. results' = Append(results, [batch |-> worker[k].batch, ok |-> worker[k].ok]) /\ Len(results) < QueueSize
    BY <1>13 DEF Publish
  <2>4. results' \in Seq([batch : SUBSET Hash, ok : BOOLEAN]) /\ Len(results') = Len(results) + 1
    BY <2>1, <2>2, <2>3, AppendProperties
  <2>5. Len(results') <= QueueSize
    BY <1>e, <1>q, <2>3, <2>4
  <2>6. worker' \in [Worker -> WorkerType]
    BY <1>8, <1>13, <1>e DEF Publish
  <2> QED
    BY <1>13, <2>4, <2>5, <2>6 DEF Publish, PipeShape, scanVars
<1>14. ASSUME NEW k \in Worker, Discard(k) PROVE PipeShape'
  <2>1. worker' \in [Worker -> WorkerType]
    BY <1>8, <1>14, <1>e DEF Discard
  <2> QED
    BY <1>14, <2>1 DEF Discard, PipeShape, scanVars
<1>15. CASE UNCHANGED pipeVars
  BY <1>15 DEF PipeShape, pipeVars, scanVars, workerVars
<1> QED
  BY <1>1, <1>3, <1>4, <1>5, <1>6, <1>7, <1>10, <1>11, <1>12, <1>13, <1>14, <1>15, PipeFrame DEF WorkerStep

-----------------------------------------------------------------------------
(* The read window.                                                        *)

\* What a reader's step does to the bytes the readers hold.
LEMMA HeldStep ==
  ASSUME ReadersShape, NEW w \in Reader, NEW r \in ReaderType, reader' = [reader EXCEPT ![w] = r]
  PROVE  /\ BytesRead' = BytesRead + (Bytes(r.chunks) - Bytes(reader[w].chunks))
         /\ Bytes(r.chunks) \in Nat /\ Bytes(reader[w].chunks) \in Nat
         /\ BytesRead \in Nat /\ BytesRead' \in Nat /\ Bytes(reader[w].chunks) <= BytesRead
         /\ reader'[w].chunks = r.chunks /\ \A v \in Reader \ {w} : reader'[v].chunks = reader[v].chunks
<1>1. \A v \in Reader : reader[v].chunks \in Seq(Hash)
  BY DEF ReadersShape, ReaderType
<1>2. r.chunks \in Seq(Hash)
  BY DEF ReaderType
<1>3. \A v \in Reader : reader'[v] = IF v = w THEN r ELSE reader[v]
  BY DEF ReadersShape
<1>4. reader'[w].chunks = r.chunks /\ \A v \in Reader \ {w} : reader'[v].chunks = reader[v].chunks
  BY <1>3
<1>5. \A v \in Reader : reader'[v].chunks \in Seq(Hash)
  BY <1>1, <1>2, <1>3
<1>6. BytesRead = HeldBy(reader) /\ BytesRead' = HeldBy(reader')
  BY DEF BytesRead, HeldBy
<1>7. HeldBy(reader') = HeldBy(reader) + (Bytes(reader'[w].chunks) - Bytes(reader[w].chunks))
  BY <1>1, <1>4, <1>5, HeldChanges
<1>8. HeldBy(reader) \in Nat /\ HeldBy(reader') \in Nat /\ Bytes(reader[w].chunks) <= HeldBy(reader)
  BY <1>1, <1>5, HeldNat
<1>9. Bytes(r.chunks) \in Nat /\ Bytes(reader[w].chunks) \in Nat
  BY <1>1, <1>2, BytesNat
<1> QED
  BY <1>4, <1>6, <1>7, <1>8, <1>9

\* The bytes of one chunk alone.
LEMMA HeldAlone ==
  ASSUME ReadersShape, ScannerShape, OneHeld
  PROVE  \E h \in Hash : BytesRead + Bytes(todo) = Size[h]
<1>1. \A v \in Reader : reader[v].chunks \in Seq(Hash)
  BY DEF ReadersShape, ReaderType
<1>2. BytesRead = HeldBy(reader)
  BY DEF BytesRead, HeldBy
<1>3. todo \in Seq(Hash)
  BY DEF ScannerShape
<1>4. ASSUME todo = <<>>, NEW w \in Reader, Len(reader[w].chunks) = 1,
             \A v \in Reader \ {w} : reader[v].chunks = <<>>
      PROVE  \E h \in Hash : BytesRead + Bytes(todo) = Size[h]
  <2>1. BytesRead = Bytes(reader[w].chunks)
    BY <1>1, <1>2, <1>4, HeldNat
  <2>2. Bytes(todo) = 0
    BY <1>3, <1>4, BytesNat
  <2>3. Head(reader[w].chunks) \in Hash /\ Bytes(reader[w].chunks) = Size[Head(reader[w].chunks)]
    BY <1>1, <1>4, BytesOne
  <2>4. Bytes(reader[w].chunks) \in Nat
    BY <1>1, BytesNat
  <2> QED
    BY <2>1, <2>2, <2>3, <2>4
<1>5. ASSUME Len(todo) = 1, \A w \in Reader : reader[w].chunks = <<>>
      PROVE  \E h \in Hash : BytesRead + Bytes(todo) = Size[h]
  <2>1. BytesRead = 0
    BY <1>1, <1>2, <1>5, HeldNat
  <2>2. Head(todo) \in Hash /\ Bytes(todo) = Size[Head(todo)]
    BY <1>3, <1>5, BytesOne
  <2>3. Bytes(todo) \in Nat
    BY <1>3, BytesNat
  <2> QED
    BY <2>1, <2>2, <2>3
<1> QED
  BY <1>4, <1>5 DEF OneHeld

\* A chunk that is held alone stays alone until it is released.
LEMMA WindowStep ==
  ASSUME ReadersShape, ScannerShape, ReadersInv, ScannerInv, WindowInv, [Next]_vars
  PROVE  WindowInv' /\ window' \in Nat
<1>0. /\ \A w \in Reader : reader[w].chunks \in Seq(Hash) /\ Bytes(reader[w].chunks) \in Nat
      /\ todo \in Seq(Hash) /\ Bytes(todo) \in Nat
  BY BytesNat DEF ReadersShape, ReaderType, ScannerShape
<1>1. BytesRead \in Nat /\ BytesRead = HeldBy(reader)
  BY <1>0, HeldNat DEF BytesRead, HeldBy
<1>2. window = BytesRead + Bytes(todo) /\ (window <= ReadLimit \/ OneHeld) /\ window \in Nat
  BY <1>0, <1>1 DEF WindowInv
<1>3. ReadLimit \in Nat \ {0}
  BY ReadersOK
<1>4. IdleReader.chunks = <<>> /\ <<>> \in Seq(Hash) /\ Bytes(<<>>) = 0 /\ Len(<<>>) = 0
  BY EmptySeq, BytesNat DEF IdleReader
<1>5. ReadersShape' /\ ScannerShape'
  BY ReadersShapeStep, ScannerShapeStep
<1>6. \A w \in Reader : reader'[w] \in ReaderType
  BY <1>5 DEF ReadersShape
\* A reader that holds what it held, or drops it all.
<1>7. ASSUME NEW w \in Reader, NEW r \in ReaderType, reader' = [reader EXCEPT ![w] = r], todo' = todo,
             \/ r.chunks = reader[w].chunks /\ window' = window
             \/ r.chunks = <<>> /\ window' = window - Bytes(reader[w].chunks)
      PROVE  WindowInv' /\ window' \in Nat
  <2>1. /\ BytesRead' = BytesRead + (Bytes(r.chunks) - Bytes(reader[w].chunks))
        /\ BytesRead' \in Nat /\ Bytes(reader[w].chunks) <= BytesRead /\ Bytes(reader[w].chunks) \in Nat
        /\ reader'[w].chunks = r.chunks /\ \A v \in Reader \ {w} : reader'[v].chunks = reader[v].chunks
    BY <1>7, HeldStep
  <2>2. window' = BytesRead' + Bytes(todo') /\ window' \in Nat /\ window' <= window
    BY <1>0, <1>1, <1>2, <1>4, <1>7, <2>1
  <2>3. CASE window <= ReadLimit
    BY <1>2, <1>3, <2>2, <2>3 DEF WindowInv
  <2>4. ASSUME OneHeld, r.chunks = reader[w].chunks PROVE OneHeld'
    <3>1. \A v \in Reader : reader'[v].chunks = reader[v].chunks
      BY <2>1, <2>4
    <3> QED
      BY <1>7, <2>4, <3>1 DEF OneHeld
  <2>5. ASSUME OneHeld, r.chunks = <<>> PROVE OneHeld' \/ window' = 0
    <3>1. CASE reader[w].chunks = <<>>
      BY <2>4, <2>5, <3>1
    <3>2. CASE reader[w].chunks # <<>>
      <4>1. todo = <<>> /\ \A v \in Reader \ {w} : reader[v].chunks = <<>>
        BY <2>5, <3>2 DEF OneHeld
      <4>2. \A v \in Reader : reader'[v].chunks = <<>>
        BY <2>1, <2>5, <4>1
      <4>3. BytesRead' = 0
        BY <1>4, <4>2, HeldNat DEF BytesRead, HeldBy
      <4> QED
        BY <1>4, <1>7, <2>2, <4>1, <4>3
    <3> QED
      BY <3>1, <3>2
  <2> QED
    BY <1>2, <1>3, <1>7, <2>2, <2>3, <2>4, <2>5 DEF WindowInv
<1>8. ASSUME NEW w \in Reader, ReadChunk(w), todo' = todo PROVE WindowInv' /\ window' \in Nat
  <2> DEFINE data == Content[reader[w].file][disk[reader[w].file]]
             h == data[Len(reader[w].chunks) + 1]
  <2>1. Room(Size[h]) /\ window' = window + Size[h]
        /\ reader' = [reader EXCEPT ![w].chunks = Append(@, h)]
    BY <1>8 DEF ReadChunk
  <2>2. h \in Hash
    <3>1. /\ reader[w].file \in File /\ disk[reader[w].file] \in DOMAIN Content[reader[w].file]
          /\ Len(reader[w].chunks) + 1 \in Nat \ {0}
      BY <1>0 DEF ReadersShape, ReaderType
    <3>2. data \in Seq(Hash)
      BY <3>1, ContentOf
    <3>3. Len(reader[w].chunks) + 1 <= Len(data)
      BY <1>8 DEF ReadChunk
    <3> HIDE DEF data
    <3> QED
      BY <3>1, <3>2, <3>3, ElementOfSeq
  <2> HIDE DEF h
  <2> DEFINE r == [reader[w] EXCEPT !.chunks = Append(@, h)]
  <2>3. Append(reader[w].chunks, h) \in Seq(Hash) /\ Len(Append(reader[w].chunks, h)) = Len(reader[w].chunks) + 1
    BY <1>0, <2>2, AppendProperties
  <2>4. r \in ReaderType /\ r.chunks = Append(reader[w].chunks, h) /\ reader' = [reader EXCEPT ![w] = r]
    BY <2>1, <2>3 DEF ReadersShape, ReaderType
  <2> HIDE DEF r
  <2>5. /\ BytesRead' = BytesRead + (Bytes(r.chunks) - Bytes(reader[w].chunks)) /\ BytesRead' \in Nat
        /\ reader'[w].chunks = r.chunks /\ \A v \in Reader \ {w} : reader'[v].chunks = reader[v].chunks
    BY <2>4, HeldStep
  <2>6. Bytes(r.chunks) = Bytes(reader[w].chunks) + Size[h] /\ Size[h] \in Nat
    BY <1>0, <2>2, <2>4, BytesAppend, SizesOK
  <2>7. window' = BytesRead' + Bytes(todo') /\ window' \in Nat
    <3>1. Bytes(todo') = Bytes(todo)
      BY <1>8
    <3>2. BytesRead' = BytesRead + Size[h]
      BY <1>0, <1>1, <2>5, <2>6
    <3> QED
      BY <1>0, <1>1, <1>2, <2>1, <2>6, <3>1, <3>2
  <2>8. CASE window + Size[h] <= ReadLimit
    BY <2>1, <2>7, <2>8 DEF WindowInv
  <2>9. CASE window = 0
    <3>1. BytesRead = 0 /\ Bytes(todo) = 0
      BY <1>0, <1>1, <1>2, <2>9
    <3>2. todo = <<>> /\ \A v \in Reader : reader[v].chunks = <<>>
      BY <1>0, <1>1, <3>1, BytesNat, HeldNat
    <3>3. Len(reader'[w].chunks) = 1 /\ \A v \in Reader \ {w} : reader'[v].chunks = <<>>
      <4>1. Len(reader[w].chunks) = 0
        BY <1>4, <3>2
      <4>2. Len(reader'[w].chunks) = Len(reader[w].chunks) + 1
        BY <2>3, <2>4, <2>5
      <4> QED
        BY <2>5, <3>2, <4>1, <4>2
    <3>4. OneHeld'
      BY <1>8, <3>2, <3>3 DEF OneHeld
    <3> QED
      BY <2>7, <3>4 DEF WindowInv
  <2> QED
    BY <2>1, <2>8, <2>9 DEF Room
\* The scanner receives what a reader holds.
<1>9. ASSUME NEW w \in Reader, Receive(w) PROVE WindowInv' /\ window' \in Nat
  <2>1. reader' = [reader EXCEPT ![w] = IdleReader] /\ window' = window /\ todo' = reader[w].chunks
    BY <1>9 DEF Receive, Deliver
  <2>2. todo = <<>>
    BY <1>9 DEF Receive, ScannerInv, Adding
  <2>3. IdleReader \in ReaderType
    BY <1>6, <2>1 DEF ReadersShape
  <2>4. /\ BytesRead' = BytesRead + (Bytes(IdleReader.chunks) - Bytes(reader[w].chunks))
        /\ reader'[w].chunks = IdleReader.chunks /\ \A v \in Reader \ {w} : reader'[v].chunks = reader[v].chunks
    BY <2>1, <2>3, HeldStep
  <2>5. window' = BytesRead' + Bytes(todo')
    <3>1. BytesRead' = BytesRead - Bytes(reader[w].chunks) /\ Bytes(todo) = 0 /\ Bytes(todo') = Bytes(reader[w].chunks)
      BY <1>0, <1>1, <1>4, <2>1, <2>2, <2>4
    <3> QED
      BY <1>0, <1>1, <1>2, <2>1, <3>1
  <2>6. ASSUME OneHeld PROVE OneHeld'
    <3>1. PICK v \in Reader : Len(reader[v].chunks) = 1 /\ \A u \in Reader \ {v} : reader[u].chunks = <<>>
      BY <1>4, <2>2, <2>6 DEF OneHeld
    <3>2. CASE v = w
      <4>1. Len(todo') = 1 /\ \A u \in Reader : reader'[u].chunks = <<>>
        BY <1>4, <2>1, <2>4, <3>1, <3>2
      <4> QED
        BY <4>1 DEF OneHeld
    <3>3. CASE v # w
      <4>1. todo' = <<>> /\ Len(reader'[v].chunks) = 1 /\ \A u \in Reader \ {v} : reader'[u].chunks = <<>>
        BY <1>4, <2>1, <2>4, <3>1, <3>3
      <4> QED
        BY <4>1 DEF OneHeld
    <3> QED
      BY <3>2, <3>3
  <2> QED
    BY <1>2, <2>1, <2>5, <2>6 DEF WindowInv
<1>10. ASSUME NEW w \in Reader, TakeJob(w, FirstVersions) \/ ReadEnds(w) \/ ReadChanged(w) \/ ReaderReturns(w)
                                \/ ReadBreaks(w) \/ Deliver(w), todo' = todo,
              reader[w].phase # "ready" \/ ~Deliver(w)
       PROVE  WindowInv' /\ window' \in Nat
  <2> DEFINE r == reader'[w]
  <2>1. r \in ReaderType
    BY <1>6
  <2>2. reader' = [reader EXCEPT ![w] = r]
    BY <1>10 DEF TakeJob, ReadEnds, ReadChanged, ReaderReturns, ReadBreaks, Deliver, ReadersShape
  <2>3. reader[w].phase \in {"idle", "failed", "done"} => reader[w].chunks = <<>>
    BY DEF ReadersInv
  <2>4. \/ r.chunks = reader[w].chunks /\ window' = window
        \/ r.chunks = <<>> /\ window' = window - Bytes(reader[w].chunks)
    <3>1. CASE TakeJob(w, FirstVersions)
      BY <1>4, <2>3, <3>1 DEF TakeJob, ReadersShape
    <3>2. CASE ReadEnds(w) \/ ReaderReturns(w)
      BY <3>2 DEF ReadEnds, ReaderReturns, ReadersShape, ReaderType
    <3>3. CASE ReadChanged(w) \/ ReadBreaks(w)
      BY <3>3 DEF ReadChanged, ReadBreaks, ReadersShape, ReaderType
    <3>4. CASE Deliver(w)
      BY <1>4, <1>10, <2>3, <3>4 DEF Deliver, ReadersShape
    <3> QED
      BY <1>10, <3>1, <3>2, <3>3, <3>4
  <2> HIDE DEF r
  <2> QED
    BY <1>7, <1>10, <2>1, <2>2, <2>4
\* The scanner releases what it has not added, or what it has.
<1>11. ASSUME reader' = reader, \/ todo' = <<>> /\ window' = window - Bytes(todo)
                                \/ todo # <<>> /\ todo' = Tail(todo) /\ window' = window - Size[Head(todo)]
                                \/ todo' = todo /\ window' = window
       PROVE  WindowInv' /\ window' \in Nat
  <2>1. BytesRead' = BytesRead
    BY <1>11 DEF BytesRead
  <2>2. window' = BytesRead' + Bytes(todo') /\ window' \in Nat /\ window' <= window
    <3>1. CASE todo' = <<>> /\ window' = window - Bytes(todo)
      BY <1>0, <1>1, <1>2, <1>4, <2>1, <3>1
    <3>2. CASE todo # <<>> /\ todo' = Tail(todo) /\ window' = window - Size[Head(todo)]
      <4>1. Bytes(Tail(todo)) = Bytes(todo) - Size[Head(todo)]
        BY <1>0, <3>2, BytesTail
      <4>2. Tail(todo) \in Seq(Hash) /\ Head(todo) \in Hash
        BY <1>0, <3>2, HeadTailProperties
      <4>3. Bytes(Tail(todo)) \in Nat /\ Size[Head(todo)] \in Nat
        BY <4>2, BytesNat, SizesOK
      <4>4. window = BytesRead + Bytes(todo) /\ BytesRead \in Nat /\ Bytes(todo) \in Nat
        BY <1>0, <1>1, <1>2
      <4>5. BytesRead' = BytesRead /\ Bytes(todo') = Bytes(todo) - Size[Head(todo)]
            /\ window' = window - Size[Head(todo)] /\ Bytes(todo') \in Nat
        BY <2>1, <3>2, <4>1, <4>3
      <4> QED
        BY <4>3, <4>4, <4>5
    <3>3. CASE todo' = todo /\ window' = window
      BY <1>2, <2>1, <3>3
    <3> QED
      BY <1>11, <3>1, <3>2, <3>3
  <2>3. CASE window <= ReadLimit
    BY <1>2, <1>3, <2>2, <2>3 DEF WindowInv
  <2>4. ASSUME OneHeld PROVE OneHeld' \/ window' = 0
    <3>1. CASE todo' = todo
      BY <1>11, <2>4, <3>1 DEF OneHeld
    <3>2. ASSUME todo = <<>>, todo' = <<>> PROVE OneHeld'
      BY <1>11, <2>4, <3>2 DEF OneHeld
    <3>3. CASE todo # <<>> /\ todo' # todo
      <4>1. Len(todo) = 1 /\ \A w \in Reader : reader[w].chunks = <<>>
        BY <2>4, <3>3 DEF OneHeld
      <4>2. todo' = <<>>
        <5>1. CASE todo' = Tail(todo)
          <6>1. Tail(todo) \in Seq(Hash) /\ Len(Tail(todo)) = 0
            BY <1>0, <3>3, <4>1, HeadTailProperties
          <6> QED
            BY <5>1, <6>1, EmptySeq
        <5> QED
          BY <1>11, <3>3, <5>1
      <4>3. BytesRead' = 0
        BY <1>0, <1>1, <2>1, <4>1, HeldNat
      <4> QED
        BY <1>4, <2>2, <4>2, <4>3
    <3> QED
      BY <1>11, <3>1, <3>2, <3>3
  <2> QED
    BY <1>2, <1>3, <2>2, <2>3, <2>4 DEF WindowInv
<1>12. \/ \E w \in Reader : ReadChunk(w) /\ todo' = todo
       \/ \E w \in Reader : Receive(w)
       \/ \E w \in Reader :
            /\ TakeJob(w, FirstVersions) \/ ReadEnds(w) \/ ReadChanged(w) \/ ReaderReturns(w)
                 \/ ReadBreaks(w) \/ Deliver(w)
            /\ todo' = todo /\ reader[w].phase # "ready"
       \/ /\ reader' = reader
          /\ \/ todo' = <<>> /\ window' = window - Bytes(todo)
             \/ pc = "next" /\ todo' = Tail(todo) /\ window' = window - Size[Head(todo)]
             \/ todo' = todo /\ window' = window
  <2>1. CASE \E w \in Reader : Receive(w) \/ Skip(w) \/ ReceiveFatal(w)
    BY <2>1 DEF Skip, ReceiveFatal
  <2>2. CASE \E w \in Reader : Readers(w)
    BY <2>2 DEF Readers, ReadStep, scannerVars, FirstVersions, TakeJob, ReadEnds, ReadChanged, ReaderReturns
  <2>3. CASE \E w \in Reader : ReadBreaks(w) /\ UNCHANGED <<pipeVars, scannerVars>>
    BY <2>3 DEF ReadBreaks, scannerVars
  <2>4. CASE ChunkAdded
    BY <2>4 DEF ChunkAdded, Release
  <2>5. CASE Fail
    BY <2>5 DEF Fail, Release
  <2>6. CASE \/ Add \/ AddBegin \/ AddEnd \/ AddMustWait \/ Submit \/ NothingToSubmit \/ QueueFile
             \/ AllReceived \/ FlushEnds \/ StopWorkers \/ ScanReturns \/ (Goto(pc) /\ UNCHANGED readerVars)
    BY <2>6 DEF Add, AddBegin, AddEnd, AddMustWait, Submit, NothingToSubmit, QueueFile, AllReceived, FlushEnds,
      StopWorkers, ScanReturns, Goto, readerVars
  <2>7. CASE \/ \E f \in File : Modify(f) /\ UNCHANGED <<pipeVars, scannerVars>>
             \/ \E k \in Worker : Workers(k)
             \/ \E k \in Worker : RequestsFail /\ RequestFails(k) /\ UNCHANGED <<readerVars, scannerVars>>
             \/ UNCHANGED vars
    BY <2>7 DEF Modify, Workers, readerVars, scannerVars, vars
  <2> QED
    BY <2>1, <2>2, <2>3, <2>4, <2>5, <2>6, <2>7 DEF Next, Scanner, Drain, DrainFails, ProgressFails, Ended
<1>13. pc = "next" => todo # <<>>
  BY TodoHead
<1> QED
  BY <1>8, <1>9, <1>10, <1>11, <1>12, <1>13

-----------------------------------------------------------------------------
(* The readers and the files they have.                                    *)

\* What a reader with the state r holds, when the disk is d and the next job n.
HoldsRight(r, d, n) ==
  /\ r.phase \in {"idle", "failed", "done"} => r.chunks = <<>>
  /\ r.phase = "done" => n > Len(Jobs)
  /\ r.phase \in {"read", "ready"} =>
       LET data == Content[r.file][r.ver] IN
       /\ r.ver \in 1..d[r.file]
       /\ Len(r.chunks) <= Len(data)
       /\ \A i \in DOMAIN r.chunks : r.chunks[i] = data[i]
       /\ r.phase = "ready" => Len(r.chunks) = Len(data)
HeldRight == \A w \in Reader : HoldsRight(reader[w], disk, next)
Owned ==
  \A w \in Reader : Busy(w) =>
    /\ reader[w].file \in ToSet(Jobs) \ Ahead
    /\ \A v \in Reader : Busy(v) /\ reader[v].file = reader[w].file => v = w
FreshFiles ==
  \A f \in Ahead \cup AtReaders : outcome[f] = "queued" /\ refs[f] = <<>> /\ ~(Adding /\ f = file)

\* The readers' invariant, in these parts.
LEMMA ReadersParts == ReadersInv <=> HeldRight /\ Owned /\ FreshFiles
BY DEF ReadersInv, HeldRight, HoldsRight, Owned, FreshFiles

\* What a reader holds stays a part of the version it reads the file under.
LEMMA HeldRightStep == ASSUME ReadersShape, HeldRight, [Next]_vars PROVE HeldRight'
<1>0. \A w \in Reader : /\ reader[w].file \in File /\ reader[w].chunks \in Seq(Hash) /\ reader[w].ver \in Nat
                        /\ HoldsRight(reader[w], disk, next)
  BY DEF ReadersShape, ReaderType, HeldRight
<1>1. \A f \in File : /\ disk[f] \in DOMAIN Content[f] /\ disk[f] \in 1..disk[f] /\ disk[f] \in Nat \ {0}
                      /\ Content[f][disk[f]] \in Seq(Hash)
  BY ContentOf DEF ReadersShape
<1>2. Len(<<>>) = 0 /\ DOMAIN <<>> = {} /\ <<>> \in Seq(Hash)
  BY EmptySeq
<1>3. next \in Nat \ {0} /\ Len(Jobs) \in Nat
  BY JobsOf DEF ReadersShape
\* The others keep what they hold.
<1>4. ASSUME NEW w \in Reader, disk' = disk, next' = next \/ next' = next + 1,
             \A v \in Reader \ {w} : reader'[v] = reader[v], HoldsRight(reader'[w], disk, next')
      PROVE  HeldRight'
  <2>1. ASSUME NEW v \in Reader \ {w} PROVE HoldsRight(reader[v], disk, next')
    BY <1>0, <1>3, <1>4 DEF HoldsRight
  <2> QED
    BY <1>4, <2>1 DEF HeldRight
<1>5. ASSUME NEW f \in File, Modify(f) PROVE HeldRight'
  <2>1. disk' = [disk EXCEPT ![f] = disk[f] + 1] /\ reader' = reader /\ next' = next
    BY <1>5 DEF Modify
  <2>2. ASSUME NEW w \in Reader PROVE HoldsRight(reader[w], disk', next)
    <3>1. disk'[reader[w].file] = disk[reader[w].file] \/ disk'[reader[w].file] = disk[reader[w].file] + 1
      BY <1>0, <2>1 DEF ReadersShape
    <3>2. \A v \in 1..disk[reader[w].file] : v \in 1..disk'[reader[w].file]
      BY <1>0, <1>1, <3>1
    <3> QED
      BY <1>0, <3>2 DEF HoldsRight
  <2> QED
    BY <2>1, <2>2 DEF HeldRight
<1>6. ASSUME NEW w \in Reader, TakeJob(w, FirstVersions) PROVE HeldRight'
  <2>1. next \in 1..Len(Jobs)
    BY <1>3, <1>6 DEF TakeJob
  <2>2. Jobs[next] \in File /\ FirstVersions[Jobs[next]] = 1
    BY <2>1, JobsOf DEF FirstVersions
  <2>3. /\ \A v \in Reader \ {w} : reader'[v] = reader[v]
        /\ reader'[w].phase = "read" /\ reader'[w].file = Jobs[next] /\ reader'[w].ver = 1 /\ reader'[w].chunks = <<>>
        /\ disk' = disk /\ next' = next + 1
    BY <1>6, <2>2 DEF TakeJob, ReadersShape, IdleReader
  <2>4. /\ 1 \in 1..disk[Jobs[next]] /\ Content[Jobs[next]][1] \in Seq(Hash)
        /\ Len(Content[Jobs[next]][1]) \in Nat
    <3>1. Content[Jobs[next]][1] \in Seq(Hash)
      BY <2>2, ContentOf
    <3> QED
      BY <1>1, <2>2, <3>1
  <2>5. HoldsRight(reader'[w], disk, next')
    BY <1>2, <2>3, <2>4 DEF HoldsRight
  <2> QED
    BY <1>4, <2>3, <2>5
<1>7. ASSUME NEW w \in Reader, ReadChunk(w) PROVE HeldRight'
  <2> DEFINE f == reader[w].file
             c == reader[w].chunks
             data == Content[f][disk[f]]
             x == data[Len(c) + 1]
  <2>1. /\ reader' = [reader EXCEPT ![w].chunks = Append(c, x)] /\ disk' = disk /\ next' = next
        /\ reader[w].phase = "read" /\ disk[f] = reader[w].ver /\ Len(c) + 1 <= Len(data)
    BY <1>7 DEF ReadChunk, Unchanged, ReadersShape
  <2>2. /\ reader'[w].phase = "read" /\ reader'[w].file = f /\ reader'[w].ver = disk[f]
        /\ reader'[w].chunks = Append(c, x) /\ \A v \in Reader \ {w} : reader'[v] = reader[v]
    BY <2>1 DEF ReadersShape, ReaderType
  <2>3. data \in Seq(Hash) /\ disk[f] \in 1..disk[f] /\ c \in Seq(Hash) /\ Len(c) \in Nat
    BY <1>0, <1>1
  <2>4. \A i \in DOMAIN c : c[i] = data[i]
    BY <1>0, <2>1 DEF HoldsRight
  <2> HIDE DEF f, data, c
  <2>5. x \in Hash
    BY <2>1, <2>3, ElementOfSeq, Len(data) \in Nat, Len(c) + 1 \in 1..Len(data)
  <2>6. Len(Append(c, x)) = Len(c) + 1 /\ \A i \in DOMAIN Append(c, x) : Append(c, x)[i] = data[i]
    BY <2>3, <2>4, <2>5
  <2>7. HoldsRight(reader'[w], disk, next')
    BY <2>1, <2>2, <2>3, <2>6 DEF HoldsRight, data
  <2> QED
    BY <1>4, <2>1, <2>2, <2>7
<1>8. ASSUME NEW w \in Reader, ReadEnds(w) PROVE HeldRight'
  <2>1. /\ reader'[w] = [reader[w] EXCEPT !.phase = "ready"] /\ disk' = disk /\ next' = next
        /\ reader[w].phase = "read" /\ disk[reader[w].file] = reader[w].ver
        /\ Len(reader[w].chunks) >= Len(Content[reader[w].file][disk[reader[w].file]])
        /\ \A v \in Reader \ {w} : reader'[v] = reader[v]
    BY <1>8 DEF ReadEnds, Unchanged, ReadersShape
  <2>2. /\ reader'[w].phase = "ready" /\ reader'[w].file = reader[w].file /\ reader'[w].ver = reader[w].ver
        /\ reader'[w].chunks = reader[w].chunks
    <3>1. reader[w] \in ReaderType
      BY DEF ReadersShape
    <3> QED
      BY <2>1, <3>1 DEF ReaderType
  <2>3. Len(reader[w].chunks) \in Nat /\ Len(Content[reader[w].file][disk[reader[w].file]]) \in Nat
    BY <1>0, <1>1
  <2>4. HoldsRight(reader'[w], disk, next')
    BY <1>0, <2>1, <2>2, <2>3 DEF HoldsRight
  <2> QED
    BY <1>4, <2>1, <2>4
<1>9. ASSUME NEW w \in Reader, ReadChanged(w) PROVE HeldRight'
  <2>1. /\ disk' = disk /\ next' = next /\ reader[w].phase = "read"
        /\ \A v \in Reader \ {w} : reader'[v] = reader[v]
    BY <1>9 DEF ReadChanged, ReadersShape
  <2>2. reader'[w].chunks = <<>>
    BY <1>9 DEF ReadChanged, ReadersShape, ReaderType
  <2>3. \/ reader'[w].phase = "failed"
        \/ /\ reader'[w].phase = "read" /\ reader'[w].file = reader[w].file
           /\ reader'[w].ver = disk[reader[w].file]
    BY <1>9 DEF ReadChanged, ReadersShape, ReaderType
  <2>4. Len(Content[reader[w].file][disk[reader[w].file]]) \in Nat /\ disk[reader[w].file] \in 1..disk[reader[w].file]
    BY <1>0, <1>1
  <2>5. HoldsRight(reader'[w], disk, next')
    <3>1. CASE reader'[w].phase = "failed"
      BY <2>2, <3>1 DEF HoldsRight
    <3>2. CASE reader'[w].phase = "read" /\ reader'[w].file = reader[w].file
               /\ reader'[w].ver = disk[reader[w].file]
      BY <1>2, <2>2, <2>4, <3>2 DEF HoldsRight
    <3> QED
      BY <2>3, <3>1, <3>2
  <2> QED
    BY <1>4, <2>1, <2>5
<1>10. ASSUME NEW w \in Reader, ReadBreaks(w) \/ Deliver(w) \/ ReaderReturns(w) PROVE HeldRight'
  <2>1. disk' = disk /\ next' = next /\ \A v \in Reader \ {w} : reader'[v] = reader[v]
    BY <1>10 DEF ReadBreaks, Deliver, ReaderReturns, ReadersShape
  <2>2. \/ reader'[w].phase \in {"idle", "failed"} /\ reader'[w].chunks = <<>>
        \/ reader'[w].phase = "done" /\ reader[w].phase = "idle" /\ reader'[w].chunks = reader[w].chunks /\ next > Len(Jobs)
    BY <1>10 DEF ReadBreaks, Deliver, ReaderReturns, ReadersShape, ReaderType, IdleReader
  <2>3. HoldsRight(reader'[w], disk, next')
    BY <1>0, <2>1, <2>2 DEF HoldsRight
  <2> QED
    BY <1>4, <2>1, <2>3
<1>11. CASE UNCHANGED <<disk, next, reader>>
  BY <1>11 DEF HeldRight
<1> QED
  BY <1>5, <1>6, <1>7, <1>8, <1>9, <1>10, <1>11, ReaderFrame DEF ReadStep

\* A job is taken, or no reader gets a file it had not.
LEMMA OwnersFrame ==
  ASSUME ReadersShape, [Next]_vars
  PROVE  \/ \E w \in Reader : TakeJob(w, FirstVersions) /\ UNCHANGED <<pipeVars, scannerVars>>
         \/ /\ next' = next
            /\ \A v \in Reader : Busy(v)' => Busy(v) /\ reader'[v].file = reader[v].file
<1>1. ASSUME NEW w \in Reader, ReadStep(w) \/ ReadBreaks(w) \/ Deliver(w)
      PROVE  /\ next' = next
             /\ \A v \in Reader : Busy(v)' => Busy(v) /\ reader'[v].file = reader[v].file
  <2>1. next' = next /\ \A v \in Reader \ {w} : reader'[v] = reader[v]
    BY <1>1 DEF ReadStep, ReadChunk, ReadEnds, ReadChanged, ReaderReturns, ReadBreaks, Deliver, ReadersShape
  <2>2. \/ reader'[w].phase \in {"idle", "done"}
        \/ reader[w].phase = "read" /\ reader'[w].file = reader[w].file
    <3>1. CASE ReadChunk(w)
      BY <3>1 DEF ReadChunk, ReadersShape, ReaderType
    <3>2. CASE ReadEnds(w) \/ ReadBreaks(w)
      BY <3>2 DEF ReadEnds, ReadBreaks, ReadersShape, ReaderType
    <3>3. CASE ReadChanged(w)
      BY <3>3 DEF ReadChanged, ReadersShape, ReaderType
    <3>4. CASE ReaderReturns(w) \/ Deliver(w)
      BY <3>4 DEF ReaderReturns, Deliver, ReadersShape, ReaderType, IdleReader
    <3> QED
      BY <1>1, <3>1, <3>2, <3>3, <3>4 DEF ReadStep
  <2> QED
    BY <2>1, <2>2 DEF Busy
<1>2. ASSUME next' = next, reader' = reader
      PROVE  \A v \in Reader : Busy(v)' => Busy(v) /\ reader'[v].file = reader[v].file
  BY <1>2 DEF Busy
<1>3. ASSUME NEW w \in Reader, TakeJob(w, FirstVersions), ~UNCHANGED <<pipeVars, scannerVars>> PROVE FALSE
  <2>1. reader[w].phase = "idle" /\ reader'[w].phase = "read" /\ next' = next + 1
    BY <1>3 DEF TakeJob, ReadersShape, ReaderType, IdleReader
  <2>2. next' # next
    BY <2>1 DEF ReadersShape
  <2> QED
    BY <1>3, <2>2 DEF Next, vars, readerVars, Scanner, Receive, Skip, Drain, DrainFails, Add, AddBegin, AddEnd,
      AddMustWait, Submit, NothingToSubmit, ChunkAdded, QueueFile, AllReceived, FlushEnds, StopWorkers,
      ScanReturns, ReceiveFatal, ProgressFails, Readers, Workers, Ended, Fail, Goto, Deliver, ReadBreaks, Modify
<1> QED
  BY <1>1, <1>2, <1>3, ReaderFrame DEF Modify

\* The files ahead of the readers, and one job taken from them.
LEMMA JobTaken ==
  ASSUME ReadersShape, NEW w \in Reader, TakeJob(w, FirstVersions)
  PROVE  /\ Jobs[next] \in Ahead /\ Jobs[next] \in ToSet(Jobs) /\ Ahead' = Ahead \ {Jobs[next]}
         /\ reader'[w].file = Jobs[next] /\ reader'[w].phase = "read" /\ reader[w].phase = "idle"
         /\ \A v \in Reader \ {w} : reader'[v] = reader[v]
<1>1. next \in DOMAIN Jobs /\ next \in Nat \ {0} /\ next' = next + 1
  BY JobsOf DEF TakeJob, ReadersShape
<1>2. Jobs[next] \in Ahead /\ Jobs[next] \in ToSet(Jobs)
  BY <1>1, JobsOf DEF Ahead
<1>3. \A j \in DOMAIN Jobs : j >= next' <=> j >= next /\ j # next
  BY <1>1, JobsOf
<1>4. \A j \in DOMAIN Jobs : Jobs[j] = Jobs[next] <=> j = next
  BY <1>1, JobsOf
<1>5. Ahead' = Ahead \ {Jobs[next]}
  BY <1>3, <1>4 DEF Ahead
<1>6. /\ reader'[w].file = Jobs[next] /\ reader'[w].phase = "read" /\ reader[w].phase = "idle"
      /\ \A v \in Reader \ {w} : reader'[v] = reader[v]
  BY DEF TakeJob, ReadersShape, ReaderType, IdleReader
<1> QED
  BY <1>2, <1>5, <1>6

\* A file has one reader, and none again once it was delivered.
LEMMA OwnedStep ==
  ASSUME ReadersShape, Owned, [Next]_vars
  PROVE  Owned' /\ (Ahead \cup AtReaders)' \subseteq Ahead \cup AtReaders
<1>1. ASSUME NEW w \in Reader, TakeJob(w, FirstVersions)
      PROVE  Owned' /\ (Ahead \cup AtReaders)' \subseteq Ahead \cup AtReaders
  <2>1. /\ Jobs[next] \in Ahead /\ Jobs[next] \in ToSet(Jobs) /\ Ahead' = Ahead \ {Jobs[next]}
        /\ reader'[w].file = Jobs[next] /\ reader'[w].phase = "read" /\ reader[w].phase = "idle"
        /\ \A v \in Reader \ {w} : reader'[v] = reader[v]
    BY <1>1, JobTaken
  <2>2. \A v \in Reader : Busy(v)' <=> v = w \/ Busy(v)
    BY <2>1 DEF Busy
  <2>3. ~Busy(w)
    BY <2>1 DEF Busy
  <2>4. Owned'
    BY <2>1, <2>2, <2>3 DEF Owned
  <2>5. AtReaders' \subseteq AtReaders \cup {Jobs[next]}
    BY <2>1, <2>2 DEF AtReaders
  <2> QED
    BY <2>1, <2>4, <2>5
<1>2. ASSUME next' = next, \A v \in Reader : Busy(v)' => Busy(v) /\ reader'[v].file = reader[v].file
      PROVE  Owned' /\ (Ahead \cup AtReaders)' \subseteq Ahead \cup AtReaders
  <2>1. Ahead' = Ahead
    BY <1>2 DEF Ahead
  <2>2. AtReaders' \subseteq AtReaders
    BY <1>2 DEF AtReaders
  <2>3. Owned'
    BY <1>2, <2>1 DEF Owned
  <2> QED
    BY <2>1, <2>2, <2>3
<1> QED
  BY <1>1, <1>2, OwnersFrame

\* A file that is delivered is with no reader any more.
LEMMA Delivered ==
  ASSUME ReadersShape, Owned, NEW w \in Reader, Deliver(w)
  PROVE  reader[w].file \notin (Ahead \cup AtReaders)' /\ reader[w].file \in ToSet(Jobs)
         /\ reader[w].file \in AtReaders
<1>1. Busy(w) /\ ~Busy(w)' /\ next' = next /\ \A v \in Reader \ {w} : reader'[v] = reader[v]
  BY DEF Deliver, Busy, ReadersShape, IdleReader
<1>2. Ahead' = Ahead
  BY <1>1 DEF Ahead
<1>3. \A v \in Reader \ {w} : Busy(v)' => Busy(v) /\ reader'[v].file # reader[w].file
  BY <1>1 DEF Owned, Busy
<1>4. reader[w].file \notin AtReaders'
  BY <1>1, <1>3 DEF AtReaders
<1>5. reader[w].file \in ToSet(Jobs) \ Ahead /\ reader[w].file \in AtReaders
  BY <1>1 DEF Owned, AtReaders
<1> QED
  BY <1>2, <1>4, <1>5

\* The scanner adds the chunks of the file it received last.
LEMMA AddingFrame ==
  ASSUME ScannerShape, [Next]_vars, Adding', ~\E w \in Reader : Receive(w)
  PROVE  Adding /\ file' = file
<1>1. CASE Scanner
  <2>1. CASE \/ \E w \in Reader : Skip(w)
             \/ Goto(pc)
             \/ Add \/ AddBegin \/ AddEnd \/ AddMustWait \/ ChunkAdded
    BY <2>1 DEF Adding, ScannerShape, Skip, Goto, Add, AddBegin, AddEnd, AddMustWait, ChunkAdded
  <2>2. CASE Submit \/ NothingToSubmit
    BY <2>2 DEF Adding, ScannerShape, Submit, NothingToSubmit, Goto
  <2>3. CASE Fail \/ QueueFile \/ AllReceived \/ FlushEnds \/ StopWorkers \/ ScanReturns
    BY <2>3 DEF Adding, Fail, QueueFile, AllReceived, FlushEnds, StopWorkers, ScanReturns, Goto
  <2> QED
    BY <1>1, <2>1, <2>2, <2>3 DEF Scanner, Drain, DrainFails
<1>2. CASE (\E w \in Reader : ReceiveFatal(w)) \/ ProgressFails
  BY <1>2 DEF Adding, ReceiveFatal, ProgressFails, Fail
<1>3. CASE UNCHANGED scannerVars
  BY <1>3 DEF Adding, scannerVars
<1> QED
  BY <1>1, <1>2, <1>3, ScannerFrame

\* What becomes of a file is decided when it cannot be read, when its chunks
\* are all added, and when all chunks are stored.
LEMMA OutcomeFrame ==
  ASSUME ScannerShape, [Next]_vars, NEW f \in File
  PROVE  \/ outcome'[f] = outcome[f]
         \/ \E w \in Reader : Skip(w) /\ f = reader[w].file /\ outcome'[f] = "skipped"
         \/ QueueFile /\ f = file /\ outcome'[f] = IF awaiting[f] > 0 THEN "pending" ELSE "entry"
         \/ FlushEnds /\ outcome[f] = "pending" /\ awaiting[f] = 0 /\ outcome'[f] = "entry"
<1>1. CASE Scanner
  <2>1. CASE \E w \in Reader : Skip(w)
    BY <2>1 DEF ScannerShape, Skip
  <2>2. CASE QueueFile
    BY <2>2 DEF ScannerShape, QueueFile
  <2>3. CASE FlushEnds
    BY <2>3 DEF ScannerShape, FlushEnds
  <2>4. CASE (\E w \in Reader : Receive(w)) \/ Goto(pc) \/ Fail \/ Add \/ AddBegin \/ AddEnd \/ AddMustWait
    BY <2>4 DEF Receive, Goto, Fail, Add, AddBegin, AddEnd, AddMustWait
  <2>5. CASE Submit \/ NothingToSubmit \/ ChunkAdded \/ AllReceived \/ StopWorkers \/ ScanReturns
    BY <2>5 DEF Submit, NothingToSubmit, ChunkAdded, AllReceived, StopWorkers, ScanReturns, Goto
  <2> QED
    BY <1>1, <2>1, <2>2, <2>3, <2>4, <2>5 DEF Scanner, Drain, DrainFails
<1>2. CASE (\E w \in Reader : ReceiveFatal(w)) \/ ProgressFails
  BY <1>2 DEF ReceiveFatal, ProgressFails, Fail
<1>3. CASE UNCHANGED scannerVars
  BY <1>3 DEF scannerVars
<1> QED
  BY <1>1, <1>2, <1>3, ScannerFrame

\* The refs of a file are filled, or one is added to those of the file received last.
LEMMA RefsFrame ==
  ASSUME [Next]_vars
  PROVE  \/ UNCHANGED <<refs, waiters, awaiting>>
         \/ results # <<>> /\ Head(results).ok /\ Fill(Head(results).batch)
         \/ Adding /\ pc \in {"drain", "reserve"} /\ AddKnown(file, Head(todo))
         \/ Adding /\ pc \in {"drain", "reserve"} /\ Await(file, Head(todo))
<1>1. CASE Add \/ AddEnd
  BY <1>1 DEF Add, AddEnd, AddInFlight, AddNew, Adding
<1>2. CASE Apply
  BY <1>2 DEF Apply
<1>3. CASE Enqueue \/ Stop \/ (\E k \in Worker : WorkerStep(k) \/ RequestFails(k)) \/ UNCHANGED pipeVars
  BY <1>3 DEF Enqueue, Stop, pipeVars, scanVars, WorkerStep, TakeBatch, Check, AcquireSlot, SlotRefused, Upload,
    Publish, Discard, WorkerReturns, RequestFails
<1> QED
  BY <1>1, <1>2, <1>3, PipeFrame

\* A file has no ref before the scanner receives it.
LEMMA FreshStep ==
  ASSUME ReadersShape, PipeShape, ScannerShape, Owned, FreshFiles, [Next]_vars
  PROVE  FreshFiles'
<1> SUFFICES ASSUME NEW f \in (Ahead \cup AtReaders)'
             PROVE  outcome'[f] = "queued" /\ refs'[f] = <<>> /\ ~(Adding' /\ f = file')
  BY DEF FreshFiles
<1>1. f \in Ahead \cup AtReaders
  BY OwnedStep
<1>2. f \in File
  BY <1>1, JobsOf DEF Ahead, AtReaders, ReadersShape, ReaderType
<1>3. outcome[f] = "queued" /\ refs[f] = <<>> /\ ~(Adding /\ f = file)
  BY <1>1 DEF FreshFiles
<1>4. outcome'[f] = "queued"
  <2>1. ASSUME NEW w \in Reader, Skip(w) PROVE f # reader[w].file
    BY <2>1, Delivered DEF Skip
  <2>2. QueueFile => Adding
    BY DEF QueueFile, Adding
  <2> QED
    BY <1>2, <1>3, <2>1, <2>2, OutcomeFrame
<1>5. refs'[f] = <<>>
  <2>1. CASE results # <<>> /\ Head(results).ok /\ Fill(Head(results).batch)
    <3>1. Head(results).batch \in SUBSET Hash
      BY <2>1, ResultHead
    <3>2. refs'[f] \in Seq(Hash \cup {NoRef}) /\ Len(refs'[f]) = Len(refs[f])
      BY <1>2, <2>1, <3>1, FillRefs
    <3> QED
      BY <1>3, <3>2, EmptySeq, ElementsOf
  <2>2. CASE Adding /\ (AddKnown(file, Head(todo)) \/ Await(file, Head(todo)))
    BY <1>2, <1>3, <2>2 DEF AddKnown, Await, PipeShape
  <2> QED
    BY <1>3, <2>1, <2>2, RefsFrame
<1>6. ~(Adding' /\ f = file')
  <2>1. ASSUME NEW w \in Reader, Receive(w) PROVE f # file'
    BY <2>1, Delivered DEF Receive
  <2> QED
    BY <1>3, <2>1, AddingFrame
<1> QED
  BY <1>4, <1>5, <1>6

-----------------------------------------------------------------------------
(* The batches under way.                                                  *)

\* The bytes of sets of chunks.
LEMMA SumOf ==
  ASSUME NEW S \in SUBSET Hash
  PROVE  Sum(S) \in Nat /\ IsFiniteSet(S) /\ Sum({}) = 0
<1>1. IsFiniteSet(S) /\ \A h \in S : Size[h] \in Nat
  BY SizesOK, FS_Subset
<1> QED
  BY <1>1, SumNat, SumEmpty DEF Sum

\* One more chunk adds its bytes ...
LEMMA SumPlus ==
  ASSUME NEW S \in SUBSET Hash, NEW h \in Hash \ S
  PROVE  Sum(S \cup {h}) = Sum(S) + Size[h]
<1>1. IsFiniteSet(S) /\ \A x \in S \cup {h} : Size[x] \in Int
  BY SizesOK, FS_Subset
<1> QED
  BY <1>1, SumAdds DEF Sum

\* ... and chunks that are gone take theirs with them.
LEMMA SumMinus ==
  ASSUME NEW S \in SUBSET Hash, NEW D \in SUBSET S
  PROVE  Sum(S \ D) = Sum(S) - Sum(D) /\ Sum(S \ D) <= Sum(S)
<1>1. IsFiniteSet(S \ D) /\ IsFiniteSet(D)
  BY SumOf
<1>2. (S \ D) \cap D = {} /\ (S \ D) \cup D = S /\ \A x \in (S \ D) \cup D : Size[x] \in Int
  BY SizesOK
<1>3. SumFunctionOnSet(Size, (S \ D) \cup D) = SumFunctionOnSet(Size, S \ D) + SumFunctionOnSet(Size, D)
  BY <1>1, <1>2, SumUnion
<1>4. Sum(S) = Sum(S \ D) + Sum(D)
  BY <1>2, <1>3 DEF Sum
<1>5. Sum(S \ D) \in Nat /\ Sum(D) \in Nat
  BY SumOf
<1> QED
  BY <1>4, <1>5

Covered(s) == UNION ToSet(s)

\* A sequence of disjoint sets with one more, or without the first.
LEMMA SetsAppend ==
  ASSUME NEW s \in Seq(SUBSET Hash), NEW b \in SUBSET Hash
  PROVE  /\ Covered(Append(s, b)) = Covered(s) \cup b
         /\ Disjoint(s) /\ b \cap Covered(s) = {} => Disjoint(Append(s, b))
         /\ (\A i \in DOMAIN s : s[i] # {}) /\ b # {} => \A i \in DOMAIN Append(s, b) : Append(s, b)[i] # {}
<1>1. /\ Len(s) \in Nat /\ DOMAIN s = 1..Len(s) /\ DOMAIN Append(s, b) = 1..(Len(s) + 1)
      /\ Append(s, b)[Len(s) + 1] = b /\ \A i \in 1..Len(s) : Append(s, b)[i] = s[i]
  OBVIOUS
<1>2. ToSet(Append(s, b)) = ToSet(s) \cup {b}
  BY AppendOf
<1>3. Covered(Append(s, b)) = Covered(s) \cup b
  <2>1. \A A, c : UNION (A \cup {c}) = (UNION A) \cup c
    OBVIOUS
  <2> QED
    BY <1>2, <2>1 DEF Covered
<1> DEFINE t == Append(s, b)
<1>4. /\ Len(s) \in Nat /\ DOMAIN s = 1..Len(s) /\ DOMAIN t = 1..(Len(s) + 1)
      /\ t[Len(s) + 1] = b /\ \A i \in 1..Len(s) : t[i] = s[i]
  BY <1>1
<1> HIDE DEF t
<1>5. \A i \in 1..Len(s) : s[i] \subseteq Covered(s)
  BY <1>1 DEF Covered, ToSet
<1>6. \A i \in 1..(Len(s) + 1) : i \in 1..Len(s) \/ i = Len(s) + 1
  BY <1>1
<1>7. ASSUME Disjoint(s), b \cap Covered(s) = {} PROVE Disjoint(t)
  <2> SUFFICES ASSUME NEW i \in DOMAIN t, NEW j \in DOMAIN t, i # j PROVE t[i] \cap t[j] = {}
    BY DEF Disjoint
  <2>1. CASE i \in 1..Len(s) /\ j \in 1..Len(s)
    BY <1>4, <1>7, <2>1 DEF Disjoint
  <2>2. CASE i \in 1..Len(s) /\ j = Len(s) + 1
    BY <1>4, <1>5, <1>7, <2>2
  <2>3. CASE i = Len(s) + 1 /\ j \in 1..Len(s)
    BY <1>4, <1>5, <1>7, <2>3
  <2> QED
    BY <1>4, <1>6, <2>1, <2>2, <2>3
<1>8. (\A i \in DOMAIN s : s[i] # {}) /\ b # {} => \A i \in DOMAIN t : t[i] # {}
  BY <1>4, <1>6
<1> QED
  BY <1>3, <1>7, <1>8 DEF t

\* The first batch of a queue is gone.
LEMMA SetsTail ==
  ASSUME NEW s \in Seq(SUBSET Hash), s # <<>>
  PROVE  /\ Head(s) \in SUBSET Hash /\ Head(s) \subseteq Covered(s)
         /\ Disjoint(s) => Disjoint(Tail(s)) /\ Covered(Tail(s)) = Covered(s) \ Head(s)
         /\ Covered(Tail(s)) \subseteq Covered(s)
         /\ (\A i \in DOMAIN s : s[i] # {}) => Head(s) # {} /\ \A i \in DOMAIN Tail(s) : Tail(s)[i] # {}
<1>1. /\ Len(s) \in Nat \ {0} /\ DOMAIN s = 1..Len(s) /\ DOMAIN Tail(s) = 1..(Len(s) - 1) /\ Head(s) = s[1]
      /\ \A i \in 1..(Len(s) - 1) : Tail(s)[i] = s[i + 1]
  BY EmptySeq
<1>h. Head(s) \in SUBSET Hash
  BY HeadTailProperties
<1> DEFINE t == Tail(s)
<1>2. DOMAIN t = 1..(Len(s) - 1) /\ \A i \in 1..(Len(s) - 1) : t[i] = s[i + 1]
  BY <1>1
<1> HIDE DEF t
<1>3. \A i \in 1..(Len(s) - 1) : i + 1 \in 1..Len(s) /\ i + 1 # 1 /\ i \in Int
  BY <1>1
<1>4. \A i \in 1..Len(s) : i = 1 \/ (i - 1 \in 1..(Len(s) - 1) /\ (i - 1) + 1 = i)
  BY <1>1
<1>5. Covered(t) \subseteq Covered(s) /\ Head(s) \subseteq Covered(s)
  BY <1>1, <1>2, <1>3 DEF Covered, ToSet
<1>6. Covered(s) \subseteq Head(s) \cup Covered(t)
  <2> SUFFICES ASSUME NEW i \in 1..Len(s), NEW x \in s[i] PROVE x \in Head(s) \cup Covered(t)
    BY <1>1 DEF Covered, ToSet
  <2>1. CASE i = 1
    BY <1>1, <2>1
  <2>2. CASE i - 1 \in 1..(Len(s) - 1) /\ (i - 1) + 1 = i
    <3>1. t[i - 1] = s[i] /\ i - 1 \in DOMAIN t
      BY <1>2, <2>2
    <3> QED
      BY <3>1 DEF Covered, ToSet
  <2> QED
    BY <1>4, <2>1, <2>2
<1>7. ASSUME Disjoint(s) PROVE Disjoint(t) /\ Covered(t) = Covered(s) \ Head(s)
  <2>1. ASSUME NEW i \in DOMAIN t, NEW j \in DOMAIN t, i # j PROVE t[i] \cap t[j] = {}
    <3>1. i + 1 # j + 1 /\ i + 1 \in DOMAIN s /\ j + 1 \in DOMAIN s
      BY <1>1, <1>2, <1>3, <2>1
    <3> QED
      BY <1>2, <1>7, <3>1 DEF Disjoint
  <2>2. \A i \in DOMAIN t : t[i] \cap Head(s) = {}
    BY <1>1, <1>2, <1>3, <1>7 DEF Disjoint
  <2>3. Covered(t) \cap Head(s) = {}
    <3> SUFFICES ASSUME NEW x \in Covered(t) PROVE x \notin Head(s)
      OBVIOUS
    <3>1. PICK i \in DOMAIN t : x \in t[i]
      BY DEF Covered, ToSet
    <3> QED
      BY <2>2, <3>1
  <2> QED
    BY <1>5, <1>6, <2>1, <2>3 DEF Disjoint
<1>8. (\A i \in DOMAIN s : s[i] # {}) => Head(s) # {} /\ \A i \in DOMAIN t : t[i] # {}
  BY <1>1, <1>2, <1>3
<1> QED
  BY <1>h, <1>5, <1>7, <1>8 DEF t

\* The batches of results.
Result == [batch : SUBSET Hash, ok : BOOLEAN]
BatchesIn(rs) == [i \in DOMAIN rs |-> rs[i].batch]

\* The batches of a sequence of results, ...
LEMMA BatchesOf ==
  ASSUME NEW rs \in Seq(Result)
  PROVE  /\ BatchesIn(rs) \in Seq(SUBSET Hash) /\ Len(BatchesIn(rs)) = Len(rs)
         /\ Len(rs) \in Nat /\ DOMAIN rs = 1..Len(rs)
         /\ (BatchesIn(rs) = <<>> <=> rs = <<>>)
         /\ DOMAIN BatchesIn(rs) = DOMAIN rs /\ \A i \in DOMAIN rs : BatchesIn(rs)[i] = rs[i].batch
<1>1. Len(rs) \in Nat /\ DOMAIN rs = 1..Len(rs)
  BY LenProperties
<1>2. \A i \in DOMAIN rs : rs[i].batch \in SUBSET Hash
  <2>1. \A i \in DOMAIN rs : rs[i] \in Result
    BY ElementsOf
  <2> QED
    BY <2>1 DEF Result
<1>3. BatchesIn(rs) \in [1..Len(rs) -> SUBSET Hash]
  BY <1>1, <1>2 DEF BatchesIn
<1>4. BatchesIn(rs) \in Seq(SUBSET Hash) /\ Len(BatchesIn(rs)) = Len(rs)
  BY <1>1, <1>3, SequenceOf
<1>5. BatchesIn(rs) = <<>> <=> rs = <<>>
  BY <1>1, <1>4, ElementsOf
<1> QED
  BY <1>1, <1>4, <1>5 DEF BatchesIn

\* ... of what is left of it after the first, ...
LEMMA BatchesTail ==
  ASSUME NEW rs \in Seq(Result), rs # <<>>
  PROVE  BatchesIn(Tail(rs)) = Tail(BatchesIn(rs)) /\ Head(BatchesIn(rs)) = Head(rs).batch
<1> DEFINE n == Len(rs)
           b == BatchesIn(rs)
           t == BatchesIn(Tail(rs))
<1>1. n \in Nat \ {0} /\ Tail(rs) \in Seq(Result) /\ Len(Tail(rs)) = n - 1
      /\ (\A i \in 1..(n - 1) : Tail(rs)[i] = rs[i + 1]) /\ Head(rs) = rs[1]
  BY EmptySeq
<1>2. b \in Seq(SUBSET Hash) /\ Len(b) = n /\ b # <<>> /\ \A i \in 1..n : b[i] = rs[i].batch
  BY BatchesOf
<1>3. t \in Seq(SUBSET Hash) /\ Len(t) = n - 1 /\ \A i \in 1..(n - 1) : t[i] = Tail(rs)[i].batch
  BY <1>1, BatchesOf
<1> HIDE DEF n, b, t
<1>4. Tail(b) \in Seq(SUBSET Hash) /\ Len(Tail(b)) = n - 1 /\ Head(b) = b[1]
      /\ \A i \in 1..(n - 1) : Tail(b)[i] = b[i + 1]
  BY <1>2
<1>5. \A i \in 1..(n - 1) : i + 1 \in 1..n
  BY <1>1
<1>6. \A i \in 1..(n - 1) : t[i] = Tail(b)[i]
  BY <1>1, <1>2, <1>3, <1>4, <1>5
<1>7. t = Tail(b)
  BY <1>3, <1>4, <1>6, SeqEqual
<1> QED
  BY <1>1, <1>2, <1>4, <1>7 DEF b, t

\* ... and with one more at its end.
LEMMA BatchesAppend ==
  ASSUME NEW rs \in Seq(Result), NEW r \in Result
  PROVE  BatchesIn(Append(rs, r)) = Append(BatchesIn(rs), r.batch)
<1> DEFINE n == Len(rs)
           b == BatchesIn(rs)
           t == BatchesIn(Append(rs, r))
<1>1. n \in Nat /\ Append(rs, r) \in Seq(Result) /\ Len(Append(rs, r)) = n + 1
      /\ Append(rs, r)[n + 1] = r /\ (\A i \in 1..n : Append(rs, r)[i] = rs[i]) /\ r.batch \in SUBSET Hash
  BY AppendProperties, LenProperties DEF Result
<1>2. b \in Seq(SUBSET Hash) /\ Len(b) = n /\ \A i \in 1..n : b[i] = rs[i].batch
  BY BatchesOf
<1>3. t \in Seq(SUBSET Hash) /\ Len(t) = n + 1 /\ \A i \in 1..(n + 1) : t[i] = Append(rs, r)[i].batch
  BY <1>1, BatchesOf
<1> HIDE DEF n, b, t
<1>4. /\ Append(b, r.batch) \in Seq(SUBSET Hash) /\ Len(Append(b, r.batch)) = n + 1
      /\ Append(b, r.batch)[n + 1] = r.batch /\ \A i \in 1..n : Append(b, r.batch)[i] = b[i]
  BY <1>1, <1>2, AppendProperties
<1>5. \A i \in 1..(n + 1) : i \in 1..n \/ i = n + 1
  BY <1>1
<1>6. \A i \in 1..(n + 1) : t[i] = Append(b, r.batch)[i]
  BY <1>1, <1>2, <1>3, <1>4, <1>5
<1>7. t = Append(b, r.batch)
  BY <1>3, <1>4, <1>6, SeqEqual
<1> QED
  BY <1>7 DEF b, t

\* Every chunk under way is in one batch.
WorkerBatches == [k \in Worker |-> worker[k].batch]
Placed ==
  /\ Disjoint(queue) /\ Disjoint(Batches) /\ Disjoint(WorkerBatches)
  /\ batch \cap (InQueue \cup AtWorkers \cup InResults) = {}
  /\ InQueue \cap (AtWorkers \cup InResults) = {} /\ AtWorkers \cap InResults = {}
  /\ ~failure /\ ~stopped => InFlight = batch \cup InQueue \cup AtWorkers \cup InResults
  /\ batch \cup InQueue \cup AtWorkers \cup InResults \subseteq InFlight
NoneEmpty ==
  /\ \A i \in DOMAIN queue : queue[i] # {}
  /\ \A i \in DOMAIN results : results[i].batch # {}
  /\ \A k \in Worker : worker[k].phase \in {"idle", "done"} <=> worker[k].batch = {}
Fitting == used = Sum(InFlight) /\ used <= PipelineBytes
SlotsTaken == slots = Cardinality({k \in Worker : worker[k].phase = "upload"})

\* The uploader's invariant, in these parts.
LEMMA BatchesParts == BatchesInv <=> Placed /\ NoneEmpty /\ Fitting /\ SlotsTaken
BY DEF BatchesInv, PipelineWindowExact, Placed, NoneEmpty, Fitting, SlotsTaken, WorkerBatches

\* What the places are, of typed variables.
LEMMA Places ==
  ASSUME PipeShape
  PROVE  /\ results \in Seq(Result) /\ Batches = BatchesIn(results) /\ Batches \in Seq(SUBSET Hash)
         /\ queue \in Seq(SUBSET Hash) /\ InQueue = Covered(queue) /\ InResults = Covered(Batches)
         /\ \A k \in Worker : worker[k].batch \subseteq Hash /\ worker[k].batch \subseteq AtWorkers
         /\ InQueue \subseteq Hash /\ InResults \subseteq Hash /\ AtWorkers \subseteq Hash /\ InFlight \subseteq Hash
<1>1. results \in Seq(Result) /\ queue \in Seq(SUBSET Hash)
  BY DEF PipeShape, Result
<1>2. Batches = BatchesIn(results) /\ InQueue = Covered(queue) /\ InResults = Covered(Batches)
  BY DEF Batches, BatchesIn, InQueue, InResults, Covered
<1>3. Batches \in Seq(SUBSET Hash)
  BY <1>1, <1>2, BatchesOf
<1>4. \A k \in Worker : worker[k].batch \subseteq Hash /\ worker[k].batch \subseteq AtWorkers
  BY DEF PipeShape, WorkerType, AtWorkers
<1>5. AtWorkers \subseteq Hash /\ InFlight \subseteq Hash
  BY <1>4 DEF AtWorkers, InFlight
<1>6. ToSet(queue) \subseteq SUBSET Hash /\ ToSet(Batches) \subseteq SUBSET Hash
  BY <1>1, <1>3, ElementsOf
<1>7. InQueue \subseteq Hash /\ InResults \subseteq Hash
  BY <1>2, <1>6 DEF Covered
<1> QED
  BY <1>1, <1>2, <1>3, <1>4, <1>5, <1>7

\* A worker gets a batch, or is done with its own.
LEMMA WorkerTakes ==
  ASSUME NEW k \in Worker, NEW b, worker[k].batch = {}, Disjoint(WorkerBatches), b \cap AtWorkers = {},
         worker'[k].batch = b, \A j \in Worker \ {k} : worker'[j].batch = worker[j].batch
  PROVE  AtWorkers' = AtWorkers \cup b /\ Disjoint(WorkerBatches')
<1>1. AtWorkers' = AtWorkers \cup b
  BY DEF AtWorkers
<1>2. \A j \in Worker : worker[j].batch \subseteq AtWorkers
  BY DEF AtWorkers
<1>3. \A i, j \in Worker : i # j => worker[i].batch \cap worker[j].batch = {}
  BY DEF Disjoint, WorkerBatches
<1>4. ASSUME NEW i \in Worker, NEW j \in Worker, i # j PROVE worker'[i].batch \cap worker'[j].batch = {}
  BY <1>2, <1>3, <1>4
<1> QED
  BY <1>1, <1>4 DEF Disjoint, WorkerBatches

\* A worker is done with its batch, ...
LEMMA WorkerDrops ==
  ASSUME NEW k \in Worker, Disjoint(WorkerBatches), worker'[k].batch = {},
         \A j \in Worker \ {k} : worker'[j].batch = worker[j].batch
  PROVE  AtWorkers' = AtWorkers \ worker[k].batch /\ Disjoint(WorkerBatches')
<1>1. \A i, j \in Worker : i # j => worker[i].batch \cap worker[j].batch = {}
  BY DEF Disjoint, WorkerBatches
<1>2. AtWorkers' = AtWorkers \ worker[k].batch
  BY <1>1 DEF AtWorkers
<1>3. ASSUME NEW i \in Worker, NEW j \in Worker, i # j PROVE worker'[i].batch \cap worker'[j].batch = {}
  BY <1>1, <1>3
<1> QED
  BY <1>2, <1>3 DEF Disjoint, WorkerBatches

\* ... or all workers keep theirs.
LEMMA WorkerKeeps ==
  ASSUME \A j \in Worker : worker'[j].batch = worker[j].batch
  PROVE  AtWorkers' = AtWorkers /\ WorkerBatches' = WorkerBatches
BY DEF AtWorkers, WorkerBatches

\* A worker's own steps ...
Working(k) == Check(k) \/ AcquireSlot(k) \/ SlotRefused(k) \/ Upload(k) \/ RequestFails(k) \/ WorkerReturns(k)

\* ... leave its batch where it is.
LEMMA WorkingKeeps ==
  ASSUME PipeShape, NEW k \in Worker, Working(k)
  PROVE  /\ \A j \in Worker : worker'[j].batch = worker[j].batch
         /\ \A j \in Worker \ {k} : worker'[j] = worker[j]
         /\ worker[k].phase \in {"idle", "done"} <=> worker'[k].phase \in {"idle", "done"}
         /\ UNCHANGED <<scanVars, queue, results, stopped>>
<1>1. worker \in [Worker -> WorkerType]
  BY DEF PipeShape
<1>2. CASE Check(k)
  BY <1>1, <1>2 DEF Check, Finished, WorkerType
<1>3. CASE AcquireSlot(k) \/ SlotRefused(k) \/ WorkerReturns(k)
  BY <1>1, <1>3 DEF AcquireSlot, SlotRefused, WorkerReturns, Finished, WorkerType
<1>4. CASE Upload(k) \/ RequestFails(k)
  BY <1>1, <1>4 DEF Upload, RequestFails, Finished, WorkerType
<1> QED
  BY <1>2, <1>3, <1>4 DEF Working

\* The chunks in flight after a chunk is awaited ...
LEMMA InFlightAwait ==
  ASSUME PipeShape, NEW f, NEW h \in Hash, Await(f, h)
  PROVE  InFlight' = InFlight \cup {h}
<1>1. \A x \in Hash : waiters'[x] = IF x = h THEN waiters[h] \cup {<<f, Len(refs[f]) + 1>>} ELSE waiters[x]
  BY DEF Await, PipeShape
<1>2. waiters'[h] # {}
  BY <1>1
<1> QED
  BY <1>1, <1>2 DEF InFlight

\* ... and after a batch is filled in.
LEMMA InFlightFill ==
  ASSUME PipeShape, NEW done, Fill(done)
  PROVE  InFlight' = InFlight \ done
<1>1. \A x \in Hash : waiters'[x] = IF x \in done THEN {} ELSE waiters[x]
  BY DEF Fill
<1> QED
  BY <1>1 DEF InFlight

\* A batch moves from one place to the next.
LEMMA PlacedStep ==
  ASSUME PipeShape, ScannerShape, ScannerInv, Placed, NoneEmpty, [Next]_vars
  PROVE  Placed' /\ NoneEmpty'
<1>1. PipeShape'
  BY PipeShapeStep
<1>2. /\ results \in Seq(Result) /\ Batches = BatchesIn(results) /\ Batches \in Seq(SUBSET Hash)
      /\ queue \in Seq(SUBSET Hash) /\ InQueue = Covered(queue) /\ InResults = Covered(Batches)
      /\ \A k \in Worker : worker[k].batch \subseteq Hash /\ worker[k].batch \subseteq AtWorkers
      /\ InQueue \subseteq Hash /\ InResults \subseteq Hash /\ AtWorkers \subseteq Hash /\ InFlight \subseteq Hash
  BY Places
<1>3. Batches' = BatchesIn(results') /\ InQueue' = Covered(queue') /\ InResults' = Covered(Batches')
  BY DEF Batches, BatchesIn, InQueue, InResults, Covered
<1>4. ASSUME UNCHANGED <<queue, results, worker>>
      PROVE  /\ InQueue' = InQueue /\ AtWorkers' = AtWorkers /\ InResults' = InResults
             /\ Disjoint(queue') = Disjoint(queue) /\ Disjoint(Batches') = Disjoint(Batches)
             /\ Disjoint(WorkerBatches') = Disjoint(WorkerBatches) /\ NoneEmpty'
  <2>1. Batches' = Batches /\ WorkerBatches' = WorkerBatches
    BY <1>4 DEF Batches, WorkerBatches
  <2>2. InQueue' = InQueue /\ AtWorkers' = AtWorkers /\ InResults' = InResults
    BY <1>2, <1>3, <1>4, <2>1 DEF AtWorkers
  <2>3. NoneEmpty'
    BY <1>4 DEF NoneEmpty
  <2> QED
    BY <1>4, <2>1, <2>2, <2>3
<1>5. CASE Apply
  <2>1. results # <<>> /\ results' = Tail(results) /\ UNCHANGED <<batch, queue, stopped, worker>>
    BY <1>5 DEF Apply, workerVars
  <2> DEFINE done == Head(results).batch
  <2>2. Batches' = Tail(Batches) /\ Head(Batches) = done /\ Batches # <<>>
    BY <1>2, <1>3, <2>1, BatchesTail, BatchesOf
  <2>3. /\ done \in SUBSET Hash /\ done \subseteq InResults
        /\ Disjoint(Batches') /\ InResults' = InResults \ done
    BY <1>2, <1>3, <2>2, SetsTail DEF Placed
  <2>4. InQueue' = InQueue /\ AtWorkers' = AtWorkers /\ WorkerBatches' = WorkerBatches
    BY <1>2, <1>3, <2>1 DEF AtWorkers, WorkerBatches
  <2>5. \A i \in DOMAIN results' : results'[i].batch # {}
    <3>1. \A i \in DOMAIN Batches : Batches[i] # {}
      BY <1>2, BatchesOf DEF NoneEmpty
    <3>2. Batches \in Seq(SUBSET Hash) /\ Batches # <<>>
      BY <1>2, <2>2
    <3>3. \A i \in DOMAIN Tail(Batches) : Tail(Batches)[i] # {}
      BY <3>1, <3>2, SetsTail
    <3>4. \A i \in DOMAIN Batches' : Batches'[i] # {}
      BY <2>2, <3>3
    <3> QED
      BY <1>3, <3>4 DEF BatchesIn
  <2>6. NoneEmpty'
    BY <2>1, <2>5 DEF NoneEmpty
  <2>7. CASE Head(results).ok
    <3>1. Fill(done) /\ UNCHANGED failure
      BY <1>5, <2>7 DEF Apply
    <3> HIDE DEF done
    <3>2. InFlight' = InFlight \ done
      BY <3>1, InFlightFill
    <3>3. Placed'
      BY <2>1, <2>3, <2>4, <3>1, <3>2 DEF Placed
    <3> QED
      BY <2>6, <3>3
  <2>8. CASE ~Head(results).ok
    <3>1. failure' = TRUE /\ InFlight' = InFlight
      BY <1>5, <2>8 DEF Apply, InFlight
    <3> HIDE DEF done
    <3>2. Placed'
      BY <2>1, <2>3, <2>4, <3>1 DEF Placed
    <3> QED
      BY <2>6, <3>2
  <2> QED
    BY <2>7, <2>8
<1>6. CASE Add
  <2>1. UNCHANGED <<batch, failure, queue, results, stopped, worker>>
    BY <1>6 DEF Add, AddKnown, AddInFlight, workerVars
  <2>2. InFlight' = InFlight
    <3>1. CASE AddKnown(file, Head(todo))
      BY <3>1 DEF AddKnown, InFlight
    <3>2. CASE AddInFlight(file, Head(todo))
      <4>1. Head(todo) \in InFlight /\ Head(todo) \in Hash /\ Await(file, Head(todo))
        BY <3>2 DEF AddInFlight, InFlight
      <4> QED
        BY <4>1, InFlightAwait
    <3> QED
      BY <1>6, <3>1, <3>2 DEF Add
  <2> QED
    BY <1>4, <2>1, <2>2 DEF Placed
<1>7. CASE AddEnd
  <2>1. Head(todo) \in Hash /\ IsNew(Head(todo))
    BY <1>7, TodoHead DEF AddEnd, ScannerInv
  <2>2. Await(file, Head(todo)) /\ batch' = batch \cup {Head(todo)}
        /\ UNCHANGED <<failure, queue, results, stopped, worker>>
    BY <1>7 DEF AddEnd, AddNew, workerVars
  <2>3. InFlight' = InFlight \cup {Head(todo)}
    BY <2>1, <2>2, InFlightAwait
  <2>4. Head(todo) \notin InFlight
    BY <2>1 DEF IsNew
  <2>5. /\ InQueue' = InQueue /\ AtWorkers' = AtWorkers /\ InResults' = InResults
        /\ Disjoint(queue') = Disjoint(queue) /\ Disjoint(Batches') = Disjoint(Batches)
        /\ Disjoint(WorkerBatches') = Disjoint(WorkerBatches) /\ NoneEmpty'
    BY <1>4, <2>2
  <2>6. Placed'
    BY <2>2, <2>3, <2>4, <2>5 DEF Placed
  <2> QED
    BY <2>5, <2>6
<1>8. CASE Enqueue
  <2>1. batch # {} /\ queue' = Append(queue, batch) /\ batch' = {} /\ batch \in SUBSET Hash
        /\ UNCHANGED <<waiters, failure, results, stopped, worker>>
    BY <1>8 DEF Enqueue, workerVars, PipeShape
  <2>2. Disjoint(queue') /\ InQueue' = InQueue \cup batch /\ \A i \in DOMAIN queue' : queue'[i] # {}
    <3>1. queue \in Seq(SUBSET Hash) /\ batch \cap Covered(queue) = {} /\ Disjoint(queue)
      BY <1>2 DEF Placed
    <3>2. \A i \in DOMAIN queue : queue[i] # {}
      BY DEF NoneEmpty
    <3>3. /\ Covered(queue') = Covered(queue) \cup batch /\ Disjoint(queue')
          /\ \A i \in DOMAIN queue' : queue'[i] # {}
      BY <2>1, <3>1, <3>2, SetsAppend
    <3> QED
      BY <1>2, <1>3, <3>3
  <2>3. Batches' = Batches /\ WorkerBatches' = WorkerBatches /\ AtWorkers' = AtWorkers /\ InFlight' = InFlight
    BY <2>1 DEF Batches, WorkerBatches, AtWorkers, InFlight
  <2>4. InResults' = InResults
    BY <1>2, <1>3, <2>3
  <2>5. Placed'
    BY <2>1, <2>2, <2>3, <2>4 DEF Placed
  <2>6. NoneEmpty'
    BY <2>1, <2>2 DEF NoneEmpty
  <2> QED
    BY <2>5, <2>6
<1>9. CASE Stop
  <2>1. stopped' = TRUE /\ UNCHANGED <<batch, failure, queue, results, worker>> /\ InFlight' = InFlight
    BY <1>9 DEF Stop, scanVars, workerVars, InFlight
  <2> QED
    BY <1>4, <2>1 DEF Placed
<1>10. ASSUME NEW k \in Worker, TakeBatch(k) PROVE Placed' /\ NoneEmpty'
  <2>1. /\ worker[k].phase = "idle" /\ queue # <<>> /\ queue' = Tail(queue)
        /\ worker'[k].phase = "check" /\ worker'[k].batch = Head(queue)
        /\ \A j \in Worker \ {k} : worker'[j] = worker[j]
        /\ UNCHANGED <<batch, waiters, failure, results, stopped>>
    BY <1>10 DEF TakeBatch, PipeShape, WorkerType, IdleWorker, scanVars
  <2>2. /\ Head(queue) \subseteq InQueue /\ Disjoint(queue') /\ InQueue' = InQueue \ Head(queue)
        /\ Head(queue) # {} /\ \A i \in DOMAIN queue' : queue'[i] # {}
    BY <1>2, <1>3, <2>1, SetsTail DEF Placed, NoneEmpty
  <2>3. worker[k].batch = {}
    BY <2>1 DEF NoneEmpty
  <2>4. AtWorkers' = AtWorkers \cup Head(queue) /\ Disjoint(WorkerBatches')
    BY <2>1, <2>2, <2>3, WorkerTakes DEF Placed
  <2>5. Batches' = Batches /\ InFlight' = InFlight
    BY <2>1 DEF Batches, InFlight
  <2>6. InResults' = InResults
    BY <1>2, <1>3, <2>5
  <2>7. Placed'
    BY <2>1, <2>2, <2>4, <2>5, <2>6 DEF Placed
  <2>8. NoneEmpty'
    BY <2>1, <2>2 DEF NoneEmpty
  <2> QED
    BY <2>7, <2>8
<1>11. ASSUME NEW k \in Worker, Working(k) PROVE Placed' /\ NoneEmpty'
  <2>1. /\ \A j \in Worker : worker'[j].batch = worker[j].batch
        /\ \A j \in Worker \ {k} : worker'[j] = worker[j]
        /\ worker[k].phase \in {"idle", "done"} <=> worker'[k].phase \in {"idle", "done"}
        /\ UNCHANGED <<scanVars, queue, results, stopped>>
    BY <1>11, WorkingKeeps
  <2>2. AtWorkers' = AtWorkers /\ WorkerBatches' = WorkerBatches
    BY <2>1, WorkerKeeps
  <2>3. Batches' = Batches /\ InFlight' = InFlight /\ batch' = batch /\ failure' = failure
    BY <2>1 DEF Batches, InFlight, scanVars
  <2>4. InQueue' = InQueue /\ InResults' = InResults
    BY <1>2, <1>3, <2>1, <2>3
  <2>5. Placed'
    BY <2>1, <2>2, <2>3, <2>4 DEF Placed
  <2>6. NoneEmpty'
    BY <2>1 DEF NoneEmpty
  <2> QED
    BY <2>5, <2>6
<1>12. ASSUME NEW k \in Worker, Publish(k) PROVE Placed' /\ NoneEmpty'
  <2> DEFINE r == [batch |-> worker[k].batch, ok |-> worker[k].ok]
  <2>1. /\ worker[k].phase = "publish" /\ results' = Append(results, r)
        /\ worker'[k].phase = "idle" /\ worker'[k].batch = {} /\ \A j \in Worker \ {k} : worker'[j] = worker[j]
        /\ UNCHANGED <<batch, waiters, failure, queue, stopped>>
    BY <1>12 DEF Publish, PipeShape, WorkerType, IdleWorker, scanVars
  <2>2. r \in Result /\ r.batch = worker[k].batch
    BY DEF Result, PipeShape, WorkerType
  <2> HIDE DEF r
  <2>3. worker[k].batch # {} /\ worker[k].batch \in SUBSET Hash
    BY <1>2, <2>1 DEF NoneEmpty
  <2>4. Batches' = Append(Batches, worker[k].batch)
    BY <1>2, <1>3, <2>1, <2>2, BatchesAppend
  <2>5. AtWorkers' = AtWorkers \ worker[k].batch /\ Disjoint(WorkerBatches')
    BY <2>1, WorkerDrops DEF Placed
  <2>6. worker[k].batch \cap InResults = {}
    BY <1>2 DEF Placed
  <2>7. Disjoint(Batches') /\ InResults' = InResults \cup worker[k].batch
    BY <1>2, <1>3, <2>3, <2>4, <2>6, SetsAppend DEF Placed
  <2>8. InQueue' = InQueue /\ InFlight' = InFlight
    BY <1>2, <1>3, <2>1 DEF InFlight
  <2>9. Placed'
    BY <1>2, <2>1, <2>5, <2>7, <2>8 DEF Placed
  <2>10. \A i \in DOMAIN results' : results'[i].batch # {}
    <3>1. \A i \in DOMAIN Batches : Batches[i] # {}
      BY <1>2, BatchesOf DEF NoneEmpty
    <3>2. \A i \in DOMAIN Batches' : Batches'[i] # {}
      BY <1>2, <2>3, <2>4, <3>1, SetsAppend
    <3> QED
      BY <1>3, <3>2 DEF BatchesIn
  <2>11. NoneEmpty'
    BY <2>1, <2>10 DEF NoneEmpty
  <2> QED
    BY <2>9, <2>11
<1>13. ASSUME NEW k \in Worker, Discard(k) PROVE Placed' /\ NoneEmpty'
  <2>1. /\ stopped /\ worker'[k].phase = "idle" /\ worker'[k].batch = {}
        /\ \A j \in Worker \ {k} : worker'[j] = worker[j]
        /\ UNCHANGED <<batch, waiters, failure, queue, results, stopped>>
    BY <1>13 DEF Discard, PipeShape, WorkerType, IdleWorker, scanVars
  <2>2. AtWorkers' = AtWorkers \ worker[k].batch /\ Disjoint(WorkerBatches')
    BY <2>1, WorkerDrops DEF Placed
  <2>3. Batches' = Batches /\ InFlight' = InFlight
    BY <2>1 DEF Batches, InFlight
  <2>4. InQueue' = InQueue /\ InResults' = InResults
    BY <1>2, <1>3, <2>1, <2>3
  <2>5. Placed'
    BY <2>1, <2>2, <2>3, <2>4 DEF Placed
  <2>6. NoneEmpty'
    BY <2>1 DEF NoneEmpty
  <2> QED
    BY <2>5, <2>6
<1>14. CASE UNCHANGED pipeVars
  <2>1. UNCHANGED <<batch, failure, queue, results, stopped, worker>> /\ InFlight' = InFlight
    BY <1>14 DEF pipeVars, scanVars, workerVars, InFlight
  <2> QED
    BY <1>4, <2>1 DEF Placed
<1> QED
  BY <1>5, <1>6, <1>7, <1>8, <1>9, <1>10, <1>11, <1>12, <1>13, <1>14, PipeFrame DEF WorkerStep, Working

\* The pipeline's window has the chunks in flight.
LEMMA FittingStep ==
  ASSUME PipeShape, ScannerShape, ScannerInv, Placed, Fitting, [Next]_vars
  PROVE  Fitting' /\ used' \in Nat
<1>1. InFlight \subseteq Hash /\ InFlight \in SUBSET Hash
  BY Places
<1>2. used = Sum(InFlight) /\ used <= PipelineBytes /\ used \in Nat /\ PipelineBytes \in Nat
  BY <1>1, SumOf, PipelineOK DEF Fitting
<1>3. ASSUME used' = used, InFlight' = InFlight PROVE Fitting' /\ used' \in Nat
  BY <1>2, <1>3 DEF Fitting
<1>4. CASE Apply
  <2>1. CASE Head(results).ok
    <3> DEFINE done == Head(results).batch
    <3>1. Fill(done) /\ results # <<>>
      BY <1>4, <2>1 DEF Apply
    <3>2. done \subseteq InResults
      <4>1. Batches = BatchesIn(results) /\ results \in Seq(Result) /\ Batches \in Seq(SUBSET Hash)
            /\ InResults = Covered(Batches)
        BY Places
      <4>2. Head(Batches) = done /\ Batches # <<>>
        BY <3>1, <4>1, BatchesTail, BatchesOf
      <4> QED
        BY <4>1, <4>2, SetsTail
    <3> HIDE DEF done
    <3>3. done \in SUBSET InFlight
      BY <3>2 DEF Placed
    <3>4. InFlight' = InFlight \ done
      BY <3>1, InFlightFill
    <3>5. used' = used - Sum(done)
      BY <3>1 DEF Fill
    <3>6. Sum(InFlight \ done) = Sum(InFlight) - Sum(done) /\ Sum(InFlight \ done) <= Sum(InFlight)
      BY <1>1, <3>3, SumMinus
    <3>7. Sum(InFlight \ done) \in Nat
      BY <1>1, SumOf
    <3>8. used' = Sum(InFlight') /\ used' \in Nat /\ used' <= used
      BY <1>2, <3>4, <3>5, <3>6, <3>7
    <3> QED
      BY <1>2, <3>8 DEF Fitting
  <2>2. CASE ~Head(results).ok
    <3>1. used' = used /\ InFlight' = InFlight
      BY <1>4, <2>2 DEF Apply, InFlight
    <3> QED
      BY <1>3, <3>1
  <2> QED
    BY <2>1, <2>2
<1>5. CASE Add
  <2>1. used' = used
    BY <1>5 DEF Add, AddKnown, AddInFlight
  <2>2. InFlight' = InFlight
    <3>1. CASE AddKnown(file, Head(todo))
      BY <3>1 DEF AddKnown, InFlight
    <3>2. CASE AddInFlight(file, Head(todo))
      <4>1. Head(todo) \in InFlight /\ Head(todo) \in Hash /\ Await(file, Head(todo))
        BY <3>2 DEF AddInFlight, InFlight
      <4> QED
        BY <4>1, InFlightAwait
    <3> QED
      BY <1>5, <3>1, <3>2 DEF Add
  <2> QED
    BY <1>3, <2>1, <2>2
<1>6. CASE AddEnd
  <2>1. Head(todo) \in Hash /\ IsNew(Head(todo))
    BY <1>6, TodoHead DEF AddEnd, ScannerInv
  <2>2. Await(file, Head(todo)) /\ used' = used + Size[Head(todo)] /\ used + Size[Head(todo)] <= PipelineBytes
    BY <1>6 DEF AddEnd, AddNew, Fits
  <2>3. InFlight' = InFlight \cup {Head(todo)} /\ Head(todo) \in Hash \ InFlight
    BY <2>1, <2>2, InFlightAwait DEF IsNew
  <2>4. Sum(InFlight \cup {Head(todo)}) = Sum(InFlight) + Size[Head(todo)]
    BY <1>1, <2>3, SumPlus
  <2>5. Size[Head(todo)] \in Nat
    BY <2>1, SizesOK
  <2>6. used' = Sum(InFlight') /\ used' \in Nat /\ used' <= PipelineBytes
    BY <1>2, <2>2, <2>3, <2>4, <2>5
  <2> QED
    BY <2>6 DEF Fitting
<1>7. CASE Enqueue \/ Stop
  BY <1>3, <1>7 DEF Enqueue, Stop, scanVars, InFlight
<1>8. ASSUME NEW k \in Worker, WorkerStep(k) \/ RequestFails(k) PROVE Fitting' /\ used' \in Nat
  <2>1. UNCHANGED scanVars
    BY <1>8 DEF WorkerStep, TakeBatch, Check, AcquireSlot, SlotRefused, Upload, Publish, Discard, WorkerReturns, RequestFails
  <2> QED
    BY <1>3, <2>1 DEF scanVars, InFlight
<1>9. CASE UNCHANGED pipeVars
  BY <1>3, <1>9 DEF pipeVars, scanVars, InFlight
<1> QED
  BY <1>4, <1>5, <1>6, <1>7, <1>8, <1>9, PipeFrame

\* A slot is taken by an upload, and given back when that ends.
LEMMA SlotsStep ==
  ASSUME PipeShape, SlotsTaken, slots \in 0..UploadSlots, [Next]_vars
  PROVE  SlotsTaken' /\ slots' \in 0..UploadSlots
<1> DEFINE up == {k \in Worker : worker[k].phase = "upload"}
           upx == {k \in Worker : worker'[k].phase = "upload"}
<1>1. IsFiniteSet(up) /\ Cardinality(up) \in Nat /\ slots = Cardinality(up)
  <2>1. IsFiniteSet(up)
    BY PipelineOK, FS_Subset
  <2> QED
    BY <2>1, FS_CardinalityType DEF SlotsTaken
<1>2. UploadSlots \in Nat
  BY PipelineOK
<1>3. ASSUME slots' = slots, upx = up PROVE SlotsTaken' /\ slots' \in 0..UploadSlots
  BY <1>1, <1>3 DEF SlotsTaken
<1>t. worker \in [Worker -> WorkerType]
  BY DEF PipeShape
<1>4. ASSUME NEW k \in Worker, AcquireSlot(k) PROVE SlotsTaken' /\ slots' \in 0..UploadSlots
  <2>1. /\ worker[k].phase = "slot" /\ slots < UploadSlots /\ slots' = slots + 1
        /\ worker'[k].phase = "upload" /\ \A j \in Worker \ {k} : worker'[j] = worker[j]
    BY <1>4, <1>t DEF AcquireSlot, WorkerType
  <2>2. upx = up \cup {k} /\ k \notin up
    BY <2>1
  <2> HIDE DEF up, upx
  <2>3. Cardinality(upx) = Cardinality(up) + 1
    BY <1>1, <2>2, FS_AddElement
  <2>4. slots' = Cardinality(upx) /\ slots' \in 0..UploadSlots
    BY <1>1, <1>2, <2>1, <2>3
  <2> QED
    BY <2>4 DEF SlotsTaken, upx
<1>5. ASSUME NEW k \in Worker, Upload(k) \/ RequestFails(k) PROVE SlotsTaken' /\ slots' \in 0..UploadSlots
  <2>1. /\ worker'[k].phase = "publish" /\ \A j \in Worker \ {k} : worker'[j] = worker[j]
        /\ slots' = IF worker[k].phase = "upload" THEN slots - 1 ELSE slots
    BY <1>5, <1>t DEF Upload, RequestFails, Finished, WorkerType
  <2>2. upx = up \ {k} /\ (k \in up <=> worker[k].phase = "upload")
    BY <2>1
  <2> HIDE DEF up, upx
  <2>3. CASE k \in up
    <3>1. Cardinality(upx) = Cardinality(up) - 1 /\ Cardinality(upx) \in Nat
      BY <1>1, <2>2, <2>3, FS_RemoveElement, FS_CardinalityType
    <3>2. slots' = Cardinality(upx) /\ slots' \in 0..UploadSlots
      BY <1>1, <1>2, <2>1, <2>2, <2>3, <3>1
    <3> QED
      BY <3>2 DEF SlotsTaken, upx
  <2>4. CASE k \notin up
    <3>1. upx = up /\ slots' = slots
      BY <2>1, <2>2, <2>4
    <3> QED
      BY <1>3, <3>1
  <2> QED
    BY <2>3, <2>4
<1>6. ASSUME NEW k \in Worker, TakeBatch(k) \/ Check(k) \/ SlotRefused(k) \/ Publish(k) \/ Discard(k) \/ WorkerReturns(k)
      PROVE  SlotsTaken' /\ slots' \in 0..UploadSlots
  <2>1. /\ worker[k].phase # "upload" /\ worker'[k].phase # "upload"
        /\ \A j \in Worker \ {k} : worker'[j] = worker[j]
    <3>1. CASE Publish(k) \/ Discard(k)
      BY <1>t, <3>1 DEF Publish, Discard, IdleWorker, WorkerType
    <3>4. CASE TakeBatch(k)
      BY <1>t, <3>4 DEF TakeBatch, IdleWorker, WorkerType
    <3>2. CASE Check(k)
      BY <1>t, <3>2 DEF Check, Finished, WorkerType
    <3>3. CASE SlotRefused(k) \/ WorkerReturns(k)
      BY <1>t, <3>3 DEF SlotRefused, WorkerReturns, Finished, WorkerType
    <3> QED
      BY <1>6, <3>1, <3>2, <3>3, <3>4
  <2>2. slots' = slots
    BY <1>6 DEF TakeBatch, Check, SlotRefused, Publish, Discard, WorkerReturns
  <2>3. upx = up
    BY <2>1
  <2> QED
    BY <1>3, <2>2, <2>3
<1>7. CASE Apply \/ Add \/ AddEnd \/ Enqueue \/ Stop \/ UNCHANGED pipeVars
  <2>1. slots' = slots /\ worker' = worker
    BY <1>7 DEF Apply, Add, AddEnd, Enqueue, Stop, pipeVars, workerVars
  <2> QED
    BY <1>3, <2>1
<1> QED
  BY <1>4, <1>5, <1>6, <1>7, PipeFrame DEF WorkerStep

-----------------------------------------------------------------------------
(* What is stored.                                                         *)

\* What the server has it keeps.
LEMMA ServerGrows == ASSUME [Next]_vars PROVE server \subseteq server'
<1>1. CASE Apply \/ Add \/ AddEnd \/ Enqueue \/ Stop \/ UNCHANGED pipeVars
  BY <1>1 DEF Apply, Add, AddEnd, Enqueue, Stop, pipeVars, workerVars
<1>2. CASE \E k \in Worker : WorkerStep(k) \/ RequestFails(k)
  BY <1>2 DEF WorkerStep, TakeBatch, Check, AcquireSlot, SlotRefused, Upload, Publish, Discard, WorkerReturns, RequestFails
<1> QED
  BY <1>1, <1>2, PipeFrame

\* What the workers know.
WorkerStored(r, sv) ==
  /\ r.phase \in {"slot", "upload"} => r.batch \subseteq sv \cup r.missing
  /\ r.phase = "publish" /\ r.ok => r.batch \subseteq sv
WorkersStored == \A k \in Worker : WorkerStored(worker[k], server)
ResultsStored == \A i \in DOMAIN results : results[i].ok => results[i].batch \subseteq server
RefsStored == \A f \in File : \A i \in DOMAIN refs[f] : refs[f][i] # NoRef => refs[f][i] \in server

\* The invariant about what is stored, in these parts.
LEMMA StoredParts == StoredInv <=> known \subseteq server /\ WorkersStored /\ ResultsStored /\ RefsStored
BY DEF StoredInv, WorkersStored, WorkerStored, ResultsStored, RefsStored

\* Every worker knows what it asked.
LEMMA WorkersStoredStep == ASSUME PipeShape, WorkersStored, [Next]_vars PROVE WorkersStored'
<1>t. worker \in [Worker -> WorkerType]
  BY DEF PipeShape
<1>g. server \subseteq server'
  BY ServerGrows
<1>1. ASSUME NEW k \in Worker, \A j \in Worker \ {k} : worker'[j] = worker[j], WorkerStored(worker'[k], server')
      PROVE  WorkersStored'
  <2>1. \A j \in Worker : WorkerStored(worker[j], server')
    BY <1>g DEF WorkersStored, WorkerStored
  <2> QED
    BY <1>1, <2>1 DEF WorkersStored
<1>2. ASSUME NEW k \in Worker, TakeBatch(k) \/ Publish(k) \/ Discard(k) \/ WorkerReturns(k) \/ SlotRefused(k) \/ RequestFails(k)
      PROVE  WorkersStored'
  <2>1. \/ worker'[k].phase \in {"check", "idle", "done"}
        \/ worker'[k].phase = "publish" /\ ~worker'[k].ok
    <3>1. CASE Publish(k) \/ Discard(k) \/ WorkerReturns(k)
      BY <1>t, <3>1 DEF Publish, Discard, WorkerReturns, IdleWorker, WorkerType
    <3>3. CASE TakeBatch(k)
      BY <1>t, <3>3 DEF TakeBatch, IdleWorker, WorkerType
    <3>2. CASE SlotRefused(k) \/ RequestFails(k)
      BY <1>t, <3>2 DEF SlotRefused, RequestFails, Finished, WorkerType
    <3> QED
      BY <1>2, <3>1, <3>2, <3>3
  <2>2. \A j \in Worker \ {k} : worker'[j] = worker[j]
    BY <1>2, <1>t DEF TakeBatch, Publish, Discard, WorkerReturns, SlotRefused, RequestFails, Finished
  <2> QED
    BY <1>1, <2>1, <2>2 DEF WorkerStored
<1>3. ASSUME NEW k \in Worker, Check(k) PROVE WorkersStored'
  <2> DEFINE missing == worker[k].batch \ server
  <2>1. \A j \in Worker \ {k} : worker'[j] = worker[j]
    BY <1>3, <1>t DEF Check, Finished
  <2>2. \/ missing = {} /\ worker'[k].phase = "publish" /\ worker'[k].batch = worker[k].batch
        \/ worker'[k].phase = "slot" /\ worker'[k].batch = worker[k].batch /\ worker'[k].missing = missing
    BY <1>3, <1>t DEF Check, Finished, WorkerType
  <2>3. WorkerStored(worker'[k], server')
    BY <1>g, <2>2 DEF WorkerStored
  <2> QED
    BY <1>1, <2>1, <2>3
<1>4. ASSUME NEW k \in Worker, AcquireSlot(k) \/ Upload(k) PROVE WorkersStored'
  <2>1. \A j \in Worker \ {k} : worker'[j] = worker[j]
    BY <1>4, <1>t DEF AcquireSlot, Upload, Finished
  <2>2. worker[k].batch \subseteq server \cup worker[k].missing
    BY <1>4 DEF AcquireSlot, Upload, WorkersStored, WorkerStored
  <2>3. CASE AcquireSlot(k)
    <3>1. /\ worker'[k].phase = "upload" /\ worker'[k].batch = worker[k].batch
          /\ worker'[k].missing = worker[k].missing
      BY <1>t, <2>3 DEF AcquireSlot, WorkerType
    <3>2. WorkerStored(worker'[k], server')
      BY <1>g, <2>2, <3>1 DEF WorkerStored
    <3> QED
      BY <1>1, <2>1, <3>2
  <2>4. CASE Upload(k)
    <3>1. worker'[k].phase = "publish" /\ worker'[k].batch = worker[k].batch /\ server' = server \cup worker[k].missing
      BY <1>t, <2>4 DEF Upload, Finished, WorkerType
    <3>2. WorkerStored(worker'[k], server')
      BY <2>2, <3>1 DEF WorkerStored
    <3> QED
      BY <1>1, <2>1, <3>2
  <2> QED
    BY <1>4, <2>3, <2>4
<1>5. CASE Apply \/ Add \/ AddEnd \/ Enqueue \/ Stop \/ UNCHANGED pipeVars
  <2>1. server' = server /\ worker' = worker
    BY <1>5 DEF Apply, Add, AddEnd, Enqueue, Stop, pipeVars, workerVars
  <2> QED
    BY <2>1 DEF WorkersStored
<1> QED
  BY <1>2, <1>3, <1>4, <1>5, PipeFrame DEF WorkerStep

\* A result that is right stays right.
LEMMA ResultsStoredStep == ASSUME PipeShape, WorkersStored, ResultsStored, [Next]_vars PROVE ResultsStored'
<1>g. server \subseteq server'
  BY ServerGrows
<1>t. results \in Seq(Result)
  BY Places
<1>1. CASE results' = results
  BY <1>1, <1>g DEF ResultsStored
<1>2. CASE results # <<>> /\ results' = Tail(results)
  <2>1. \A i \in DOMAIN Tail(results) : i + 1 \in DOMAIN results /\ Tail(results)[i] = results[i + 1]
    BY <1>t, <1>2
  <2> QED
    BY <1>g, <1>2, <2>1 DEF ResultsStored
<1>3. ASSUME NEW k \in Worker, Publish(k) PROVE ResultsStored'
  <2> DEFINE r == [batch |-> worker[k].batch, ok |-> worker[k].ok]
  <2>1. r \in Result /\ results' = Append(results, r) /\ (r.ok => r.batch \subseteq server)
    BY <1>3 DEF Publish, Result, PipeShape, WorkerType, WorkersStored, WorkerStored
  <2> HIDE DEF r
  <2>2. \A i \in DOMAIN Append(results, r) : (i \in DOMAIN results /\ Append(results, r)[i] = results[i])
                                              \/ Append(results, r)[i] = r
    BY <1>t, <2>1
  <2> QED
    BY <1>g, <2>1, <2>2 DEF ResultsStored
<1>4. CASE Add \/ AddEnd \/ Enqueue \/ Stop \/ UNCHANGED pipeVars
  BY <1>1, <1>4 DEF Add, AddEnd, Enqueue, Stop, pipeVars
<1>5. ASSUME NEW k \in Worker, RequestFails(k) \/ (WorkerStep(k) /\ ~Publish(k)) PROVE results' = results
  BY <1>5 DEF WorkerStep, TakeBatch, Check, AcquireSlot, SlotRefused, Upload, Discard, WorkerReturns, RequestFails
<1> QED
  BY <1>1, <1>2, <1>3, <1>4, <1>5, PipeFrame DEF Apply

\* A ref is filled with what is stored.
LEMMA RefsStoredStep ==
  ASSUME PipeShape, ScannerShape, known \subseteq server, ResultsStored, RefsStored, [Next]_vars
  PROVE  RefsStored'
<1>g. server \subseteq server'
  BY ServerGrows
<1>1. CASE refs' = refs
  BY <1>1, <1>g DEF RefsStored
<1>2. CASE results # <<>> /\ Head(results).ok /\ Fill(Head(results).batch)
  <2> DEFINE done == Head(results).batch
  <2>1. done \in SUBSET Hash /\ done \subseteq server
    BY <1>2, ResultHead DEF ResultsStored
  <2>2. Fill(done)
    BY <1>2
  <2> HIDE DEF done
  <2>3. \A f \in File : /\ DOMAIN refs'[f] = DOMAIN refs[f]
                        /\ \A i \in DOMAIN refs[f] : refs'[f][i] \in done \/ refs'[f][i] = refs[f][i]
    <3>1. \A f \in File :
            /\ DOMAIN refs'[f] = DOMAIN refs[f]
            /\ \A i \in DOMAIN refs[f] :
                 \/ \E h \in done : <<f, i>> \in waiters[h] /\ refs'[f][i] = h
                 \/ (\A h \in done : <<f, i>> \notin waiters[h]) /\ refs'[f][i] = refs[f][i]
      BY <2>1, <2>2, FillRefs
    <3> QED
      BY <3>1
  <2> QED
    BY <1>g, <2>1, <2>3 DEF RefsStored
<1>3. ASSUME NEW h \in server \cup {NoRef}, h \in Hash \cup {NoRef}, refs' = [refs EXCEPT ![file] = Append(refs[file], h)]
      PROVE  RefsStored'
  <2>1. file \in File /\ refs[file] \in Seq(Hash \cup {NoRef})
    BY RefsOf DEF ScannerShape
  <2>2. /\ refs'[file] = Append(refs[file], h)
        /\ \A f \in File \ {file} : refs'[f] = refs[f]
    BY <1>3, <2>1 DEF PipeShape
  <2>3. \A i \in DOMAIN Append(refs[file], h) :
          (i \in DOMAIN refs[file] /\ Append(refs[file], h)[i] = refs[file][i]) \/ Append(refs[file], h)[i] = h
    BY <1>3, <2>1
  <2> QED
    BY <1>g, <1>3, <2>1, <2>2, <2>3 DEF RefsStored
<1>4. CASE AddKnown(file, Head(todo))
  BY <1>3, <1>4 DEF AddKnown, PipeShape
<1>5. CASE Await(file, Head(todo))
  BY <1>3, <1>5 DEF Await
<1> QED
  BY <1>1, <1>2, <1>4, <1>5, RefsFrame

\* What the catalog has as confirmed is stored.
LEMMA StoredStep == ASSUME PipeShape, ScannerShape, StoredInv, [Next]_vars PROVE StoredInv'
<1>1. known \subseteq server /\ WorkersStored /\ ResultsStored /\ RefsStored
  BY StoredParts
<1>2. known' \subseteq server
  <2>1. CASE Apply
    <3>1. Head(results).ok => Head(results).batch \subseteq server
      BY <1>1, <2>1, ResultHead DEF Apply, ResultsStored
    <3> QED
      BY <1>1, <2>1, <3>1 DEF Apply
  <2>2. CASE Add \/ AddEnd \/ Enqueue \/ Stop \/ UNCHANGED pipeVars
    BY <1>1, <2>2 DEF Add, AddKnown, AddInFlight, AddEnd, AddNew, Enqueue, Stop, scanVars, pipeVars
  <2>3. CASE \E k \in Worker : WorkerStep(k) \/ RequestFails(k)
    BY <1>1, <2>3 DEF WorkerStep, TakeBatch, Check, AcquireSlot, SlotRefused, Upload, Publish, Discard, WorkerReturns,
      RequestFails, scanVars
  <2> QED
    BY <2>1, <2>2, <2>3, PipeFrame
<1>3. known' \subseteq server'
  BY <1>2, ServerGrows
<1>4. WorkersStored' /\ ResultsStored' /\ RefsStored'
  BY <1>1, WorkersStoredStep, ResultsStoredStep, RefsStoredStep
<1> QED
  BY <1>3, <1>4 DEF StoredInv, WorkersStored, WorkerStored, ResultsStored, RefsStored

-----------------------------------------------------------------------------
(* The refs of a file.                                                     *)

\* The refs rs of file f when its content is c and ws are the waiters.
RefsRight(f, rs, ws, c) ==
  /\ Len(rs) <= Len(c)
  /\ \A i \in DOMAIN rs :
       /\ rs[i] \in {c[i], NoRef}
       /\ \A h \in Hash : <<f, i>> \in ws[h] <=> rs[i] = NoRef /\ h = c[i]
AwaitedIn(rs) == {i \in DOMAIN rs : rs[i] = NoRef}
WaitersRight == \A h \in Hash : \A x \in waiters[h] : x[1] \in File /\ x[2] \in DOMAIN refs[x[1]]
VersionsRight == \A f \in File : ver[f] \in DOMAIN Content[f]
FileRight(f) ==
  RefsRight(f, refs[f], waiters, Content[f][ver[f]]) /\ awaiting[f] = Cardinality(AwaitedIn(refs[f]))

\* The invariant about the refs, in these parts.
LEMMA RefsParts == RefsInv <=> (\A f \in File : FileRight(f)) /\ VersionsRight /\ WaitersRight
BY DEF RefsInv, RefsInOrder, FileRight, RefsRight, AwaitedIn, VersionsRight, WaitersRight

\* The awaited places are finitely many.
LEMMA AwaitedFinite ==
  ASSUME NEW n \in Nat, NEW rs, DOMAIN rs = 1..n
  PROVE  IsFiniteSet(AwaitedIn(rs)) /\ Cardinality(AwaitedIn(rs)) \in Nat
<1>1. IsFiniteSet(1..n)
  BY FS_Interval
<1>2. AwaitedIn(rs) \in SUBSET (1..n)
  BY DEF AwaitedIn
<1>3. IsFiniteSet(AwaitedIn(rs))
  BY <1>1, <1>2, FS_Subset
<1> QED
  BY <1>3, FS_CardinalityType

\* The next ref of the file is that of the chunk to add.
LEMMA NextRef ==
  ASSUME PipeShape, ScannerShape, ScannerInv, Adding, pc \in {"drain", "reserve"}
  PROVE  LET c == Content[file][ver[file]]  n == Len(refs[file]) IN
         /\ file \in File /\ Head(todo) \in Hash /\ Head(todo) # NoRef /\ n \in Nat
         /\ Head(todo) = c[n + 1] /\ n + 1 <= Len(c)
<1> DEFINE c == Content[file][ver[file]]
           n == Len(refs[file])
<1>1. file \in File /\ n \in Nat
  BY RefsOf DEF ScannerShape
<1>2. todo # <<>> /\ Head(todo) \in Hash /\ Len(todo) \in Nat \ {0}
  BY TodoHead DEF Adding
<1>3. n + Len(todo) = Len(c) /\ \A i \in DOMAIN todo : todo[i] = c[n + i]
  BY DEF ScannerInv
<1>4. Head(todo) = todo[1] /\ 1 \in DOMAIN todo
  BY <1>2, HeadTailProperties DEF ScannerShape
<1>5. Head(todo) = c[n + 1]
  BY <1>3, <1>4
<1>6. n + 1 <= Len(c)
  <2> HIDE DEF n, c
  <2> QED
    BY <1>1, <1>2, <1>3
<1> QED
  BY <1>1, <1>2, <1>5, <1>6, PipelineOK

\* Place i of file f awaits chunk h, if its ref r is not known.
WaiterAdded(f, i, ws, wx, h, r) ==
  \A x \in Hash :
    /\ <<f, i>> \notin ws[x]
    /\ \A j \in Nat : <<f, j>> \in wx[x] <=> <<f, j>> \in ws[x] \/ (r = NoRef /\ x = h /\ j = i)

\* A ref is added.
LEMMA RefAdded ==
  ASSUME NEW f \in File, NEW rs \in Seq(Hash \cup {NoRef}), NEW ws, NEW wx, NEW c, NEW h \in Hash, NEW r \in {h, NoRef},
         RefsRight(f, rs, ws, c), h = c[Len(rs) + 1], Len(rs) + 1 <= Len(c),
         WaiterAdded(f, Len(rs) + 1, ws, wx, h, r)
  PROVE  /\ RefsRight(f, Append(rs, r), wx, c)
         /\ r = NoRef => Cardinality(AwaitedIn(Append(rs, r))) = Cardinality(AwaitedIn(rs)) + 1
         /\ r = h => Cardinality(AwaitedIn(Append(rs, r))) = Cardinality(AwaitedIn(rs))
<1> DEFINE n == Len(rs)
           rx == Append(rs, r)
<1>0. NoRef \notin Hash
  BY PipelineOK
<1>1. n \in Nat /\ DOMAIN rs = 1..n /\ r \in Hash \cup {NoRef}
  BY LenProperties
<1>2. /\ Len(rx) = n + 1 /\ DOMAIN rx = 1..(n + 1) /\ rx[n + 1] = r
      /\ \A i \in 1..n : rx[i] = rs[i]
  BY <1>1, AppendProperties
<1> HIDE DEF rx
<1>3. ASSUME NEW i \in 1..n
      PROVE  /\ rx[i] \in {c[i], NoRef}
             /\ \A x \in Hash : <<f, i>> \in wx[x] <=> rx[i] = NoRef /\ x = c[i]
  <2>1. rs[i] \in {c[i], NoRef} /\ \A x \in Hash : <<f, i>> \in ws[x] <=> rs[i] = NoRef /\ x = c[i]
    BY <1>1, <1>3 DEF RefsRight
  <2>2. rx[i] = rs[i] /\ i # n + 1
    BY <1>1, <1>2, <1>3
  <2>3. \A x \in Hash : <<f, i>> \in wx[x] <=> <<f, i>> \in ws[x]
    BY <1>1, <2>2 DEF WaiterAdded
  <2> QED
    BY <2>1, <2>2, <2>3
<1>4. /\ rx[n + 1] \in {c[n + 1], NoRef}
      /\ \A x \in Hash : <<f, n + 1>> \in wx[x] <=> rx[n + 1] = NoRef /\ x = c[n + 1]
  BY <1>0, <1>1, <1>2 DEF WaiterAdded
<1>5. \A i \in 1..(n + 1) : i \in 1..n \/ i = n + 1
  BY <1>1
<1>6. RefsRight(f, rx, wx, c)
  BY <1>2, <1>3, <1>4, <1>5 DEF RefsRight
<1>7. IsFiniteSet(AwaitedIn(rs)) /\ Cardinality(AwaitedIn(rs)) \in Nat /\ n + 1 \notin AwaitedIn(rs)
  <2>1. n + 1 \notin 1..n
    BY <1>1
  <2> QED
    BY <1>1, <2>1, AwaitedFinite DEF AwaitedIn
<1>8. AwaitedIn(rx) = IF r = NoRef THEN AwaitedIn(rs) \cup {n + 1} ELSE AwaitedIn(rs)
  BY <1>0, <1>1, <1>2, <1>5 DEF AwaitedIn
<1>9. Cardinality(AwaitedIn(rs) \cup {n + 1}) = Cardinality(AwaitedIn(rs)) + 1
  BY <1>7, FS_AddElement
<1>10. /\ r = NoRef => Cardinality(AwaitedIn(rx)) = Cardinality(AwaitedIn(rs)) + 1
       /\ r = h => Cardinality(AwaitedIn(rx)) = Cardinality(AwaitedIn(rs))
  BY <1>0, <1>8, <1>9
<1> QED
  BY <1>6, <1>10 DEF rx

\* A batch is filled in: what it fills is awaited no more.
LEMMA FileFilled ==
  ASSUME PipeShape, WaitersRight, NEW done \in SUBSET Hash, Fill(done), NEW f \in File, FileRight(f),
         awaiting \in [File -> Nat]
  PROVE  /\ RefsRight(f, refs'[f], waiters', Content[f][ver[f]])
         /\ awaiting'[f] = Cardinality(AwaitedIn(refs'[f])) /\ awaiting'[f] \in Nat
<1> DEFINE c == Content[f][ver[f]]
           D == {i \in DOMAIN refs[f] : \E h \in done : <<f, i>> \in waiters[h]}
           Of == (UNION {waiters[h] : h \in done}) \cap ({f} \X Nat)
<1>0. NoRef \notin Hash
  BY PipelineOK
<1>1. /\ Len(refs[f]) \in Nat /\ DOMAIN refs[f] = 1..Len(refs[f])
      /\ \A i \in DOMAIN refs[f] : i \in Nat
  BY RefsOf
<1>2. /\ Len(refs[f]) <= Len(c)
      /\ \A i \in DOMAIN refs[f] :
           /\ refs[f][i] \in {c[i], NoRef}
           /\ \A h \in Hash : <<f, i>> \in waiters[h] <=> refs[f][i] = NoRef /\ h = c[i]
  BY DEF FileRight, RefsRight
<1>3. /\ DOMAIN refs'[f] = DOMAIN refs[f] /\ Len(refs'[f]) = Len(refs[f])
      /\ \A i \in DOMAIN refs[f] :
           \/ \E h \in done : <<f, i>> \in waiters[h] /\ refs'[f][i] = h
           \/ (\A h \in done : <<f, i>> \notin waiters[h]) /\ refs'[f][i] = refs[f][i]
  BY FillRefs
<1>4. \A h \in Hash : waiters'[h] = IF h \in done THEN {} ELSE waiters[h]
  BY DEF Fill
<1>5. ASSUME NEW i \in D
      PROVE  /\ refs[f][i] = NoRef /\ refs'[f][i] = c[i] /\ c[i] \in done
             /\ \A x \in Hash : <<f, i>> \notin waiters'[x]
  <2>1. i \in DOMAIN refs[f] /\ \E h \in done : <<f, i>> \in waiters[h]
    OBVIOUS
  <2>2. PICK h \in done : <<f, i>> \in waiters[h] /\ refs'[f][i] = h
    BY <1>3, <2>1
  <2>3. refs[f][i] = NoRef /\ h = c[i]
    BY <1>2, <2>1, <2>2
  <2>4. \A x \in Hash : <<f, i>> \in waiters[x] => x = h
    BY <1>2, <2>1, <2>3
  <2>5. \A x \in Hash : <<f, i>> \notin waiters'[x]
    BY <1>4, <2>4
  <2> QED
    BY <2>2, <2>3, <2>5
<1>6. ASSUME NEW i \in DOMAIN refs[f], i \notin D
      PROVE  /\ refs'[f][i] = refs[f][i]
             /\ \A x \in Hash : <<f, i>> \in waiters'[x] <=> <<f, i>> \in waiters[x]
  <2>1. \A h \in done : <<f, i>> \notin waiters[h]
    BY <1>6
  <2>2. refs'[f][i] = refs[f][i]
    BY <1>3, <2>1
  <2> QED
    BY <1>4, <2>1, <2>2
<1>7. D \subseteq DOMAIN refs[f] /\ D \subseteq Hash \cup D
  OBVIOUS
<1>8. Of = {f} \X D
  <2>1. \A h \in done : \A x \in waiters[h] : x \in File \X Nat /\ x[2] \in DOMAIN refs[x[1]]
    BY DEF PipeShape, WaitersRight
  <2>2. ASSUME NEW x \in Of PROVE x \in {f} \X D
    <3>1. PICK h \in done : x \in waiters[h]
      OBVIOUS
    <3>2. x = <<x[1], x[2]>> /\ x[1] = f
      BY <2>1
    <3>3. x[2] \in DOMAIN refs[f] /\ <<f, x[2]>> \in waiters[h]
      BY <2>1, <3>1, <3>2
    <3>4. x[2] \in D
      BY <3>1, <3>3
    <3> QED
      BY <3>2, <3>4
  <2>3. ASSUME NEW i \in D PROVE <<f, i>> \in Of
    <3>1. PICK h \in done : <<f, i>> \in waiters[h]
      OBVIOUS
    <3> QED
      BY <1>1, <3>1
  <2> QED
    BY <2>2, <2>3
<1>9. awaiting'[f] = awaiting[f] - Cardinality(Of)
  BY DEF Fill
<1> HIDE DEF D, Of
<1>10. RefsRight(f, refs'[f], waiters', c)
  <2>1. ASSUME NEW i \in DOMAIN refs[f]
        PROVE  /\ refs'[f][i] \in {c[i], NoRef}
               /\ \A h \in Hash : <<f, i>> \in waiters'[h] <=> refs'[f][i] = NoRef /\ h = c[i]
    <3>1. CASE i \in D
      <4>1. refs'[f][i] = c[i] /\ c[i] # NoRef
        BY <1>0, <1>5, <3>1
      <4>2. \A h \in Hash : <<f, i>> \notin waiters'[h]
        BY <1>5, <3>1
      <4> QED
        BY <4>1, <4>2
    <3>2. CASE i \notin D
      <4>1. refs'[f][i] = refs[f][i] /\ \A h \in Hash : <<f, i>> \in waiters'[h] <=> <<f, i>> \in waiters[h]
        BY <1>6, <3>2
      <4>2. refs[f][i] \in {c[i], NoRef} /\ \A h \in Hash : <<f, i>> \in waiters[h] <=> refs[f][i] = NoRef /\ h = c[i]
        BY <1>2
      <4> QED
        BY <4>1, <4>2
    <3> QED
      BY <3>1, <3>2
  <2> QED
    BY <1>2, <1>3, <2>1 DEF RefsRight
<1>11. IsFiniteSet(AwaitedIn(refs[f])) /\ Cardinality(AwaitedIn(refs[f])) \in Nat
  BY <1>1, AwaitedFinite
<1>12. D \in SUBSET AwaitedIn(refs[f]) /\ AwaitedIn(refs'[f]) = AwaitedIn(refs[f]) \ D
  <2>1. \A i \in DOMAIN refs[f] : i \in D => refs[f][i] = NoRef /\ refs'[f][i] # NoRef
    BY <1>0, <1>5
  <2>2. \A i \in DOMAIN refs[f] : i \notin D => refs'[f][i] = refs[f][i]
    BY <1>6
  <2> QED
    BY <1>3, <1>7, <2>1, <2>2 DEF AwaitedIn
<1>13. IsFiniteSet(D) /\ Cardinality(D) \in Nat /\ Cardinality(D) <= Cardinality(AwaitedIn(refs[f]))
  BY <1>11, <1>12, FS_Subset, FS_CardinalityType
<1>14. Cardinality(AwaitedIn(refs'[f])) = Cardinality(AwaitedIn(refs[f])) - Cardinality(D)
  <2>1. AwaitedIn(refs[f]) \cap D = D
    BY <1>12
  <2> QED
    BY <1>11, <1>12, <2>1, FS_Difference
<1>15. Cardinality(Of) = Cardinality(D)
  <2>1. IsFiniteSet({f}) /\ Cardinality({f}) = 1
    BY FS_Singleton
  <2>2. Cardinality({f} \X D) = Cardinality({f}) * Cardinality(D)
    BY <1>13, <2>1, FS_Product
  <2> QED
    BY <1>8, <1>13, <2>1, <2>2
<1>16. awaiting[f] = Cardinality(AwaitedIn(refs[f]))
  BY DEF FileRight
<1> QED
  BY <1>9, <1>10, <1>11, <1>13, <1>14, <1>15, <1>16

\* A file gets a version with its metadata, before it has a ref.
LEMMA VersionFrame ==
  ASSUME ReadersShape, ScannerShape, HeldRight, Owned, FreshFiles, [Next]_vars
  PROVE  \/ ver' = ver
         \/ /\ UNCHANGED pipeVars /\ ver' \in [File -> Nat]
            /\ \A f \in File : \/ ver'[f] = ver[f]
                               \/ refs[f] = <<>> /\ ver'[f] \in DOMAIN Content[f]
<1>1. ASSUME NEW w \in Reader, Receive(w)
      PROVE  /\ UNCHANGED pipeVars /\ ver' \in [File -> Nat]
             /\ \A f \in File : \/ ver'[f] = ver[f]
                                \/ refs[f] = <<>> /\ ver'[f] \in DOMAIN Content[f]
  <2> DEFINE g == reader[w].file
  <2>1. g \in File /\ reader[w].ver \in Nat /\ ver' = [ver EXCEPT ![g] = reader[w].ver] /\ UNCHANGED pipeVars
    BY <1>1 DEF Receive, ReadersShape, ReaderType
  <2>2. refs[g] = <<>>
    BY <1>1, Delivered DEF Receive, FreshFiles
  <2>3. reader[w].ver \in 1..disk[g] /\ disk[g] \in DOMAIN Content[g] /\ disk[g] \in Nat
    BY <1>1, <2>1 DEF Receive, HeldRight, HoldsRight, ReadersShape
  <2>4. DOMAIN Content[g] = 1..Len(Content[g]) /\ Len(Content[g]) \in Nat
    BY <2>1, ContentOf
  <2>5. reader[w].ver \in DOMAIN Content[g]
    BY <2>1, <2>3, <2>4
  <2> HIDE DEF g
  <2> QED
    BY <2>1, <2>2, <2>5 DEF ScannerShape
<1>2. ASSUME ~\E w \in Reader : Receive(w) PROVE ver' = ver
  BY <1>2, ScannerFrame DEF Scanner, Skip, Drain, DrainFails, Add, AddBegin, AddEnd, AddMustWait, Submit,
    NothingToSubmit, ChunkAdded, QueueFile, AllReceived, FlushEnds, StopWorkers, ScanReturns, ReceiveFatal,
    ProgressFails, Fail, Goto, scannerVars
<1> QED
  BY <1>1, <1>2

\* Every ref stays at the place of its chunk.
LEMMA RefsStep ==
  ASSUME ReadersShape, PipeShape, ScannerShape, HeldRight, Owned, FreshFiles, RefsInv, ScannerInv,
         awaiting \in [File -> Nat], [Next]_vars
  PROVE  RefsInv' /\ awaiting' \in [File -> Nat]
<1>0. (\A f \in File : FileRight(f)) /\ VersionsRight /\ WaitersRight
  BY RefsParts
<1>p. (\A f \in File : FileRight(f)') /\ VersionsRight' /\ WaitersRight' => RefsInv'
  BY DEF RefsInv, RefsInOrder, FileRight, RefsRight, AwaitedIn, VersionsRight, WaitersRight
<1>1. CASE UNCHANGED pipeVars
  <2>1. VersionsRight'
    BY <1>0, VersionFrame DEF VersionsRight
  <2>2. WaitersRight' /\ awaiting' \in [File -> Nat]
    BY <1>0, <1>1 DEF WaitersRight, pipeVars, scanVars
  <2>3. ASSUME NEW f \in File PROVE FileRight(f)'
    <3>1. UNCHANGED <<refs, waiters, awaiting>>
      BY <1>1 DEF pipeVars, scanVars
    <3>2. FileRight(f)
      BY <1>0
    <3>3. CASE ver'[f] = ver[f]
      BY <3>1, <3>2, <3>3 DEF FileRight
    <3>4. CASE refs[f] = <<>> /\ ver'[f] \in DOMAIN Content[f]
      <4>1. Content[f][ver'[f]] \in Seq(Hash)
        BY <3>4, ContentOf
      <4>2. RefsRight(f, <<>>, waiters, Content[f][ver'[f]])
        BY <4>1, LenProperties, EmptySeq DEF RefsRight
      <4> QED
        BY <3>1, <3>2, <3>4, <4>2 DEF FileRight
    <3> QED
      BY <3>3, <3>4, VersionFrame
  <2> QED
    BY <1>p, <2>1, <2>2, <2>3
<1>2. ASSUME ver' = ver, UNCHANGED <<refs, waiters, awaiting>> PROVE RefsInv' /\ awaiting' \in [File -> Nat]
  <2>1. (\A f \in File : FileRight(f)') /\ VersionsRight' /\ WaitersRight'
    BY <1>0, <1>2 DEF FileRight, VersionsRight, WaitersRight
  <2> QED
    BY <1>2, <1>p, <2>1
<1>3. ASSUME ver' = ver, results # <<>>, Head(results).ok, Fill(Head(results).batch)
      PROVE  RefsInv' /\ awaiting' \in [File -> Nat]
  <2> DEFINE done == Head(results).batch
  <2>1. done \in SUBSET Hash /\ Fill(done)
    BY <1>3, ResultHead
  <2> HIDE DEF done
  <2>2. ASSUME NEW f \in File PROVE FileRight(f)' /\ awaiting'[f] \in Nat
    BY <1>0, <1>3, <2>1, FileFilled DEF FileRight
  <2>3. VersionsRight'
    BY <1>0, <1>3 DEF VersionsRight
  <2>4. WaitersRight'
    <3>1. \A h \in Hash : waiters'[h] \subseteq waiters[h]
      BY <2>1 DEF Fill
    <3>2. \A f \in File : DOMAIN refs'[f] = DOMAIN refs[f]
      BY <2>1, FillRefs
    <3> QED
      BY <1>0, <3>1, <3>2 DEF WaitersRight
  <2>5. awaiting' \in [File -> Nat]
    BY <2>1, <2>2 DEF Fill
  <2> QED
    BY <1>p, <2>2, <2>3, <2>4, <2>5
<1>4. ASSUME ver' = ver, Adding, pc \in {"drain", "reserve"}, AddKnown(file, Head(todo)) \/ Await(file, Head(todo))
      PROVE  RefsInv' /\ awaiting' \in [File -> Nat]
  <2> DEFINE c == Content[file][ver[file]]
             n == Len(refs[file])
             h == Head(todo)
             r == IF AddKnown(file, h) THEN h ELSE NoRef
  <2>1. file \in File /\ h \in Hash /\ h # NoRef /\ n \in Nat /\ h = c[n + 1] /\ n + 1 <= Len(c)
    BY <1>4, NextRef
  <2>2. /\ refs[file] \in Seq(Hash \cup {NoRef}) /\ r \in {h, NoRef} /\ r \in Hash \cup {NoRef}
        /\ refs' = [refs EXCEPT ![file] = Append(refs[file], r)]
        /\ r = h => waiters' = waiters /\ awaiting' = awaiting
        /\ r = NoRef => /\ waiters' = [waiters EXCEPT ![h] = waiters[h] \cup {<<file, n + 1>>}]
                        /\ awaiting' = [awaiting EXCEPT ![file] = awaiting[file] + 1]
    BY <1>4, <2>1, RefsOf DEF AddKnown, Await
  <2> HIDE DEF c, n, h, r
  <2>n. n = Len(refs[file]) /\ c = Content[file][ver[file]]
    BY DEF n, c
  <2>3. /\ refs'[file] = Append(refs[file], r) /\ \A f \in File \ {file} : refs'[f] = refs[f]
    BY <2>1, <2>2 DEF PipeShape
  <2>w. \A x \in Hash : \A y :
          y \in waiters'[x] <=> y \in waiters[x] \/ (r = NoRef /\ x = h /\ y = <<file, n + 1>>)
    <3>1. CASE r = h
      BY <2>1, <2>2, <3>1
    <3>2. CASE r = NoRef
      <4>1. \A x \in Hash : waiters'[x] = IF x = h THEN waiters[h] \cup {<<file, n + 1>>} ELSE waiters[x]
        BY <2>1, <2>2, <3>2 DEF PipeShape
      <4> QED
        BY <3>2, <4>1
    <3> QED
      BY <2>2, <3>1, <3>2
  <2>x. \A x \in Hash, f \in File, i \in Nat :
          <<f, i>> \in waiters'[x] <=> <<f, i>> \in waiters[x] \/ (r = NoRef /\ x = h /\ f = file /\ i = n + 1)
    BY <2>1, <2>w
  <2>4. \A x \in Hash : <<file, n + 1>> \notin waiters[x]
    <3>1. n + 1 \notin DOMAIN refs[file]
      BY <2>1, <2>n, RefsOf
    <3> QED
      BY <1>0, <3>1 DEF WaitersRight
  <2>5. RefsRight(file, refs[file], waiters, c) /\ awaiting[file] = Cardinality(AwaitedIn(refs[file]))
    BY <1>0, <2>1, <2>n DEF FileRight
  <2>6. /\ RefsRight(file, refs'[file], waiters', c)
        /\ r = NoRef => Cardinality(AwaitedIn(refs'[file])) = Cardinality(AwaitedIn(refs[file])) + 1
        /\ r = h => Cardinality(AwaitedIn(refs'[file])) = Cardinality(AwaitedIn(refs[file]))
    <3>1. WaiterAdded(file, Len(refs[file]) + 1, waiters, waiters', h, r)
      BY <2>1, <2>4, <2>x, <2>n DEF WaiterAdded
    <3>2. h = c[Len(refs[file]) + 1] /\ Len(refs[file]) + 1 <= Len(c)
      BY <2>1, <2>n
    <3>3. /\ RefsRight(file, Append(refs[file], r), waiters', c)
          /\ r = NoRef => Cardinality(AwaitedIn(Append(refs[file], r))) = Cardinality(AwaitedIn(refs[file])) + 1
          /\ r = h => Cardinality(AwaitedIn(Append(refs[file], r))) = Cardinality(AwaitedIn(refs[file]))
      BY <2>1, <2>2, <2>5, <3>1, <3>2, RefAdded
    <3> QED
      BY <2>3, <3>3
  <2>7. awaiting'[file] = Cardinality(AwaitedIn(refs'[file])) /\ awaiting' \in [File -> Nat]
        /\ \A f \in File \ {file} : awaiting'[f] = awaiting[f]
    BY <2>1, <2>2, <2>5, <2>6
  <2>8. ASSUME NEW f \in File PROVE FileRight(f)'
    <3>1. CASE f # file
      <4>1. \A i \in DOMAIN refs[f], x \in Hash : <<f, i>> \in waiters'[x] <=> <<f, i>> \in waiters[x]
        BY <2>x, <3>1, RefsOf
      <4>2. FileRight(f)
        BY <1>0
      <4> QED
        BY <1>4, <2>3, <2>7, <3>1, <4>1, <4>2 DEF FileRight, RefsRight
    <3>2. CASE f = file
      BY <1>4, <2>6, <2>7, <2>n, <3>2 DEF FileRight
    <3> QED
      BY <3>1, <3>2
  <2>9. VersionsRight'
    BY <1>0, <1>4 DEF VersionsRight
  <2>10. WaitersRight'
    <3>a. DOMAIN refs[file] = 1..n /\ DOMAIN Append(refs[file], r) = 1..(n + 1)
      BY <2>2, <2>n
    <3>b. DOMAIN refs[file] \subseteq DOMAIN refs'[file] /\ n + 1 \in DOMAIN refs'[file]
      BY <2>1, <2>3, <3>a
    <3>1. \A f \in File : DOMAIN refs[f] \subseteq DOMAIN refs'[f]
      BY <2>3, <3>b
    <3>2. n + 1 \in DOMAIN refs'[file]
      BY <3>b
    <3> QED
      BY <1>0, <2>1, <2>w, <3>1, <3>2 DEF WaitersRight
  <2> QED
    BY <1>p, <2>7, <2>8, <2>9, <2>10
<1> QED
  BY <1>1, <1>2, <1>3, <1>4, RefsFrame, VersionFrame

-----------------------------------------------------------------------------
(* The scanner.                                                            *)

\* How many refs the file has for the chunks that are not to do any more.
Added == IF pc = "next" \/ (pc = "submit" /\ after = "next") THEN Len(refs[file]) - 1 ELSE Len(refs[file])
\* The chunks td follow the first n of the content c.
Follows(td, n, c) == n >= 0 /\ n + Len(td) = Len(c) /\ \A i \in DOMAIN td : td[i] = c[n + i]
Progress ==
  /\ Adding => /\ outcome[file] = "queued" /\ file \in ToSet(Jobs)
               /\ Follows(todo, Added, Content[file][ver[file]])
               /\ pc # "queue" <=> todo # <<>>
  /\ ~Adding => todo = <<>>
Reserving == pc = "reserve" \/ (pc = "submit" /\ after = "reserve")
NewOnes   == Reserving => IsNew(Head(todo))
ReadWhole == (pc \in {"submit", "flush"} /\ ~Adding) \/ returned = "manifest" => AllRead
Returns ==
  /\ pc = "flush" => after = "flush"
  /\ returned = "nothing" <=> pc \notin {"stop", "wait", "ended"}
Whole ==
  \A f \in File :
    /\ outcome[f] \in {"pending", "entry"} => Len(refs[f]) = Len(Content[f][ver[f]])
    /\ outcome[f] = "entry" => awaiting[f] = 0
AccountedFor ==
  returned # "error" =>
    \A f \in ToSet(Jobs) : f \in Ahead \cup AtReaders \/ (Adding /\ f = file)
                            \/ outcome[f] \in {"pending", "entry", "skipped"}
AllEntered ==
  returned = "manifest" => InFlight = {} /\ \A f \in ToSet(Jobs) : outcome[f] \in {"entry", "skipped"}

\* The scanner's invariant, in these parts.
LEMMA ScannerParts ==
  ScannerInv <=> Progress /\ NewOnes /\ ReadWhole /\ Returns /\ Whole /\ AccountedFor /\ AllEntered
BY DEF ScannerInv, Progress, Added, Follows, Reserving, NewOnes, ReadWhole, Returns, Whole, AccountedFor, AllEntered

\* Only the scanner's goroutine changes the refs.
LEMMA StepFrame ==
  ASSUME [Next]_vars
  PROVE  Scanner \/ (\E w \in Reader : ReceiveFatal(w)) \/ ProgressFails \/ UNCHANGED <<scannerVars, scanVars>>
BY DEF Next, vars, pipeVars, Readers, Workers, Ended, WorkerStep, TakeBatch, Check, AcquireSlot, SlotRefused, Upload,
  Publish, Discard, WorkerReturns, RequestFails, scanVars

\* A batch is filled in, or it has failed.
LEMMA ApplyFrame ==
  ASSUME PipeShape, Apply
  PROVE  \/ /\ Head(results).ok /\ Head(results).batch \in SUBSET Hash /\ Fill(Head(results).batch)
            /\ known' = known \cup Head(results).batch
            /\ \A f \in File : DOMAIN refs'[f] = DOMAIN refs[f] /\ Len(refs'[f]) = Len(refs[f])
         \/ ~Head(results).ok /\ UNCHANGED <<refs, waiters, awaiting, used, known>>
<1>1. results # <<>>
  BY DEF Apply
<1>2. Head(results).batch \in SUBSET Hash
  BY <1>1, ResultHead
<1>3. CASE Head(results).ok
  <2>1. Fill(Head(results).batch) /\ known' = known \cup Head(results).batch
    BY <1>3 DEF Apply
  <2>2. \A f \in File : DOMAIN refs'[f] = DOMAIN refs[f] /\ Len(refs'[f]) = Len(refs[f])
    BY <1>2, <2>1, FillRefs
  <2> QED
    BY <1>2, <1>3, <2>1, <2>2
<1>4. CASE ~Head(results).ok
  BY <1>4 DEF Apply
<1> QED
  BY <1>3, <1>4

\* The chunks of a file are added one after the other.
LEMMA ProgressStep ==
  ASSUME ReadersShape, PipeShape, ScannerShape, HeldRight, Owned, FreshFiles, Progress, [Next]_vars
  PROVE  Progress'
<1> DEFINE c == Content[file][ver[file]]
<1>0. file \in File /\ Len(refs[file]) \in Nat /\ refs[file] \in Seq(Hash \cup {NoRef}) /\ todo \in Seq(Hash)
  BY RefsOf DEF ScannerShape
<1>1. ASSUME NEW w \in Reader, Receive(w) PROVE Progress'
  <2> DEFINE g == reader[w].file
             data == Content[g][reader[w].ver]
             td == reader[w].chunks
  <2>1. /\ g \in File /\ g \in AtReaders /\ g \in ToSet(Jobs) /\ td \in Seq(Hash)
    BY <1>1, Delivered DEF Receive, ReadersShape, ReaderType
  <2>2. refs[g] = <<>> /\ outcome[g] = "queued"
    BY <2>1 DEF FreshFiles
  <2>3. Len(td) = Len(data) /\ \A i \in DOMAIN td : td[i] = data[i]
    BY <1>1 DEF Receive, HeldRight, HoldsRight
  <2>4. /\ file' = g /\ todo' = td /\ ver'[g] = reader[w].ver /\ refs' = refs /\ outcome' = outcome
        /\ pc' = IF td = <<>> THEN "queue" ELSE "drain"
    BY <1>1, <2>1 DEF Receive, pipeVars, scanVars, ScannerShape
  <2>5. Added' = 0
    BY <2>2, <2>4, EmptySeq DEF Added
  <2> HIDE DEF g, data, td
  <2>d. data = Content[g][reader[w].ver]
    BY DEF data
  <2>6. Len(td) \in Nat /\ \A i \in DOMAIN td : 0 + i = i
    BY <2>1, LenProperties
  <2>7. Follows(td, 0, data)
    BY <2>3, <2>6 DEF Follows
  <2>8. Follows(todo', Added', Content[file'][ver'[file']])
    BY <2>4, <2>5, <2>7, <2>d
  <2>9. Adding' /\ (pc' # "queue" <=> todo' # <<>>)
    BY <2>4 DEF Adding
  <2> QED
    BY <2>1, <2>2, <2>4, <2>8, <2>9 DEF Progress
<1>2. ASSUME UNCHANGED <<file, todo, ver, outcome>>, Len(refs'[file]) \in Nat,
             Adding' <=> Adding, Adding => (pc' = "queue" <=> pc = "queue") /\ Added' = Added
      PROVE  Progress'
  BY <1>2 DEF Progress
<1>3. CASE Fail
  BY <1>3 DEF Fail, Progress, Adding
<1>4. ASSUME Apply, Goto(pc) PROVE Progress'
  <2>1. Len(refs'[file]) = Len(refs[file])
    BY <1>0, <1>4, ApplyFrame
  <2> QED
    BY <1>0, <1>2, <1>4, <2>1 DEF Goto, Adding, Added
<1>5. ASSUME NEW r \in Hash \cup {NoRef}, refs'[file] = Append(refs[file], r), UNCHANGED <<file, todo, ver, outcome>>,
             pc \in {"drain", "reserve"}, pc' = "next" \/ (pc' = "submit" /\ after' = "next")
      PROVE  Progress'
  <2>1. Len(refs'[file]) = Len(refs[file]) + 1
    BY <1>0, <1>5, AppendProperties
  <2>2. Added' = Len(refs'[file]) - 1 /\ Added = Len(refs[file])
    BY <1>5 DEF Added
  <2>3. Added' = Added /\ Len(refs'[file]) \in Nat
    BY <1>0, <2>1, <2>2
  <2>4. Adding /\ Adding' /\ pc # "queue" /\ pc' # "queue"
    BY <1>5 DEF Adding
  <2> QED
    BY <1>2, <1>5, <2>3, <2>4
<1>6. CASE Add \/ AddEnd
  <2>1. pc \in {"drain", "reserve"} /\ Adding
    BY <1>6 DEF Add, AddEnd, Adding
  <2>2. Head(todo) \in Hash
    BY <1>0, <2>1, HeadTailProperties DEF Progress
  <2>3. \E r \in Hash \cup {NoRef} : refs'[file] = Append(refs[file], r)
    BY <1>0, <1>6, <2>2 DEF Add, AddEnd, AddKnown, AddInFlight, AddNew, Await, PipeShape
  <2>4. /\ UNCHANGED <<file, todo, ver, outcome>> /\ (pc' = "next" \/ (pc' = "submit" /\ after' = "next"))
    BY <1>6 DEF Add, AddEnd, Goto
  <2> QED
    BY <1>5, <2>1, <2>3, <2>4
<1>7. CASE AddBegin \/ AddMustWait
  <2>1. UNCHANGED <<file, todo, ver, outcome, refs>>
    BY <1>7 DEF AddBegin, AddMustWait, Goto, pipeVars, scanVars
  <2>2. pc \in {"drain", "reserve"} /\ (pc' = "reserve" \/ (pc' = "submit" /\ after' = "reserve"))
    BY <1>7 DEF AddBegin, AddMustWait, Goto
  <2>3. Adding /\ Adding' /\ pc # "queue" /\ pc' # "queue" /\ Added' = Added
    BY <2>1, <2>2 DEF Adding, Added
  <2> QED
    BY <1>0, <1>2, <2>1, <2>3
<1>8. CASE Submit \/ NothingToSubmit
  <2>1. UNCHANGED <<file, todo, ver, outcome, refs, after>> /\ pc = "submit" /\ pc' = after
    BY <1>8 DEF Submit, NothingToSubmit, Enqueue, Goto, pipeVars, scanVars
  <2>2. (Adding' <=> Adding) /\ pc' # "queue" /\ Added' = Added
    BY <2>1 DEF Adding, Added, ScannerShape
  <2> QED
    BY <1>0, <1>2, <2>1, <2>2
<1>9. CASE ChunkAdded
  <2>1. /\ pc = "next" /\ todo' = Tail(todo) /\ pc' = IF Len(todo) = 1 THEN "queue" ELSE "drain"
        /\ UNCHANGED <<file, ver, outcome, refs>>
    BY <1>9 DEF ChunkAdded, pipeVars, scanVars
  <2>2. Adding /\ Adding' /\ todo # <<>>
    BY <2>1 DEF Adding, Progress
  <2>3. /\ Len(todo) \in Nat \ {0} /\ todo' \in Seq(Hash) /\ Len(todo') = Len(todo) - 1
        /\ DOMAIN todo' = 1..(Len(todo) - 1) /\ DOMAIN todo = 1..Len(todo) /\ \A i \in DOMAIN todo' : todo'[i] = todo[i + 1]
    BY <1>0, <2>1, <2>2, HeadTailProperties, EmptySeq, LenProperties
  <2>4. Added = Len(refs[file]) - 1 /\ Added' = Len(refs[file])
    BY <2>1 DEF Added
  <2>5. Follows(todo, Added, c)
    BY <2>2 DEF Progress
  <2>6. Follows(todo', Added', c)
    <3> DEFINE n == Len(refs[file])
               m == Len(todo)
    <3>1. n \in Nat /\ m \in Nat \ {0} /\ n - 1 >= 0 /\ n - 1 + m = Len(c) /\ \A i \in 1..m : todo[i] = c[n - 1 + i]
      BY <1>0, <2>3, <2>4, <2>5 DEF Follows
    <3> HIDE DEF n, m, c
    <3>2. n >= 0 /\ n + (m - 1) = Len(c)
      BY <3>1
    <3>3. \A i \in 1..(m - 1) : i + 1 \in 1..m /\ n - 1 + (i + 1) = n + i
      BY <3>1
    <3>4. \A i \in 1..(m - 1) : todo[i + 1] = c[n + i]
      BY <3>1, <3>3
    <3> QED
      BY <2>3, <2>4, <3>2, <3>4 DEF Follows, n, m
  <2>7. pc' # "queue" <=> todo' # <<>>
    <3>1. todo' = <<>> <=> Len(todo') = 0
      BY <2>3, EmptySeq
    <3> QED
      BY <2>1, <2>3, <3>1
  <2> QED
    BY <2>1, <2>2, <2>6, <2>7 DEF Progress
<1>10. CASE QueueFile \/ AllReceived \/ FlushEnds \/ StopWorkers \/ ScanReturns
  <2>1. ~Adding' /\ todo' = todo
    BY <1>10 DEF QueueFile, AllReceived, FlushEnds, StopWorkers, ScanReturns, Goto, Adding
  <2>2. todo = <<>>
    BY <1>10 DEF QueueFile, AllReceived, FlushEnds, StopWorkers, ScanReturns, Adding, Progress
  <2> QED
    BY <2>1, <2>2 DEF Progress
<1>11. ASSUME NEW w \in Reader, Skip(w) \/ ReceiveFatal(w) PROVE Progress'
  BY <1>11 DEF Skip, ReceiveFatal, Progress, Adding
<1>12. CASE UNCHANGED <<scannerVars, scanVars>>
  BY <1>12 DEF Progress, Adding, Added, scannerVars, scanVars
<1> QED
  BY <1>1, <1>3, <1>4, <1>6, <1>7, <1>8, <1>9, <1>10, <1>11, <1>12, StepFrame
  DEF Scanner, Drain, DrainFails, ProgressFails

\* A chunk that needs a batch is not under way, nor does it become known
\* while the scanner waits for room.
LEMMA NewOnesStep ==
  ASSUME PipeShape, ScannerShape, Placed, NewOnes, [Next]_vars
  PROVE  NewOnes'
<1>1. ASSUME Apply, Goto(pc) PROVE NewOnes'
  <2>1. UNCHANGED <<pc, after, todo>> /\ (Reserving' <=> Reserving)
    BY <1>1 DEF Goto, Reserving
  <2>2. CASE Head(results).ok
    <3> DEFINE done == Head(results).batch
    <3>1. InFlight' = InFlight \ done /\ known' = known \cup done
      BY <1>1, <2>2, ApplyFrame, InFlightFill
    <3>2. done \subseteq InFlight
      <4>1. results # <<>>
        BY <1>1 DEF Apply
      <4>2. done = Batches[1] /\ 1 \in DOMAIN Batches
        BY <4>1, ResultHead DEF Batches
      <4>3. done \subseteq InResults
        BY <4>2 DEF InResults, ToSet
      <4> QED
        BY <4>3 DEF Placed
    <3> HIDE DEF done
    <3> QED
      BY <2>1, <3>1, <3>2 DEF NewOnes, IsNew
  <2>3. CASE ~Head(results).ok
    BY <1>1, <2>1, <2>3, ApplyFrame DEF NewOnes, IsNew, InFlight
  <2> QED
    BY <2>2, <2>3
<1>2. CASE AddBegin
  BY <1>2 DEF AddBegin, Goto, NewOnes, Reserving, IsNew, InFlight, pipeVars, scanVars
<1>3. CASE AddMustWait \/ NothingToSubmit
  BY <1>3 DEF AddMustWait, NothingToSubmit, Goto, NewOnes, Reserving, IsNew, InFlight, pipeVars, scanVars
<1>4. CASE Submit
  BY <1>4 DEF Submit, Enqueue, Goto, NewOnes, Reserving, IsNew, InFlight
<1>5. CASE UNCHANGED <<scannerVars, scanVars>>
  BY <1>5 DEF NewOnes, Reserving, IsNew, InFlight, scannerVars, scanVars
<1>6. ASSUME pc' \notin {"reserve", "submit"} \/ (pc' = "submit" /\ after' # "reserve") PROVE NewOnes'
  BY <1>6 DEF NewOnes, Reserving
<1>7. CASE Fail \/ Add \/ AddEnd \/ ChunkAdded \/ QueueFile \/ AllReceived \/ FlushEnds \/ StopWorkers \/ ScanReturns
  BY <1>6, <1>7 DEF Fail, Add, AddEnd, ChunkAdded, QueueFile, AllReceived, FlushEnds, StopWorkers, ScanReturns, Goto
<1>8. ASSUME NEW w \in Reader, Receive(w) \/ Skip(w) \/ ReceiveFatal(w) PROVE NewOnes'
  BY <1>6, <1>8 DEF Receive, Skip, ReceiveFatal
<1> QED
  BY <1>1, <1>2, <1>3, <1>4, <1>5, <1>7, <1>8, StepFrame DEF Scanner, Drain, DrainFails, ProgressFails

\* Readers that are done stay done.
LEMMA AllReadStays == ASSUME ReadersShape, AllRead, [Next]_vars PROVE AllRead'
<1>1. \A w \in Reader : reader[w].phase = "done"
  BY DEF AllRead
<1>2. \A w \in Reader : ~TakeJob(w, FirstVersions) /\ ~ReadStep(w) /\ ~ReadBreaks(w) /\ ~Deliver(w)
  BY <1>1 DEF TakeJob, ReadStep, ReadChunk, ReadEnds, ReadChanged, ReaderReturns, ReadBreaks, Deliver
<1>3. reader' = reader
  BY <1>2, ReaderFrame DEF Modify
<1> QED
  BY <1>1, <1>3 DEF AllRead

\* All readers are done when the last batch is waited for.
LEMMA ReadWholeStep ==
  ASSUME ReadersShape, ScannerShape, ReadWhole, Returns, [Next]_vars
  PROVE  ReadWhole' /\ Returns'
<1>1. AllRead => AllRead'
  BY AllReadStays
<1>2. CASE Fail
  BY <1>2 DEF Fail, Returns, ReadWhole, Adding
<1>3. CASE Goto(pc) \/ UNCHANGED scannerVars
  BY <1>1, <1>3 DEF Goto, scannerVars, Returns, ReadWhole, Adding
<1>4. CASE Add \/ AddBegin \/ AddEnd \/ AddMustWait \/ ChunkAdded
  BY <1>4 DEF Add, AddBegin, AddEnd, AddMustWait, ChunkAdded, Goto, Returns, ReadWhole, Adding
<1>5. CASE Submit \/ NothingToSubmit
  BY <1>1, <1>5 DEF Submit, NothingToSubmit, Goto, Returns, ReadWhole, Adding, ScannerShape
<1>6. CASE QueueFile \/ StopWorkers \/ ScanReturns
  BY <1>1, <1>6 DEF QueueFile, StopWorkers, ScanReturns, Goto, Returns, ReadWhole, Adding
<1>7. CASE AllReceived \/ FlushEnds
  BY <1>1, <1>7 DEF AllReceived, FlushEnds, Returns, ReadWhole, Adding
<1>8. ASSUME NEW w \in Reader, Receive(w) \/ Skip(w) \/ ReceiveFatal(w) PROVE ReadWhole' /\ Returns'
  BY <1>8 DEF Receive, Skip, ReceiveFatal, Returns, ReadWhole, Adding
<1> QED
  BY <1>2, <1>3, <1>4, <1>5, <1>6, <1>7, <1>8, ScannerFrame DEF Scanner, Drain, DrainFails, ProgressFails

\* Nothing is awaited where the count is zero.
LEMMA NoneAwaited ==
  ASSUME PipeShape, NEW f \in File, FileRight(f)
  PROVE  awaiting[f] = 0 <=> AwaitedIn(refs[f]) = {}
<1>1. IsFiniteSet(AwaitedIn(refs[f]))
  BY RefsOf, AwaitedFinite
<1>2. Cardinality(AwaitedIn(refs[f])) = 0 <=> AwaitedIn(refs[f]) = {}
  BY <1>1, FS_EmptySet
<1> QED
  BY <1>2 DEF FileRight

\* The refs of a file that is queued are all of it, and filled in for good
\* when none is awaited.
LEMMA WholeStep ==
  ASSUME ReadersShape, PipeShape, ScannerShape, HeldRight, Owned, FreshFiles, RefsInv, ScannerInv,
         awaiting \in [File -> Nat], [Next]_vars
  PROVE  Whole'
<1>0. Progress /\ Whole /\ RefsInv' /\ (\A f \in File : FileRight(f)) /\ PipeShape'
  BY ScannerParts, RefsStep, RefsParts, PipeShapeStep
<1>1. ASSUME NEW f \in File, outcome[f] \in {"pending", "entry"}
      PROVE  ver'[f] = ver[f] /\ Len(refs'[f]) = Len(refs[f])
  <2>1. ver'[f] = ver[f]
    <3>1. ASSUME NEW w \in Reader, Receive(w) PROVE reader[w].file # f
      BY <1>1, <3>1, Delivered DEF Receive, FreshFiles
    <3>2. ASSUME NEW w \in Reader, Receive(w) PROVE ver'[f] = ver[f]
      BY <3>1, <3>2 DEF Receive, ScannerShape
    <3>3. ASSUME ~\E w \in Reader : Receive(w) PROVE ver' = ver
      BY <3>3, ScannerFrame DEF Scanner, Skip, Drain, DrainFails, Add, AddBegin, AddEnd, AddMustWait, Submit,
        NothingToSubmit, ChunkAdded, QueueFile, AllReceived, FlushEnds, StopWorkers, ScanReturns, ReceiveFatal,
        ProgressFails, Fail, Goto, scannerVars
    <3> QED
      BY <3>2, <3>3
  <2>2. CASE results # <<>> /\ Fill(Head(results).batch)
    <3>1. Head(results).batch \in SUBSET Hash
      BY <2>2, ResultHead
    <3>2. Len(refs'[f]) = Len(refs[f])
      BY <2>2, <3>1, FillRefs
    <3> QED
      BY <2>1, <3>2
  <2>3. CASE Adding /\ (AddKnown(file, Head(todo)) \/ Await(file, Head(todo)))
    <3>1. f # file
      BY <1>0, <1>1, <2>3 DEF Progress
    <3>2. refs'[f] = refs[f]
      BY <2>3, <3>1 DEF AddKnown, Await, PipeShape
    <3> QED
      BY <2>1, <3>2
  <2> QED
    BY <2>1, <2>2, <2>3, RefsFrame
<1>2. ASSUME NEW f \in File, outcome[f] \in {"pending", "entry"}, awaiting[f] = 0 PROVE awaiting'[f] = 0
  <2>1. CASE results # <<>> /\ Fill(Head(results).batch)
    <3>1. Head(results).batch \in SUBSET Hash
      BY <2>1, ResultHead
    <3>2. AwaitedIn(refs[f]) = {}
      BY <1>0, <1>2, NoneAwaited
    <3>3. AwaitedIn(refs'[f]) = {}
      <4>1. /\ DOMAIN refs'[f] = DOMAIN refs[f]
            /\ \A i \in DOMAIN refs[f] :
                 \/ \E h \in Head(results).batch : <<f, i>> \in waiters[h] /\ refs'[f][i] = h
                 \/ refs'[f][i] = refs[f][i]
        BY <2>1, <3>1, FillRefs
      <4> QED
        BY <3>1, <3>2, <4>1, PipelineOK DEF AwaitedIn
    <3>4. awaiting'[f] = Cardinality({})
      BY <1>0, <3>3 DEF RefsInv, RefsInOrder, AwaitedIn
    <3> QED
      BY <3>4, FS_EmptySet
  <2>2. CASE Adding /\ (AddKnown(file, Head(todo)) \/ Await(file, Head(todo)))
    <3>1. f # file
      BY <1>0, <1>2, <2>2 DEF Progress
    <3> QED
      BY <1>2, <2>2, <3>1 DEF AddKnown, Await
  <2> QED
    BY <1>2, <2>1, <2>2, RefsFrame
<1>3. CASE QueueFile
  <2>1. pc = "queue" /\ Adding /\ refs' = refs /\ ver' = ver /\ awaiting' = awaiting
    BY <1>3 DEF QueueFile, Adding, pipeVars, scanVars
  <2>2. todo = <<>> /\ Follows(todo, Added, Content[file][ver[file]]) /\ Added = Len(refs[file]) /\ file \in File
    BY <1>0, <2>1 DEF Progress, Added, ScannerShape
  <2>3. Len(refs[file]) = Len(Content[file][ver[file]])
    BY <2>2, EmptySeq, RefsOf DEF Follows
  <2>4. outcome'[file] = "entry" => awaiting[file] = 0
    BY <1>3, <2>2 DEF QueueFile, ScannerShape
  <2>5. \A f \in File \ {file} : outcome'[f] = outcome[f]
    BY <1>3 DEF QueueFile, ScannerShape
  <2> QED
    BY <1>0, <2>1, <2>3, <2>4, <2>5 DEF Whole
<1>4. CASE ~QueueFile
  <2>1. ASSUME NEW f \in File, outcome'[f] \in {"pending", "entry"}
        PROVE  /\ outcome[f] \in {"pending", "entry"}
               /\ outcome'[f] = "entry" => outcome[f] = "entry" \/ awaiting[f] = 0
    BY <1>4, <2>1, OutcomeFrame
  <2> QED
    BY <1>0, <1>1, <1>2, <2>1 DEF Whole
<1> QED
  BY <1>3, <1>4

\* A file leaves the readers with the scanner.
LEMMA LeftReaders ==
  ASSUME ReadersShape, [Next]_vars, NEW f \in Ahead \cup AtReaders, f \notin (Ahead \cup AtReaders)'
  PROVE  \E w \in Reader : reader[w].file = f /\ (Receive(w) \/ Skip(w) \/ ReceiveFatal(w))
<1>1. ASSUME NEW w \in Reader, TakeJob(w, FirstVersions) PROVE FALSE
  <2>1. /\ Ahead' = Ahead \ {Jobs[next]} /\ reader'[w].file = Jobs[next] /\ reader'[w].phase = "read"
        /\ reader[w].phase = "idle" /\ \A v \in Reader \ {w} : reader'[v] = reader[v]
    BY <1>1, JobTaken
  <2>2. Jobs[next] \in AtReaders'
    BY <2>1 DEF AtReaders, Busy
  <2>3. AtReaders \subseteq AtReaders'
    BY <2>1 DEF AtReaders, Busy
  <2> QED
    BY <2>1, <2>2, <2>3
<1>2. ASSUME next' = next, \A v \in Reader : Busy(v) /\ reader[v].file = f => Busy(v)' /\ reader'[v].file = f
      PROVE  FALSE
  BY <1>2 DEF Ahead, AtReaders
<1>3. ASSUME NEW w \in Reader, ReadStep(w) \/ ReadBreaks(w) PROVE FALSE
  <2>1. next' = next /\ \A v \in Reader \ {w} : reader'[v] = reader[v]
    BY <1>3 DEF ReadStep, ReadChunk, ReadEnds, ReadChanged, ReaderReturns, ReadBreaks, ReadersShape
  <2>2. \/ reader[w].phase = "idle"
        \/ reader'[w].phase \in {"read", "ready", "failed"} /\ reader'[w].file = reader[w].file
    <3>1. CASE ReadChunk(w)
      BY <3>1 DEF ReadChunk, ReadersShape, ReaderType
    <3>2. CASE ReadEnds(w) \/ ReadBreaks(w)
      BY <3>2 DEF ReadEnds, ReadBreaks, ReadersShape, ReaderType
    <3>3. CASE ReadChanged(w)
      BY <3>3 DEF ReadChanged, ReadersShape, ReaderType
    <3>4. CASE ReaderReturns(w)
      BY <3>4 DEF ReaderReturns
    <3> QED
      BY <1>3, <3>1, <3>2, <3>3, <3>4 DEF ReadStep
  <2> QED
    BY <1>2, <2>1, <2>2 DEF Busy
<1>4. ASSUME NEW w \in Reader, Deliver(w) PROVE f = reader[w].file
  <2>1. next' = next /\ \A v \in Reader \ {w} : reader'[v] = reader[v]
    BY <1>4 DEF Deliver, ReadersShape
  <2> QED
    BY <1>2, <2>1 DEF Busy
<1>5. CASE UNCHANGED <<next, reader>>
  BY <1>2, <1>5 DEF Busy
<1>6. \/ \E w \in Reader : TakeJob(w, FirstVersions) \/ ReadStep(w) \/ ReadBreaks(w)
      \/ \E w \in Reader : Deliver(w) /\ (Receive(w) \/ Skip(w) \/ ReceiveFatal(w))
      \/ UNCHANGED <<next, reader>>
  BY DEF FirstVersions, Next, vars, readerVars, Scanner, Receive, Skip, Drain, DrainFails, Add, AddBegin, AddEnd,
    AddMustWait, Submit, NothingToSubmit, ChunkAdded, QueueFile, AllReceived, FlushEnds, StopWorkers,
    ScanReturns, ReceiveFatal, ProgressFails, Readers, Workers, Ended, Fail, Goto, Modify
<1> QED
  BY <1>1, <1>3, <1>4, <1>5, <1>6

\* The file received last is queued, unless the scan fails.
LEMMA AddingEnds ==
  ASSUME ScannerShape, [Next]_vars, Adding, ~Adding'
  PROVE  QueueFile \/ returned' = "error"
<1>1. \A w \in Reader : ~Receive(w) /\ ~Skip(w) /\ ~ReceiveFatal(w)
  BY DEF Adding, Receive, Skip, ReceiveFatal
<1>2. ~Add /\ ~AddBegin /\ ~AddEnd /\ ~AddMustWait /\ ~ChunkAdded
  BY DEF Adding, Add, AddBegin, AddEnd, AddMustWait, ChunkAdded, Goto
<1>3. ~Submit /\ ~NothingToSubmit
  BY DEF Adding, Submit, NothingToSubmit, Goto, ScannerShape
<1>4. ~AllReceived /\ ~FlushEnds /\ ~StopWorkers /\ ~ScanReturns
  BY DEF Adding, AllReceived, FlushEnds, StopWorkers, ScanReturns
<1>5. ~Goto(pc) /\ ~UNCHANGED scannerVars
  BY DEF Adding, Goto, scannerVars
<1>6. Fail => returned' = "error"
  BY DEF Fail
<1> QED
  BY <1>1, <1>2, <1>3, <1>4, <1>5, <1>6, ScannerFrame DEF Scanner, Drain, DrainFails, ProgressFails

\* No job is lost on its way through the scan.
LEMMA AccountedStep ==
  ASSUME ReadersShape, ScannerShape, Returns, AccountedFor, [Next]_vars
  PROVE  AccountedFor'
<1> SUFFICES ASSUME returned' # "error", NEW f \in ToSet(Jobs)
             PROVE  \/ f \in (Ahead \cup AtReaders)' \/ (Adding' /\ f = file')
                    \/ outcome'[f] \in {"pending", "entry", "skipped"}
  BY DEF AccountedFor
<1>0. f \in File
  BY JobsOf DEF ToSet
<1>1. returned # "error"
  BY ScannerFrame DEF Returns, Scanner, Receive, Skip, Drain, DrainFails, Add, AddBegin, AddEnd, AddMustWait, Submit,
    NothingToSubmit, ChunkAdded, QueueFile, AllReceived, FlushEnds, StopWorkers, ScanReturns, ReceiveFatal,
    ProgressFails, Fail, Goto, scannerVars
<1>2. CASE f \in Ahead \cup AtReaders
  <2>1. CASE f \in (Ahead \cup AtReaders)'
    BY <2>1
  <2>2. CASE f \notin (Ahead \cup AtReaders)'
    <3>1. PICK w \in Reader : reader[w].file = f /\ (Receive(w) \/ Skip(w) \/ ReceiveFatal(w))
      BY <1>2, <2>2, LeftReaders
    <3>2. Receive(w) => Adding' /\ f = file'
      BY <3>1 DEF Receive, Adding
    <3>3. Skip(w) => outcome'[f] = "skipped"
      BY <1>0, <3>1 DEF Skip, ScannerShape
    <3>4. ~ReceiveFatal(w)
      BY DEF ReceiveFatal
    <3> QED
      BY <3>1, <3>2, <3>3, <3>4
  <2> QED
    BY <2>1, <2>2
<1>3. CASE Adding /\ f = file
  <2>1. CASE Adding'
    <3>1. \A w \in Reader : ~Receive(w)
      BY <1>3 DEF Receive, Adding
    <3> QED
      BY <1>3, <2>1, <3>1, AddingFrame
  <2>2. CASE ~Adding'
    <3>1. QueueFile
      BY <1>3, <2>2, AddingEnds
    <3> QED
      BY <1>0, <1>3, <3>1 DEF QueueFile, ScannerShape
  <2> QED
    BY <2>1, <2>2
<1>4. CASE outcome[f] \in {"pending", "entry", "skipped"}
  BY <1>0, <1>4, OutcomeFrame
<1> QED
  BY <1>1, <1>2, <1>3, <1>4 DEF AccountedFor

\* Once all readers are done, nothing is ahead of the scanner.
LEMMA NothingAhead ==
  ASSUME ReadersShape, HeldRight, AllRead
  PROVE  Ahead \cup AtReaders = {}
<1>1. PICK w \in Reader : TRUE
  BY ReadersOK
<1>2. next > Len(Jobs)
  BY <1>1 DEF AllRead, HeldRight, HoldsRight
<1>3. Ahead = {}
  BY <1>2, JobsOf DEF Ahead, ReadersShape
<1>4. AtReaders = {}
  BY DEF AtReaders, Busy, AllRead
<1> QED
  BY <1>3, <1>4

\* The manifest is returned when every file is entered or skipped.
LEMMA EnteredStep ==
  ASSUME ReadersShape, PipeShape, ScannerShape, HeldRight, RefsInv, ScannerInv, [Next]_vars
  PROVE  AllEntered'
<1>0. ReadWhole /\ Returns /\ AccountedFor /\ AllEntered /\ (\A f \in File : FileRight(f)) /\ VersionsRight
  BY ScannerParts, RefsParts
<1>1. CASE FlushEnds
  <2>1. /\ pc = "flush" /\ InFlight = {} /\ waiters' = waiters /\ ~Adding
    BY <1>1 DEF FlushEnds, pipeVars, scanVars, Adding
  <2>2. Ahead \cup AtReaders = {} /\ returned = "nothing"
    BY <1>0, <2>1, NothingAhead DEF ReadWhole, Returns
  <2>3. ASSUME NEW f \in ToSet(Jobs) PROVE outcome'[f] \in {"entry", "skipped"}
    <3>1. f \in File
      BY JobsOf DEF ToSet
    <3>2. outcome[f] \in {"pending", "entry", "skipped"}
      BY <1>0, <2>1, <2>2 DEF AccountedFor
    <3>3. awaiting[f] = 0
      <4> DEFINE c == Content[f][ver[f]]
      <4>1. RefsRight(f, refs[f], waiters, c)
        BY <1>0, <3>1 DEF FileRight
      <4>2. c \in Seq(Hash)
        BY <1>0, <3>1, ContentOf DEF VersionsRight
      <4>3. ASSUME NEW i \in DOMAIN refs[f] PROVE refs[f][i] # NoRef
        <5>1. i \in 1..Len(c)
          <6> HIDE DEF c
          <6> QED
            BY <3>1, <4>1, <4>2, RefsOf, LenProperties DEF RefsRight
        <5>2. c[i] \in Hash
          BY <4>2, <5>1, ElementOfSeq
        <5>3. waiters[c[i]] = {}
          BY <2>1, <5>2 DEF InFlight
        <5> QED
          BY <4>1, <5>2, <5>3 DEF RefsRight
      <4> QED
        BY <1>0, <3>1, <4>3, NoneAwaited DEF AwaitedIn
    <3> QED
      BY <1>1, <3>1, <3>2, <3>3 DEF FlushEnds
  <2>4. InFlight' = {}
    BY <2>1 DEF InFlight
  <2> QED
    BY <2>3, <2>4 DEF AllEntered
<1>2. CASE ~FlushEnds /\ returned' = "manifest"
  <2>1. returned = "manifest"
    BY <1>2, ScannerFrame DEF Scanner, Receive, Skip, Drain, DrainFails, Add, AddBegin, AddEnd, AddMustWait, Submit,
      NothingToSubmit, ChunkAdded, QueueFile, AllReceived, StopWorkers, ScanReturns, ReceiveFatal,
      ProgressFails, Fail, Goto, scannerVars
  <2>2. pc \in {"stop", "wait", "ended"}
    BY <1>0, <2>1 DEF Returns
  <2>3. UNCHANGED <<waiters, outcome>>
    BY <2>2, StepFrame DEF Scanner, Receive, Skip, Drain, DrainFails, Add, AddBegin, AddEnd, AddMustWait, Submit,
      NothingToSubmit, ChunkAdded, QueueFile, AllReceived, FlushEnds, StopWorkers, ScanReturns, ReceiveFatal,
      ProgressFails, Goto, Stop, pipeVars, scanVars, scannerVars
  <2> QED
    BY <1>0, <2>1, <2>3 DEF AllEntered, InFlight
<1> QED
  BY <1>1, <1>2 DEF AllEntered

-----------------------------------------------------------------------------
(* The invariant.                                                          *)

\* It holds before the first step, ...
LEMMA InitiallyRight == ASSUME Init PROVE ScanInv
<1>1. ReadersShape /\ PipeShape /\ ScannerShape /\ Counts
  <2>1. Jobs[1] \in File
    BY JobsOf
  <2>2. disk = [f \in File |-> 1] /\ \A f \in File : 1 \in DOMAIN Content[f]
    BY ContentOf DEF Init, InitReaders
  <2>3. reader \in [Reader -> ReaderType]
    BY <2>1, EmptySeq DEF Init, InitReaders, IdleReader, ReaderType
  <2>4. ReadersShape
    BY <2>2, <2>3 DEF ReadersShape, Init, InitReaders
  <2>5. worker \in [Worker -> WorkerType]
    BY DEF Init, InitPipeline, IdleWorker, WorkerType
  <2>6. Len(<<>>) = 0 /\ QueueSize \in Nat \ {0} /\ UploadSlots \in Nat \ {0} /\ Stored \subseteq Hash
    BY PipelineOK
  <2>7. PipeShape
    <3>1. /\ refs = [f \in File |-> <<>>] /\ waiters = [h \in Hash |-> {}] /\ batch = {}
          /\ queue = <<>> /\ results = <<>> /\ failure = FALSE /\ stopped = FALSE
          /\ known \in SUBSET Stored /\ server = Stored
      BY DEF Init, InitPipeline
    <3>2. /\ <<>> \in Seq(Hash \cup {NoRef}) /\ <<>> \in Seq(SUBSET Hash)
          /\ <<>> \in Seq([batch : SUBSET Hash, ok : BOOLEAN])
      BY EmptySeq
    <3>3. /\ refs \in [File -> Seq(Hash \cup {NoRef})] /\ waiters \in [Hash -> SUBSET (File \X Nat)]
      BY <3>1, <3>2
    <3>4. Len(queue) <= QueueSize /\ Len(results) <= QueueSize
      BY <2>6, <3>1
    <3> QED
      BY <2>5, <2>6, <3>1, <3>2, <3>3, <3>4 DEF PipeShape
  <2>8. ScannerShape
    BY <2>1, <2>2, EmptySeq DEF ScannerShape, Init
  <2>9. Counts
    BY <2>6 DEF Counts, Init, InitReaders, InitPipeline
  <2> QED
    BY <2>4, <2>7, <2>8, <2>9
<1>2. \A w \in Reader : reader[w].phase = "idle" /\ reader[w].chunks = <<>>
  BY DEF Init, InitReaders, IdleReader
<1>3. ~Adding /\ todo = <<>> /\ pc = "receive" /\ returned = "nothing" /\ after = "flush"
  BY DEF Init, Adding
<1>4. WindowInv
  <2>1. BytesRead = HeldBy(reader) /\ HeldBy(reader) = 0
    BY <1>2, EmptySeq, HeldNat DEF BytesRead, HeldBy
  <2>2. Bytes(todo) = 0
    BY <1>3, EmptySeq, BytesNat
  <2>3. window = 0 /\ 0 <= ReadLimit
    BY ReadersOK DEF Init, InitReaders
  <2> QED
    BY <2>1, <2>2, <2>3 DEF WindowInv
<1>5. AtReaders = {} /\ \A f \in ToSet(Jobs) : f \in Ahead
  <2>1. AtReaders = {}
    BY <1>2 DEF AtReaders, Busy
  <2>2. next = 1 /\ \A j \in DOMAIN Jobs : j >= 1
    BY JobsOf DEF Init, InitReaders
  <2> QED
    BY <2>1, <2>2 DEF Ahead, ToSet
<1>6. /\ \A f \in File : outcome[f] = "queued" /\ refs[f] = <<>> /\ awaiting[f] = 0
      /\ \A h \in Hash : waiters[h] = {}
  BY DEF Init, InitPipeline
<1>7. HeldRight /\ Owned /\ FreshFiles
  <2>1. HeldRight /\ Owned
    BY <1>2 DEF HeldRight, HoldsRight, Owned, Busy
  <2>2. \A f \in Ahead : f \in File
    BY JobsOf DEF Ahead
  <2> QED
    BY <1>3, <1>5, <1>6, <2>1, <2>2 DEF FreshFiles
<1>8. BatchesInv
  <2>1. InFlight = {} /\ batch = {} /\ used = 0 /\ slots = 0
    BY <1>6 DEF InFlight, Init, InitPipeline
  <2>2. /\ queue = <<>> /\ results = <<>> /\ \A k \in Worker : worker[k].batch = {} /\ worker[k].phase = "idle"
    BY DEF Init, InitPipeline, IdleWorker
  <2>3. DOMAIN queue = {} /\ DOMAIN results = {} /\ DOMAIN Batches = {}
    BY <2>2, EmptySeq DEF Batches
  <2>4. InQueue = {} /\ InResults = {} /\ AtWorkers = {}
    BY <2>2, <2>3 DEF InQueue, InResults, AtWorkers, ToSet
  <2>5. Placed /\ NoneEmpty
    BY <2>1, <2>2, <2>3, <2>4 DEF Placed, NoneEmpty, Disjoint, WorkerBatches
  <2>6. Fitting
    BY <2>1, SumOf, PipelineOK DEF Fitting
  <2>7. {k \in Worker : worker[k].phase = "upload"} = {}
    BY <2>2
  <2>8. SlotsTaken
    BY <2>1, <2>7, FS_EmptySet DEF SlotsTaken
  <2> QED
    BY <2>5, <2>6, <2>8, BatchesParts
<1>9. StoredInv
  <2>1. known \subseteq server /\ results = <<>> /\ \A k \in Worker : worker[k].phase = "idle"
    BY DEF Init, InitPipeline, IdleWorker
  <2> QED
    BY <1>6, <2>1 DEF StoredInv
<1>10. RefsInv
  <2>1. ASSUME NEW f \in File PROVE FileRight(f) /\ ver[f] \in DOMAIN Content[f]
    <3>1. ver[f] = 1
      BY DEF Init, InitReaders
    <3>2. 1 \in DOMAIN Content[f] /\ Content[f][1] \in Seq(Hash)
      BY ContentOf
    <3>3. RefsRight(f, <<>>, waiters, Content[f][1])
      BY <3>2, LenProperties DEF RefsRight
    <3>4. AwaitedIn(<<>>) = {}
      BY DEF AwaitedIn
    <3> QED
      BY <1>6, <3>1, <3>2, <3>3, <3>4, FS_EmptySet DEF FileRight
  <2> QED
    BY <1>6, <2>1, RefsParts DEF VersionsRight, WaitersRight
<1>11. ScannerInv
  BY <1>3, <1>5, <1>6, ScannerParts
  DEF Progress, NewOnes, Reserving, ReadWhole, Returns, Whole, AccountedFor, AllEntered
<1> QED
  BY <1>1, <1>4, <1>7, <1>8, <1>9, <1>10, <1>11, TypeParts, ReadersParts DEF ScanInv

\* ... every step keeps it, ...
LEMMA StepKeepsRight == ASSUME ScanInv, [Next]_vars PROVE ScanInv'
<1>1. /\ ReadersShape /\ PipeShape /\ ScannerShape /\ Counts /\ awaiting \in [File -> Nat] /\ slots \in 0..UploadSlots
      /\ HeldRight /\ Owned /\ FreshFiles /\ Placed /\ NoneEmpty /\ Fitting /\ SlotsTaken
      /\ WindowInv /\ ReadersInv /\ BatchesInv /\ StoredInv /\ RefsInv /\ ScannerInv
  BY TypeParts, ReadersParts, BatchesParts DEF ScanInv, Counts
<1>2. Progress /\ NewOnes /\ ReadWhole /\ Returns /\ Whole /\ AccountedFor /\ AllEntered
  BY <1>1, ScannerParts
<1>3. ReadersShape' /\ PipeShape' /\ ScannerShape'
  BY <1>1, ReadersShapeStep, PipeShapeStep, ScannerShapeStep
<1>4. WindowInv' /\ window' \in Nat
  BY <1>1, WindowStep
<1>5. HeldRight' /\ Owned' /\ FreshFiles'
  BY <1>1, HeldRightStep, OwnedStep, FreshStep
<1>6. Placed' /\ NoneEmpty'
  BY <1>1, PlacedStep
<1>7. Fitting' /\ used' \in Nat
  BY <1>1, FittingStep
<1>8. SlotsTaken' /\ slots' \in 0..UploadSlots
  BY <1>1, SlotsStep
<1>9. StoredInv'
  BY <1>1, StoredStep
<1>10. RefsInv' /\ awaiting' \in [File -> Nat]
  BY <1>1, RefsStep
<1>11. Progress' /\ NewOnes' /\ ReadWhole' /\ Returns' /\ Whole' /\ AccountedFor' /\ AllEntered'
  BY <1>1, <1>2, ProgressStep, NewOnesStep, ReadWholeStep, WholeStep, AccountedStep, EnteredStep
<1>12. Counts'
  BY <1>4, <1>7, <1>8, <1>10 DEF Counts
<1>13. TypeOK'
  BY <1>3, <1>12 DEF TypeOK, ReadersShape, PipeShape, ScannerShape, Counts
<1>14. ReadersInv'
  BY <1>5 DEF ReadersInv, HeldRight, HoldsRight, Owned, FreshFiles
<1>15. BatchesInv'
  BY <1>6, <1>7, <1>8 DEF BatchesInv, PipelineWindowExact, Placed, NoneEmpty, Fitting, SlotsTaken, WorkerBatches
<1>16. ScannerInv'
  BY <1>11 DEF ScannerInv, Progress, Added, Follows, Reserving, NewOnes, ReadWhole, Returns, Whole, AccountedFor, AllEntered
<1> QED
  BY <1>4, <1>9, <1>10, <1>13, <1>14, <1>15, <1>16 DEF ScanInv

\* ... and so it always holds.
LEMMA AlwaysRight == Spec => []ScanInv
<1>1. Init => ScanInv
  BY InitiallyRight
<1>2. ScanInv /\ [Next]_vars => ScanInv'
  BY StepKeepsRight
<1> QED
  BY <1>1, <1>2, PTL DEF Spec

-----------------------------------------------------------------------------
(* The theorems.                                                           *)

\* The bytes the reader goroutines and the uploader have acquired are those
\* of the chunks they hold: no path of an error, of a changed file or of a
\* result loses or returns bytes twice, and neither window exceeds its limit,
\* but for one chunk larger than the limit that is read alone.
THEOREM WindowsStayExact == Spec => []WindowsExact
<1>1. ASSUME ScanInv PROVE WindowsExact
  <2>1. TypeOK /\ PipelineWindowExact /\ WindowInv
    BY <1>1 DEF ScanInv, BatchesInv
  <2>2. ASSUME OneHeld PROVE \E h \in Hash : window = Size[h]
    <3>1. PICK h \in Hash : BytesRead + Bytes(todo) = Size[h]
      BY <2>1, <2>2, TypeParts, HeldAlone
    <3> QED
      BY <2>1, <3>1 DEF WindowInv
  <2>3. ReadWindowExact
    BY <2>1, <2>2 DEF WindowInv, ReadWindowExact
  <2> QED
    BY <2>1, <2>3 DEF WindowsExact
<1> QED
  BY <1>1, AlwaysRight, PTL

\* Results come back in any order, and a chunk may be awaited by many places
\* of many files: each ref is still filled with the chunk of its place, and
\* pendingByEntry counts those that are not filled yet.
THEOREM RefsStayInOrder == Spec => []RefsInOrder
<1>1. ScanInv => RefsInOrder
  BY DEF ScanInv, RefsInv
<1> QED
  BY <1>1, AlwaysRight, PTL

\* An entry of the manifest has all chunks of the version its metadata
\* describes, though the file is read while others write it, and the server
\* has stored them.
THEOREM EntriesStayComplete == Spec => []EntriesComplete
<1>1. ASSUME ScanInv, NEW f \in File, outcome[f] = "entry"
      PROVE  refs[f] = Content[f][ver[f]] /\ ToSet(refs[f]) \subseteq server
  <2> DEFINE c == Content[f][ver[f]]
  <2>0. PipeShape /\ FileRight(f) /\ VersionsRight /\ Whole /\ StoredInv
    BY <1>1, TypeParts, RefsParts, ScannerParts DEF ScanInv
  <2>1. c \in Seq(Hash) /\ refs[f] \in Seq(Hash \cup {NoRef})
    BY <2>0, ContentOf, RefsOf DEF VersionsRight
  <2>2. Len(refs[f]) = Len(c) /\ awaiting[f] = 0
    BY <1>1, <2>0 DEF Whole
  <2>3. \A i \in DOMAIN refs[f] : refs[f][i] # NoRef
    BY <2>0, <2>2, NoneAwaited DEF AwaitedIn
  <2>4. \A i \in DOMAIN refs[f] : refs[f][i] = c[i]
    BY <2>0, <2>3 DEF FileRight, RefsRight
  <2>5. \A i \in 1..Len(c) : refs[f][i] = c[i]
    BY <2>1, <2>2, <2>4, LenProperties
  <2>6. refs[f] = c
    <3> HIDE DEF c
    <3> QED
      BY <2>1, <2>2, <2>5, SeqEqual
  <2>7. ToSet(refs[f]) \subseteq server
    BY <2>0, <2>3 DEF StoredInv, ToSet
  <2> QED
    BY <2>6, <2>7
<1>2. ScanInv => EntriesComplete
  BY <1>1 DEF EntriesComplete
<1> QED
  BY <1>2, AlwaysRight, PTL

\* A scan that returns a manifest has entered or skipped every file it was
\* given, has left no reader running, and holds no byte of either window.
THEOREM ManifestsAccount == Spec => []ManifestAccountsForAll
<1>1. ASSUME ScanInv, returned = "manifest"
      PROVE  /\ \A f \in ToSet(Jobs) : outcome[f] \in {"entry", "skipped"}
             /\ AllRead /\ window = 0 /\ used = 0 /\ queue = <<>>
  <2>0. /\ ReadersShape /\ PipeShape /\ ScannerShape /\ HeldRight /\ Placed /\ NoneEmpty /\ Fitting
        /\ WindowInv /\ Progress /\ ReadWhole /\ Returns /\ AllEntered
    BY <1>1, TypeParts, ReadersParts, BatchesParts, ScannerParts DEF ScanInv
  <2>1. AllRead /\ InFlight = {} /\ \A f \in ToSet(Jobs) : outcome[f] \in {"entry", "skipped"}
    BY <1>1, <2>0 DEF ReadWhole, AllEntered
  <2>2. todo = <<>>
    BY <1>1, <2>0 DEF Progress, Returns, Adding
  <2>3. window = 0
    <3>1. \A w \in Reader : reader[w].chunks = <<>>
      BY <2>0, <2>1 DEF AllRead, HeldRight, HoldsRight
    <3>2. BytesRead = HeldBy(reader) /\ HeldBy(reader) = 0
      BY <3>1, EmptySeq, HeldNat DEF BytesRead, HeldBy
    <3>3. Bytes(todo) = 0
      BY <2>2, EmptySeq, BytesNat
    <3> QED
      BY <2>0, <3>2, <3>3 DEF WindowInv
  <2>4. used = 0
    BY <2>0, <2>1, SumOf DEF Fitting
  <2>5. queue = <<>>
    <3>1. queue \in Seq(SUBSET Hash) /\ InQueue = {}
      BY <2>0, <2>1 DEF Placed, PipeShape
    <3>2. \A i \in DOMAIN queue : queue[i] # {} /\ queue[i] \in ToSet(queue)
      BY <2>0 DEF NoneEmpty, ToSet
    <3>3. \A i \in DOMAIN queue : FALSE
      BY <3>1, <3>2 DEF InQueue
    <3>4. Len(queue) \in Nat /\ DOMAIN queue = 1..Len(queue)
      BY <3>1, LenProperties
    <3>5. Len(queue) \notin 1..Len(queue)
      BY <3>3, <3>4
    <3>6. Len(queue) = 0
      BY <3>4, <3>5
    <3> QED
      BY <3>1, <3>6, EmptySeq
  <2> QED
    BY <2>1, <2>3, <2>4, <2>5
<1>2. ScanInv => ManifestAccountsForAll
  BY <1>1 DEF ManifestAccountsForAll
<1> QED
  BY <1>2, AlwaysRight, PTL

=============================================================================
