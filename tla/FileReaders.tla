----------------------------- MODULE FileReaders ----------------------------
(***************************************************************************)
(* The parallel file readers of an agent's scan                            *)
(* (cmd/turbk-agent/file_read.go): a feeder hands the jobs to goroutines    *)
(* that read a whole file into memory, chunk by chunk, under a common byte  *)
(* window, and then hand the file to the scanner over an unbuffered         *)
(* channel.  A file that changes while it is read is read again.            *)
(*                                                                         *)
(* The metadata of a file is its version: a write that leaves size, mode,   *)
(* owner, mtime and inode alone is out of sight of the agent too.           *)
(***************************************************************************)
EXTENDS ScanData

CONSTANTS
  Content,       \* Content[f][v]: the chunks of version v of file f
  Jobs,          \* the files to read, in the order of the scan
  Reader,        \* reader goroutines
  ReadLimit,     \* file_read_pipeline_bytes
  MaxReadRetries \* defaultAgentChangedFileReadMaxRetries

ASSUME ReadersOK ==
  /\ ReadLimit \in Nat \ {0} /\ MaxReadRetries \in Nat
  /\ IsFiniteSet(Reader) /\ Reader # {}
  \* processParallelJobs has jobs, one for a file: a walk meets it once.
  /\ Jobs \in Seq(File) /\ Jobs # <<>> /\ IsInjective(Jobs)
  /\ Content \in [File -> Seq(Seq(Hash))] /\ \A f \in File : Content[f] # <<>>

VARIABLES
  disk,    \* disk[f]: the version of f on the disk
  next,    \* the job the feeder hands out next
  reader,  \* what each goroutine does
  window   \* bytes acquired from the window

readerVars == <<disk, next, reader, window>>

IdleReader == [phase |-> "idle", file |-> Jobs[1], ver |-> 1, chunks |-> <<>>, tries |-> 0]

InitReaders ==
  /\ disk = [f \in File |-> 1]
  /\ next = 1
  /\ reader = [w \in Reader |-> IdleReader]
  /\ window = 0

\* Somebody writes to the file.
Modify(f) ==
  /\ disk[f] < Len(Content[f])
  /\ disk' = [disk EXCEPT ![f] = @ + 1]
  /\ UNCHANGED <<next, reader, window>>

\* A job; the scan has recorded the metadata of the file before.
TakeJob(w, known) ==
  /\ reader[w].phase = "idle" /\ next <= Len(Jobs)
  /\ reader' = [reader EXCEPT ![w] = [IdleReader EXCEPT
                  !.phase = "read", !.file = Jobs[next], !.ver = known[Jobs[next]]]]
  /\ next' = next + 1
  /\ UNCHANGED <<disk, window>>

\* Mutated: what was read is not compared with what was recorded.
UnchangedIgnored(w) == reader[w].ver \in DOMAIN Content[reader[w].file]

\* regularFileSnapshotReader.Read, updateRegularFileReadMetadata.
Unchanged(w) == disk[reader[w].file] = reader[w].ver

\* Mutated: a chunk that does not fit is let in.
RoomAlways(n) == window + n >= 0

\* agentFileReadByteWindow.acquire: one chunk always fits into an empty window.
Room(n) == window = 0 \/ window + n <= ReadLimit

\* The next chunk, read from the version that is on the disk now.
ReadChunk(w) ==
  LET r == reader[w]  data == Content[r.file][disk[r.file]]  i == Len(r.chunks) + 1 IN
  /\ r.phase = "read" /\ Unchanged(w) /\ i <= Len(data)
  /\ Room(Size[data[i]])
  /\ window' = window + Size[data[i]]
  /\ reader' = [reader EXCEPT ![w].chunks = Append(@, data[i])]
  /\ UNCHANGED <<disk, next>>

\* The end of the file, still unchanged.
ReadEnds(w) ==
  LET r == reader[w] IN
  /\ r.phase = "read" /\ Unchanged(w) /\ Len(r.chunks) >= Len(Content[r.file][disk[r.file]])
  /\ reader' = [reader EXCEPT ![w].phase = "ready"]
  /\ UNCHANGED <<disk, next, window>>

\* The file has changed: what was read is dropped, and the file read again
\* under its new metadata, or reported as changed.
ReadChanged(w) ==
  LET r == reader[w] IN
  /\ r.phase = "read" /\ ~Unchanged(w)
  /\ window' = window - Bytes(r.chunks)
  /\ reader' = [reader EXCEPT ![w] =
       IF r.tries < MaxReadRetries
       THEN [r EXCEPT !.ver = disk[r.file], !.chunks = <<>>, !.tries = @ + 1]
       ELSE [r EXCEPT !.phase = "failed", !.chunks = <<>>]]
  /\ UNCHANGED <<disk, next>>

\* Mutated: its bytes are given back, but the result still holds its chunks.
ReadBreaksHolding(w) ==
  /\ reader[w].phase = "read"
  /\ window' = window - Bytes(reader[w].chunks)
  /\ reader' = [reader EXCEPT ![w].phase = "failed"]
  /\ UNCHANGED <<disk, next>>

\* An I/O error, or the file is gone: the scan will skip it.
ReadBreaks(w) ==
  /\ reader[w].phase = "read"
  /\ window' = window - Bytes(reader[w].chunks)
  /\ reader' = [reader EXCEPT ![w].phase = "failed", ![w].chunks = <<>>]
  /\ UNCHANGED <<disk, next>>

\* The scanner receives the file, whose bytes stay acquired, or the error,
\* and releases what that still holds.
Deliver(w) ==
  /\ reader[w].phase \in {"ready", "failed"}
  /\ reader' = [reader EXCEPT ![w] = IdleReader]
  /\ window' = IF reader[w].phase = "failed" THEN window - Bytes(reader[w].chunks) ELSE window
  /\ UNCHANGED <<disk, next>>

\* The feeder has closed jobCh.
ReaderReturns(w) ==
  /\ reader[w].phase = "idle" /\ next > Len(Jobs)
  /\ reader' = [reader EXCEPT ![w].phase = "done"]
  /\ UNCHANGED <<disk, next, window>>

ReadStep(w) == ReadChunk(w) \/ ReadEnds(w) \/ ReadChanged(w) \/ ReaderReturns(w)

Release(n) == window' = window - n

\* resultCh is closed.
AllRead == \A w \in Reader : reader[w].phase = "done"

BytesRead == SumFunctionOnSet([w \in Reader |-> Bytes(reader[w].chunks)], Reader)
=============================================================================
