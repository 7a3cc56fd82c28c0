------------------------------ MODULE ScanData ------------------------------
(* The files and chunks FileReaders and ChunkPipeline have in common.       *)
EXTENDS Integers, Sequences, FiniteSets, SequencesExt, Functions

CONSTANTS
  File, Hash,
  Size          \* bytes of a chunk

ASSUME SizesOK == IsFiniteSet(Hash) /\ Size \in [Hash -> Nat \ {0}]

\* The bytes of a file's chunks, and of a set of chunks.
Bytes(s) == SumFunction([i \in DOMAIN s |-> Size[s[i]]])
Sum(S)   == SumFunctionOnSet(Size, S)
=============================================================================
