--------------------------- MODULE MCSegmentStore ---------------------------
(* Small instances of SegmentStore.  The two chunks have different record  *)
(* lengths, so that one of them can force a rotation the other does not.   *)
EXTENDS SegmentStore, TLC

CONSTANTS h1, h2

MCRecordLen == h1 :> 1 @@ h2 :> 2
=============================================================================
