--------------------------- MODULE MCScanPipeline ---------------------------
(* Small instances of ScanPipeline: two files that share chunks, of which   *)
(* one changes, two readers and two workers.                              *)
EXTENDS ScanPipeline

CONSTANTS f1, f2, h1, h2, h3

MCContent == [f \in File |->
  IF f = f1 THEN << <<h1, h2>> >> ELSE << <<h2, h2>>, <<h3>> >>]
MCSize == [h \in Hash |-> IF h = h1 THEN 2 ELSE 1]
MCJobs == SetToSeq(File)
=============================================================================
