----------------------------- MODULE ChunkStore -----------------------------
(***************************************************************************)
(* What the chunk store promises its callers: a batch of chunks is stored  *)
(* and indexed at once or not at all; what has been stored can be read     *)
(* until its segment is removed, which happens to segments the index no    *)
(* longer names; and no place is ever given out twice, a removed one       *)
(* included.  There are no crashes, failures or partial batches here.      *)
(***************************************************************************)
EXTENDS Integers

CONSTANTS Hash, SegId, RecordLen

VARIABLES
  given,  \* every ref a caller has been given
  kept,   \* those whose chunk can be read
  index   \* the refs new uploads are answered from

Ref           == [hash : Hash, seg : SegId, off : Nat]
Hashes(R)     == {r.hash : r \in R}
OnePerHash(R) == \A r1, r2 \in R : r1.hash = r2.hash => r1 = r2

\* In the order of the log, l lies behind all of r.
Behind(r, l) ==
  \/ r.seg < l.seg
  \/ r.seg = l.seg /\ r.off + RecordLen[r.hash] <= l.off

InLine(R) == \A r1, r2 \in R : r1 # r2 => Behind(r1, r2) \/ Behind(r2, r1)

Init == given = {} /\ kept = {} /\ index = {}

\* The refs R are given out: places of their own, behind all given out before.
Give(R) ==
  /\ R \in SUBSET Ref /\ InLine(R)
  /\ \A r \in given, l \in R : Behind(r, l)
  /\ given' = given \cup R
  /\ kept' = kept \cup R

\* An upload stores the chunks the index does not have.
Put(R) ==
  /\ Hashes(R) \cap Hashes(index) = {} /\ OnePerHash(R)
  /\ Give(R)
  /\ index' = index \cup R

\* A chunk is copied to the end of the log, and the index follows.
Rewrite(r) ==
  /\ r.hash \in Hashes(kept)
  /\ Give({r})
  /\ index' = {i \in index : i.hash # r.hash} \cup {r}

\* The index forgets chunks; their refs can still be read.
Forget(H) ==
  /\ index' = {i \in index : i.hash \notin H}
  /\ UNCHANGED <<given, kept>>

\* A segment the index no longer names is removed.
Remove(s) ==
  /\ \A i \in index : i.seg # s
  /\ kept' = {k \in kept : k.seg # s}
  /\ UNCHANGED <<given, index>>

\* (What a step gives out it finds in given'.)
Next ==
  \/ \E R \in SUBSET given' : Put(R)
  \/ \E r \in given' : Rewrite(r)
  \/ \E H \in SUBSET Hash : Forget(H)
  \/ \E s \in SegId : Remove(s)

Spec == Init /\ [][Next]_<<given, kept, index>>
=============================================================================
