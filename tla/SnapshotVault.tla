---------------------------- MODULE SnapshotVault ---------------------------
(***************************************************************************)
(* What the backup server promises about snapshots: a run publishes one    *)
(* snapshot at most, with the chunks its manifest names; while a snapshot  *)
(* is active exactly these chunks can be restored from it; a withdrawn     *)
(* snapshot never comes back.                                              *)
(***************************************************************************)
CONSTANTS Run, Hash

VARIABLE vault  \* vault[r]: the snapshot of run r

Absent    == [state |-> "none", chunks |-> {}]
Active(S) == [state |-> "active", chunks |-> S]
Withdrawn == [state |-> "deleted", chunks |-> {}]

Init == vault = [r \in Run |-> Absent]

\* A run publishes its snapshot.
Publish(r, S) ==
  /\ vault[r] = Absent
  /\ vault' = [vault EXCEPT ![r] = Active(S)]

\* A user deletes a snapshot, or retention expires several at once.
Withdraw(R) ==
  /\ \A r \in R : vault[r].state = "active"
  /\ vault' = [r \in Run |-> IF r \in R THEN Withdrawn ELSE vault[r]]

Next ==
  \/ \E r \in Run, S \in SUBSET Hash : Publish(r, S)
  \/ \E R \in SUBSET Run : Withdraw(R)

Spec == Init /\ [][Next]_vault
=============================================================================
