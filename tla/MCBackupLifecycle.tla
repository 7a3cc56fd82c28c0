-------------------------- MODULE MCBackupLifecycle -------------------------
(* Small instances of BackupLifecycle: local and agent runs over one or two *)
(* chunks, and as many segment names as can be alive together.             *)
EXTENDS BackupLifecycle, TLC

CONSTANTS l1, l2, a1, h1, h2, s1, s2, s3, m1, m2

\* Chunks, and segment files, are interchangeable; so are maintenance
\* processes.
Symmetry == Permutations(Hash) \cup Permutations(Seg) \cup Permutations(Maint)
=============================================================================
