---------------------------- MODULE MCCatalogSync ---------------------------
(* A small instance of CatalogSync: chunks and keys are interchangeable.    *)
EXTENDS CatalogSync, TLC

CONSTANTS h1, h2, k1, k2

Symmetry == Permutations(Hash) \cup Permutations(Key)
=============================================================================
