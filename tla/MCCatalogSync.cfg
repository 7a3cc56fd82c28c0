\* Two chunks, two keys, one repair; crashes of server and agent.
SPECIFICATION Spec
CONSTANTS
  h1 = h1
  h2 = h2
  k1 = k1
  k2 = k2
  Hash = {h1, h2}
  Key = {k1, k2}
  MaxGen = 1
  MaxRepo = 2
  MaxRepair = 1
  Crashes = TRUE
SYMMETRY Symmetry
INVARIANTS
  CatalogInv
  ConfirmedBelowDrop
  TrustsThisRepository
  GivesUpOnlyWhileDropping
