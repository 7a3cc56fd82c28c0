\* Two maintenance processes next to restores, deletions and an agent run.
SPECIFICATION Spec
CONSTANTS
  l1 = l1
  l2 = l2
  a1 = a1
  h1 = h1
  h2 = h2
  s1 = s1
  s2 = s2
  s3 = s3
  m1 = m1
  m2 = m2
  NoSeg = NoSeg
  Maint = {m1, m2}
  Run = {a1}
  Local = {}
  Hash = {h1}
  Seg = {s1, s2}
  FailsWhileServed = FALSE
  PublishesInWindow = FALSE
  ClientsDisconnect = TRUE
  Restores = TRUE
SYMMETRY Symmetry
INVARIANTS
  ActiveSnapshotsRestorable

  
