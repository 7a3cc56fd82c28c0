\* A local and an agent run, all maintenance modes, lost clients, crashes.
SPECIFICATION Spec
CONSTANTS
  l1 = l1
  l2 = l2
  a1 = a1
  h1 = h1
  h2 = h2
  s1 = s1
  s2 = s2
  s3 = s3
  m1 = m1
  m2 = m2
  NoSeg = NoSeg
  Maint = {m1}
  Run = {l1, a1}
  Local = {l1}
  Hash = {h1}
  Seg = {s1, s2, s3}
  FailsWhileServed = FALSE
  PublishesInWindow = FALSE
  ClientsDisconnect = TRUE
  Restores = FALSE
SYMMETRY Symmetry
INVARIANTS
  ActiveSnapshotsRestorable
  IndexResolves
  LifecycleInv

  
