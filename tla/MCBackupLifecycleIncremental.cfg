\* Two runs of the local job over two chunks: the second clones refs of the first.
SPECIFICATION Spec
CONSTANTS
  l1 = l1
  l2 = l2
  a1 = a1
  h1 = h1
  h2 = h2
  s1 = s1
  s2 = s2
  s3 = s3
  m1 = m1
  m2 = m2
  NoSeg = NoSeg
  Maint = {m1}
  Run = {l1, l2}
  Local = {l1, l2}
  Hash = {h1, h2}
  Seg = {s1, s2}
  FailsWhileServed = FALSE
  PublishesInWindow = FALSE
  ClientsDisconnect = FALSE
  Restores = FALSE
SYMMETRY Symmetry
INVARIANTS
  InFlightRefsReadable
