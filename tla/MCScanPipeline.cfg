\* Whatever two readers hold of unfinished files leaves room for one more chunk.
SPECIFICATION Spec
CONSTANTS
  f1 = f1
  f2 = f2
  h1 = h1
  h2 = h2
  h3 = h3
  File = {f1, f2}
  Hash = {h1, h2, h3}
  Content <- MCContent
  Size <- MCSize
  Jobs <- MCJobs
  Reader = {1, 2}
  ReadLimit = 4
  MaxReadRetries = 1
  Worker = {1, 2}
  Stored = {h1}
  UploadSlots = 1
  QueueSize = 1
  BatchBytes = 2
  PipelineBytes = 3
  RequestsFail = TRUE
INVARIANTS
  WindowsExact
  RefsInOrder
  EntriesComplete
  ManifestAccountsForAll

  
