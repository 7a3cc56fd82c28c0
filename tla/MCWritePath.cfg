\* Limits that each refuse something: three bytes queued, two requests.
SPECIFICATION Spec
CONSTANTS
  r1 = r1
  r2 = r2
  r3 = r3
  a1 = a1
  a2 = a2
  h1 = h1
  h2 = h2
  Req = {r1, r2, r3}
  Agent = {a1, a2}
  Hash = {h1, h2}
  Direct = {h2}
  AgentOf <- MCAgentOf
  ChunksOf <- MCChunksOf
  Size <- MCSize
  MaxRequestsPerAgent = 2
  MaxBytesPerAgent = 3
  MaxBytesGlobal = 4
  MaxRequests = 2
  MaxBytes = 3
  CoalesceMaxBytes = 3
  SubBatchBytes = 2
INVARIANTS
  CountersExact
  AcceptedIsStored
  WritesExcludeCompact
PROPERTIES
  QueueIsTransparent
  EveryUploadEnds
