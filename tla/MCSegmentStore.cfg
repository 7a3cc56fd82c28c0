\* Crashes, failing I/O and failing rotations, no torn write.
SPECIFICATION Spec
CONSTANTS
  h1 = h1
  h2 = h2
  Hash = {h1, h2}
  RecordLen <- MCRecordLen
  SegmentSize = 2
  DiskFills = FALSE
  MaxSegment = 3
  MaxFile = 0
INVARIANTS
  TypeOK
  IndexSound
  StoreInv
PROPERTIES
  SealedSegmentsFrozen
  SegmentIdsNeverReused
  DuplicatesNeverAppended
  BatchesAreAtomic
