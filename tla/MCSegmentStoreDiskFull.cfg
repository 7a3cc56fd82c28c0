\* The disk may fill in the middle of a record: what still holds.
SPECIFICATION Spec
CONSTANTS
  h1 = h1
  h2 = h2
  Hash = {h1, h2}
  RecordLen <- MCRecordLen
  SegmentSize = 2
  DiskFills = TRUE
  MaxSegment = 3
  MaxFile = 2
PROPERTIES
  ReadableStays
