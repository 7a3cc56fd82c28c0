\* One root or two, as the configuration changes.
SPECIFICATION Spec
CONSTANTS
  a = a
  b = b
  c = c
  ra = ra
  rb = rb
  File = {a, b}
  Root = {ra, rb}
  FilesOf <- MCFilesOf
  SizeOf <- WrittenTo
  MaxPackFile = 1
  PackTarget = 2
  RootSets <- AnyRoots
  Unreadable = {a}
  MaxRepair = 1
  MaxDrop = 2
INVARIANTS
  SnapshotIsOfTheRun
  
  CatalogSound
  RefusedForRootsOnly
  RepairsAnswerDrops
