SPECIFICATION FairSpec
CONSTANTS
  p1 = p1
  p2 = p2
  p3 = p3
  Pools <- MCPools
  Tasks <- MCTasks
  FailingTasks <- MCFailing
  None = None
  Lists = 3
  UptoList <- MCUptoList
  WriteMayThrow = TRUE
  MemoryMayThrow = TRUE
  LowRam = FALSE
  HasMedia = TRUE
  Entries = 5
  Passes = 2
  Ranges = 3
  MayThrow = {"lists", "blobs", "bloom", "json"}
INVARIANTS
  OrphansOfOneLoop
  SortNeverBehindMedia
  WholeOnSuccess
PROPERTIES
  WritesInOrder
  ImportReturns
CHECK_DEADLOCK FALSE
