SPECIFICATION Spec
CONSTANTS
  p1 = p1
  p2 = p2
  p3 = p3
  Pools <- MCPools
  Tasks <- MCTasks
  FailingTasks <- MCFailing
  None = None
  Lists = 3
  UptoList <- MCUptoList
  WriteMayThrow = FALSE
  MemoryMayThrow = FALSE
  LowRam = FALSE
  HasMedia = TRUE
  Entries = 5
  Passes = 2
  Ranges = 2
  MayThrow = {"blobs"}
INVARIANTS
  TasksReadLiveData
CHECK_DEADLOCK FALSE
