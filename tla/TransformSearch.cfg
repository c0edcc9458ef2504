SPECIFICATION FairSpec
CONSTANTS
  Packs <- MCPacks
  Lookups <- MCLookups
  MaxGrowth = 1
  MaxDepth = 3
  MaxResults = 6
  MaxWork = 26
  WorkBytes = 3
  OpsPerUnit = 4
INVARIANTS
  AsRecursion
  NothingLostSilently
PROPERTIES
  SearchEnds
CHECK_DEADLOCK FALSE
