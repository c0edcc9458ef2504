SPECIFICATION Spec
CONSTANTS
  Threads = {t1, t2}
  blobs = blobs
  table = table
  Files = {blobs, table}
  PageBytes = 2
  Budget = 3
  FileSize <- MCFileSize
  KindOf <- MCKindOf
  FailingKinds = {"entries", "index"}
  None = None
INVARIANTS
  BooksAgree
  HeldPagesStayCached
  OverBudgetBounded
PROPERTIES
  DropsOldestUnheld
