SPECIFICATION FairSpec
CONSTANTS
  N = 7
  Upto <- MCUpto
  Workers = {w1, w2, w3}
  LowRam = FALSE
  MaxBytes = 6
  FailingBanks = {1, 4}
  WriteMayThrow = TRUE
  SubmitMayThrow = TRUE
INVARIANTS
  WindowBounded
  EachBankInOnePlace
  NoThreadLeftBehind
PROPERTIES
  WritesInOrder
  WriteTermsEnds
CHECK_DEADLOCK FALSE
