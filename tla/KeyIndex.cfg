CONSTANTS
    Entries <- MCEntries
    Questions <- MCQuestions
    MinCapacity = 16
    HalfBits = 3
    Hashes <- MCHashes
    NumHashes = 2
    NumBits = 16
    WordBits = 2
    Threads = 3
    MinRange = 1
SPECIFICATION IndexFairSpec
INVARIANTS
    TableSound
    LookupRight
    SameBitsAsOneThread
PROPERTIES
    ProbesEnd
