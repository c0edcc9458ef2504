CONSTANTS
    Texts = {"ab", "ac", "long", "longer", "longest", "noun"}
    Glossaries = {"g", "h", "k"}
    Empty = "none"
    Size <- MCSize
    HashOf <- MCHashOf
    PrefixOf <- MCPrefixOf
    LongMin = 2
    Sources <- MCAllSources
    Width <- MCWidth
SPECIFICATION Spec
INVARIANTS
    EachGlossaryOnce
    QueryFindsExactly
    LongKeysCovered
CHECK_DEADLOCK FALSE
