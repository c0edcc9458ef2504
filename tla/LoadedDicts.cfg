SPECIFICATION Spec
CONSTANTS
    Paths = {"a", "b", "c"}
    Kinds = {"term", "freq"}
    TitleOf <- TitlesApart
    Rows <- MCRows
    Orders <- MCOrders
    MaxLoaded = 3
    MaxImports <- MCImports
INVARIANTS
    FilesSharedAndCurrent
    RequestDecides
PROPERTIES
    OrderAsAsked
