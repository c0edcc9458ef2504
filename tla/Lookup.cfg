CONSTANTS
    TextLen = 6
    PrefixLen = 2
    LongMin = 3
    LongMax = 5
    Slack = 2
    TextAt <- MCTextAt
    ReadingsAt <- MCReadingsAt
    PrefixTexts <- MCPrefixTexts
    PassesAt <- MCPassesAt
    Info <- MCInfo
    TermsAt <- MCTermsAt
    RowsAt <- MCRowsAt
    MetaAt <- MCMetaAt
    Tags <- MCTags
    Requests <- MCRequests
SPECIFICATION Spec
INVARIANTS
    EachTermAtItsBest
    ReachesKeys
    LessIsAnOrder
    ExtrasMoveNothing
CHECK_DEADLOCK FALSE
