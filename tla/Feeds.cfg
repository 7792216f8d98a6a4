SPECIFICATION Spec
CONSTANTS
    Entries <- MCEntries
    PathRank <- MCPathRank
    Matches <- OnceEach
    Facets <- OneFacet
    Slow = {2,3}
    Sorts = {"changed", "created", "path", "activity"}
    Filters = {"all", "month"}
    Limit = 1
    MaxWrites = 3
    MaxTime = 3
INVARIANTS TypeOK EachShownOnce ReadInOrder RenderedWhole CountsAddUp
CHECK_DEADLOCK FALSE
