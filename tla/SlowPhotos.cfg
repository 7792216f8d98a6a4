SPECIFICATION Spec
CONSTANTS
    Entries <- MCEntries
    PathRank <- MCPathRank
    Matches <- OnceEach
    Facets <- NoFacets
    Slow = {1,2,3}
    Sorts = {"path"}
    Filters = {"all"}
    Limit = 1
    MaxWrites = 2
    MaxTime = 3
INVARIANT EveryEntryIsReached
CHECK_DEADLOCK FALSE
