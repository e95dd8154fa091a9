\* A query and the warm-up, two scopes, two changes of the store, with
\* stale-while-refresh switched on and off.
CONSTANTS
    Null = Null
    Threads = {query, warmer}
    Warmer = warmer
    Keys = {global, domain}
    WarmKey = global
    Indexer = indexer
    DataBound = 4
SPECIFICATION CacheFairSpec
INVARIANTS RemovedNotServed ServesCurrentIndex
PROPERTIES QueriesReturn
\* With the bound reached and every scope cached there is nothing left to do.
CHECK_DEADLOCK FALSE
