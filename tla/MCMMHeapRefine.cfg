\* The heap read through its headers implements MMAlloc, and every sub-check
\* of mm_checkheap passes on every reachable heap.
CONSTANTS
    SIZE_BITS = 20
    HEAP_LO = 32
    MAX_HEAP = 112
    CHUNKSIZE = 48
    SEARCH_LIMIT = 10
    CLOSE_ENOUGH = 46
    JUNK <- MCJunk
    Requests <- MCRequests
    CallocRequests <- MCCallocRequests
SPECIFICATION Spec
INVARIANT
    DebugChecksPass
PROPERTY
    AllocatorRefinement
VIEW View
