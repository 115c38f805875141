\* mm_checkheap on the heap a wrapped malloc(240) leaves, at an 8-bit size_t.
CONSTANTS
    SIZE_BITS = 8
    HEAP_LO = 32
    MAX_HEAP = 112
    CHUNKSIZE = 48
    SEARCH_LIMIT = 10
    CLOSE_ENOUGH = 46
    JUNK <- MCJunk
    Requests <- MCWrapRequests
    CallocRequests <- MCCallocRequests
SPECIFICATION Spec
INVARIANT
    CheckheapReportsFailure
VIEW View
