\* mm_init called again on an initialised heap.
CONSTANTS
    SIZE_BITS = 20
    HEAP_LO = 32
    MAX_HEAP = 112
    CHUNKSIZE = 48
    SEARCH_LIMIT = 10
    CLOSE_ENOUGH = 46
    JUNK <- MCJunk
    Requests <- MCRequests
    CallocRequests <- MCCallocRequests
SPECIFICATION ReInitSpec
PROPERTY
    MmInitIdempotent
VIEW View
