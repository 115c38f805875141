\* An arena of 48 bytes: mm_init's 16 bytes fit, its chunk of 48 does not.
CONSTANTS
    SIZE_BITS = 20
    HEAP_LO = 32
    MAX_HEAP = 48
    CHUNKSIZE = 48
    SEARCH_LIMIT = 10
    CLOSE_ENOUGH = 46
    JUNK <- MCJunk
    Requests <- MCRequests
    CallocRequests <- MCCallocRequests
SPECIFICATION Spec
INVARIANT
    MallocOutOfMemoryUnchanged
VIEW View
