\* Up to 13 free blocks: bucket 1 holds 48s (too small for 64) and 64s,
\* bucket 2 holds 128s (fits 64 with a surplus above CLOSE_ENOUGH), and
\* at most one mini block.
CONSTANTS
    SIZE_BITS = 20
    HEAP_LO = 32
    MAX_HEAP = 448
    SEARCH_LIMIT = 10
    CLOSE_ENOUGH = 46
    FreeSizes = {16, 48, 64, 128}
    ASizes = {16, 64}
    MAX_FREE = 13
    LONG_LISTS = {1}
SPECIFICATION Spec
VIEW View
\* The construction stops at MAX_FREE blocks.
CHECK_DEADLOCK FALSE
INVARIANT
    FindFitNeverSkipsLargerBucket
