\* Bucket 1 holds 48s (too small for 64), bucket 2 any sequence of 128s
\* (surplus 64, above CLOSE_ENOUGH) and 96s (surplus 32), up to 14 blocks.
CONSTANTS
    SIZE_BITS = 20
    HEAP_LO = 32
    MAX_HEAP = 448
    SEARCH_LIMIT = 10
    CLOSE_ENOUGH = 46
    FreeSizes = {48, 96, 128}
    ASizes = {64}
    MAX_FREE = 14
    LONG_LISTS = {1, 2}
SPECIFICATION Spec
VIEW View
\* The construction stops at MAX_FREE blocks.
CHECK_DEADLOCK FALSE
INVARIANT
    FindFitNoWorseThanSpec
